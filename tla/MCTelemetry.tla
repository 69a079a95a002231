---------------------------- MODULE MCTelemetry ----------------------------
(***************************************************************************)
(* Instances of Telemetry for TLC, and the comparison of SeqTrack's closed *)
(* form with the walk over the sorted numbers that the code makes.         *)
(***************************************************************************)
EXTENDS Telemetry

SX == INSTANCE SequencesExt

(* The loop of handleTelemetry over the sorted numbers ss: the watermark   *)
(* and the gaps <<afterSeq, seq>> it appends.                              *)
Walk(last, ss, replay) ==
  LET Step(s, acc) ==
        IF s <= acc.last
          THEN acc
          ELSE [last |-> s,
                gaps |-> IF ~ replay /\ acc.last # 0 /\ s > acc.last + 1
                           THEN acc.gaps \cup {<<acc.last, s>>}
                           ELSE acc.gaps]
  IN SX!FoldLeft(LAMBDA acc, s : Step(s, acc), [last |-> last, gaps |-> {}], ss)

GapNumbers(gaps) == UNION {g[1] + 1 .. g[2] - 1 : g \in gaps}

(* Every batch of numbers up to 6 against every watermark up to 6. *)
ASSUME SeqTrackIsTheWalk ==
  \A last \in 0 .. 6, S \in SUBSET (1 .. 6), replay \in BOOLEAN :
    LET w == Walk(last, SX!SetToSortSeq(S, <), replay)
    IN /\ w.last = NewMark(last, S)
       /\ GapNumbers(w.gaps) = Missed(last, S, replay)
=============================================================================
