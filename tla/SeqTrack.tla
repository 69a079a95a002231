------------------------------ MODULE SeqTrack ------------------------------
(***************************************************************************)
(* The watermark arithmetic of Hub.handleTelemetry (transport/hub.go): one *)
(* batch of sequence numbers against the last one accounted for.  The code *)
(* sorts the numbers and walks them; here the outcome of the walk is given *)
(* in closed form, and MCTelemetry compares it with the walk.              *)
(***************************************************************************)
EXTENDS Naturals, FiniteSets

MaxOf(S) == CHOOSE x \in S : \A y \in S : y <= x
MinOf(S) == CHOOSE x \in S : \A y \in S : x <= y

(* The numbers the walk does not skip as duplicate or late. *)
Fresh(last, S) == {s \in S : s > last}

(* The watermark the batch leaves. *)
NewMark(last, S) ==
  IF Fresh(last, S) = {} THEN last ELSE MaxOf(Fresh(last, S))

(* The number the first gap is measured from: an agent never heard of has  *)
(* no gap before its first number.                                         *)
Baseline(last, S) == IF last = 0 THEN MinOf(Fresh(last, S)) ELSE last

(* The numbers the batch reveals to be missing, the union of the gaps      *)
(* reported as PACKET_SEQUENCE_MISSED; a replayed batch reveals none.      *)
Missed(last, S, replay) ==
  IF replay \/ Fresh(last, S) = {}
    THEN {}
    ELSE {n \in Baseline(last, S) + 1 .. NewMark(last, S) : n \notin S}
=============================================================================
