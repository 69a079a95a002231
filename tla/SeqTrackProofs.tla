---------------------------- MODULE SeqTrackProofs ----------------------------
(***************************************************************************)
(* The watermark arithmetic for numbers of any size: the extrema it takes  *)
(* exist, the mark never falls, and what it calls missing lies between two *)
(* marks and outside the batch.                                            *)
(***************************************************************************)
EXTENDS SeqTrack, Sequences, WellFoundedInduction, TLAPS

(* Every non-empty set of naturals has a least element.                    *)
LEMMA LeastNat ==
  ASSUME NEW T \in SUBSET Nat, T # {}
  PROVE  \E x \in T : \A y \in T : x <= y
<1> DEFINE below == {ss \in Nat \X Nat : ss[1] < ss[2]}
<1>1. IsWellFoundedOn(below, Nat)
  BY NatLessThanWellFounded DEF OpToRel
<1>2. PICK x \in T : \A y \in T : ~ (<<y, x>> \in below)
  <2> HIDE DEF below
  <2> QED
    BY <1>1, WFMin
<1>3. ASSUME NEW y \in T PROVE x <= y
  <2>1. x \in Nat /\ y \in Nat /\ ~ (<<y, x>> \in below)
    BY <1>2
  <2>2. ~ (y < x)
    BY <2>1
  <2> QED
    BY <2>1, <2>2
<1> QED
  BY <1>3

LEMMA MinOfSet ==
  ASSUME NEW S \in SUBSET Nat, S # {}
  PROVE  MinOf(S) \in S /\ \A y \in S : MinOf(S) <= y
  BY LeastNat DEF MinOf

LEMMA MaxOfSet ==
  ASSUME NEW n \in Nat, NEW S \in SUBSET (0 .. n), S # {}
  PROVE  MaxOf(S) \in S /\ \A y \in S : y <= MaxOf(S)
<1> DEFINE bounds == {k \in Nat : \A y \in S : y <= k}
<1>1. PICK k \in bounds : \A j \in bounds : k <= j
  <2>1. n \in bounds
    OBVIOUS
  <2> HIDE DEF bounds
  <2>2. bounds \subseteq Nat
    BY DEF bounds
  <2> QED
    BY <2>1, <2>2, LeastNat
<1>2. k \in S
  <2> SUFFICES ASSUME k \notin S PROVE FALSE
    OBVIOUS
  <2>k. k \in Nat
    BY <1>1
  <2>1. \A y \in S : y \in Nat /\ y < k
    BY <1>1
  <2>k1. k # 0
    <3>1. PICK y \in S : TRUE
      OBVIOUS
    <3>2. y \in Nat /\ y < k
      BY <2>1
    <3> QED
      BY <2>k, <3>2
  <2>2. k - 1 \in Nat /\ \A y \in S : y <= k - 1
    BY <2>k, <2>k1, <2>1
  <2>3. k - 1 \in bounds
    BY <2>2
  <2> QED
    BY <1>1, <2>3
<1>3. \A y \in S : y <= k
  BY <1>1
<1> QED
  BY <1>2, <1>3 DEF MaxOf

-----------------------------------------------------------------------------
LEMMA FreshInRange ==
  ASSUME NEW n \in Nat, NEW last \in 0 .. n, NEW S \in SUBSET (1 .. n)
  PROVE  /\ Fresh(last, S) \in SUBSET (0 .. n) /\ Fresh(last, S) \in SUBSET Nat
         /\ \A x \in Fresh(last, S) : x \in S /\ x \in 1 .. n /\ x > last
<1>1. \A x \in Fresh(last, S) : x \in S /\ x \in 1 .. n /\ x > last
  BY DEF Fresh
<1>2. \A x \in Fresh(last, S) : x \in 0 .. n /\ x \in Nat
  BY <1>1
<1> QED
  BY <1>1, <1>2

(* The mark never falls, stays within the numbers seen, and bounds them.   *)
LEMMA MarkRises ==
  ASSUME NEW n \in Nat, NEW last \in 0 .. n, NEW S \in SUBSET (1 .. n)
  PROVE  /\ NewMark(last, S) \in 0 .. n
         /\ last <= NewMark(last, S)
         /\ NewMark(last, S) \in S \cup {last}
         /\ \A x \in S : x <= NewMark(last, S)
<1>1. CASE Fresh(last, S) = {}
  BY <1>1 DEF Fresh, NewMark
<1>2. CASE Fresh(last, S) # {}
  <2>1. Fresh(last, S) \in SUBSET (0 .. n)
    BY FreshInRange
  <2>2. NewMark(last, S) \in Fresh(last, S)
        /\ \A y \in Fresh(last, S) : y <= NewMark(last, S)
    BY <1>2, <2>1, MaxOfSet DEF NewMark
  <2>3. NewMark(last, S) \in S /\ NewMark(last, S) \in 1 .. n /\ NewMark(last, S) > last
    BY <2>2, FreshInRange
  <2>4. ASSUME NEW x \in S PROVE x <= NewMark(last, S)
    <3>1. CASE x \in Fresh(last, S)
      BY <2>2, <3>1
    <3>2. CASE x \notin Fresh(last, S)
      BY <2>3, <3>2 DEF Fresh
    <3> QED
      BY <3>1, <3>2
  <2> QED
    BY <2>3, <2>4
<1> QED
  BY <1>1, <1>2

(* A number found missing lies between the two marks and outside the batch.*)
LEMMA MissedIsBetween ==
  ASSUME NEW n \in Nat, NEW last \in 0 .. n, NEW S \in SUBSET (1 .. n),
         NEW replay \in BOOLEAN, NEW x \in Missed(last, S, replay)
  PROVE  x \in 1 .. n /\ last < x /\ x < NewMark(last, S) /\ x \notin S
<1>1. Fresh(last, S) # {} /\ x \in Baseline(last, S) + 1 .. NewMark(last, S) /\ x \notin S
  BY DEF Missed
<1>2. Fresh(last, S) \in SUBSET Nat /\ Fresh(last, S) \in SUBSET (0 .. n)
  BY FreshInRange
<1>3. Baseline(last, S) \in Nat /\ last <= Baseline(last, S)
  BY <1>1, <1>2, MinOfSet, FreshInRange DEF Baseline
<1>4. NewMark(last, S) \in Fresh(last, S)
  BY <1>1, <1>2, MaxOfSet DEF NewMark
<1>5. NewMark(last, S) \in S /\ NewMark(last, S) \in 1 .. n
  BY <1>4, FreshInRange
<1> QED
  BY <1>1, <1>3, <1>5

-----------------------------------------------------------------------------
(* The walk and its closed form.                                           *)
LEMMA MaxIs ==
  ASSUME NEW n \in Nat, NEW S \in SUBSET (0 .. n), NEW x \in S, \A y \in S : y <= x
  PROVE  MaxOf(S) = x
<1>1. MaxOf(S) \in S /\ x <= MaxOf(S)
  BY MaxOfSet
<1>2. MaxOf(S) <= x
  BY <1>1
<1>3. MaxOf(S) \in 0 .. n /\ x \in 0 .. n
  BY <1>1
<1> QED
  BY <1>1, <1>2, <1>3

LEMMA MinIs ==
  ASSUME NEW S \in SUBSET Nat, NEW x \in S, \A y \in S : x <= y
  PROVE  MinOf(S) = x
<1>1. MinOf(S) \in S /\ MinOf(S) <= x
  BY MinOfSet
<1>2. x <= MinOf(S) /\ MinOf(S) \in Nat /\ x \in Nat
  BY <1>1
<1> QED
  BY <1>1, <1>2

(* A number the walk skips changes neither the mark nor what is missed.    *)
LEMMA WalkSkips ==
  ASSUME NEW n \in Nat, NEW last \in 0 .. n, NEW S \in SUBSET (1 .. n), NEW s \in 1 .. n,
         NEW replay \in BOOLEAN, \A x \in S : x <= s, s <= NewMark(last, S)
  PROVE  /\ NewMark(last, S \cup {s}) = NewMark(last, S)
         /\ Missed(last, S \cup {s}, replay) = Missed(last, S, replay)
<1>1. NewMark(last, S) \in 0 .. n /\ NewMark(last, S) \in S \cup {last}
  BY MarkRises
<1>2. CASE NewMark(last, S) \in S
  <2>1. NewMark(last, S) <= s
    BY <1>2
  <2>2. s = NewMark(last, S)
    BY <1>1, <2>1
  <2>3. S \cup {s} = S
    BY <1>2, <2>2
  <2> QED
    BY <2>3
<1>3. CASE NewMark(last, S) \notin S
  <2>1. s <= last
    BY <1>1, <1>3
  <2>2. Fresh(last, S \cup {s}) = Fresh(last, S)
    BY <2>1 DEF Fresh
  <2>3. NewMark(last, S \cup {s}) = NewMark(last, S)
    BY <2>2 DEF NewMark
  <2>4. Baseline(last, S \cup {s}) = Baseline(last, S)
    BY <2>2 DEF Baseline
  <2>5. CASE Fresh(last, S) = {}
    BY <2>2, <2>3, <2>5 DEF Missed
  <2>6. CASE Fresh(last, S) # {}
    <3>1. Baseline(last, S) \in Nat /\ last <= Baseline(last, S)
      BY <2>6, MinOfSet, FreshInRange DEF Baseline
    <3>2. \A x \in Baseline(last, S) + 1 .. NewMark(last, S) : x # s
      BY <1>1, <2>1, <3>1
    <3> QED
      BY <2>2, <2>3, <2>4, <3>2 DEF Missed
  <2> QED
    BY <2>3, <2>5, <2>6
<1> QED
  BY <1>2, <1>3

(* A number above the mark becomes the mark, and what lies between the two *)
(* is missed, unless the agent was never heard of or the batch is a replay.*)
LEMMA WalkAdvances ==
  ASSUME NEW n \in Nat, NEW last \in 0 .. n, NEW S \in SUBSET (1 .. n), NEW s \in 1 .. n,
         NEW replay \in BOOLEAN, s > NewMark(last, S)
  PROVE  /\ NewMark(last, S \cup {s}) = s
         /\ Missed(last, S \cup {s}, replay) =
              IF ~ replay /\ NewMark(last, S) # 0
                THEN Missed(last, S, replay) \cup (NewMark(last, S) + 1 .. s - 1)
                ELSE Missed(last, S, replay)
<1> DEFINE m == NewMark(last, S)
           T == S \cup {s}
<1>1. m \in 0 .. n /\ last <= m /\ \A x \in S : x <= m
  BY MarkRises
<1>s. s > m /\ s \in Nat /\ m \in Nat /\ last \in Nat
  BY <1>1
<1>2. /\ Fresh(last, S) \in SUBSET (0 .. n) /\ Fresh(last, S) \in SUBSET Nat
      /\ \A x \in Fresh(last, S) : x \in S /\ x \in 1 .. n
  BY FreshInRange
<1>m. Fresh(last, S) = {} => m = last
  BY DEF NewMark
<1>t. T \in SUBSET (1 .. n)
  OBVIOUS
<1> HIDE DEF m
<1>3. Fresh(last, T) = Fresh(last, S) \cup {s}
  <2>1. s > last
    BY <1>1, <1>s
  <2> QED
    BY <2>1 DEF Fresh
<1>4. NewMark(last, T) = s
  <2>1. Fresh(last, T) \in SUBSET (0 .. n) /\ s \in Fresh(last, T)
    BY <1>2, <1>3
  <2>2. \A x \in Fresh(last, T) : x <= s
    BY <1>1, <1>2, <1>3, <1>s
  <2>3. MaxOf(Fresh(last, T)) = s
    BY <2>1, <2>2, MaxIs
  <2> QED
    BY <2>1, <2>3 DEF NewMark
<1>5. CASE replay
  BY <1>4, <1>5 DEF Missed
<1>6. CASE ~ replay /\ m = 0
  <2>1. S = {} /\ last = 0
    BY <1>1, <1>6
  <2>2. Fresh(last, S) = {} /\ Fresh(last, T) = {s}
    BY <1>3, <2>1 DEF Fresh
  <2>3. Missed(last, S, replay) = {}
    BY <2>2 DEF Missed
  <2>4. Baseline(last, T) = s
    <3>1. MinOf({s}) = s
      BY <1>s, MinIs
    <3> QED
      BY <2>1, <2>2, <3>1 DEF Baseline
  <2>5. Missed(last, T, replay) = {}
    <3>1. s + 1 .. s = {}
      BY <1>s
    <3> QED
      BY <1>4, <2>4, <3>1 DEF Missed
  <2> QED
    BY <1>4, <1>6, <2>3, <2>5 DEF m
<1>7. CASE ~ replay /\ m # 0
  <2> DEFINE b == Baseline(last, T)
  <2>1. b \in Nat /\ b <= m
           /\ Missed(last, S, replay) = {x \in b + 1 .. m : x \notin S}
    <3>1. CASE Fresh(last, S) = {}
      <4>1. last # 0 /\ m = last
        BY <1>7, <1>3, <3>1, <1>m
      <4>2. b = last
        BY <4>1 DEF Baseline
      <4>3. last + 1 .. m = {}
        BY <1>s, <4>1
      <4>4. Missed(last, S, replay) = {}
        BY <3>1 DEF Missed
      <4> QED
        BY <1>s, <4>1, <4>2, <4>3, <4>4
    <3>2. CASE Fresh(last, S) # {}
      <4>1. /\ MinOf(Fresh(last, S)) \in Fresh(last, S)
            /\ \A y \in Fresh(last, S) : MinOf(Fresh(last, S)) <= y
        BY <1>2, <3>2, MinOfSet
      <4> DEFINE k == MinOf(Fresh(last, S))
      <4>2. k \in Fresh(last, S) /\ k \in Nat /\ k <= m
        BY <1>1, <1>2, <4>1
      <4>3. MinOf(Fresh(last, T)) = k
        <5> HIDE DEF k
        <5>1. \A y \in Fresh(last, T) : k <= y
          BY <1>3, <1>s, <4>1, <4>2 DEF k
        <5>2. Fresh(last, T) \in SUBSET Nat /\ k \in Fresh(last, T)
          BY <1>2, <1>3, <1>s, <4>2
        <5> QED
          BY <5>1, <5>2, MinIs
      <4>4. b = Baseline(last, S)
        BY <4>3 DEF Baseline
      <4>5. b \in Nat /\ b <= m
        BY <1>1, <1>s, <4>2, <4>3 DEF Baseline
      <4>6. Missed(last, S, replay) = {x \in b + 1 .. m : x \notin S}
        BY <1>7, <3>2, <4>4 DEF Missed, m
      <4> QED
        BY <4>5, <4>6
    <3> QED
      BY <3>1, <3>2
  <2>2. Missed(last, T, replay) = {x \in b + 1 .. s : x \notin T}
    BY <1>3, <1>4, <1>7 DEF Missed
  <2> HIDE DEF b
  <2>3. \A x : x \in b + 1 .. s /\ x # s <=> x \in b + 1 .. m \/ x \in m + 1 .. s - 1
    BY <1>s, <2>1
  <2>4. \A x \in m + 1 .. s - 1 : x \notin S
    BY <1>1, <1>s
  <2>5. Missed(last, T, replay) = Missed(last, S, replay) \cup (m + 1 .. s - 1)
    BY <2>1, <2>2, <2>3, <2>4
  <2> QED
    BY <1>4, <1>7, <2>5 DEF m
<1> QED
  BY <1>5, <1>6, <1>7

(* What the first k rounds of handleTelemetry's loop have read.            *)
Read(ss, k) == {ss[i] : i \in 1 .. k}

Sorted(ss) == \A i, j \in 1 .. Len(ss) : i <= j => ss[i] <= ss[j]

(* One round of the loop, from the mark m and the numbers missed so far.   *)
Round(s, replay, m, missed, m2, missed2) ==
  IF s <= m
    THEN m2 = m /\ missed2 = missed
    ELSE /\ m2 = s
         /\ missed2 = IF ~ replay /\ m # 0 /\ s > m + 1
                        THEN missed \cup (m + 1 .. s - 1)
                        ELSE missed

(* The loop over the numbers ss: the watermark and the numbers in the gaps *)
(* appended, after k rounds.                                               *)
IsWalk(last, ss, replay, mark, missed) ==
  /\ mark[0] = last /\ missed[0] = {}
  /\ \A k \in 1 .. Len(ss) :
       Round(ss[k], replay, mark[k - 1], missed[k - 1], mark[k], missed[k])

LEMMA RoundsAgree ==
  ASSUME NEW s, NEW replay, NEW m, NEW missed, NEW m2, NEW missed2, NEW m3, NEW missed3,
         Round(s, replay, m, missed, m2, missed2), Round(s, replay, m, missed, m3, missed3)
  PROVE  m2 = m3 /\ missed2 = missed3
<1>1. CASE s <= m
  BY <1>1 DEF Round
<1>2. CASE ~ (s <= m)
  BY <1>2 DEF Round
<1> QED
  BY <1>1, <1>2

LEMMA WalkRound ==
  ASSUME NEW n \in Nat, NEW last \in 0 .. n, NEW ss \in Seq(1 .. n), Sorted(ss),
         NEW replay \in BOOLEAN, NEW k \in 1 .. Len(ss)
  PROVE  Round(ss[k], replay, NewMark(last, Read(ss, k - 1)),
               Missed(last, Read(ss, k - 1), replay),
               NewMark(last, Read(ss, k)), Missed(last, Read(ss, k), replay))
<1> DEFINE S == Read(ss, k - 1)
           s == ss[k]
           m == NewMark(last, S)
<1>1. Len(ss) \in Nat /\ \A i \in 1 .. Len(ss) : ss[i] \in 1 .. n
  OBVIOUS
<1>2. k \in Nat /\ k - 1 \in Nat /\ k - 1 < k /\ k <= Len(ss)
  BY <1>1
<1>3. Read(ss, k) = S \cup {s}
  <2>1. 1 .. k = (1 .. k - 1) \cup {k}
    BY <1>2
  <2> QED
    BY <2>1 DEF Read
<1>4. (\A i \in 1 .. k - 1 : i \in 1 .. Len(ss) /\ i <= k) /\ s \in 1 .. n
  BY <1>1, <1>2
<1>5. S \in SUBSET (1 .. n) /\ \A x \in S : x <= s
  BY <1>1, <1>4 DEF Read, Sorted
<1> HIDE DEF S, s
<1>6. m \in 0 .. n
  BY <1>5, MarkRises
<1>7. CASE s <= m
  <2>1. /\ NewMark(last, S \cup {s}) = m
        /\ Missed(last, S \cup {s}, replay) = Missed(last, S, replay)
    BY <1>4, <1>5, <1>7, WalkSkips
  <2> QED
    BY <1>3, <1>7, <2>1 DEF Round, S, s
<1>8. CASE s > m
  <2>1. /\ NewMark(last, S \cup {s}) = s
        /\ Missed(last, S \cup {s}, replay) =
             IF ~ replay /\ m # 0
               THEN Missed(last, S, replay) \cup (m + 1 .. s - 1)
               ELSE Missed(last, S, replay)
    BY <1>4, <1>5, <1>8, WalkAdvances
  <2> HIDE DEF m
  <2>2. ~ (s > m + 1) => m + 1 .. s - 1 = {}
    BY <1>4, <1>6
  <2>3. ~ (s <= m)
    BY <1>4, <1>6, <1>8
  <2>4. Missed(last, S \cup {s}, replay) =
          IF ~ replay /\ m # 0 /\ s > m + 1
            THEN Missed(last, S, replay) \cup (m + 1 .. s - 1)
            ELSE Missed(last, S, replay)
    BY <2>1, <2>2
  <2>5. Round(s, replay, m, Missed(last, S, replay),
              NewMark(last, S \cup {s}), Missed(last, S \cup {s}, replay))
    BY <2>1, <2>3, <2>4 DEF Round
  <2> QED
    BY <1>3, <2>5 DEF S, s, m
<1> QED
  BY <1>4, <1>6, <1>7, <1>8

LEMMA WalkStarts ==
  ASSUME NEW last, NEW ss, NEW replay
  PROVE  NewMark(last, Read(ss, 0)) = last /\ Missed(last, Read(ss, 0), replay) = {}
<1>1. Read(ss, 0) = {}
  BY DEF Read
<1> QED
  BY <1>1 DEF NewMark, Missed, Fresh

(* Every sorted batch has a walk.                                          *)
LEMMA WalkExists ==
  ASSUME NEW n \in Nat, NEW last \in 0 .. n, NEW ss \in Seq(1 .. n), Sorted(ss),
         NEW replay \in BOOLEAN
  PROVE  \E mark, missed : IsWalk(last, ss, replay, mark, missed)
<1> DEFINE mark == [k \in 0 .. Len(ss) |-> NewMark(last, Read(ss, k))]
           missed == [k \in 0 .. Len(ss) |-> Missed(last, Read(ss, k), replay)]
<1>1. Len(ss) \in Nat
  OBVIOUS
<1>2. \A k \in 1 .. Len(ss) : k \in 0 .. Len(ss) /\ k - 1 \in 0 .. Len(ss)
  BY <1>1
<1>3. 0 \in 0 .. Len(ss)
  BY <1>1
<1>4. mark[0] = last /\ missed[0] = {}
  BY <1>3, WalkStarts
<1>5. ASSUME NEW k \in 1 .. Len(ss)
      PROVE  Round(ss[k], replay, mark[k - 1], missed[k - 1], mark[k], missed[k])
  <2>1. /\ mark[k] = NewMark(last, Read(ss, k))
        /\ mark[k - 1] = NewMark(last, Read(ss, k - 1))
        /\ missed[k] = Missed(last, Read(ss, k), replay)
        /\ missed[k - 1] = Missed(last, Read(ss, k - 1), replay)
    BY <1>2
  <2> HIDE DEF mark, missed
  <2> QED
    BY <2>1, WalkRound
<1> HIDE DEF mark, missed
<1>6. IsWalk(last, ss, replay, mark, missed)
  BY <1>4, <1>5 DEF IsWalk
<1> QED
  BY <1>6

(* What handleTelemetry's loop leaves in lastSeq and in gaps is what the   *)
(* closed form says, for a sorted batch of any length, repeats included,   *)
(* and any watermark: the loop's invariant holds after each of its rounds. *)
THEOREM WalkIsClosedForm ==
  ASSUME NEW n \in Nat, NEW last \in 0 .. n, NEW ss \in Seq(1 .. n), Sorted(ss),
         NEW replay \in BOOLEAN
  PROVE  /\ \E mark, missed : IsWalk(last, ss, replay, mark, missed)
         /\ \A mark, missed : IsWalk(last, ss, replay, mark, missed) =>
              \A k \in 0 .. Len(ss) :
                /\ mark[k] = NewMark(last, Read(ss, k))
                /\ missed[k] = Missed(last, Read(ss, k), replay)
<1>1. Len(ss) \in Nat
  OBVIOUS
<1>2. ASSUME NEW mark, NEW missed, IsWalk(last, ss, replay, mark, missed)
      PROVE  \A k \in 0 .. Len(ss) : /\ mark[k] = NewMark(last, Read(ss, k))
                                     /\ missed[k] = Missed(last, Read(ss, k), replay)
  <2> DEFINE Good(k) == /\ mark[k] = NewMark(last, Read(ss, k))
                        /\ missed[k] = Missed(last, Read(ss, k), replay)
             bad == {k \in 0 .. Len(ss) : ~ Good(k)}
  <2>1. Good(0)
    BY <1>2, WalkStarts DEF IsWalk
  <2>2. ASSUME NEW k \in 1 .. Len(ss), Good(k - 1)
        PROVE  Good(k)
    <3>1. Round(ss[k], replay, mark[k - 1], missed[k - 1], mark[k], missed[k])
      BY <1>2 DEF IsWalk
    <3>2. Round(ss[k], replay, NewMark(last, Read(ss, k - 1)),
                Missed(last, Read(ss, k - 1), replay),
                NewMark(last, Read(ss, k)), Missed(last, Read(ss, k), replay))
      BY WalkRound
    <3>3. mark[k - 1] = NewMark(last, Read(ss, k - 1))
      BY <2>2
    <3>4. missed[k - 1] = Missed(last, Read(ss, k - 1), replay)
      BY <2>2
    <3>5. Round(ss[k], replay, mark[k - 1], missed[k - 1],
                NewMark(last, Read(ss, k)), Missed(last, Read(ss, k), replay))
      BY <3>2, <3>3, <3>4
    <3> QED
      BY <3>1, <3>5, RoundsAgree
  <2> HIDE DEF Good
  <2>3. bad = {}
    <3> SUFFICES ASSUME bad # {} PROVE FALSE
      OBVIOUS
    <3>1. bad \in SUBSET Nat
      BY <1>1
    <3>2. PICK k \in bad : \A j \in bad : k <= j
      <4> HIDE DEF bad
      <4> QED
        BY <3>1, LeastNat
    <3>3. k \in 0 .. Len(ss) /\ ~ Good(k)
      BY <3>2
    <3>4. k # 0
      BY <2>1, <3>3
    <3>5. k \in 1 .. Len(ss) /\ k - 1 \in 0 .. Len(ss) /\ ~ (k <= k - 1)
      BY <1>1, <3>3, <3>4
    <3>6. k - 1 \notin bad
      <4> HIDE DEF bad
      <4> QED
        BY <3>2, <3>5
    <3>7. Good(k - 1)
      BY <3>5, <3>6
    <3> QED
      BY <2>2, <3>3, <3>5, <3>7
  <2>4. \A k \in 0 .. Len(ss) : Good(k)
    BY <2>3
  <2> QED
    BY <2>4 DEF Good
<1> QED
  BY <1>2, WalkExists
=============================================================================
