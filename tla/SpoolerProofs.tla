---------------------------- MODULE SpoolerProofs ----------------------------
(***************************************************************************)
(* Proofs about Spooler for every capacity, every set of metrics and every *)
(* bound on the overflow counter: the indices stay inside the ring, a live *)
(* slot always holds a pushed metric, and the ring is the drop-oldest      *)
(* queue of SpoolQueue.                                                    *)
(***************************************************************************)
EXTENDS Spooler, SequenceTheorems, TLAPS

(* Arithmetic of an index that has stepped at most once round the ring.    *)
LEMMA ModBelow ==
  ASSUME NEW k \in 0 .. Cap - 1
  PROVE  k % Cap = k
  BY CapAssumption, SMT

LEMMA ModAbove ==
  ASSUME NEW k \in Cap .. (Cap + Cap) - 1
  PROVE  k % Cap = k - Cap
  BY CapAssumption, SMT

LEMMA ModInSlots ==
  ASSUME NEW k \in Nat
  PROVE  k % Cap \in Slots
  BY CapAssumption, SMT DEF Slots

(* Two different distances below Cap from the same head are two different  *)
(* slots: writing the tail slot disturbs no other live element.            *)
LEMMA SlotsDistinct ==
  ASSUME NEW h \in Slots, NEW i \in 0 .. Cap, NEW j \in 0 .. Cap,
         i < j, j - i < Cap
  PROVE  (h + i) % Cap # (h + j) % Cap
<1>0. h \in Nat /\ i \in Nat /\ j \in Nat /\ h < Cap /\ Cap \in Nat /\ i < Cap
  BY CapAssumption DEF Slots
<1>1. CASE h + j < Cap
  <2>1. (h + i) % Cap = h + i  BY <1>0, <1>1, ModBelow
  <2>2. (h + j) % Cap = h + j  BY <1>0, <1>1, ModBelow
  <2> QED  BY <2>1, <2>2, <1>0
<1>2. CASE h + i < Cap /\ h + j >= Cap /\ h + j < Cap + Cap
  <2>1. (h + i) % Cap = h + i  BY <1>0, <1>2, ModBelow
  <2>2. (h + j) % Cap = h + j - Cap  BY <1>0, <1>2, ModAbove
  <2> QED  BY <2>1, <2>2, <1>0
<1>3. CASE h + i >= Cap /\ h + j < Cap + Cap
  <2>1. (h + i) % Cap = h + i - Cap  BY <1>0, <1>3, ModAbove
  <2>2. (h + j) % Cap = h + j - Cap  BY <1>0, <1>3, ModAbove
  <2> QED  BY <2>1, <2>2, <1>0
<1> QED  BY <1>0, <1>1, <1>2, <1>3

(* Stepping the head past one slot shifts every later index by one.        *)
LEMMA HeadStep ==
  ASSUME NEW h \in Slots, NEW i \in 0 .. Cap - 1
  PROVE  (((h + 1) % Cap) + i) % Cap = (h + (i + 1)) % Cap
<1>0. h \in Nat /\ i \in Nat /\ h < Cap /\ i < Cap /\ Cap \in Nat
  BY CapAssumption DEF Slots
<1>1. CASE h + 1 < Cap
  <2>1. (h + 1) % Cap = h + 1  BY <1>0, <1>1, ModBelow
  <2>2. (h + 1) + i = h + (i + 1)  BY <1>0
  <2> QED  BY <2>1, <2>2
<1>2. CASE h + 1 = Cap
  <2>1. (h + 1) % Cap = 0  BY <1>0, <1>2, ModAbove
  <2>2. (0 + i) % Cap = i  BY <1>0, ModBelow
  <2>3. h + (i + 1) = Cap + i  BY <1>0, <1>2
  <2>4. (Cap + i) % Cap = i  BY <1>0, ModAbove
  <2> QED  BY <2>1, <2>2, <2>3, <2>4
<1> QED  BY <1>0, <1>1, <1>2

-----------------------------------------------------------------------------
RingInv == TypeOK /\ LiveSlotsWritten

(* The live elements, read from head, are a sequence of size metrics.      *)
ContentsReadFromHead ==
  /\ Contents \in Seq(Metric)
  /\ Len(Contents) = size
  /\ \A i \in 1 .. size : Contents[i] = Nth(i)

LEMMA ContentsIsSeq == RingInv => ContentsReadFromHead
<1> SUFFICES ASSUME RingInv PROVE ContentsReadFromHead
  OBVIOUS
<1>1. size \in Nat  BY CapAssumption DEF RingInv, TypeOK
<1>2. Contents = [i \in 1 .. size |-> Nth(i)]  BY DEF Contents
<1>3. \A i \in 1 .. size : Nth(i) \in Metric
  BY DEF RingInv, LiveSlotsWritten
<1>4. Contents \in Seq(Metric)
  <2>1. [i \in 1 .. size |-> Nth(i)] \in [1 .. size -> Metric]  BY <1>3
  <2> QED  BY <1>1, <1>2, <2>1
<1>5. DOMAIN Contents = 1 .. size  BY <1>2
<1>6. Len(Contents) = size  BY <1>1, <1>4, <1>5, LenProperties
<1>7. \A i \in 1 .. size : Contents[i] = Nth(i)  BY <1>2
<1> QED  BY <1>4, <1>6, <1>7 DEF ContentsReadFromHead

(* The same of the next state.                                             *)
LEMMA ContentsIsSeqNext == RingInv' => ContentsReadFromHead'
  BY ContentsIsSeq, PTL

(* A push overwrites no live element but the oldest, and that one only     *)
(* when the ring is full.                                                  *)
LEMMA PushKeepsOthers ==
  ASSUME RingInv, NEW m \in Metric, NEW i \in 1 .. size,
         buf' = [buf EXCEPT ![TailSlot] = m],
         size # Cap \/ i # 1
  PROVE  buf'[(head + (i - 1)) % Cap] = Nth(i)
<1>0. /\ head \in Slots /\ size \in 0 .. Cap /\ head \in Nat
      /\ buf \in [Slots -> Metric \cup {NoMetric}]
  BY CapAssumption DEF RingInv, TypeOK, Slots
<1>1. (head + (i - 1)) % Cap # TailSlot
  <2>1. /\ i - 1 \in 0 .. Cap /\ size \in 0 .. Cap
        /\ i - 1 < size /\ size - (i - 1) < Cap
    BY <1>0, CapAssumption
  <2> QED  BY <1>0, <2>1, SlotsDistinct DEF TailSlot
<1>2. (head + (i - 1)) % Cap \in Slots
  BY <1>0, ModInSlots
<1> QED  BY <1>0, <1>1, <1>2 DEF Nth

(* What a push on a full ring leaves: the contents without the oldest, and *)
(* the new metric at the end.                                              *)
LEMMA PushFullContents ==
  ASSUME RingInv, NEW m \in Metric, PushFull(m)
  PROVE  /\ \A i \in 1 .. size - 1 : Nth(i)' = Nth(i + 1)
         /\ \A i \in {size} : Nth(i)' = m
<1>0. /\ head \in Slots /\ head \in Nat /\ size = Cap /\ size \in Nat
      /\ Cap \in Nat \ {0}
      /\ buf \in [Slots -> Metric \cup {NoMetric}]
      /\ buf' = [buf EXCEPT ![TailSlot] = m]
      /\ head' = (head + 1) % Cap /\ size' = size
  BY CapAssumption DEF RingInv, TypeOK, Slots, PushFull
<1>1. \A j \in 0 .. Cap - 1 : (head' + j) % Cap = (head + (j + 1)) % Cap
  BY <1>0, HeadStep
<1>2. ASSUME NEW i \in 1 .. size - 1
      PROVE  Nth(i)' = Nth(i + 1)
  <2>0. i - 1 \in 0 .. Cap - 1  BY <1>0
  <2>1. Nth(i)' = buf'[(head + ((i - 1) + 1)) % Cap]
    <3>1. Nth(i)' = buf'[(head' + (i - 1)) % Cap]  BY DEF Nth
    <3> QED  BY <1>1, <2>0, <3>1
  <2>2. (i - 1) + 1 = (i + 1) - 1  BY <1>0
  <2>3. i + 1 \in 1 .. size /\ i + 1 # 1  BY <1>0
  <2> QED  BY <1>0, <2>1, <2>2, <2>3, PushKeepsOthers
<1>3. ASSUME NEW i \in {size}
      PROVE  Nth(i)' = m
  <2>1. Nth(i)' = buf'[(head' + (size - 1)) % Cap]
    BY <1>0 DEF Nth
  <2>0. size - 1 \in 0 .. Cap - 1  BY <1>0
  <2>2. (head' + (size - 1)) % Cap = (head + ((size - 1) + 1)) % Cap
    BY <1>1, <2>0
  <2>3. (size - 1) + 1 = size  BY <1>0
  <2>4. TailSlot \in Slots
    <3>1. head + size \in Nat  BY <1>0
    <3> QED  BY <3>1, ModInSlots DEF TailSlot
  <2> QED  BY <1>0, <2>1, <2>2, <2>3, <2>4 DEF TailSlot
<1> QED  BY <1>2, <1>3

(* What a push with room leaves: the same contents, one metric longer.     *)
LEMMA PushRoomContents ==
  ASSUME RingInv, NEW m \in Metric, PushRoom(m)
  PROVE  /\ \A i \in 1 .. size : Nth(i)' = Nth(i)
         /\ \A i \in {size + 1} : Nth(i)' = m
<1>0. /\ head \in Slots /\ head \in Nat /\ size # Cap /\ size \in Nat
      /\ buf \in [Slots -> Metric \cup {NoMetric}]
      /\ buf' = [buf EXCEPT ![TailSlot] = m]
      /\ head' = head
  BY CapAssumption DEF RingInv, TypeOK, Slots, PushRoom
<1>1. \A i \in 1 .. size : Nth(i)' = Nth(i)
  BY <1>0, PushKeepsOthers DEF Nth
<1>2. \A i \in {size + 1} : Nth(i)' = buf'[TailSlot]
  <2>1. (size + 1) - 1 = size  BY <1>0
  <2> QED  BY <1>0, <2>1 DEF Nth, TailSlot
<1>3. TailSlot \in Slots  BY <1>0, ModInSlots DEF TailSlot
<1> QED  BY <1>0, <1>1, <1>2, <1>3

-----------------------------------------------------------------------------
LEMMA RingInvInit == Init => RingInv
<1> SUFFICES ASSUME Init PROVE RingInv
  OBVIOUS
<1>1. TypeOK  BY CapAssumption DEF Init, TypeOK, Slots
<1>2. LiveSlotsWritten  BY DEF Init, LiveSlotsWritten
<1> QED  BY <1>1, <1>2 DEF RingInv

LEMMA RingInvStep == RingInv /\ [Next]_vars => RingInv'
<1> SUFFICES ASSUME RingInv, [Next]_vars PROVE RingInv'
  OBVIOUS
<1> USE CapAssumption
<1>0. TypeOK /\ LiveSlotsWritten  BY DEF RingInv
<1>1. ASSUME NEW m \in Metric, PushFull(m) PROVE RingInv'
  <2>1. TypeOK'
    <3>0. head + size \in Nat /\ head + 1 \in Nat
      BY <1>0 DEF TypeOK, Slots
    <3>1. TailSlot \in Slots /\ (head + 1) % Cap \in Slots
      BY <3>0, ModInSlots DEF TailSlot
    <3> QED  BY <1>0, <1>1, <3>1 DEF TypeOK, PushFull
  <2>2. LiveSlotsWritten'
    <3> SUFFICES ASSUME NEW i \in 1 .. size PROVE Nth(i)' \in Metric
      BY <1>1 DEF LiveSlotsWritten, PushFull
    <3>1. size \in Nat  BY <1>0 DEF TypeOK
    <3>2. CASE i = size  BY <1>1, <3>2, PushFullContents
    <3>3. CASE i # size
      <4>1. i \in 1 .. size - 1 /\ i + 1 \in 1 .. size  BY <3>1, <3>3
      <4> QED  BY <1>0, <1>1, <4>1, PushFullContents DEF LiveSlotsWritten
    <3> QED  BY <3>2, <3>3
  <2> QED  BY <2>1, <2>2 DEF RingInv
<1>2. ASSUME NEW m \in Metric, PushRoom(m) PROVE RingInv'
  <2>1. TypeOK'
    <3>0. head + size \in Nat  BY <1>0 DEF TypeOK, Slots
    <3>1. TailSlot \in Slots  BY <3>0, ModInSlots DEF TailSlot
    <3> QED  BY <1>0, <1>2, <3>1 DEF TypeOK, PushRoom
  <2>2. LiveSlotsWritten'
    <3> SUFFICES ASSUME NEW i \in 1 .. size + 1 PROVE Nth(i)' \in Metric
      BY <1>2 DEF LiveSlotsWritten, PushRoom
    <3>1. size \in Nat  BY <1>0 DEF TypeOK
    <3>2. CASE i = size + 1  BY <1>2, <3>2, PushRoomContents
    <3>3. CASE i # size + 1
      <4>1. i \in 1 .. size  BY <3>1, <3>3
      <4> QED  BY <1>0, <1>2, <4>1, PushRoomContents DEF LiveSlotsWritten
    <3> QED  BY <3>2, <3>3
  <2> QED  BY <2>1, <2>2 DEF RingInv
<1>3. CASE Drain
  <2>1. Contents \in Seq(Metric)  BY ContentsIsSeq DEF ContentsReadFromHead
  <2>2. TypeOK'  BY <1>0, <1>3, <2>1 DEF TypeOK, Drain, Slots
  <2>3. LiveSlotsWritten'  BY <1>3 DEF LiveSlotsWritten, Drain
  <2> QED  BY <2>2, <2>3 DEF RingInv
<1>4. CASE UNCHANGED vars
  <2>1. TypeOK'  BY <1>0, <1>4 DEF TypeOK, vars
  <2>2. LiveSlotsWritten'
    BY <1>0, <1>4 DEF LiveSlotsWritten, Nth, vars
  <2> QED  BY <2>1, <2>2 DEF RingInv
<1> QED  BY <1>1, <1>2, <1>3, <1>4 DEF Next, Push

(* Every index the methods compute stays inside the buffer and the size    *)
(* never exceeds it (spooler.go Push, Drain).                              *)
THEOREM SpoolerTypeOK == Spec => []TypeOK
<1>1. RingInv => TypeOK  BY DEF RingInv
<1> QED  BY <1>1, RingInvInit, RingInvStep, PTL DEF Spec

(* Drain never hands out a slot that no Push has written.                  *)
THEOREM SpoolerLiveSlotsWritten == Spec => []LiveSlotsWritten
<1>1. RingInv => LiveSlotsWritten  BY DEF RingInv
<1> QED  BY <1>1, RingInvInit, RingInvStep, PTL DEF Spec

-----------------------------------------------------------------------------
LEMMA InitMaps == Init => Queue!Init
<1> SUFFICES ASSUME Init PROVE Queue!Init
  OBVIOUS
<1>1. RingInv  BY RingInvInit
<1>2. Len(Contents) = 0 /\ Contents \in Seq(Metric)
  BY <1>1, ContentsIsSeq DEF Init, ContentsReadFromHead
<1>3. Contents = <<>>  BY <1>2, EmptySeq
<1> QED  BY <1>3 DEF Init, Queue!Init

LEMMA PushFullMaps ==
  ASSUME RingInv, RingInv', NEW m \in Metric, PushFull(m)
  PROVE  Queue!Push(m)
<1>0. size = Cap /\ size' = size /\ size \in Nat \ {0} /\ overflow' = overflow + 1 /\ out' = out
  BY CapAssumption DEF PushFull
<1>1. /\ Contents \in Seq(Metric) /\ Len(Contents) = size
      /\ \A i \in 1 .. size : Contents[i] = Nth(i)
  BY ContentsIsSeq DEF ContentsReadFromHead
<1>2. /\ Contents' \in Seq(Metric) /\ Len(Contents') = size
      /\ \A i \in 1 .. size : Contents'[i] = Nth(i)'
  BY <1>0, ContentsIsSeqNext DEF ContentsReadFromHead
<1> DEFINE new == Append(Tail(Contents), m)
<1>3. /\ Tail(Contents) \in Seq(Metric) /\ Len(Tail(Contents)) = size - 1
      /\ \A i \in 1 .. size - 1 : Tail(Contents)[i] = Contents[i + 1]
  BY <1>0, <1>1
<1>4. /\ new \in Seq(Metric) /\ Len(new) = size /\ new[size] = m
      /\ \A i \in 1 .. size - 1 : new[i] = Contents[i + 1]
  BY <1>0, <1>3
<1> HIDE DEF new
<1>5. ASSUME NEW i \in 1 .. size PROVE Contents'[i] = new[i]
  <2>1. CASE i = size  BY <1>2, <1>4, <2>1, PushFullContents
  <2>2. CASE i # size
    <3>1. i \in 1 .. size - 1 /\ i + 1 \in 1 .. size  BY <1>0, <2>2
    <3> QED  BY <1>1, <1>2, <1>4, <3>1, PushFullContents
  <2> QED  BY <2>1, <2>2
<1>6. Contents' = new  BY <1>2, <1>4, <1>5, SeqEqual
<1> QED  BY <1>0, <1>1, <1>6 DEF Queue!Push, Queue!Full, new

LEMMA PushRoomMaps ==
  ASSUME RingInv, RingInv', NEW m \in Metric, PushRoom(m)
  PROVE  Queue!Push(m)
<1>0. size # Cap /\ size' = size + 1 /\ size \in Nat /\ overflow' = overflow /\ out' = out
  BY DEF PushRoom, RingInv, TypeOK
<1>1. /\ Contents \in Seq(Metric) /\ Len(Contents) = size
      /\ \A i \in 1 .. size : Contents[i] = Nth(i)
  BY ContentsIsSeq DEF ContentsReadFromHead
<1>2. /\ Contents' \in Seq(Metric) /\ Len(Contents') = size + 1
      /\ \A i \in 1 .. size + 1 : Contents'[i] = Nth(i)'
  BY <1>0, ContentsIsSeqNext DEF ContentsReadFromHead
<1> DEFINE new == Append(Contents, m)
<1>3. /\ new \in Seq(Metric) /\ Len(new) = size + 1 /\ new[size + 1] = m
      /\ \A i \in 1 .. size : new[i] = Contents[i]
  BY <1>0, <1>1
<1> HIDE DEF new
<1>4. ASSUME NEW i \in 1 .. size + 1 PROVE Contents'[i] = new[i]
  <2>1. CASE i = size + 1  BY <1>2, <1>3, <2>1, PushRoomContents
  <2>2. CASE i # size + 1
    <3>1. i \in 1 .. size  BY <1>0, <2>2
    <3> QED  BY <1>1, <1>2, <1>3, <3>1, PushRoomContents
  <2> QED  BY <2>1, <2>2
<1>5. Contents' = new  BY <1>2, <1>3, <1>4, SeqEqual
<1> QED  BY <1>0, <1>1, <1>5 DEF Queue!Push, Queue!Full, new

LEMMA DrainMaps ==
  ASSUME RingInv, RingInv', Drain
  PROVE  Queue!Drain
<1>1. Contents' \in Seq(Metric) /\ Len(Contents') = 0
  BY ContentsIsSeqNext DEF Drain, ContentsReadFromHead
<1>2. Contents' = <<>>  BY <1>1, EmptySeq
<1> QED  BY <1>2 DEF Drain, Queue!Drain

LEMMA StepMaps ==
  ASSUME RingInv, RingInv', [Next]_vars
  PROVE  [Queue!Next]_(Queue!vars)
<1>1. ASSUME NEW m \in Metric, Push(m) PROVE Queue!Next
  BY <1>1, PushFullMaps, PushRoomMaps DEF Push, Queue!Next
<1>2. CASE Drain  BY <1>2, DrainMaps DEF Queue!Next
<1>3. CASE UNCHANGED vars
  BY <1>3 DEF vars, Queue!vars, Contents, Nth
<1> QED  BY <1>1, <1>2, <1>3 DEF Next

(* The ring implements the drop-oldest queue: first in first out, nothing  *)
(* lost before it is full, then exactly the oldest, each loss counted      *)
(* (spooler.go Push, Drain, OverflowDropped).                              *)
THEOREM SpoolerRingIsQueue == Spec => RingIsQueue
<1>1. RingInv /\ RingInv' /\ [Next]_vars => [Queue!Next]_(Queue!vars)
  BY StepMaps
<1> QED
  BY <1>1, InitMaps, RingInvInit, RingInvStep, PTL
  DEF Spec, RingIsQueue, Queue!Spec
=============================================================================
