------------------------------- MODULE Spooler -------------------------------
(***************************************************************************)
(* internal/spooler/spooler.go: the fixed-capacity ring the agent keeps    *)
(* its metrics in while the control plane is down.  Push, Drain, Len and   *)
(* OverflowDropped each hold s.mu from their first to their last           *)
(* statement, so each mutating method is one atomic action whatever        *)
(* goroutines call it.                                                     *)
(***************************************************************************)
EXTENDS Naturals, Sequences

CONSTANTS
  Metric,        \* the metrics that may be pushed
  NoMetric,      \* zero value of a slot that was never written
  Cap,           \* len(s.buf)
  MaxOverflow    \* bound of the model on the uint64 overflow counter

ASSUME CapAssumption == Cap \in Nat \ {0}
ASSUME MaxOverflowAssumption == MaxOverflow \in Nat
ASSUME NoMetricAssumption == NoMetric \notin Metric

VARIABLES
  buf,       \* the slots, index 0 .. Cap-1
  head,      \* index of the oldest element
  size,      \* number of valid elements
  overflow,  \* metrics overwritten over the spooler's lifetime
  out        \* the slice the latest Drain returned

vars == <<buf, head, size, overflow, out>>

Slots == 0 .. Cap - 1

(* New: an empty ring of zeroed slots. *)
Init ==
  /\ buf = [i \in Slots |-> NoMetric]
  /\ head = 0
  /\ size = 0
  /\ overflow = 0
  /\ out = <<>>

(* The slot after the newest element, which is the oldest one's when full. *)
TailSlot == (head + size) % Cap

(* The i-th element in FIFO order, counting from 1. *)
Nth(i) == buf[(head + (i - 1)) % Cap]

Contents == [i \in 1 .. size |-> Nth(i)]

(* A bug to compare with: the head runs off the end of the slots. *)
PushFullNoWrap(m) ==
  /\ size = Cap
  /\ overflow < MaxOverflow
  /\ buf' = [buf EXCEPT ![TailSlot] = m]
  /\ head' = head + 1
  /\ overflow' = overflow + 1
  /\ UNCHANGED <<size, out>>

(* A bug to compare with: the head stays on the slot just overwritten. *)
PushFullKeepsHead(m) ==
  /\ size = Cap
  /\ overflow < MaxOverflow
  /\ buf' = [buf EXCEPT ![TailSlot] = m]
  /\ overflow' = overflow + 1
  /\ UNCHANGED <<head, size, out>>

(* Push on a full ring: overwrite the oldest and step past it. *)
PushFull(m) ==
  /\ size = Cap
  /\ overflow < MaxOverflow
  /\ buf' = [buf EXCEPT ![TailSlot] = m]
  /\ head' = (head + 1) % Cap
  /\ overflow' = overflow + 1
  /\ UNCHANGED <<size, out>>

(* Push with room left. *)
PushRoom(m) ==
  /\ size # Cap
  /\ buf' = [buf EXCEPT ![TailSlot] = m]
  /\ size' = size + 1
  /\ UNCHANGED <<head, overflow, out>>

Push(m) == PushFull(m) \/ PushRoom(m)

(* Drain copies the elements out in FIFO order and empties the ring. The   *)
(* slots keep their old values; an empty ring returns nil.                 *)
Drain ==
  /\ out' = Contents
  /\ head' = 0
  /\ size' = 0
  /\ UNCHANGED <<buf, overflow>>

Next ==
  \/ \E m \in Metric : Push(m)
  \/ Drain

Spec == Init /\ [][Next]_vars

-----------------------------------------------------------------------------
(* The indices stay inside the ring, and every live slot holds a metric    *)
(* that was pushed: none is the zero value of a slot never written.        *)
TypeOK ==
  /\ buf \in [Slots -> Metric \cup {NoMetric}]
  /\ head \in Slots
  /\ size \in 0 .. Cap
  /\ overflow \in Nat
  /\ out \in Seq(Metric)

LiveSlotsWritten == \A i \in 1 .. size : Nth(i) \in Metric

(***************************************************************************)
(* The ring is a drop-oldest queue: its contents read from head, the       *)
(* overflow counter and the value Drain returns behave as SpoolQueue says. *)
(***************************************************************************)
Queue == INSTANCE SpoolQueue WITH
           Capacity <- Cap, queue <- Contents, dropped <- overflow

(* Every run of Push and Drain on the ring is a run of the drop-oldest     *)
(* queue: FIFO order, nothing lost before the ring is full, then exactly   *)
(* the oldest, each loss counted (spooler.go Push, Drain).                 *)
RingIsQueue == Queue!Spec
=============================================================================
