----------------------------- MODULE SpoolQueue -----------------------------
(***************************************************************************)
(* What internal/spooler promises its callers: a FIFO of metrics that      *)
(* holds at most Capacity of them, forgets the OLDEST one to make room for *)
(* a new one, and counts what it forgot.  The ring buffer that implements  *)
(* it is module Spooler; module Telemetry uses the operators below as the  *)
(* agent's spool.                                                          *)
(***************************************************************************)
EXTENDS Naturals, Sequences

CONSTANTS
  Metric,    \* what is buffered
  Capacity   \* len(s.buf), fixed by New; at least 1

VARIABLES
  queue,     \* buffered metrics, oldest first
  dropped,   \* number of metrics forgotten to make room (OverflowDropped)
  out        \* what the latest Drain returned

vars == <<queue, dropped, out>>

Full == Len(queue) = Capacity

Init ==
  /\ queue = <<>>
  /\ dropped = 0
  /\ out = <<>>

(* A push always keeps the new metric; a full queue gives up its head. *)
Push(m) ==
  /\ IF Full
       THEN /\ queue' = Append(Tail(queue), m)
            /\ dropped' = dropped + 1
       ELSE /\ queue' = Append(queue, m)
            /\ UNCHANGED dropped
  /\ UNCHANGED out

(* A drain hands over everything at once, oldest first. *)
Drain ==
  /\ out' = queue
  /\ queue' = <<>>
  /\ UNCHANGED dropped

Next ==
  \/ \E m \in Metric : Push(m)
  \/ Drain

Spec == Init /\ [][Next]_vars
=============================================================================
