------------------------------ MODULE Delivery ------------------------------
(***************************************************************************)
(* What the telemetry path of an agent promises to whoever reads the       *)
(* metrics at the controller: at most once, and only forward.  A metric is *)
(* stamped once; it is aboard the agent's process until it is sent, and on *)
(* a connection until it is delivered; on the way it may be lost, and then *)
(* it is gone for good.  Nothing sent comes back aboard to be sent again.  *)
(* Module Telemetry implements this with its queues, its spool and its     *)
(* connections.                                                            *)
(***************************************************************************)
EXTENDS Naturals

CONSTANT Metric    \* what is delivered

VARIABLES
  stamped,    \* metrics that got their number (SubmitMetric)
  aboard,     \* metrics in the agent's process: loop, spool, send queue
  sent,       \* metrics written to a connection and not yet read
  delivered   \* metrics handed to the telemetry sink (onTelemetry)

vars == <<stamped, aboard, sent, delivered>>

Init == stamped = {} /\ aboard = {} /\ sent = {} /\ delivered = {}

(* A metric that never was before. *)
Stamp ==
  \E m \in Metric \ stamped :
    /\ stamped' = stamped \cup {m}
    /\ aboard' = aboard \cup {m}
    /\ UNCHANGED <<sent, delivered>>

(* The metrics of a frame are written. *)
Transmit ==
  \E M \in SUBSET aboard :
    /\ aboard' = aboard \ M
    /\ sent' = sent \cup M
    /\ UNCHANGED <<stamped, delivered>>

(* The metrics of a frame are read and reach the sink, all of them. *)
Deliver ==
  \E M \in SUBSET sent :
    /\ sent' = sent \ M
    /\ delivered' = delivered \cup M
    /\ UNCHANGED <<stamped, aboard>>

(* The spool overflows, a queue ends with its connection, the process dies. *)
Forget ==
  /\ aboard' \in SUBSET aboard
  /\ UNCHANGED <<stamped, sent, delivered>>

(* A connection is cut. *)
Break ==
  /\ sent' \in SUBSET sent
  /\ UNCHANGED <<stamped, aboard, delivered>>

Next == Stamp \/ Transmit \/ Deliver \/ Forget \/ Break

Spec == Init /\ [][Next]_vars
=============================================================================
