------------------------------ MODULE FlowHealth ------------------------------
(***************************************************************************)
(* What the controller makes of the metrics of one flow: the latest one    *)
(* (uistream.Store), the health last seen and the events about its changes *)
(* (controller.go emitFlowTransitions, at most one in 10 s) and the event  *)
(* bus they are published on.  The flow's metrics arrive over its agent's  *)
(* connections, one batch at a time on each: a connection that was         *)
(* replaced may still be handling its last.  Here a batch is one metric.   *)
(***************************************************************************)
EXTENDS Naturals

CONSTANTS
  Conn,    \* the agent's connections, that is, their read pumps
  MaxSeq,  \* bound of the model: sequence numbers 1..MaxSeq
  BusCap,  \* capacity of pumpEventsToUI's subscription (256 in the code)
  None     \* no metric

ASSUME HealthAssumption ==
  /\ MaxSeq \in Nat /\ BusCap \in Nat
  /\ None \notin [seq : 0..MaxSeq, st : {"healthy", "degraded", "critical"}]

VARIABLES
  latest,   \* store.latest of the flow
  highest,  \* history: the highest number ingested since the last Clear
  status,   \* flowStatus of the flow, "" for none
  recent,   \* its last event is less than 10 s old
  tpc,      \* onTelemetry: where each read pump that calls it stands
  batch,    \* the metric each handles
  replayed, \* whether it was replayed
  told,     \* history: the health last announced since resetFlows
  excused,  \* history: why `told` may differ from `status`
  bus       \* events in the subscription's channel

healthVars ==
  <<latest, highest, status, recent, tpc, batch, replayed, told, excused, bus>>

(* metricStatus sorts metrics into three by success, loss and latency.     *)
Status == {"healthy", "degraded", "critical"}
Metric == [seq : 1..MaxSeq, st : Status]

HealthInit ==
  /\ latest = None /\ highest = 0
  /\ status = "" /\ recent = FALSE
  /\ tpc = [c \in Conn |-> "idle"]
  /\ batch = [c \in Conn |-> None] /\ replayed = [c \in Conn |-> FALSE]
  /\ told = "" /\ excused = FALSE
  /\ bus = 0

(* The process ends: nothing of this is on disk.                           *)
HealthRestart ==
  /\ latest' = None /\ highest' = 0
  /\ status' = "" /\ recent' = FALSE
  /\ tpc' = [c \in Conn |-> "idle"]
  /\ batch' = [c \in Conn |-> None] /\ replayed' = [c \in Conn |-> FALSE]
  /\ told' = "" /\ excused' = FALSE
  /\ bus' = 0

-----------------------------------------------------------------------------
(* EventBus.Publish: a subscriber that lags loses the event.               *)
Publish == bus' = IF bus < BusCap THEN bus + 1 ELSE bus

(* A bug to compare with: the metric that arrived last is the latest.      *)
IngestAny(m) == latest' = m

(* Store.Ingest: an older number does not replace a newer one; a metric    *)
(* without number (only an agent's own UI has those) always does.          *)
Ingest(m) ==
  latest' = IF latest # None /\ m.seq # 0 /\ latest.seq > m.seq THEN latest ELSE m

(* The hub's read pump calls onTelemetry ...                               *)
OnTelemetry(c, m, replay) ==
  /\ tpc[c] = "idle"
  /\ Ingest(m)
  /\ highest' = IF m.seq > highest THEN m.seq ELSE highest
  /\ batch' = [batch EXCEPT ![c] = m]
  /\ replayed' = [replayed EXCEPT ![c] = replay]
  /\ tpc' = [tpc EXCEPT ![c] = "cast"]
  /\ UNCHANGED <<status, recent, told, excused, bus>>

(* onTelemetry returns.                                                    *)
Done(c) ==
  /\ tpc' = [tpc EXCEPT ![c] = "idle"]
  /\ batch' = [batch EXCEPT ![c] = None]
  /\ replayed' = [replayed EXCEPT ![c] = FALSE]

GoOn(c, pc) == tpc' = [tpc EXCEPT ![c] = pc] /\ UNCHANGED <<batch, replayed>>

(* ... which broadcasts the metrics and then looks for transitions, unless *)
(* they are replayed.                                                      *)
BeginBroadcast(c) ==
  /\ tpc[c] = "cast"
  /\ GoOn(c, "casting")
  /\ UNCHANGED <<latest, highest, status, recent, told, excused, bus>>

EndBroadcast(c) ==
  /\ tpc[c] = "casting"
  /\ IF replayed[c] THEN Done(c) ELSE GoOn(c, "judge")
  /\ UNCHANGED <<latest, highest, status, recent, told, excused, bus>>

(* A bug to compare with: a flow first seen critical is not announced.     *)
ExpectedAny(m) == status = ""

(* The first sighting of a healthy flow is no news.                        *)
Expected(m) == status = "" /\ m.st = "healthy"

Emitting == {c \in Conn : tpc[c] = "emit"}

(* emitFlowTransitions, under flowMu: record the health, and announce a    *)
(* change unless it is expected or the last event is too recent.           *)
Judge(c) ==
  /\ tpc[c] = "judge"
  /\ status' = batch[c].st
  /\ LET news == batch[c].st # status /\ ~Expected(batch[c]) IN
       /\ IF news /\ ~recent THEN GoOn(c, "emit") ELSE Done(c)
       /\ recent' = (recent \/ news)
       /\ excused' = IF news THEN recent \/ Emitting # {} ELSE excused
  /\ UNCHANGED <<latest, highest, told, bus>>

(* The event, after the unlock.                                            *)
EmitTransition(c) ==
  /\ tpc[c] = "emit"
  /\ Publish
  /\ told' = batch[c].st
  /\ Done(c)
  /\ UNCHANGED <<latest, highest, status, recent, excused>>

(* Ten seconds pass.  No goroutine takes as long from the decision to the  *)
(* event.                                                                  *)
ThrottleEnds ==
  /\ recent /\ Emitting = {}
  /\ recent' = FALSE
  /\ UNCHANGED <<latest, highest, status, tpc, batch, replayed, told, excused, bus>>

-----------------------------------------------------------------------------
(* Store.Clear and resetFlows, called by the handlers.                     *)
Clear ==
  /\ latest' = None
  /\ highest' = 0
  /\ UNCHANGED <<status, recent, tpc, batch, replayed, told, excused, bus>>

ResetFlows ==
  /\ status' = "" /\ recent' = FALSE
  /\ told' = "" /\ excused' = (Emitting # {})
  /\ UNCHANGED <<latest, highest, tpc, batch, replayed, bus>>

(* An event about anything else only enters the bus.                       *)
Emit ==
  /\ Publish
  /\ UNCHANGED <<latest, highest, status, recent, tpc, batch, replayed, told, excused>>

(* pumpEventsToUI takes an event.                                          *)
TakeEvent ==
  /\ bus > 0
  /\ bus' = bus - 1
  /\ UNCHANGED <<latest, highest, status, recent, tpc, batch, replayed, told, excused>>
=============================================================================
