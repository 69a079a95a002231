------------------------------ MODULE Telemetry ------------------------------
(***************************************************************************)
(* The telemetry path of one agent, from the prober that stamps a metric   *)
(* to the sequence watermark the controller keeps for the agent:           *)
(* transport/client.go (SubmitMetric, telemetryLoop, flushSpool,           *)
(* connectOnce), transport/pump.go (Send, writePump, shutdown) and         *)
(* transport/hub.go (onMessage, handleTelemetry).                          *)
(*                                                                         *)
(* Processes: the probers, each holding at most one stamped metric it has  *)
(* not handed over yet; the telemetry loop; the reconnect loop with its    *)
(* peer's write pump; one read pump of the hub per connection.  A wire is  *)
(* a TCP stream: in order, without holes, cut at any point.                *)
(***************************************************************************)
EXTENDS Naturals, Sequences, FiniteSets, SeqTrack

CONSTANTS
  Probers,      \* goroutines that may be inside SubmitMetric at once
  IntakeCap,    \* intakeBuffer, depth of telemetryIn
  MaxBatch,     \* maxBatch, metrics per TELEMETRY frame
  SpoolCap,     \* capacity of the spooler
  SendCap,      \* sendBuffer, frames a peer queues
  MaxSeq,       \* bound of the model: metrics stamped
  MaxConns,     \* bound of the model: connections dialled
  MaxRestarts   \* bound of the model: restarts of the agent process

ASSUME BoundsAssumption ==
  /\ {Probers, IntakeCap, MaxBatch, SpoolCap, MaxSeq, MaxConns} \subseteq Nat \ {0}
  /\ MaxRestarts \in Nat

(* flushSpool queues REGISTER and the whole spool before any writer runs:  *)
(* with a smaller queue connectOnce would block for ever (the shipped      *)
(* constants give 1 + 1000/200 frames against a queue of 256).             *)
ASSUME SendCapAssumption ==
  SendCap \in Nat /\ (SendCap - 1) * MaxBatch >= SpoolCap /\ SendCap > 1

VARIABLES
  inc,        \* incarnation of the agent process
  seq,        \* telemetrySeq of each incarnation
  held,       \* metrics stamped but not handed over (inside SubmitMetric)
  intake,     \* telemetryIn
  batch,      \* telemetryLoop's batch
  loopPc,     \* where telemetryLoop stands
  flushPeer,  \* the peer flush() read, 0 for none
  spool,      \* contents of the spooler, oldest first
  dropped,    \* OverflowDropped
  drained,    \* the slice flushSpool took out of the spool
  runPc,      \* where the reconnect loop stands
  conn,       \* number of the latest connection, 0 before the first
  peer,       \* c.peer, 0 for nil
  sendq,      \* per connection: the peer's send channel
  done,       \* per connection: the agent's peer has shut down
  wire,       \* per connection: frames written and not yet read by the hub
  up,         \* per connection: the stream still accepts frames
  named,      \* per connection: the hub has processed its REGISTER
  lastSeq,    \* hub.lastSeq of the agent
  received,   \* history: metrics the hub handed to its telemetry sink
  reported    \* history: numbers in a PACKET_SEQUENCE_MISSED gap

agentVars == <<inc, seq, held, intake, batch, loopPc, flushPeer>>
spoolVars == <<spool, dropped, drained>>
connVars  == <<runPc, conn, peer>>
netVars   == <<sendq, done, wire, up>>
hubVars   == <<named, lastSeq, received, reported>>
vars == <<agentVars, spoolVars, connVars, netVars, hubVars>>

Conns == 1 .. MaxConns

(* A metric is known by the process that stamped it and its number; only   *)
(* the number is looked at by the hub.                                     *)
Metrics == (0 .. MaxRestarts) \X (1 .. MaxSeq)
Stamped == {m \in Metrics : m[2] <= seq[m[1]]}

Elems(s) == {s[i] : i \in DOMAIN s}
Seqs(ms) == {m[2] : m \in ms}

Register == [kind |-> "REGISTER", metrics |-> <<>>, replay |-> FALSE]
Telemetry(ms, r) == [kind |-> "TELEMETRY", metrics |-> ms, replay |-> r]

Spool == INSTANCE SpoolQueue WITH
           Metric <- Metrics, Capacity <- SpoolCap,
           queue <- spool, out <- drained

(* A bug to compare with: a chunk starts on the last metric of the one     *)
(* before it.                                                              *)
ReplayOverlaps(ms) ==
  [k \in 1 .. (Len(ms) + MaxBatch - 1) \div MaxBatch |->
     Telemetry(SubSeq(ms, MaxOf({1, (k - 1) * MaxBatch}),
                      MinOf({k * MaxBatch, Len(ms)})), TRUE)]

(* flushSpool's frames: chunks of maxBatch metrics in FIFO order. *)
Replay(ms) ==
  [k \in 1 .. (Len(ms) + MaxBatch - 1) \div MaxBatch |->
     Telemetry(SubSeq(ms, (k - 1) * MaxBatch + 1,
                      MinOf({k * MaxBatch, Len(ms)})), TRUE)]

Init ==
  /\ inc = 0
  /\ seq = [i \in 0 .. MaxRestarts |-> 0]
  /\ held = {}
  /\ intake = <<>>
  /\ batch = <<>>
  /\ loopPc = "select"
  /\ flushPeer = 0
  /\ Spool!Init
  /\ runPc = "idle"
  /\ conn = 0
  /\ peer = 0
  /\ sendq = [c \in Conns |-> <<>>]
  /\ done = [c \in Conns |-> FALSE]
  /\ wire = [c \in Conns |-> <<>>]
  /\ up = [c \in Conns |-> FALSE]
  /\ named = [c \in Conns |-> FALSE]
  /\ lastSeq = 0
  /\ received = {}
  /\ reported = {}

-----------------------------------------------------------------------------
(* Probers: SubmitMetric.                                                  *)

(* The metric takes the next number of the process's counter. *)
Stamp ==
  /\ Cardinality(held) < Probers
  /\ Cardinality(Stamped) < MaxSeq
  /\ seq' = [seq EXCEPT ![inc] = @ + 1]
  /\ held' = held \cup {<<inc, seq[inc] + 1>>}
  /\ UNCHANGED <<inc, intake, batch, loopPc, flushPeer, spoolVars, connVars,
                 netVars, hubVars>>

(* A bug to compare with: the intake taken to have room when it is full. *)
SubmitNeverSpools(m) ==
  /\ m \in held
  /\ held' = held \ {m}
  /\ intake' = Append(intake, m)
  /\ UNCHANGED <<inc, seq, batch, loopPc, flushPeer, spoolVars, connVars,
                 netVars, hubVars>>

(* The select: into the intake channel if it has room, else straight into  *)
(* the spool, connected or not.                                            *)
Submit(m) ==
  /\ m \in held
  /\ held' = held \ {m}
  /\ IF Len(intake) < IntakeCap
       THEN /\ intake' = Append(intake, m)
            /\ UNCHANGED spoolVars
       ELSE /\ Spool!Push(m)
            /\ UNCHANGED intake
  /\ UNCHANGED <<inc, seq, batch, loopPc, flushPeer, connVars, netVars, hubVars>>

-----------------------------------------------------------------------------
(* telemetryLoop.                                                          *)

LoopTake ==
  /\ loopPc = "select"
  /\ intake # <<>>
  /\ Len(batch) < MaxBatch
  /\ batch' = Append(batch, Head(intake))
  /\ intake' = Tail(intake)
  /\ UNCHANGED <<inc, seq, held, loopPc, flushPeer, spoolVars, connVars,
                 netVars, hubVars>>

(* flush(), on a tick or on a full batch: the current peer is read once    *)
(* and used later.                                                         *)
FlushBegin ==
  /\ loopPc = "select"
  /\ batch # <<>>
  /\ flushPeer' = peer
  /\ loopPc' = IF peer = 0 THEN "spooling" ELSE "sending"
  /\ UNCHANGED <<inc, seq, held, intake, batch, spoolVars, connVars, netVars,
                 hubVars>>

(* One Push of the loop over the batch, with no peer or after a failed     *)
(* Send.                                                                   *)
FlushPush ==
  /\ loopPc = "spooling"
  /\ Spool!Push(Head(batch))
  /\ batch' = Tail(batch)
  /\ IF Len(batch) = 1
       THEN loopPc' = "select" /\ flushPeer' = 0
       ELSE UNCHANGED <<loopPc, flushPeer>>
  /\ UNCHANGED <<inc, seq, held, intake, connVars, netVars, hubVars>>

(* A bug to compare with: a batch that was queued is re-spooled as well. *)
SendQueuedRespools ==
  /\ loopPc = "sending"
  /\ Len(sendq[flushPeer]) < SendCap
  /\ sendq' = [sendq EXCEPT ![flushPeer] = Append(@, Telemetry(batch, FALSE))]
  /\ loopPc' = "spooling"
  /\ UNCHANGED <<inc, seq, held, intake, batch, flushPeer, spoolVars, connVars,
                 done, wire, up, hubVars>>

(* Peer.Send puts the frame into the queue.  The select of Send chooses    *)
(* at random when the peer is done and there is room too, and a peer that  *)
(* has ended still has its channel.                                        *)
SendQueued ==
  /\ loopPc = "sending"
  /\ Len(sendq[flushPeer]) < SendCap
  /\ sendq' = [sendq EXCEPT ![flushPeer] = Append(@, Telemetry(batch, FALSE))]
  /\ batch' = <<>>
  /\ loopPc' = "select"
  /\ flushPeer' = 0
  /\ UNCHANGED <<inc, seq, held, intake, spoolVars, connVars, done, wire, up,
                 hubVars>>

(* A bug to compare with: the batch is dropped when Send fails. *)
SendFailedDrops ==
  /\ loopPc = "sending"
  /\ done[flushPeer]
  /\ loopPc' = "select"
  /\ batch' = <<>>
  /\ flushPeer' = 0
  /\ UNCHANGED <<inc, seq, held, intake, spoolVars, connVars, netVars, hubVars>>

(* A bug to compare with: Send looks at done only while it has room. *)
SendFailedIfRoom ==
  /\ loopPc = "sending"
  /\ done[flushPeer]
  /\ Len(sendq[flushPeer]) < SendCap
  /\ loopPc' = "spooling"
  /\ UNCHANGED <<inc, seq, held, intake, batch, flushPeer, spoolVars, connVars,
                 netVars, hubVars>>

(* Peer.Send finds the peer done: the batch goes back to the spool.        *)
SendFailed ==
  /\ loopPc = "sending"
  /\ done[flushPeer]
  /\ loopPc' = "spooling"
  /\ UNCHANGED <<inc, seq, held, intake, batch, flushPeer, spoolVars, connVars,
                 netVars, hubVars>>

-----------------------------------------------------------------------------
(* The reconnect loop: connectOnce.                                        *)

(* A bug to compare with: a reconnect that forgets to flush the spool. *)
ConnectWithoutFlush ==
  /\ runPc = "idle"
  /\ conn < MaxConns
  /\ conn' = conn + 1
  /\ runPc' = "drained"
  /\ up' = [up EXCEPT ![conn + 1] = TRUE]
  /\ UNCHANGED <<agentVars, spoolVars, peer, sendq, done, wire, hubVars>>

(* A bug to compare with: the spool is read without being emptied. *)
ConnectKeepsSpool ==
  /\ runPc = "idle"
  /\ conn < MaxConns
  /\ conn' = conn + 1
  /\ runPc' = "drained"
  /\ drained' = spool
  /\ up' = [up EXCEPT ![conn + 1] = TRUE]
  /\ UNCHANGED <<agentVars, spool, dropped, peer, sendq, done, wire, hubVars>>

(* A successful dial, and flushSpool's Drain.  Nobody else knows the new   *)
(* peer yet, so what is queued on it before Publish is queued there.       *)
Connect ==
  /\ runPc = "idle"
  /\ conn < MaxConns
  /\ conn' = conn + 1
  /\ runPc' = "drained"
  /\ Spool!Drain
  /\ up' = [up EXCEPT ![conn + 1] = TRUE]
  /\ UNCHANGED <<agentVars, peer, sendq, done, wire, hubVars>>

(* A bug to compare with: the replay queued ahead of REGISTER. *)
PublishReplayFirst ==
  /\ runPc = "drained"
  /\ sendq' = [sendq EXCEPT ![conn] = Replay(drained) \o <<Register>>]
  /\ drained' = <<>>
  /\ peer' = conn
  /\ runPc' = "serving"
  /\ UNCHANGED <<agentVars, spool, dropped, conn, done, wire, up, hubVars>>

(* REGISTER and the replay are in the queue, in this order, when setPeer   *)
(* shows the peer to the telemetry loop; then Run starts the pumps.        *)
Publish ==
  /\ runPc = "drained"
  /\ sendq' = [sendq EXCEPT ![conn] = <<Register>> \o Replay(drained)]
  /\ drained' = <<>>
  /\ peer' = conn
  /\ runPc' = "serving"
  /\ UNCHANGED <<agentVars, spool, dropped, conn, done, wire, up, hubVars>>

(* writePump writes one queued frame; when the peer is done its select may *)
(* still choose the queue.                                                 *)
WriteFrame ==
  /\ runPc = "serving"
  /\ sendq[conn] # <<>>
  /\ up[conn]
  /\ wire' = [wire EXCEPT ![conn] = Append(@, Head(sendq[conn]))]
  /\ sendq' = [sendq EXCEPT ![conn] = Tail(@)]
  /\ UNCHANGED <<agentVars, spoolVars, connVars, done, up, hubVars>>

(* shutdown: SetMaster, a read error, a failed write, a missed heartbeat.  *)
Shutdown ==
  /\ runPc = "serving"
  /\ ~ done[conn]
  /\ done' = [done EXCEPT ![conn] = TRUE]
  /\ UNCHANGED <<agentVars, spoolVars, connVars, sendq, wire, up, hubVars>>

(* Run returns and the deferred setPeer(nil) runs.  The connection is      *)
(* closed: what is still queued will never be written.                     *)
EndServe ==
  /\ runPc = "serving"
  /\ done[conn]
  /\ runPc' = "idle"
  /\ peer' = 0
  /\ up' = [up EXCEPT ![conn] = FALSE]
  /\ UNCHANGED <<agentVars, spoolVars, conn, sendq, done, wire, hubVars>>

-----------------------------------------------------------------------------
(* The network, the hub's end of a connection, and the agent's host.       *)

(* The stream breaks, or the hub closes its end: an arbitrary tail of what *)
(* was in flight is lost and nothing more gets through.                    *)
Cut(c) ==
  /\ up[c] \/ wire[c] # <<>>
  /\ \E k \in 0 .. Len(wire[c]) :
       wire' = [wire EXCEPT ![c] = SubSeq(@, 1, k)]
  /\ up' = [up EXCEPT ![c] = FALSE]
  /\ UNCHANGED <<agentVars, spoolVars, connVars, sendq, done, hubVars>>

(* AgentConn.onMessage for a REGISTER. *)
HubRegister(c) ==
  /\ wire[c] # <<>>
  /\ Head(wire[c]).kind = "REGISTER"
  /\ named' = [named EXCEPT ![c] = TRUE]
  /\ wire' = [wire EXCEPT ![c] = Tail(@)]
  /\ UNCHANGED <<agentVars, spoolVars, connVars, sendq, done, up, lastSeq,
                 received, reported>>

(* A bug to compare with: the watermark is the last number of the batch.   *)
HubTelemetryLastWins(c) ==
  /\ wire[c] # <<>>
  /\ Head(wire[c]).kind = "TELEMETRY"
  /\ wire' = [wire EXCEPT ![c] = Tail(@)]
  /\ LET f  == Head(wire[c])
         ms == Elems(f.metrics)
     IN IF named[c]
          THEN /\ received' = received \cup ms
               /\ reported' = reported \cup Missed(lastSeq, Seqs(ms), f.replay)
               /\ lastSeq' = f.metrics[Len(f.metrics)][2]
          ELSE UNCHANGED <<received, reported, lastSeq>>
  /\ UNCHANGED <<agentVars, spoolVars, connVars, sendq, done, up, named>>

(* A bug to compare with: a replayed batch does not move the watermark.    *)
HubTelemetryReplayIgnored(c) ==
  /\ wire[c] # <<>>
  /\ Head(wire[c]).kind = "TELEMETRY"
  /\ wire' = [wire EXCEPT ![c] = Tail(@)]
  /\ LET f  == Head(wire[c])
         ms == Elems(f.metrics)
     IN IF named[c]
          THEN /\ received' = received \cup ms
               /\ reported' = reported \cup Missed(lastSeq, Seqs(ms), f.replay)
               /\ lastSeq' = IF f.replay THEN lastSeq
                                         ELSE NewMark(lastSeq, Seqs(ms))
          ELSE UNCHANGED <<received, reported, lastSeq>>
  /\ UNCHANGED <<agentVars, spoolVars, connVars, sendq, done, up, named>>

(* AgentConn.onMessage for a TELEMETRY frame: handleTelemetry, which       *)
(* ignores a connection that has not said who it is.                       *)
HubTelemetry(c) ==
  /\ wire[c] # <<>>
  /\ Head(wire[c]).kind = "TELEMETRY"
  /\ wire' = [wire EXCEPT ![c] = Tail(@)]
  /\ LET f  == Head(wire[c])
         ms == Elems(f.metrics)
     IN IF named[c]
          THEN /\ received' = received \cup ms
               /\ reported' = reported \cup Missed(lastSeq, Seqs(ms), f.replay)
               /\ lastSeq' = NewMark(lastSeq, Seqs(ms))
          ELSE UNCHANGED <<received, reported, lastSeq>>
  /\ UNCHANGED <<agentVars, spoolVars, connVars, sendq, done, up, named>>

(* The agent process dies and starts again with an empty memory; the       *)
(* kernel closes its connection.                                           *)
Restart ==
  /\ inc < MaxRestarts
  /\ inc' = inc + 1
  /\ held' = {}
  /\ intake' = <<>>
  /\ batch' = <<>>
  /\ loopPc' = "select"
  /\ flushPeer' = 0
  /\ spool' = <<>>
  /\ dropped' = 0
  /\ drained' = <<>>
  /\ runPc' = "idle"
  /\ peer' = 0
  /\ done' = [c \in Conns |-> done[c] \/ c <= conn]
  /\ up' = [c \in Conns |-> FALSE]
  /\ UNCHANGED <<seq, conn, sendq, wire, hubVars>>

Next ==
  \/ Stamp
  \/ \E m \in Metrics : Submit(m)
  \/ LoopTake
  \/ FlushBegin
  \/ FlushPush
  \/ SendQueued
  \/ SendFailed
  \/ Connect
  \/ Publish
  \/ WriteFrame
  \/ Shutdown
  \/ EndServe
  \/ \E c \in Conns : Cut(c) \/ HubRegister(c) \/ HubTelemetry(c)
  \/ Restart

Spec == Init /\ [][Next]_vars

-----------------------------------------------------------------------------
(* Every goroutine that can step keeps stepping; a broken connection is    *)
(* noticed (failed write, read error or the 15 s read deadline); the       *)
(* reconnect loop retries for ever and its dial succeeds in the end.  No   *)
(* fairness is asked of Stamp, Cut, Restart or a shutdown of a healthy     *)
(* link.                                                                   *)
Fairness ==
  /\ WF_vars(\E m \in Metrics : Submit(m))
  /\ WF_vars(LoopTake)
  /\ WF_vars(FlushBegin)
  /\ WF_vars(FlushPush)
  /\ WF_vars(SendQueued \/ SendFailed)
  /\ WF_vars(Connect)
  /\ WF_vars(Publish)
  /\ WF_vars(WriteFrame)
  /\ WF_vars(Shutdown /\ ~ up[conn])
  /\ WF_vars(EndServe)
  /\ \A c \in Conns : WF_vars(HubRegister(c) \/ HubTelemetry(c))

FairSpec == Spec /\ Fairness

-----------------------------------------------------------------------------
Frame == {Register} \cup [kind : {"TELEMETRY"}, metrics : Seq(Metrics),
                          replay : BOOLEAN]

AgentTypes ==
  /\ inc \in 0 .. MaxRestarts
  /\ seq \in [0 .. MaxRestarts -> 0 .. MaxSeq]
  /\ held \subseteq Metrics /\ Cardinality(held) <= Probers
  /\ intake \in Seq(Metrics) /\ Len(intake) <= IntakeCap
  /\ batch \in Seq(Metrics) /\ Len(batch) <= MaxBatch
  /\ loopPc \in {"select", "spooling", "sending"}
  /\ flushPeer \in 0 .. conn
  /\ loopPc = "sending" => flushPeer # 0 /\ batch # <<>>
  /\ loopPc = "spooling" => batch # <<>>

SpoolTypes ==
  /\ spool \in Seq(Metrics) /\ Len(spool) <= SpoolCap
  /\ dropped \in Nat
  /\ drained \in Seq(Metrics) /\ Len(drained) <= SpoolCap

ConnTypes ==
  /\ runPc \in {"idle", "drained", "serving"}
  /\ conn \in 0 .. MaxConns
  /\ runPc # "idle" => conn > 0
  /\ peer = IF runPc = "serving" THEN conn ELSE 0

NetTypes ==
  /\ sendq \in [Conns -> Seq(Frame)] /\ \A c \in Conns : Len(sendq[c]) <= SendCap
  /\ done \in [Conns -> BOOLEAN]
  /\ wire \in [Conns -> Seq(Frame)]
  /\ up \in [Conns -> BOOLEAN]

HubTypes ==
  /\ named \in [Conns -> BOOLEAN]
  /\ lastSeq \in 0 .. MaxSeq
  /\ received \subseteq Metrics
  /\ reported \subseteq 1 .. MaxSeq

TypeOK == AgentTypes /\ SpoolTypes /\ ConnTypes /\ NetTypes /\ HubTypes

-----------------------------------------------------------------------------
(* Where a metric can be.                                                  *)

MetricsIn(frames) == UNION {Elems(frames[i].metrics) : i \in DOMAIN frames}

(* Frames the write pump may still write. *)
Queued == IF runPc = "serving" THEN sendq[conn] ELSE <<>>

(* What the hub can still read on a connection, in order. *)
Stream(c) == wire[c] \o (IF c = conn /\ up[c] THEN Queued ELSE <<>>)

InLoop == held \cup Elems(intake) \cup Elems(batch)
InSpool == Elems(spool) \cup Elems(drained)
InFlight == MetricsIn(Queued) \cup UNION {MetricsIn(wire[c]) : c \in Conns}

Present == InLoop \cup InSpool \cup InFlight \cup received
Lost == Stamped \ Present

Place == {"held", "intake", "batch", "spool", "drained", "queue", "received"} \X {0}
           \cup {"wire"} \X Conns

At(p) ==
  CASE p[1] = "held" -> held
    [] p[1] = "intake" -> Elems(intake)
    [] p[1] = "batch" -> Elems(batch)
    [] p[1] = "spool" -> Elems(spool)
    [] p[1] = "drained" -> Elems(drained)
    [] p[1] = "queue" -> MetricsIn(Queued)
    [] p[1] = "wire" -> MetricsIn(wire[p[2]])
    [] p[1] = "received" -> received

Apart == \A p, q \in Place : p # q => At(p) \cap At(q) = {}

Distinct(ms) == \A i, j \in DOMAIN ms : i # j => ms[i] # ms[j]

DistinctIn(frames) ==
  /\ \A i \in DOMAIN frames : Distinct(frames[i].metrics)
  /\ \A i, j \in DOMAIN frames :
       i # j => Elems(frames[i].metrics) \cap Elems(frames[j].metrics) = {}

NoRepeats ==
  /\ Distinct(intake) /\ Distinct(batch) /\ Distinct(spool) /\ Distinct(drained)
  /\ DistinctIn(Queued)
  /\ \A c \in Conns : DistinctIn(wire[c])

(* Whatever fails between SubmitMetric and handleTelemetry (a Send that    *)
(* reports an error, a batch spooled while the spool is being drained, a   *)
(* connection cut with frames in flight), no metric is ever in two places  *)
(* or twice in one: a re-spooled metric was not sent, and the controller   *)
(* counts none twice.                                                      *)
NeverTwice == Present \subseteq Stamped /\ Apart /\ NoRepeats

Aboard == InLoop \cup InSpool \cup MetricsIn(Queued)
Sent == UNION {MetricsIn(wire[c]) : c \in Conns}

Path == INSTANCE Delivery WITH
          Metric <- Metrics, stamped <- Stamped, aboard <- Aboard, sent <- Sent,
          delivered <- received

(* Every run of the telemetry path is one of Delivery: a metric is stamped *)
(* once, sent at most once and delivered at most once, and neither a sent  *)
(* nor a lost metric comes back (connectOnce's flush of the spool, flush's *)
(* re-spooling of a batch that Send refused).                              *)
AtMostOnce == Path!Spec

Rank(f) == IF f.kind = "REGISTER" THEN 0 ELSE IF f.replay THEN 1 ELSE 2

InOrder(stream, known) ==
  /\ \A i, j \in DOMAIN stream : i < j => Rank(stream[i]) <= Rank(stream[j])
  /\ \A i \in DOMAIN stream : (stream[i].kind = "REGISTER") <=> (i = 1 /\ ~ known)

(* The order connectOnce sets up in the queue holds all the way: on each   *)
(* connection the hub reads REGISTER first, then replayed batches, then    *)
(* live ones, and so never meets telemetry of a connection without a name. *)
RegisterReplayLive == \A c \in Conns : InOrder(Stream(c), named[c])

Below(M, N) == \A m \in M, n \in N : m[2] < n[2]

Ascending(ms) == \A a, b \in DOMAIN ms : a < b => ms[a][2] < ms[b][2]

Rising(frames) ==
  /\ \A i \in DOMAIN frames : Ascending(frames[i].metrics)
  /\ \A i, j \in DOMAIN frames :
       i < j => Below(Elems(frames[i].metrics), Elems(frames[j].metrics))

(* The comment in connectOnce on the order of numbers, for an agent whose  *)
(* metrics come from one goroutine and never saturate the intake: what the *)
(* hub reads on one connection, replay and live, has rising numbers.       *)
RisingOnConnection ==
  Probers = 1 /\ IntakeCap >= MaxSeq => \A c \in Conns : Rising(Stream(c))

(* handleTelemetry's watermark is the highest number ever handed to the    *)
(* sink, whatever order batches of old and new connections arrive in, and  *)
(* every gap ever reported lies below it.                                  *)
WatermarkIsHighest ==
  /\ lastSeq = IF received = {} THEN 0 ELSE MaxOf(Seqs(received))
  /\ \A n \in reported : n < lastSeq

(* A gap report is news: it names a number above everything received, so   *)
(* no number is reported twice and none that has already arrived.          *)
ReportsAreNews ==
  [][\A n \in reported' \ reported :
       /\ n > lastSeq
       /\ n \notin Seqs(received')]_vars

(* The only ways to lose a metric: the full spool forgets its oldest, the  *)
(* peer's queue dies with its connection, the stream is cut, the process   *)
(* restarts.  The telemetry loop itself never drops a batch (flush).       *)
LossNeedsCause ==
  [][\A m \in Lost' \ Lost :
       \/ m \in Elems(spool) /\ m = Head(spool) /\ dropped' = dropped + 1
       \/ m \in MetricsIn(Queued) /\ runPc' = "idle"
       \/ m \in Elems(batch) /\ loopPc = "sending" /\ done[flushPeer]
                            /\ sendq' # sendq
       \/ \E c \in Conns : m \in MetricsIn(wire[c]) /\ ~ up'[c]
       \/ inc' # inc]_vars

(* client.go says of connectOnce's order "with no spurious sequence-gap    *)
(* events": a number reported missing would be one that is really lost.    *)
NoSpuriousMissed ==
  \A m \in Stamped : m[1] = inc /\ m[2] \in reported => m \in Lost

-----------------------------------------------------------------------------
(* SubmitMetric never blocks and neither flush nor the pumps get stuck: a  *)
(* metric does not stay for ever in the intake, the batch, a peer's queue  *)
(* or a wire; it is received, waits in the spool, or is lost.              *)
MetricsSettle ==
  \A m \in Metrics :
    m \in InLoop \cup InFlight \cup Elems(drained)
      ~> m \in received \cup Elems(spool) \cup Lost

(* A metric that waits in the spool while the agent is disconnected leaves *)
(* it with the next connection (flushSpool), if there is one.              *)
SpoolIsReplayed ==
  \A m \in Metrics :
    m \in Elems(spool) /\ runPc = "idle" /\ conn < MaxConns
      ~> m \notin Elems(spool)
=============================================================================
