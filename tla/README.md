# A TLA+ model of netmesh

netmesh measures a mesh of hosts. Agents probe one another over UDP, TCP and
ICMP as a controller tells them to, and report what they measured over one
websocket each. This directory holds TLA+ modules for the parts of the Go code
whose correctness depends on order, concurrency and failure, TLC configurations
that check them on small instances, and TLAPS proofs of what matters most for
every size. Paths below are relative to the repository.

Contents: [the system](#the-system), [the modules](#the-modules),
[the runs](#the-runs), [what the runs refute](#what-the-runs-refute),
[fairness](#fairness), [what is proved](#what-is-proved),
[abstractions](#abstractions), [not modelled](#not-modelled),
[plan](#plan).

## The system

| component | state | operations | talks to |
|---|---|---|---|
| spooler (`internal/spooler`) | ring buffer, head, size, overflow counter | `Push`, `Drain` under `s.mu` | called by the agent's client |
| agent client (`transport/client.go`) | `telemetrySeq`, intake channel, batch, `peer`, master's address | `SubmitMetric`, `telemetryLoop`, `Run`/`connectOnce`, `flushSpool`, `SetMaster` | spooler, its peer, the hub |
| peer (`transport/pump.go`) | send channel, `done` | `Send`, `Close`, read and write pump, heartbeat | one websocket; used at both ends |
| hub (`transport/hub.go`) | `agents`, `lastSeq`, one `AgentConn` per connection | `ServeAgent`, `register`, `unregister`, `handleTelemetry`, `SendTo`, `Broadcast`, `Evict` | peers; sinks of the controller |
| controller (`controller/controller.go`) | `running`, `curInterval`, `applyMu`, last status of each flow | HTTP handlers, `applyFlows`, `buildFlowPlans`, event emission | hub, stores, UI |
| stores (`controller/admin.go`, `flows.go`) | settings per agent, flows, two JSON files | update, upsert, remove, add, clear, save, load | controller |
| transitions (`controller.go:586-690`) | health and last event of each flow | `emitFlowTransitions`, `resetFlows`, `meshSummaryLoop` | metrics in, events out |
| agent (`agent/agent.go`) | its flows | `onControl`, local UI, `/api/join`, `runDiag` | client, engine, responder |
| data plane (`dataplane/*.go`) | running test, bound ports | engine `Start`/`Stop`, responder `Serve`, probers | sockets, client |
| UI fan-out (`uistream`, `logging`) | browser sessions, latest metric per flow, event subscribers | `Add`, `Remove`, `Broadcast`, `Ingest`, `Clear`, `Publish` | browsers |
| diagnostics (`diag`) | a child process, its two pipes, its output budget | `Run` | agent, controller |
| auth, config, `cmd/netmesh`, `web` | none that changes | | |

Goroutines: on the agent one prober per flow, the telemetry loop, the reconnect
loop with two pumps, and the goroutines of the responder; on the controller
two per connection (`ServeAgent` runs the read pump itself), one per HTTP
request, one per browser, and the event pump. They meet in Go channels, in a
few mutexes and in atomics that are read before a lock is taken.

What makes each part correct:

* spooler: FIFO; nothing lost before it is full; then exactly the oldest, counted.
* telemetry path: a metric reaches the controller at most once, is lost only for
  a reason one can name, and its number is judged against the right watermark;
  no gap is reported that is none.
* registry: an agent in session can be addressed; the end of an old session does
  not take away the new one; nobody is blocked for ever by an agent that is gone.
* test lifecycle: frames of two applies do not mix on a connection; when all is
  quiet the agents run what the stores say, at the controller's interval, and
  nothing when it says stopped.
* link: the agent is connected to the controller it was last pointed at, or on
  its way there.
* data plane: one test and one binding at a time; stopping waits for everything,
  and ends.
* diagnostics: the output stays inside its budget; every request is answered by an
  end of output.
* stores: at rest, the file is what memory holds, if it could be written.
* UI: a session that ends goes away with its goroutines, nobody sends to it after
  that; the latest metric is the latest; the last event about a flow is true.

`PROJECT.json` lists, under "hazards", where in the code each of these could go
wrong in a way a test would hardly reach, and the properties aimed at it.

## The modules

    SpoolQueue        the drop-oldest queue a spooler promises (abstract)
      ^ implemented by            ^ used as the agent's spool by
    Spooler                     Telemetry ------- SeqTrack
      | SpoolerProofs             | TelemetryProofs | SeqTrackProofs
      | MCSpooler                 | MCTelemetry
                                  v implements
                                Delivery          at most once, only forward (abstract)
    HubRegistry                 TestControl
      | HubRegistryProofs         | TestControlProofs
      | MCHubRegistry             | MCTestControl
    AgentLink  AgentDataplane  DiagRun        Stores  UiSessions  FlowHealth
          \         |         /                    \       |       /
                AgentNode                        ControllerNode
                  | AgentNodeProofs                | ControllerNodeProofs
                  | MCAgentNode                    | MCControllerNode

**SpoolQueue** says what a spooler does in terms of a sequence. **Spooler** is
the ring: `buf`, `head`, `size`, `overflow` as in the struct, `out` for what the
latest `Drain` returned. Each method holds the mutex throughout and is one
action (`PushFull`, `PushRoom`, `Drain`). `RingIsQueue` is the refinement, with
`Contents`, the slots read from the head, as the abstract queue.

**Telemetry** is the way of one agent's metrics: `Stamp` and `Submit` are the
two halves of `SubmitMetric` (number taken; metric handed to the intake, or to
the spool when that is full), and a prober may be held up between them.
`LoopTake`, `FlushBegin`, `FlushPush`, `SendQueued`, `SendFailed` are
`telemetryLoop`, which reads the current peer in one step and uses it in a later
one. `Connect` is a turn of `Run` up to `flushSpool`'s `Drain`; `Publish`
queues REGISTER and the replay and shows the peer to the telemetry loop;
`WriteFrame`, `Shutdown`, `EndServe` are the peer's pumps and the end of
`connectOnce`. `Cut` breaks the TCP stream anywhere; the hub reads what is left
of old connections whenever it likes (`HubRegister`, `HubTelemetry`). `Restart`
gives the agent a fresh memory. The spool is SpoolQueue, which Spooler is proved
to implement. **Delivery** is what all of that promises whoever reads the metrics
at the controller, in four sets: stamped, aboard the agent, sent, delivered. A
metric moves forward through them or is forgotten; there is no step back.
`AtMostOnce` is the refinement, with `Aboard` (loop, spool and send queue) and
`Sent` (what is on the connections) computed from Telemetry's queues.
**SeqTrack** is the arithmetic of `handleTelemetry` in closed form
(`NewMark`, `Missed`); `MCTelemetry` writes the code's loop over the sorted
numbers as `Walk` and TLC compares the two on every batch of numbers up to 6,
every watermark up to 6, replay or not; `WalkIsClosedForm` proves it for all.

**HubRegistry** is the other half of `hub.go`: `Dial` and `AgentDrop` are the
agents; `HubRegister`, `QueueAck`, `WriteFrame`, `DetectLoss`, `Return` and
`Unregister` are a `ServeAgent` goroutine with its pumps; `LookupSend`,
`LookupBroadcast`, `LookupEvict` find connections under `h.mu`, and `SendOne`,
`EvictClose` use them afterwards, however stale they have become. A queued frame
is represented by whom it is for.

**TestControl** is the test lifecycle. A handler is a process with a program
counter: a request changes a store (`RequestFlow`, `RequestMesh` with `MeshAdd`,
`RequestEnable`) or `running` (`RequestStart`, `RequestStop`), then reads
`running` and `curInterval` without a lock (`Check`, `Load`), and goes through
`applyFlows` (`Lock` to `Unlock`), which reads the registry twice and each
enabled flag up to three times. STOP broadcasts without the lock. Agents read
their frames one at a time (`OnFlowPlan`, `OnTestStart`, `OnTestStop`).
Connections end and come back (`Disconnect`, `Reconnect`), losing what was on
its way. `nrun`, `run`, `planRun` number the applies and `changed` remembers
that an agent came or went since the registry was last read; they are history.

**AgentNode** composes what runs inside one agent. Its parts have no
specification of their own, for what matters is how they meet: the read pump that
may return is the one that handles a frame, so the link waits for the handler, and
the reconnect loop for the link.

* **AgentLink** is `client.go`'s `Run` and `connectOnce` as a program counter:
  `Top` reads the address, `DialOk`/`DialFails`, `Recheck` is the second look at
  the address (line 235), `SetPeer` publishes the peer (line 260), `WriterEnds`,
  `ReaderEnds`, `EndServe` take it down (the read pump may end as soon as the peer
  is done, as its PONG is then refused), `WaitOver` is the back-off with
  `nextBackoff`. `SetMasterAddr` and `ClosePeer` are the two halves of
  `SetMaster`, run by a goroutine of `/api/join` between any two of those steps.
* **AgentDataplane** is `onControl` with what it calls: `StopCancel` and `StopJoin`
  are `Engine.Stop`, `StartCancel` and `Launch` the rest of `Engine.Start`,
  `Unbind`, `Drain`, `Bind` are `Responder.Serve`, `SendReport` the PORT_STATUS.
  The goroutines these start are sets of records (`probers`, `socks`, `conns`)
  with the context each was given; a wait group is the emptiness of the set.
  `EchoFails` is a listener's goroutine giving up on an error: the listener stays
  open, unanswered and unnoticed, until the next rebind. What PORT_STATUS promises,
  and `ReportHolds` says, is an open listener.
  `Terminate`, `ShutCancel`, `ShutJoin` are the end of `Agent.Run`, which stops the
  engine while the read pump may be starting it.
* **DiagRun** is `diag.Run`: the child that blocks on a full pipe, a goroutine per
  pipe taking its share of the budget under `budgetMu`, the timeout's kill, the
  EOF chunk.

**ControllerNode** composes what runs inside the controller around the hub. A
handler is the list of calls it has yet to make (`todo`): START and STOP reset the
transitions, clear the latest metrics and emit their event; the edits of flows
change and save the flows and clear the latest metrics, in the code's order, any
number of them interleaved. `running` and what is sent to the agents are in
TestControl. The read pumps of the agent's connections (`Conn`: an old one may
still be at its last frame when the new one is in session) each carry a metric
through `onTelemetry`; another goroutine (`pump`) carries events to the
browsers. `Restart` ends the process and starts it from its files.

* **Stores**: what a store holds is represented by the number of the change that
  made it so. `ChangeFlows` and `SaveLocked` are one critical section, with
  the truncated file (`Torn`) in between; `ChangeSettings`, `Marshal`, `Truncate`,
  `Write` are the four steps of an update of the settings, of which only the first
  excludes others. `Load` reads a file that is no JSON as the empty store.
  Writing a file may fail, before or after its truncation, from one `DiskTurns` to
  the next; the code looks at no error of `os.WriteFile`, and `funsaved`, `aunsaved`
  remember that the latest write failed. They are history.
* **UiSessions** is `uistream.Hub` with `serveUI`: `Broadcast`, `Offer`, `EndCast`
  are one broadcast, holding the read lock (`rlock`) with `visit` the sessions its
  loop has left; `Open`, `Range`, `WriteJSON`, `WriterRemoves` the session's
  writer, `ReadFails`, `ReaderRemoves` its reader.
* **FlowHealth**: `Ingest` and `Clear` of the latest-metric store, `Judge` and
  `EmitTransition` of `emitFlowTransitions` on either side of its unlock,
  `ResetFlows`, the event bus with its subscriber's channel. `told`, `excused` and
  `highest` are history.

Every module has operators under "A bug to compare with": plausible bugs in the
definition after them. Replacing the definition by the bug violates the property
`PROJECT.json` names, which is how each property is known to say something.

## The runs

Bounds are in the configurations. Distinct states are approximate.

| run | instance | states | checks |
|---|---|---|---|
| `spooler` | 3 slots, 3 metrics, 4 overwrites | 20 k | `TypeOK`, `RingIsQueue` |
| `telemetry_safety` | 2 probers, intake 1, batches of 2, spool 2, queue 2, 3 metrics, 2 connections, 1 restart | 620 k | `TypeOK`, `NeverTwice`, `RegisterReplayLive`, `WatermarkIsHighest`, `ReportsAreNews`, `LossNeedsCause`, `AtMostOnce` |
| `telemetry_live` | 1 prober, intake 3, batches of 2, spool 3, queue 3, 3 metrics, 2 connections | 70 k | `RisingOnConnection`, `MetricsSettle`, `SpoolIsReplayed` |
| `hub` | 2 agents, 2 connections either may use, 1 caller, queue 1 | 58 k | `TypeOK`, `LiveIsAddressable`, `NoGhost`, `Addressed`, `OnlyOwnRemoval`, `ClosedLeaves`, `LostAgentIsDropped`, `CallersReturn` |
| `test_safety` | 2 agents, 2 handlers, queue 3, 3 requests, 1 lost connection, symmetry in agents and handlers | 2.6 M | `TypeOK`, `RunsInOrder`, `AppliedIsCurrent`, `StoppedIsIdle` |
| `test_live` | 1 agent, 2 handlers, queue 1, 3 requests, 1 lost connection | 50 k | `RequestsEnd` |
| `agent` | 2 controllers, 1 joiner, 1 flow, a UDP and a TCP listener, 1 echo connection, 2 pipes of 1 line, 4 inputs | 434 k | `TypeOK`, `StaleOnlyIfSlipped`, `StopIsFinal`, `OneBinding`, `ReportHolds`, `BudgetKept`, `HandlerReturns`, `Rejoins`, `DiagEnds` |
| `controller` | 2 handlers, 2 updaters, 2 connections, 1 browser, queue 1, bus 1, 2 sequence numbers, 3 inputs | 578 k | `TypeOK`, `FileIsMemory`, `NoSendOnClosed`, `NewestSinceClear`, `OnlyExcusedDiffers`, `SessionsEnd` |

Why the bounds are enough:

* *spooler*: with three slots the head is at every index, full and not, and
  three metrics are one per slot; four overwrites wrap the head completely.
* *telemetry*: the intake of one and the spool of two saturate, a batch of two
  can be out of order, a spool of three is replayed in two chunks, the peer's
  queue is full after REGISTER and one frame, and two connections let
  frames of an old one arrive after those of the new. Three metrics can be in
  three places at once (spool, queue, batch).
* *hub*: two connections are the fewest where a session is replaced; with a queue of
  one every second send blocks. A session replaced by one that is itself replaced
  needs three, which the proofs cover with any number.
* *test control*: three requests are a START and two overlapping edits, or
  START, STOP and START; two agents with a flow each way are the fewest with a
  source and a destination, and a queue of three frames can block an apply. One
  interval besides the initial zero is enough to tell a stale interval from the
  current one.
* *agent*: four inputs are a plan, a start, and a stop or a second plan with a
  listener that fails; a join between the two looks of a connection that then
  serves two frames; a plan and a start, the end of the process, and a further
  start that launches its probers into the wait group `Agent.Run` already waits on.
  A diagnostic counts as three (`DiagWeight`), as it only meets the rest in the
  read pump. The command line names the first controller or none (`Configured`),
  as the two are alike. A pipe of one line blocks the child at its second; a line
  may be longer than the whole budget. A back-off of 1 with the maximum of 3 passes
  the maximum on its second doubling. Two calls of `Stop` that both wait while
  probers run take five inputs, because a `Stop` that finds no cancel function
  returns without waiting (dataplane.go:96-106): a plan and a start, the end of the
  process, a start that leaves a cancel function and probers behind, and the frame
  whose `Stop` takes them. `MCAgentNode_stops.cfg` gives them to an agent with two
  flows, no listener and no diagnostic.
* *controller*: three inputs are two overlapping updates of the settings and a
  restart; two requests and a metric; a metric, a START's reset and a metric on
  another connection; a session, a broadcast to it and its end; an edit, a disk that
  fails and a restart. Two numbers are
  the fewest with an older and a newer one. With channels of one, the second
  message is dropped. The proofs cover any number of each.

Deadlock is not checked in these runs except the spooler's: once the bounded
inputs (metrics, connections, requests, frames) are used up the system comes to
rest, as the real one does with nothing to do. That it does not stop short of
that is what the liveness properties say.

`StopAlone` in TestControl is a restriction on the inputs: with it, a STOP is
only requested when no other request is being served. `test_safety` assumes it
because without it `StoppedIsIdle` is false (see `test_stop`);
`test_live` does not.

## What the runs refute

Each of these runs checks one statement of the repository and TLC finds it
violated. They describe the code as it is.

* `telemetry_spurious`, `NoSpuriousMissed`. client.go:243-247 and
  README.md:303-305 promise no spurious sequence-gap events. `flush` reads
  a nil peer, `connectOnce` drains the spool and publishes the peer, then `flush`
  pushes its batch: it waits in the spool for the next reconnect while later
  metrics go out live, and the hub reports it as missing.
  `ReportsAreNews`, `RisingOnConnection` and the theorem `GapsNameTheirCause` say
  what remains true.
* `test_bound`, `BoundBeforeProbed`. controller.go:420-422 says destinations have
  bound their ports before any source probes them. The plans are queued first,
  but each agent has a connection of its own.
* `test_stop`, `StoppedIsIdle`. STOP does not take `applyMu`; an apply in progress
  sends its TEST_START after the broadcast, and agents probe on while
  `running`, "whether a test is currently active" (controller.go:53), is false.
* `link_stale`, `StaleLinkCloses`. client.go:89-91 says that `SetMaster` forces the
  current connection to drop. One that is past its second look at the address and
  not yet published is not found, and nothing closes it later: the agent stays
  with the old controller while that connection lives. `StaleOnlyIfSlipped` says
  that this is the only way.

Four more configurations are kept to be run by hand
(`tlc -config <cfg> <module>`). The first three end with a counterexample, the
fourth passes.

* `MCHubRegistry_late.cfg`, `EvictsTheOlder`. hub.go:130 "evict the old one": the
  hub cannot tell which is old. If the goroutine of an abandoned connection gets to
  its REGISTER after its successor's, the live session is closed. The agent
  reconnects, so the registry heals (`LostAgentIsDropped`).
* `MCTestControl_interval.cfg`, `IntervalOfActiveTest`. `curInterval` is read
  before the lock. An edit between `running.Store(true)` and the START's apply
  reads zero, waits for the START and re-applies zero; the engines then choose
  their default of a second, and the "interval of the active test"
  (controller.go:54) is 0.
* `MCControllerNode_settings.cfg`, `SettingsSurvive`. Settings "survive a controller
  restart" (admin.go:30-31), but two updates may marshal in one order and write in
  the other, or write into one another. `FileIsMemory` says what remains
  true: an update that was alone since the last overlap is on disk, if its write
  did not fail.
* `MCAgentNode_stops.cfg`, `HandlerReturns` and `StopIsFinal`, with two calls of
  `Stop` waiting on one wait group while probers run (see the bounds of *agent*).

Behaviours met while modelling that no property excludes, because nothing in the
code prevents them: a metric in flight when the latest-metric store is cleared
enters it again (uistream.go:104-105 has the stale metrics gone); after an agent's
restart its numbers start at 1, and its metrics are ignored by that store until
they pass the old ones or a Clear; `flowStatus`, "last emitted status"
(controller.go:59), also records a status that the throttle kept from being
emitted; a process that ends between the truncation and the writing of a
file loses the store, and so does a write that fails there, until a later one
succeeds; an echo goroutine that gave up on an error leaves its port open, reported
as bound and unanswered until the next rebind.

## Fairness

Safety runs use `Spec`, which allows any process to stop for ever. The
liveness runs use `FairSpec`:

* Telemetry: every goroutine that can step does (weak fairness). A shutdown is
  only owed to a connection that has broken (failed write, read error, or the
  15 s read deadline that the 10 s PING keeps refreshing), and the reconnect loop
  retries for ever (`Run`). Nothing is asked of probers, of `Cut` or of `Restart`.
* HubRegistry: the same, with strong fairness for `SendOne` and `QueueAck`. A
  full channel becomes full again and again when several goroutines send; Go
  queues blocked senders in order, so none is overtaken for ever. A write pump
  progresses only while the agent's end is open; a lost end is noticed in the end.
* TestControl: strong fairness for a handler's steps, for the same reason and
  because `sync.Mutex` hands the lock to a waiter that has starved for 1 ms. An
  agent with frames waiting either reads one or its connection ends. No request
  has to come, no agent has to return.
* AgentNode: every goroutine goes on (weak fairness). A probe ends by its
  timeout, an echo connection by its 10 s deadline, a diagnostic by its 30 s. A
  prober whose context has ended leaves in the end although its ticker may be
  ready as well (strong fairness for `Quit`): `select` chooses at random. No
  dial has to succeed by fairness alone, but `DialFails` is a bounded input, so
  `Rejoins` reads: as long as dials do not fail for ever. The write pump's end
  is owed once the peer is closed or the connection dead, as above; the read
  pump's only once the connection is closed or dead, as a peer that is done does
  not by itself end a read.
* ControllerNode: the read pump, the event pump and the sessions' goroutines go on.
  `Remove` has strong fairness: `sync.RWMutex` lets a waiting writer in before
  later readers, so broadcasts that never pause do not keep it out. Handlers
  and updaters may stop for ever; nothing in `SessionsEnd` needs them.

## What is proved

The seven modules whose names end in `Proofs` are checked by TLAPS, for every
value of the constants that satisfies the modules' assumptions (positive
capacities; the special values are not agents, metrics or numbers). Every
invariant, every action property and both refinements that a passing run checks are
theorems. Liveness is not (see the end of this section).

*Spooler.* `SpoolerTypeOK`; `SpoolerLiveSlotsWritten`; and `SpoolerRingIsQueue`,
that every behaviour of the ring is one of the queue. `LiveSlotsWritten`, that no
element is a slot never written, is inductive together with `TypeOK` and is what
makes the ring's content a sequence of metrics. The refinement rests on three facts about
indices modulo the capacity: the tail of a full ring is its head; the tail of one
that is not full is no live slot; the i-th element from a head one further is
the element i + 1 from the old one. With them a push on a full ring is
`Append(Tail(queue), m)`, a push with room is `Append(queue, m)`, and a drain
leaves the empty sequence.

*HubRegistry.* `RegistryTypeOK`, `RegistryLiveIsAddressable`, `RegistryNoGhost`,
`RegistryAddressed`, `RegistryOnlyOwnRemoval`. None of the three invariants is
inductive alone. The inductive invariant `Inv` adds `Lifecycle`: a connection
not yet dialled has left no trace, a connection has a name exactly when it has
got past REGISTER, and a name once taken is kept. With it: `HubRegister` closes
whoever held the id, so the new connection is the only live one; what a caller
looked up has the name it was looked up by, whatever has become of it; and
`Unregister` compares before it deletes. `OnlyOwnRemoval` follows step by step
from `Inv` and needs no induction of its own.

*SeqTrack.* `WalkIsClosedForm`: for any sorted batch, repeats included, and any
watermark, the loop of `handleTelemetry` has a run (`IsWalk`, one `Round` per
number), and after each of its rounds its mark and its missing numbers are those
of the closed form for the numbers read so far. `WalkRound` is the loop's
invariant. No induction schema can be instantiated, so the induction is by hand:
the least round that disagrees is not the start and not after one that agrees.

*Telemetry.* Ten theorems over one step relation, each with the part of the
state it needs; `TypeOK` (`TelemetryTypes`) goes into all of them.

* `MetricsMove` (`NeverTwice`). The property is stated over `Place`, the eight
  kinds of places a metric can be at, so that a step is a move of a set from one
  place to another: `MoveKeeps` says once that such a move keeps the places apart,
  and each action shows only what it moves. A prober's new metric is at no place
  because its number is above the counter. That a drained spool is cut into
  chunks without a metric twice is arithmetic on positions (`ReplayChunks`,
  `ChunkPositions`).
* `PathIsDelivery` (`AtMostOnce`). Each action of the path is an action of Delivery
  or a stutter: `Stamp` is `Stamp`; a written frame is `Transmit`; a frame the hub
  reads is `Deliver` (or `Break`, on a connection without a name); `Cut` is `Break`;
  and the rest, `flush`'s re-spooling and `connectOnce`'s drain among them, keeps or
  forgets what is aboard. `NeverTwice` is needed throughout: a metric in two queues would be
  aboard and sent. `LostForGood` (`OnlyForward`) says what follows for one metric:
  once it is on no queue and no connection it never is again.
* `OrderedStreams` (`RegisterReplayLive`). `OrderInv` adds that a connection not
  yet served has carried nothing, and that a served one still without a name has
  its REGISTER in the stream; otherwise a live frame could become the first.
* `HighestNumberWins`, `GapReportsAreNews`. `Mark` is `WatermarkIsHighest`
  without `CHOOSE`: the mark is a number received and no number received is above
  it. The lemmas of `SeqTrackProofs` say that the mark never falls and that a
  missed number lies between two marks and outside the batch, for numbers of any
  size.
* `NoSilentLoss` (`LossNeedsCause`). A step loses a metric when it is at no place
  afterwards; per action only a few can be. `FlushInv` (the peer a flush has read
  is the current one or one that is done) and `DrainedInv` (nothing is held
  drained once it is published) make the causes apply; `ReplayCovers` says that
  the chunks leave none of the drained metrics out.
* `NumbersRise` (`RisingOnConnection`), under that property's own condition of one
  prober and an intake its metrics cannot fill. `LineInv` orders the stages:
  drained, spool and what the connection in service carries are below the batch,
  that is below the intake, that is below what the prober holds, and the numbers
  rise within each. The intake has room because position i of a rising sequence
  holds at least i. Nothing relates the spool to what the connection carries, and
  nothing could: a batch spooled late is the gap of `telemetry_spurious`.
* `GapsNameTheirCause` (`GapsAreElsewhere`), under the same condition, says what a
  gap report then means: the metric behind it is lost, or in the spool (which is
  what `telemetry_spurious` finds), or on another connection (or queued for one)
  than the frame that revealed the gap. `AheadInv`, that what is on a connection or
  queued for it has numbers below those still in the loop, keeps it out of the
  intake and the batch; `NumbersRise` keeps it off the rest of the same connection.

*TestControl.*

* `LifecycleTypes`, and `AppliesInOrder` (`RunsInOrder`): `NumberInv` adds that
  the handler with the lock has the latest number and that no frame, plan or
  engine has a later one.
* `EditsAreApplied` (`AppliedIsCurrent`) and `StopsEverywhere` (`StoppedIsIdle`)
  are proved under `StopAlone`, the restriction `test_safety` makes; `test_stop`
  shows that the second needs it. An agent is described by the last frames of its
  queue (`Quieted`: nothing or a TEST_STOP; `Planned`: the plan; `Started`: the
  plan, then the start), so that its reading them changes nothing. `StopInv` says
  that a STOP at work is alone. `Progress` says, at each program counter of
  `applyFlows`, what it has found and what it has queued for whom, as long as
  nothing it has read has changed since (`Stable`: no handler has changed a store
  or `running` and not yet got to the lock); `Applied` is what it leaves. Edits
  that overlap an apply are why `Stable` is needed: their own apply comes later
  and starts from the store as it is then. `StoppedInv` does the same for the
  broadcast.

*AgentNode.* `AgentTypes`, `StaleLinkNeedsSlip`, `StoppedForGood`,
`BindingsNeverOverlap`, `ReportedPortsAreOpen`, `DiagOutputIsBounded`. A step of
the agent moves its link, its data plane or its diagnostic (`LinkMove`,
`DataMove`, `DiagMove`), each with an invariant of its own, joined in `AgentInv`.

* `LinkInv`: without a slip, a connection past the second look to an address that
  is no longer the master's has a `SetMaster` half way or is already done.
* `EngineInv`: until the process ends, no prober is left once the handler's join is
  over and before it launches new ones or is done with a plan, and whenever it is
  not joining all are of the run that `cancel` stands for and of flows in the plan.
* `ResponderInv`: sockets and connections are of the latest binding, none is left
  when a new one begins, and no socket has been told to end but while `Drain`
  waits.
* `DiagInv`: what was sent, what the two goroutines hold and what is left of the
  budget never add up to more than the budget, which is why taking a share under
  the lock and sending it outside is safe.

*ControllerNode.* `NodeNoSendOnClosed`, `NodeFileIsMemory`,
`NodeNewestSinceClear`, `NodeOnlyExcusedDiffers`, `NodeTypes`. The components share no
variable, so the argument is made once per component: a lemma (`NextUi`,
`NextStores`, `NextHealth`) says that every step of the node is, for that component,
one of its own steps or none, and an inductive invariant over the component's
steps gives the property.

* `UiInv`: a session yet to be visited is registered, because `Remove` needs the
  lock that a goroutine with sessions to visit holds; a registered session's
  channel is open; and a session that was ever registered is not registered
  again. Without the first part the second says nothing about a broadcast under
  way, without the third a closed channel could come back.
* `StoreInv`: while no two updates have overlapped there is one updater at most,
  and past `Marshal` it holds a copy of what memory holds; when it comes to write,
  the file is empty, so the write is not mixed with another's. Of the
  flows nothing more is needed than the property: a save, still under the lock,
  leaves what memory holds or is remembered as failed.
* `StoreOfMetricsInv` is `NewestSinceClear` with the types it needs: a number of 0
  is no metric's, so "none yet" and "the highest is 0" agree.
* `HealthInv`: between a decision to announce and its event the metric's health
  is the recorded one and nobody else is about to announce, without an excuse. A
  reset in between leaves one; so does a metric on another connection, because
  the decision has just started the throttle.
* `NodeTypes` (`TypeOK`) puts these together with `LockInv`: a handler's list of
  calls is one of nine (`Work`), and the flows' store is locked exactly when a
  handler, the only one, has the save as its next call.

*Only model-checked*: all liveness (fairness and ENABLED are beyond the prover). What
the repository states and a run refutes has its counterexample from TLC.

## Abstractions

* A metric is its process and its number, a frame its kind and its metrics; JSON,
  logging, addresses and run ids are left out. PING and PONG are left
  out; what they bring about, the end of a dead connection, is `Shutdown`,
  `DetectLoss` or `Disconnect`, possible at any time.
* In Telemetry, `handleTelemetry` hands the batch to its sink and moves the
  watermark in one step. In the code the read pumps of an old and a new connection
  may do the former in one order and the latter in the other, but the sink does
  not look at the watermark nor the watermark at the sink.
* In Telemetry, `Publish` queues REGISTER and all replay frames at once: no one
  else knows the peer before `setPeer` and its writer is not running. That they
  fit the queue is the assumption `SendCapAssumption`; with the shipped constants
  they are 6 frames of 256.
* In TestControl the frames queued, written and not yet read by one agent are one
  queue of `SendCap`. Flows are identified by their end points, and protocols and
  ports are left out: two flows between the same agents behave as one. A test the
  agent runs keeps running when its connection ends, as in the code.
* In AgentNode a probe is one step with no result, an accepted connection is
  open or ended, and the chunks of a diagnostic are amounts of output. What a
  TEST_START's count is matters only as zero (until stopped) or not. The context
  of the process and the one a goroutine was given are kept apart (`down`,
  `done`), as either ends it. The agent's own UI runs the code of UiSessions and
  has no module of its own.
* In ControllerNode there is one flow and a batch is one metric, so the
  transitions of two flows do not meet; in the code they share nothing but
  `flowMu` and the bus. A flow is measured by one agent, so its metrics are
  inside `onTelemetry` together only on connections of that agent. An event of a
  handler not named in the module is `Event`, and so is the mesh summary, without
  its conditions (a test that is running, a metric): it keeps no state. Both stores
  have a file; without one (`path` empty) there is nothing to save. What handlers send to the agents is TestControl's subject.
* Time is not modelled: tickers, deadlines and back-off are steps that may
  happen at any time, under the fairness above.

## Not modelled

* Wire types and JSON: data only.
* Authentication: a stateless check of each request. Who is privileged is a
  constant of UiSessions.
* Configuration and `main`: read once, no state.
* The probers: socket I/O, system calls and the clock decide everything. One
  hazard of theirs stays uncovered for that reason: probes are numbered 0 to 3
  in each burst, so with a fixed source port a late echo can count for the next
  burst (dataplane.go:306).
* The web UI: rendering.

TCP, the websocket library and net/http are modelled only by what
the code relies on: a stream in order without holes that can be cut, one
goroutine per connection and per request.

## Plan

Compositions that remain:

1. Telemetry with AgentLink: a change of controller while metrics are spooled, so
   that a spool is replayed to another hub than the one it was meant for.
2. HubRegistry with TestControl's sends: late joiners, and agents that lost a STOP
   with their connection.

Proofs that remain: the two compositions above once they are modelled; and that
TestControl under `StopAlone` implements an abstract controller whose applies are
atomic.
