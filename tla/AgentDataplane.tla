--------------------------- MODULE AgentDataplane ---------------------------
(***************************************************************************)
(* What the controller's frames start and stop on an agent: onControl      *)
(* (agent/agent.go), which handles one frame at a time on the read pump,   *)
(* the engine's prober per flow (dataplane/dataplane.go) and the           *)
(* responder's sockets and connections (dataplane/responder.go), both      *)
(* stopped by cancelling a context and waiting for a wait group; and       *)
(* Agent.Run, which stops the engine too when the process is told to end.  *)
(***************************************************************************)
EXTENDS Naturals, FiniteSets

CONSTANTS
  Flow,        \* flows a plan may give this agent to probe
  Listener,    \* a port and a protocol a plan may tell it to echo
  Stream,      \* those of them that are TCP
  MaxConns     \* bound of the model: probed connections open at once

ASSUME DataplaneAssumption == Stream \subseteq Listener /\ MaxConns \in Nat

VARIABLES
  hpc,       \* where the handler on the read pump stands
  frame,     \* the frame it handles
  flows,     \* a.flows
  cancel,    \* e.cancel: the run it cancels, or 0
  nrun,      \* runs so far
  probers,   \* e.wg: goroutines in Engine.loop
  cur,       \* r.cur: the active binding, or 0
  nbind,     \* bindings so far
  socks,     \* wg of the bindings: open listeners, with who echoes on them
  conns,     \*                     and accepted connections
  report,    \* listeners the latest PORT_STATUS reports as bound
  down,      \* the agent's context is cancelled
  spc        \* where Agent.Run stands with its engine.Stop

engine == <<cancel, nrun, probers>>
responder == <<cur, nbind, socks, conns, report>>
dataVars == <<hpc, frame, flows, engine, responder, down, spc>>

Plan(fs, ls) == [kind |-> "FLOW_PLAN", flows |-> fs, ports |-> ls]
Start(n) == [kind |-> "TEST_START", count |-> n]
Stop == [kind |-> "TEST_STOP"]

Frame == {Plan(fs, ls) : fs \in SUBSET Flow, ls \in SUBSET Listener}
           \cup {Start(n) : n \in {0, 1}} \cup {Stop}

Ports == IF frame.kind = "FLOW_PLAN" THEN frame.ports ELSE {}

DataplaneInit ==
  /\ hpc = "idle" /\ frame = Stop
  /\ flows = {}
  /\ cancel = 0 /\ nrun = 0 /\ probers = {}
  /\ cur = 0 /\ nbind = 0 /\ socks = {} /\ conns = {} /\ report = {}
  /\ down = FALSE /\ spc = "serving"

-----------------------------------------------------------------------------
(* onControl.  Every frame begins with engine.Stop (TEST_START through     *)
(* engine.Start).                                                          *)
OnControl(f) ==
  /\ hpc = "idle"
  /\ hpc' = "stop"
  /\ frame' = f
  /\ UNCHANGED <<flows, engine, responder, down, spc>>

(* Engine.Stop: take the cancel function and call it ...                   *)
CancelRun ==
  /\ cancel' = 0
  /\ probers' = {IF p.run = cancel THEN [p EXCEPT !.done = TRUE] ELSE p : p \in probers}
  /\ UNCHANGED nrun

StopCancel ==
  /\ hpc = "stop"
  /\ CancelRun
  /\ hpc' = IF cancel = 0 THEN "stopped" ELSE "join"
  /\ UNCHANGED <<frame, flows, responder, down, spc>>

(* A bug to compare with: no wait.                                         *)
StopJoinAtOnce ==
  /\ hpc = "join"
  /\ hpc' = "stopped"
  /\ UNCHANGED <<frame, flows, engine, responder, down, spc>>

(* ... and wait for the probers, if there was one to call.                 *)
StopJoin ==
  /\ hpc = "join" /\ probers = {}
  /\ hpc' = "stopped"
  /\ UNCHANGED <<frame, flows, engine, responder, down, spc>>

(* The rest of Engine.Start: publish the new cancel function, then a       *)
(* goroutine per flow.                                                     *)
StartCancel ==
  /\ hpc = "stopped" /\ frame.kind = "TEST_START"
  /\ nrun' = nrun + 1
  /\ cancel' = nrun + 1
  /\ hpc' = "launch"
  /\ UNCHANGED <<frame, flows, probers, responder, down, spc>>

Prober(f) == [flow |-> f, run |-> nrun, count |-> frame.count, done |-> cancel # nrun,
              st |-> "probe"]

Launch ==
  /\ hpc = "launch"
  /\ probers' = probers \cup {Prober(f) : f \in flows}
  /\ hpc' = "idle"
  /\ UNCHANGED <<frame, flows, cancel, nrun, responder, down, spc>>

(* FLOW_PLAN stores its flows; it and TEST_STOP go on to Responder.Serve,  *)
(* which cancels the binding there is ...                                  *)
Unbind ==
  /\ hpc = "stopped" /\ frame.kind # "TEST_START"
  /\ flows' = IF frame.kind = "FLOW_PLAN" THEN frame.flows ELSE flows
  /\ socks' = {[s EXCEPT !.done = TRUE] : s \in socks}
  /\ conns' = {[c EXCEPT !.done = TRUE] : c \in conns}
  /\ hpc' = "drain"
  /\ UNCHANGED <<frame, engine, cur, nbind, report, down, spc>>

(* A bug to compare with: no wait.                                         *)
DrainedAtOnce == TRUE

(* ... waits for everything it started ...                                 *)
Drained == {x \in socks \cup conns : x.bind = cur} = {}

Drain ==
  /\ hpc = "drain" /\ Drained
  /\ cur' = 0
  /\ hpc' = "bind"
  /\ UNCHANGED <<frame, flows, engine, nbind, socks, conns, report, down, spc>>

(* A bug to compare with: only a UDP listener makes a binding active.      *)
ActiveByUdp(ls) == ls \ Stream # {}

(* ... and binds what it can; other programs may hold some of the ports.   *)
(* A binding of nothing is cancelled at once.                              *)
Active(ls) == ls # {}

Bind(ls) ==
  /\ hpc = "bind"
  /\ ls \subseteq Ports
  /\ nbind' = nbind + 1
  /\ cur' = IF Active(ls) THEN nbind + 1 ELSE 0
  /\ socks' = socks \cup {[bind |-> nbind + 1, at |-> l, done |-> ~Active(ls), echo |-> TRUE]
                         : l \in ls}
  /\ report' = ls
  /\ hpc' = IF frame.kind = "FLOW_PLAN" THEN "report" ELSE "idle"
  /\ UNCHANGED <<frame, flows, engine, conns, down, spc>>

(* PORT_STATUS is queued, or the connection is gone.                       *)
SendReport ==
  /\ hpc = "report"
  /\ hpc' = "idle"
  /\ UNCHANGED <<frame, flows, engine, responder, down, spc>>

-----------------------------------------------------------------------------
(* Engine.loop: a probe, handed to the sink; then, unless that was the     *)
(* last, the ticker or the context's end, whichever select takes.          *)
ProbeEnds(p) ==
  /\ p \in probers /\ p.st = "probe"
  /\ probers' = (probers \ {p}) \cup (IF p.count > 0 THEN {} ELSE {[p EXCEPT !.st = "tick"]})
  /\ UNCHANGED <<hpc, frame, flows, cancel, nrun, responder, down, spc>>

Tick(p) ==
  /\ p \in probers /\ p.st = "tick"
  /\ probers' = (probers \ {p}) \cup {[p EXCEPT !.st = "probe"]}
  /\ UNCHANGED <<hpc, frame, flows, cancel, nrun, responder, down, spc>>

(* A bug to compare with: the loop watches the agent's context only.       *)
QuitOnTerminate(p) ==
  /\ p \in probers /\ p.st = "tick"
  /\ down
  /\ probers' = probers \ {p}
  /\ UNCHANGED <<hpc, frame, flows, cancel, nrun, responder, down, spc>>

Quit(p) ==
  /\ p \in probers /\ p.st = "tick"
  /\ p.done \/ down
  /\ probers' = probers \ {p}
  /\ UNCHANGED <<hpc, frame, flows, cancel, nrun, responder, down, spc>>

(* The responder: a listener closes when its context ends, not when the    *)
(* goroutine that echoes on it gives up on an error; as long as that lives *)
(* a TCP listener accepts; a connection ends when its client leaves, after *)
(* 10 s, or with the context.                                              *)
EchoFails(s) ==
  /\ s \in socks /\ s.echo
  /\ socks' = (socks \ {s}) \cup {[s EXCEPT !.echo = FALSE]}
  /\ UNCHANGED <<hpc, frame, flows, engine, cur, nbind, conns, report, down, spc>>

CloseSock(s) ==
  /\ s \in socks
  /\ s.done \/ down
  /\ socks' = socks \ {s}
  /\ UNCHANGED <<hpc, frame, flows, engine, cur, nbind, conns, report, down, spc>>

Accept(s, k) ==
  /\ s \in socks /\ s.at \in Stream /\ s.echo
  /\ \A c \in conns : c.id # k
  /\ conns' = conns \cup {[bind |-> s.bind, id |-> k, done |-> s.done]}
  /\ UNCHANGED <<hpc, frame, flows, engine, cur, nbind, socks, report, down, spc>>

ConnEnds(c) ==
  /\ c \in conns
  /\ conns' = conns \ {c}
  /\ UNCHANGED <<hpc, frame, flows, engine, cur, nbind, socks, report, down, spc>>

-----------------------------------------------------------------------------
(* The process is told to end: its context is cancelled, and Agent.Run     *)
(* stops the engine, while the read pump may be handling a frame.          *)
Terminate ==
  /\ ~down
  /\ down' = TRUE
  /\ UNCHANGED <<hpc, frame, flows, engine, responder, spc>>

ShutCancel ==
  /\ down /\ spc = "serving"
  /\ CancelRun
  /\ spc' = IF cancel = 0 THEN "ended" ELSE "join"
  /\ UNCHANGED <<hpc, frame, flows, responder, down>>

ShutJoin ==
  /\ spc = "join" /\ probers = {}
  /\ spc' = "ended"
  /\ UNCHANGED <<hpc, frame, flows, engine, responder, down>>

Handle ==
  \/ StopCancel \/ StopJoin \/ StartCancel \/ Launch \/ Unbind \/ Drain \/ SendReport
  \/ \E ls \in SUBSET Ports : Bind(ls)

DataplaneStep ==
  \/ Handle \/ ShutCancel \/ ShutJoin
  \/ \E p \in probers : ProbeEnds(p) \/ Tick(p) \/ Quit(p)
  \/ \E s \in socks : CloseSock(s) \/ \E k \in 1..MaxConns : Accept(s, k)
  \/ \E c \in conns : ConnEnds(c)
=============================================================================
