----------------------------- MODULE TestControl -----------------------------
(***************************************************************************)
(* The test lifecycle: the HTTP handlers of controller/controller.go that  *)
(* start and stop a test or edit what it is made of (handleTestStart,      *)
(* handleTestStop, the flow handlers, handleAdminUpdate), applyFlows and   *)
(* buildFlowPlans under applyMu, and the agents (agent/agent.go onControl) *)
(* that carry the control frames out.                                      *)
(*                                                                         *)
(* Every handler is a goroutine of its own.  What applyFlows reads (the    *)
(* registry twice, each agent's enabled flag once for the plans and once   *)
(* in each pass, the flows) it reads at different moments; the only lock   *)
(* held over the whole is applyMu, which handleTestStop does not take.     *)
(***************************************************************************)
EXTENDS Naturals, Sequences, FiniteSets

CONSTANTS
  Agent,       \* agents
  Handler,     \* goroutines serving the operators' requests
  NoHandler,   \* applyMu is free
  Interval,    \* probe intervals an operator may ask for
  DefaultInterval, \* the one an engine uses when it is told 0
  SendCap,     \* sendBuffer, frames on their way to one agent
  MaxReqs,     \* bound of the model: requests
  MaxDrops,    \* bound of the model: connections lost
  StopAlone    \* a STOP is only requested when no other request is served

ASSUME BoundsAssumption ==
  /\ MaxReqs \in Nat /\ MaxDrops \in Nat /\ SendCap \in Nat \ {0}
  /\ StopAlone \in BOOLEAN
  /\ NoHandler \notin Handler
  /\ Interval \subseteq Nat \ {0}
  /\ DefaultInterval \in Nat \ {0}

VARIABLES
  running,      \* c.running
  curInterval,  \* c.curInterval
  enabled,      \* the admin store's Enabled flag of each agent
  flows,        \* the flow store: the flows that exist and are enabled
  connected,    \* agents in h.agents
  ctl,          \* per agent: control frames on their way to it
  held,         \* per agent: a.flows
  bound,        \* per agent: flows whose listen port its responder has bound
  engine,       \* per agent: the test its engine runs
  mu,           \* applyMu
  pc,           \* per handler: where it stands
  ivl,          \* per handler: intervalMs
  ends,         \* per handler: buildFlowPlans' connected and enabled agents
  plan,         \* per handler: the resolved flows, or the mesh left to add
  who,          \* per handler: applyFlows' agents
  todo,         \* per handler: the agents a loop has still to visit
  run,          \* per handler: number of its apply
  nrun,         \* history: applies so far
  planRun,      \* history, per agent: the apply its plan came from
  changed,      \* history: the registry has changed since it was last read
  nreq,         \* requests so far
  ndrop         \* connections lost so far

stores == <<running, curInterval, enabled, flows>>
agentSide == <<held, bound, engine, planRun>>
local == <<ivl, ends, plan, who, run>>
counters == <<nreq, ndrop>>
vars == <<stores, connected, ctl, agentSide, mu, pc, local, todo, nrun,
          changed, counters>>

(* A flow is known by its source and its destination. *)
Flow == {f \in Agent \X Agent : f[1] # f[2]}

Plan(fs, r) == [kind |-> "FLOW_PLAN", flows |-> fs, run |-> r]
Start(i, r) == [kind |-> "TEST_START", interval |-> i, run |-> r]
Stop == [kind |-> "TEST_STOP"]

Idle == [on |-> FALSE]
Test(fs, i, r) == [on |-> TRUE, flows |-> fs, interval |-> i, run |-> r]

From(a, fs) == {f \in fs : f[1] = a}
To(a, fs) == {f \in fs : f[2] = a}

Init ==
  /\ running = FALSE
  /\ curInterval = 0
  /\ enabled = [a \in Agent |-> TRUE]
  /\ flows \in SUBSET Flow
  /\ connected = Agent
  /\ ctl = [a \in Agent |-> <<>>]
  /\ held = [a \in Agent |-> {}]
  /\ bound = [a \in Agent |-> {}]
  /\ engine = [a \in Agent |-> Idle]
  /\ mu = NoHandler
  /\ pc = [h \in Handler |-> "idle"]
  /\ ivl = [h \in Handler |-> 0]
  /\ ends = [h \in Handler |-> {}]
  /\ plan = [h \in Handler |-> {}]
  /\ who = [h \in Handler |-> {}]
  /\ todo = [h \in Handler |-> {}]
  /\ run = [h \in Handler |-> 0]
  /\ nrun = 0
  /\ planRun = [a \in Agent |-> 0]
  /\ changed = FALSE
  /\ nreq = 0
  /\ ndrop = 0

-----------------------------------------------------------------------------
(* Requests.                                                               *)

Goto(h, l) == pc' = [pc EXCEPT ![h] = l]

Accept(h) ==
  /\ pc[h] = "idle"
  /\ nreq < MaxReqs
  /\ StopAlone => \A g \in Handler : pc[g] \notin {"stopping", "broadcast"}
  /\ nreq' = nreq + 1
  /\ UNCHANGED ndrop

(* handleTestStart up to running.Store(true). *)
RequestStart(h, i) ==
  /\ Accept(h)
  /\ ivl' = [ivl EXCEPT ![h] = i]
  /\ running' = TRUE
  /\ Goto(h, "lock")
  /\ UNCHANGED <<curInterval, enabled, flows, connected, ctl, agentSide, mu,
                 ends, plan, who, run, todo, nrun, changed>>

(* handleTestStop: running.Store(false), then Broadcast looks up who is    *)
(* there, then sends.                                                      *)
RequestStop(h) ==
  /\ Accept(h)
  /\ StopAlone => \A g \in Handler : pc[g] = "idle"
  /\ running' = FALSE
  /\ Goto(h, "stopping")
  /\ UNCHANGED <<curInterval, enabled, flows, connected, ctl, agentSide, mu,
                 local, todo, nrun, changed>>

(* handleFlowUpsert, handleFlowDelete, handleFlowsClear: the store changes *)
(* first.  An upsert may also disable the flow.                            *)
RequestFlow(h) ==
  /\ Accept(h)
  /\ flows' \in {{}} \cup UNION {{flows \cup {f}, flows \ {f}} : f \in Flow}
  /\ Goto(h, "check")
  /\ UNCHANGED <<running, curInterval, enabled, connected, ctl, agentSide, mu,
                 local, todo, nrun, changed>>

(* handleFlowsMesh: the agents are looked up once ... *)
RequestMesh(h) ==
  /\ Accept(h)
  /\ plan' = [plan EXCEPT ![h] = {f \in Flow : {f[1], f[2]} \subseteq connected}]
  /\ Goto(h, "mesh")
  /\ UNCHANGED <<stores, connected, ctl, agentSide, mu, ivl, ends, who, run,
                 todo, nrun, changed>>

(* ... and the flows between them added one by one. *)
MeshAdd(h, f) ==
  /\ pc[h] = "mesh"
  /\ f \in plan[h]
  /\ flows' = flows \cup {f}
  /\ plan' = [plan EXCEPT ![h] = @ \ {f}]
  /\ UNCHANGED <<running, curInterval, enabled, connected, ctl, agentSide, mu,
                 pc, ivl, ends, who, run, todo, nrun, changed, counters>>

MeshEnd(h) ==
  /\ pc[h] = "mesh"
  /\ plan[h] = {}
  /\ Goto(h, "check")
  /\ UNCHANGED <<stores, connected, ctl, agentSide, mu, local, todo, nrun,
                 changed, counters>>

(* handleAdminUpdate with the Enabled flag. *)
RequestEnable(h, a) ==
  /\ Accept(h)
  /\ enabled' = [enabled EXCEPT ![a] = ~ @]
  /\ Goto(h, "check")
  /\ UNCHANGED <<running, curInterval, flows, connected, ctl, agentSide, mu,
                 local, todo, nrun, changed>>

-----------------------------------------------------------------------------
(* reapplyIfRunning: two reads, no lock. *)

Check(h) ==
  /\ pc[h] = "check"
  /\ Goto(h, IF running THEN "load" ELSE "idle")
  /\ UNCHANGED <<stores, connected, ctl, agentSide, mu, local, todo, nrun,
                 changed, counters>>

Load(h) ==
  /\ pc[h] = "load"
  /\ ivl' = [ivl EXCEPT ![h] = curInterval]
  /\ Goto(h, "lock")
  /\ UNCHANGED <<stores, connected, ctl, agentSide, mu, ends, plan, who, run,
                 todo, nrun, changed, counters>>

-----------------------------------------------------------------------------
(* applyFlows.                                                             *)

(* A bug to compare with: applies that are not serialised. *)
LockIgnored(h) ==
  /\ pc[h] = "lock"
  /\ curInterval' = ivl[h]
  /\ nrun' = nrun + 1
  /\ run' = [run EXCEPT ![h] = nrun + 1]
  /\ Goto(h, "resolve")
  /\ UNCHANGED <<running, enabled, flows, connected, ctl, agentSide, mu, ivl,
                 ends, plan, who, todo, changed, counters>>

(* A bug to compare with: curInterval stored after the lock is let go. *)
LockLateInterval(h) ==
  /\ pc[h] = "lock"
  /\ mu = NoHandler
  /\ mu' = h
  /\ nrun' = nrun + 1
  /\ run' = [run EXCEPT ![h] = nrun + 1]
  /\ Goto(h, "resolve")
  /\ UNCHANGED <<stores, connected, ctl, agentSide, ivl, ends, plan, who,
                 todo, changed, counters>>

Lock(h) ==
  /\ pc[h] = "lock"
  /\ mu = NoHandler
  /\ mu' = h
  /\ curInterval' = ivl[h]
  /\ nrun' = nrun + 1
  /\ run' = [run EXCEPT ![h] = nrun + 1]
  /\ Goto(h, "resolve")
  /\ UNCHANGED <<running, enabled, flows, connected, ctl, agentSide, ivl, ends,
                 plan, who, todo, changed, counters>>

(* buildFlowPlans: the connected agents ... *)
Resolve(h) ==
  /\ pc[h] = "resolve"
  /\ todo' = [todo EXCEPT ![h] = connected]
  /\ changed' = FALSE
  /\ Goto(h, "plan")
  /\ UNCHANGED <<stores, connected, ctl, agentSide, mu, local, nrun, counters>>

(* ... which of them are enabled, one after the other ... *)
ResolveAgent(h, a) ==
  /\ pc[h] = "plan"
  /\ a \in todo[h]
  /\ todo' = [todo EXCEPT ![h] = @ \ {a}]
  /\ ends' = [ends EXCEPT ![h] = IF enabled[a] THEN @ \cup {a} ELSE @]
  /\ UNCHANGED <<stores, connected, ctl, agentSide, mu, pc, ivl, plan, who,
                 run, nrun, changed, counters>>

(* ... and the flows between two of these. *)
ResolveFlows(h) ==
  /\ pc[h] = "plan"
  /\ todo[h] = {}
  /\ plan' = [plan EXCEPT ![h] = {f \in flows : f[1] \in ends[h] /\ f[2] \in ends[h]}]
  /\ Goto(h, "agents")
  /\ UNCHANGED <<stores, connected, ctl, agentSide, mu, ivl, ends, who, run,
                 todo, nrun, changed, counters>>

(* agents := c.hub.Agents(), which both passes go through. *)
Snapshot(h) ==
  /\ pc[h] = "agents"
  /\ who' = [who EXCEPT ![h] = connected]
  /\ todo' = [todo EXCEPT ![h] = connected]
  /\ Goto(h, "pass1")
  /\ UNCHANGED <<stores, connected, ctl, agentSide, mu, ivl, ends, plan, run,
                 nrun, changed, counters>>

(* A bug to compare with: a Send that only looks at the queue. *)
SendToWaits(a, f) ==
  /\ a \in connected
  /\ Len(ctl[a]) < SendCap
  /\ ctl' = [ctl EXCEPT ![a] = Append(@, f)]

(* SendTo an agent that may have gone since it was looked up: Peer.Send    *)
(* waits for room in the queue or for the end of the connection.           *)
SendTo(a, f) ==
  \/ /\ a \in connected
     /\ Len(ctl[a]) < SendCap
     /\ ctl' = [ctl EXCEPT ![a] = Append(@, f)]
  \/ /\ a \notin connected
     /\ UNCHANGED ctl

(* A bug to compare with: a disabled agent is left as it is. *)
Pass1SkipsDisabled(h, a) ==
  /\ pc[h] = "pass1"
  /\ a \in todo[h]
  /\ IF enabled[a] THEN SendTo(a, Plan(plan[h], run[h])) ELSE UNCHANGED ctl
  /\ todo' = [todo EXCEPT ![h] = @ \ {a}]
  /\ UNCHANGED <<stores, connected, agentSide, mu, pc, local, nrun, changed,
                 counters>>

(* Pass 1: a plan for an enabled agent, TEST_STOP for a disabled one.      *)
Pass1(h, a) ==
  /\ pc[h] = "pass1"
  /\ a \in todo[h]
  /\ SendTo(a, IF enabled[a] THEN Plan(plan[h], run[h]) ELSE Stop)
  /\ todo' = [todo EXCEPT ![h] = @ \ {a}]
  /\ UNCHANGED <<stores, connected, agentSide, mu, pc, local, nrun, changed,
                 counters>>

EndPass1(h) ==
  /\ pc[h] = "pass1"
  /\ todo[h] = {}
  /\ todo' = [todo EXCEPT ![h] = who[h]]
  /\ Goto(h, "pass2")
  /\ UNCHANGED <<stores, connected, ctl, agentSide, mu, local, nrun, changed,
                 counters>>

(* Pass 2: TEST_START for an agent that is enabled now. *)
Pass2(h, a) ==
  /\ pc[h] = "pass2"
  /\ a \in todo[h]
  /\ IF enabled[a] THEN SendTo(a, Start(ivl[h], run[h])) ELSE UNCHANGED ctl
  /\ todo' = [todo EXCEPT ![h] = @ \ {a}]
  /\ UNCHANGED <<stores, connected, agentSide, mu, pc, local, nrun, changed,
                 counters>>

(* The local variables of a handler that is done mean nothing any more. *)
Leave(h) ==
  /\ ivl' = [ivl EXCEPT ![h] = 0]
  /\ ends' = [ends EXCEPT ![h] = {}]
  /\ plan' = [plan EXCEPT ![h] = {}]
  /\ who' = [who EXCEPT ![h] = {}]
  /\ run' = [run EXCEPT ![h] = 0]

(* The deferred Unlock. *)
Unlock(h) ==
  /\ pc[h] = "pass2"
  /\ todo[h] = {}
  /\ mu' = NoHandler
  /\ Goto(h, "idle")
  /\ Leave(h)
  /\ UNCHANGED <<stores, connected, ctl, agentSide, todo, nrun, changed,
                 counters>>

-----------------------------------------------------------------------------
(* The rest of handleTestStop: Broadcast.                                  *)

BroadcastLookup(h) ==
  /\ pc[h] = "stopping"
  /\ todo' = [todo EXCEPT ![h] = connected]
  /\ changed' = FALSE
  /\ Goto(h, "broadcast")
  /\ UNCHANGED <<stores, connected, ctl, agentSide, mu, local, nrun, counters>>

BroadcastSend(h, a) ==
  /\ pc[h] = "broadcast"
  /\ a \in todo[h]
  /\ SendTo(a, Stop)
  /\ todo' = [todo EXCEPT ![h] = @ \ {a}]
  /\ UNCHANGED <<stores, connected, agentSide, mu, pc, local, nrun, changed,
                 counters>>

BroadcastEnd(h) ==
  /\ pc[h] = "broadcast"
  /\ todo[h] = {}
  /\ Goto(h, "idle")
  /\ UNCHANGED <<stores, connected, ctl, agentSide, mu, local, todo, nrun,
                 changed, counters>>

-----------------------------------------------------------------------------
(* Agents: onControl, one frame at a time on the read pump.                *)

Next1(a) == /\ ctl[a] # <<>>
            /\ ctl' = [ctl EXCEPT ![a] = Tail(@)]
            /\ UNCHANGED <<stores, connected, mu, pc, local, todo, nrun,
                           changed, counters>>

(* FLOW_PLAN stops the running test, keeps the flows the agent is the      *)
(* source of and binds the ports of those it is the destination of.        *)
OnFlowPlan(a) ==
  /\ Next1(a)
  /\ Head(ctl[a]).kind = "FLOW_PLAN"
  /\ engine' = [engine EXCEPT ![a] = Idle]
  /\ held' = [held EXCEPT ![a] = From(a, Head(ctl[a]).flows)]
  /\ bound' = [bound EXCEPT ![a] = To(a, Head(ctl[a]).flows)]
  /\ planRun' = [planRun EXCEPT ![a] = Head(ctl[a]).run]

(* Engine.Start's interval. *)
Effective(i) == IF i = 0 THEN DefaultInterval ELSE i

(* TEST_START runs whatever flows the agent has. *)
OnTestStart(a) ==
  /\ Next1(a)
  /\ Head(ctl[a]).kind = "TEST_START"
  /\ engine' = [engine EXCEPT ![a] =
                  Test(held[a], Effective(Head(ctl[a]).interval),
                       Head(ctl[a]).run)]
  /\ UNCHANGED <<held, bound, planRun>>

(* A bug to compare with: the ports stay bound. *)
OnTestStopKeepsPorts(a) ==
  /\ Next1(a)
  /\ Head(ctl[a]).kind = "TEST_STOP"
  /\ engine' = [engine EXCEPT ![a] = Idle]
  /\ UNCHANGED <<held, bound, planRun>>

(* TEST_STOP ends the test and releases the ports; the flows stay. *)
OnTestStop(a) ==
  /\ Next1(a)
  /\ Head(ctl[a]).kind = "TEST_STOP"
  /\ engine' = [engine EXCEPT ![a] = Idle]
  /\ bound' = [bound EXCEPT ![a] = {}]
  /\ UNCHANGED <<held, planRun>>

(* The connection ends: frames on their way are lost, the test goes on. *)
Disconnect(a) ==
  /\ a \in connected
  /\ ndrop < MaxDrops
  /\ ndrop' = ndrop + 1
  /\ connected' = connected \ {a}
  /\ ctl' = [ctl EXCEPT ![a] = <<>>]
  /\ changed' = TRUE
  /\ UNCHANGED <<stores, agentSide, mu, pc, local, todo, nrun, nreq>>

(* The agent registers again; the controller sends it nothing but an ack.  *)
Reconnect(a) ==
  /\ a \notin connected
  /\ connected' = connected \cup {a}
  /\ changed' = TRUE
  /\ UNCHANGED <<stores, ctl, agentSide, mu, pc, local, todo, nrun, counters>>

HandlerStep(h) ==
  \/ Check(h)
  \/ Load(h)
  \/ Lock(h)
  \/ Resolve(h)
  \/ ResolveFlows(h)
  \/ Snapshot(h)
  \/ EndPass1(h)
  \/ Unlock(h)
  \/ BroadcastLookup(h)
  \/ BroadcastEnd(h)
  \/ \E a \in Agent : \/ ResolveAgent(h, a)
                      \/ Pass1(h, a)
                      \/ Pass2(h, a)
                      \/ BroadcastSend(h, a)
  \/ \E f \in Flow : MeshAdd(h, f)
  \/ MeshEnd(h)

AgentStep(a) ==
  \/ OnFlowPlan(a)
  \/ OnTestStart(a)
  \/ OnTestStop(a)

Next ==
  \/ \E h \in Handler :
       \/ \E i \in Interval : RequestStart(h, i)
       \/ RequestStop(h)
       \/ RequestFlow(h)
       \/ RequestMesh(h)
       \/ \E a \in Agent : RequestEnable(h, a)
       \/ HandlerStep(h)
  \/ \E a \in Agent : AgentStep(a) \/ Disconnect(a) \/ Reconnect(a)

Spec == Init /\ [][Next]_vars

(* Handlers run to their end, and sync.Mutex and a channel's senders are   *)
(* served in turn (SF).  An agent with frames waiting reads one, or else   *)
(* the connection is given up (the heartbeat).  Requests need not come and *)
(* agents need not come back.                                              *)
Fairness ==
  /\ \A h \in Handler : SF_vars(HandlerStep(h))
  /\ \A a \in Agent : WF_vars(AgentStep(a) \/ (Disconnect(a) /\ ctl[a] # <<>>))

FairSpec == Spec /\ Fairness

-----------------------------------------------------------------------------
Pcs == {"idle", "mesh", "check", "load", "lock", "resolve", "plan", "agents", "pass1",
        "pass2", "stopping", "broadcast"}
Busy == {"resolve", "plan", "agents", "pass1", "pass2"}

Frames ==
  [kind : {"FLOW_PLAN"}, flows : SUBSET Flow, run : Nat]
    \cup [kind : {"TEST_START"}, interval : Interval \cup {0}, run : Nat]
    \cup {Stop}
Tests == [on : {TRUE}, flows : SUBSET Flow,
          interval : Interval \cup {DefaultInterval}, run : Nat]

StoreTypes ==
  /\ running \in BOOLEAN
  /\ curInterval \in Interval \cup {0}
  /\ enabled \in [Agent -> BOOLEAN]
  /\ flows \subseteq Flow
  /\ connected \subseteq Agent
  /\ changed \in BOOLEAN

AgentTypes ==
  /\ ctl \in [Agent -> Seq(Frames)] /\ \A a \in Agent : Len(ctl[a]) <= SendCap
  /\ held \in [Agent -> SUBSET Flow]
  /\ bound \in [Agent -> SUBSET Flow]
  /\ engine \in [Agent -> {Idle} \cup Tests]
  /\ planRun \in [Agent -> Nat]

HandlerTypes ==
  /\ pc \in [Handler -> Pcs]
  /\ ivl \in [Handler -> Interval \cup {0}]
  /\ ends \in [Handler -> SUBSET Agent]
  /\ who \in [Handler -> SUBSET Agent]
  /\ todo \in [Handler -> SUBSET Agent]
  /\ plan \in [Handler -> SUBSET Flow]
  /\ run \in [Handler -> Nat]
  /\ nrun \in Nat

LockTypes ==
  /\ mu \in Handler \cup {NoHandler}
  /\ \A h \in Handler : (mu = h) <=> pc[h] \in Busy

(* The lock is held by exactly the handler that is inside applyFlows.      *)
TypeOK == StoreTypes /\ AgentTypes /\ HandlerTypes /\ LockTypes

(* The frames of an apply on their way to an agent. *)
Numbered(a) == {i \in DOMAIN ctl[a] : ctl[a][i].kind # "TEST_STOP"}

(* The frames of two applies never interleave on an agent's connection     *)
(* (the comment on applyMu): they come in the order of the applies, so no  *)
(* test starts with a plan newer than itself.                              *)
RunsInOrder ==
  \A a \in Agent :
    /\ \A i, j \in Numbered(a) : i < j => ctl[a][i].run <= ctl[a][j].run
    /\ \A i \in Numbered(a) : /\ planRun[a] <= ctl[a][i].run
                              /\ engine[a].on => engine[a].run <= ctl[a][i].run
    /\ engine[a].on => planRun[a] <= engine[a].run

AtRest == (\A h \in Handler : pc[h] = "idle") /\ (\A a \in Agent : ctl[a] = <<>>)

Live(a) == a \in connected /\ enabled[a]
Resolved == {f \in flows : Live(f[1]) /\ Live(f[2])}

(* Once every request is served and every frame carried out, the agents    *)
(* run exactly what the stores say, at the interval the controller         *)
(* believes: no edit is lost between a store and applyFlows, whichever     *)
(* requests overlapped (handleFlowUpsert, handleAdminUpdate, handleTest-   *)
(* Start).  `changed` excepts an agent that came or went since.            *)
AppliedIsCurrent ==
  AtRest /\ running /\ ~ changed =>
    \A a \in connected :
      IF enabled[a]
        THEN /\ engine[a].on
             /\ engine[a].flows = From(a, Resolved)
             /\ engine[a].interval = Effective(curInterval)
             /\ bound[a] = To(a, Resolved)
        ELSE ~ engine[a].on /\ bound[a] = {}

(* c.running says "whether a test is currently active": when it is false   *)
(* and nothing is under way, no connected agent runs one or holds a port   *)
(* (handleTestStop).                                                       *)
StoppedIsIdle ==
  AtRest /\ ~ running /\ ~ changed =>
    \A a \in connected : ~ engine[a].on /\ bound[a] = {}

(* "destinations have bound their listen ports before any source begins    *)
(* probing them" (applyFlows): who probes in apply r probes destinations   *)
(* that have carried out the plan of apply r.                              *)
BoundBeforeProbed ==
  \A a \in Agent : engine[a].on =>
    \A f \in engine[a].flows : planRun[f[2]] >= engine[a].run

(* c.curInterval is the "interval of the active test" (its comment): what  *)
(* the controller would re-apply is what the agents probe at.              *)
IntervalOfActiveTest ==
  AtRest /\ running /\ ~ changed =>
    \A a \in connected : engine[a].on => engine[a].interval = curInterval

(* Every request is answered: no handler waits for ever for applyMu, nor   *)
(* its holder for room in the queue of an agent that has stopped reading.  *)
RequestsEnd == \A h \in Handler : pc[h] # "idle" ~> pc[h] = "idle"
=============================================================================
