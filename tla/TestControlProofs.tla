-------------------------- MODULE TestControlProofs --------------------------
(***************************************************************************)
(* Safety of the test lifecycle for any number of agents, of handlers at   *)
(* work at once, of requests and of lost connections.                      *)
(***************************************************************************)
EXTENDS TestControl, TLAPS, SequenceTheorems

LEMMA Consts ==
  /\ MaxReqs \in Nat /\ MaxDrops \in Nat /\ SendCap \in Nat \ {0}
  /\ StopAlone \in BOOLEAN /\ NoHandler \notin Handler
  /\ \A i \in Interval \cup {0} : i \in Nat
  /\ \A i \in Interval \cup {0} : Effective(i) \in Interval \cup {DefaultInterval}
  BY BoundsAssumption DEF Effective

LEMMA FrameTypes ==
  /\ \A fs \in SUBSET Flow, r \in Nat :
       Plan(fs, r) \in Frames /\ Plan(fs, r).kind = "FLOW_PLAN"
       /\ Plan(fs, r).flows = fs /\ Plan(fs, r).run = r
  /\ \A i \in Interval \cup {0}, r \in Nat :
       Start(i, r) \in Frames /\ Start(i, r).kind = "TEST_START"
       /\ Start(i, r).interval = i /\ Start(i, r).run = r
  /\ Stop \in Frames /\ Stop.kind = "TEST_STOP"
  /\ \A f \in Frames :
       /\ f.kind \in {"FLOW_PLAN", "TEST_START", "TEST_STOP"}
       /\ f.kind = "FLOW_PLAN" => f.flows \in SUBSET Flow /\ f.run \in Nat
       /\ f.kind = "TEST_START" => f.interval \in Interval \cup {0} /\ f.run \in Nat
  BY DEF Plan, Start, Stop, Frames

LEMMA TestTypes ==
  /\ Idle.on = FALSE
  /\ \A fs \in SUBSET Flow, i \in Interval \cup {DefaultInterval}, r \in Nat :
       Test(fs, i, r) \in Tests /\ Test(fs, i, r).on = TRUE /\ Test(fs, i, r).flows = fs
       /\ Test(fs, i, r).interval = i /\ Test(fs, i, r).run = r
  /\ \A t \in Tests : t.on = TRUE /\ t.flows \in SUBSET Flow /\ t.run \in Nat
  BY DEF Idle, Test, Tests

LEMMA Flows ==
  \A fs \in SUBSET Flow, a \in Agent : From(a, fs) \in SUBSET Flow /\ To(a, fs) \in SUBSET Flow
  BY DEF From, To

-----------------------------------------------------------------------------
(* Types, step by step.  A handler that moves on inside applyFlows, or     *)
(* outside of it, leaves the lock as it is.                                *)
LEMMA GotoKeepsLock ==
  ASSUME HandlerTypes, LockTypes, NEW h \in Handler, NEW l \in Pcs, Goto(h, l), mu' = mu,
         (l \in Busy) <=> (pc[h] \in Busy)
  PROVE  LockTypes' /\ pc' \in [Handler -> Pcs]
  BY DEF HandlerTypes, LockTypes, Goto

LEMMA SendTypes ==
  ASSUME AgentTypes, NEW a \in Agent, NEW f \in Frames, SendTo(a, f), UNCHANGED agentSide
  PROVE  AgentTypes'
<1>1. CASE UNCHANGED ctl
  BY <1>1 DEF AgentTypes, agentSide
<1>2. CASE Len(ctl[a]) < SendCap /\ ctl' = [ctl EXCEPT ![a] = Append(@, f)]
  <2>1. ctl[a] \in Seq(Frames) /\ Len(ctl[a]) \in Nat
    BY LenProperties DEF AgentTypes
  <2>2. Append(ctl[a], f) \in Seq(Frames) /\ Len(Append(ctl[a], f)) = Len(ctl[a]) + 1
    BY <2>1, AppendProperties
  <2>3. ctl' \in [Agent -> Seq(Frames)]
    BY <1>2, <2>2 DEF AgentTypes
  <2>4. \A b \in Agent : Len(ctl'[b]) <= SendCap
    BY <1>2, <2>1, <2>2, Consts DEF AgentTypes
  <2> QED
    BY <2>3, <2>4 DEF AgentTypes, agentSide
<1> QED
  BY <1>1, <1>2 DEF SendTo

LEMMA AgentStepTypes ==
  ASSUME AgentTypes, NEW a \in Agent, AgentStep(a)
  PROVE  AgentTypes'
<1> DEFINE f == Head(ctl[a])
<1>1. /\ ctl \in [Agent -> Seq(Frames)] /\ ctl[a] # <<>> /\ ctl' = [ctl EXCEPT ![a] = Tail(@)]
      /\ \A b \in Agent : Len(ctl[b]) <= SendCap
  BY DEF AgentTypes, AgentStep, OnFlowPlan, OnTestStart, OnTestStop, Next1
<1>2. f \in Frames /\ Tail(ctl[a]) \in Seq(Frames) /\ Len(Tail(ctl[a])) = Len(ctl[a]) - 1
  BY <1>1, HeadTailProperties
<1>l. Len(ctl[a]) \in Nat
  BY <1>1, LenProperties
<1>3. ctl' \in [Agent -> Seq(Frames)] /\ \A b \in Agent : Len(ctl'[b]) <= SendCap
  BY <1>1, <1>2, <1>l, Consts
<1>4. CASE OnFlowPlan(a)
  <2>1. f.flows \in SUBSET Flow /\ f.run \in Nat
    BY <1>2, <1>4, FrameTypes DEF OnFlowPlan
  <2>2. From(a, f.flows) \in SUBSET Flow /\ To(a, f.flows) \in SUBSET Flow
    BY <2>1, Flows
  <2> HIDE DEF f
  <2>3. /\ engine' = [engine EXCEPT ![a] = Idle] /\ planRun' = [planRun EXCEPT ![a] = f.run]
        /\ held' = [held EXCEPT ![a] = From(a, f.flows)]
        /\ bound' = [bound EXCEPT ![a] = To(a, f.flows)]
    BY <1>4 DEF OnFlowPlan, f
  <2> QED
    BY <1>3, <2>1, <2>2, <2>3 DEF AgentTypes
<1>5. CASE OnTestStart(a)
  <2>1. f.interval \in Interval \cup {0} /\ f.run \in Nat
    BY <1>2, <1>5, FrameTypes DEF OnTestStart
  <2>2. Test(held[a], Effective(f.interval), f.run) \in Tests
    BY <2>1, Consts, TestTypes DEF AgentTypes
  <2> HIDE DEF f
  <2>3. /\ engine' = [engine EXCEPT ![a] = Test(held[a], Effective(f.interval), f.run)]
        /\ UNCHANGED <<held, bound, planRun>>
    BY <1>5 DEF OnTestStart, f
  <2> QED
    BY <1>3, <2>2, <2>3 DEF AgentTypes
<1>6. CASE OnTestStop(a)
  BY <1>3, <1>6 DEF OnTestStop, AgentTypes
<1> QED
  BY <1>4, <1>5, <1>6 DEF AgentStep

LEMMA AgentTypesStep == TypeOK /\ [Next]_vars => AgentTypes'
<1> SUFFICES ASSUME TypeOK, [Next]_vars PROVE AgentTypes'
  OBVIOUS
<1>t. AgentTypes /\ HandlerTypes
  BY DEF TypeOK
<1>1. ASSUME UNCHANGED <<ctl, agentSide>> PROVE AgentTypes'
  BY <1>t, <1>1 DEF AgentTypes, agentSide
<1>2. ASSUME NEW h \in Handler, NEW i \in Interval, RequestStart(h, i) PROVE AgentTypes'
  BY <1>1, <1>2 DEF RequestStart
<1>3. ASSUME NEW h \in Handler,
             RequestStop(h) \/ RequestFlow(h) \/ RequestMesh(h) \/ \E a \in Agent : RequestEnable(h, a)
      PROVE  AgentTypes'
  BY <1>1, <1>3 DEF RequestStop, RequestFlow, RequestMesh, RequestEnable
<1>4. ASSUME NEW h \in Handler, HandlerStep(h) PROVE AgentTypes'
  <2>1. ASSUME NEW a \in Agent, Pass1(h, a) PROVE AgentTypes'
    <3>1. plan[h] \in SUBSET Flow /\ run[h] \in Nat
      BY <1>t DEF HandlerTypes
    <3>2. Plan(plan[h], run[h]) \in Frames /\ Stop \in Frames
      BY <3>1, FrameTypes
    <3>3. (IF enabled[a] THEN Plan(plan[h], run[h]) ELSE Stop) \in Frames
      BY <3>2
    <3>4. /\ SendTo(a, IF enabled[a] THEN Plan(plan[h], run[h]) ELSE Stop)
          /\ UNCHANGED agentSide
      BY <2>1 DEF Pass1
    <3> QED
      BY <1>t, <3>3, <3>4, SendTypes
  <2>2. ASSUME NEW a \in Agent, Pass2(h, a) PROVE AgentTypes'
    <3>1. ivl[h] \in Interval \cup {0} /\ run[h] \in Nat
      BY <1>t DEF HandlerTypes
    <3>2. Start(ivl[h], run[h]) \in Frames
      BY <3>1, FrameTypes
    <3>3. UNCHANGED agentSide /\ (SendTo(a, Start(ivl[h], run[h])) \/ UNCHANGED ctl)
      BY <2>2 DEF Pass2
    <3> QED
      BY <1>t, <1>1, <3>2, <3>3, SendTypes
  <2>3. ASSUME NEW a \in Agent, BroadcastSend(h, a) PROVE AgentTypes'
    BY <1>t, <2>3, FrameTypes, SendTypes DEF BroadcastSend
  <2>4. CASE ~ \E a \in Agent : Pass1(h, a) \/ Pass2(h, a) \/ BroadcastSend(h, a)
    BY <1>1, <1>4, <2>4 DEF HandlerStep, Check, Load, Lock, Resolve, ResolveFlows, Snapshot,
       EndPass1, Unlock, BroadcastLookup, BroadcastEnd, ResolveAgent, MeshAdd, MeshEnd
  <2> QED
    BY <2>1, <2>2, <2>3, <2>4
<1>5. ASSUME NEW a \in Agent, AgentStep(a) PROVE AgentTypes'
  BY <1>t, <1>5, AgentStepTypes
<1>6. ASSUME NEW a \in Agent, Disconnect(a) PROVE AgentTypes'
  <2>1. <<>> \in Seq(Frames) /\ Len(<<>>) = 0 /\ 0 <= SendCap
    BY Consts, EmptySeq
  <2> QED
    BY <1>t, <1>6, <2>1 DEF Disconnect, AgentTypes, agentSide
<1>7. ASSUME NEW a \in Agent, Reconnect(a) PROVE AgentTypes'
  BY <1>1, <1>7 DEF Reconnect
<1>8. CASE UNCHANGED vars
  BY <1>1, <1>8 DEF vars
<1> QED
  BY <1>2, <1>3, <1>4, <1>5, <1>6, <1>7, <1>8 DEF Next

LEMMA StoreTypesStep == TypeOK /\ [Next]_vars => StoreTypes'
<1> SUFFICES ASSUME TypeOK, [Next]_vars PROVE StoreTypes'
  OBVIOUS
<1>t. StoreTypes /\ HandlerTypes
  BY DEF TypeOK
<1>1. ASSUME UNCHANGED <<stores, connected, changed>> PROVE StoreTypes'
  BY <1>t, <1>1 DEF StoreTypes, stores
<1>2. ASSUME NEW h \in Handler, NEW i \in Interval, RequestStart(h, i) PROVE StoreTypes'
  BY <1>t, <1>2 DEF RequestStart, StoreTypes
<1>3. ASSUME NEW h \in Handler, RequestStop(h) \/ RequestMesh(h) PROVE StoreTypes'
  BY <1>t, <1>3 DEF RequestStop, RequestMesh, StoreTypes, stores
<1>4. ASSUME NEW h \in Handler, RequestFlow(h) PROVE StoreTypes'
  <2>1. flows' \subseteq Flow
    BY <1>t, <1>4 DEF RequestFlow, StoreTypes
  <2> QED
    BY <1>t, <1>4, <2>1 DEF RequestFlow, StoreTypes
<1>5. ASSUME NEW h \in Handler, NEW a \in Agent, RequestEnable(h, a) PROVE StoreTypes'
  <2>1. enabled' \in [Agent -> BOOLEAN]
    BY <1>t, <1>5 DEF RequestEnable, StoreTypes
  <2> QED
    BY <1>t, <1>5, <2>1 DEF RequestEnable, StoreTypes
<1>6. ASSUME NEW h \in Handler, HandlerStep(h) PROVE StoreTypes'
  <2>1. CASE Lock(h)
    BY <1>t, <2>1 DEF Lock, StoreTypes, HandlerTypes
  <2>2. CASE Resolve(h) \/ BroadcastLookup(h)
    BY <1>t, <2>2 DEF Resolve, BroadcastLookup, StoreTypes, stores
  <2>3. ASSUME NEW f \in Flow, MeshAdd(h, f) PROVE StoreTypes'
    BY <1>t, <2>3 DEF MeshAdd, StoreTypes
  <2>4. CASE \/ Check(h) \/ Load(h) \/ ResolveFlows(h) \/ Snapshot(h) \/ EndPass1(h) \/ Unlock(h)
             \/ BroadcastEnd(h) \/ MeshEnd(h)
             \/ \E a \in Agent : \/ ResolveAgent(h, a) \/ Pass1(h, a) \/ Pass2(h, a)
                                 \/ BroadcastSend(h, a)
    BY <1>1, <2>4 DEF Check, Load, ResolveFlows, Snapshot, EndPass1, Unlock, BroadcastEnd,
                      MeshEnd, ResolveAgent, Pass1, Pass2, BroadcastSend
  <2> QED
    BY <1>6, <2>1, <2>2, <2>3, <2>4 DEF HandlerStep
<1>7. ASSUME NEW a \in Agent, AgentStep(a) PROVE StoreTypes'
  BY <1>1, <1>7 DEF AgentStep, OnFlowPlan, OnTestStart, OnTestStop, Next1
<1>8. ASSUME NEW a \in Agent, Disconnect(a) \/ Reconnect(a) PROVE StoreTypes'
  BY <1>t, <1>8 DEF Disconnect, Reconnect, StoreTypes, stores
<1>9. CASE UNCHANGED vars
  BY <1>1, <1>9 DEF vars
<1> QED
  BY <1>2, <1>3, <1>4, <1>5, <1>6, <1>7, <1>8, <1>9 DEF Next

(* The lock, and where the handlers stand.                                 *)
LEMMA LockStep ==
  ASSUME HandlerTypes, LockTypes, [Next]_vars
  PROVE  LockTypes' /\ pc' \in [Handler -> Pcs]
<1>t. pc \in [Handler -> Pcs]
  BY DEF HandlerTypes
<1>1. ASSUME UNCHANGED <<mu, pc>> PROVE LockTypes' /\ pc' \in [Handler -> Pcs]
  BY <1>t, <1>1 DEF LockTypes
<1>2. ASSUME NEW h \in Handler,
             \/ \E i \in Interval : RequestStart(h, i)
             \/ RequestStop(h) \/ RequestFlow(h) \/ RequestMesh(h)
             \/ \E a \in Agent : RequestEnable(h, a)
      PROVE  LockTypes' /\ pc' \in [Handler -> Pcs]
  <2>1. PICK l \in {"lock", "stopping", "check", "mesh"} : Goto(h, l)
    BY <1>2 DEF RequestStart, RequestStop, RequestFlow, RequestMesh, RequestEnable
  <2>2. mu' = mu /\ pc[h] = "idle"
    BY <1>2 DEF RequestStart, RequestStop, RequestFlow, RequestMesh, RequestEnable, Accept
  <2>3. l \in Pcs /\ l \notin Busy /\ pc[h] \notin Busy
    BY <2>2 DEF Pcs, Busy
  <2> QED
    BY <2>1, <2>2, <2>3, GotoKeepsLock
<1>3. ASSUME NEW h \in Handler,
             Check(h) \/ Load(h) \/ BroadcastLookup(h) \/ BroadcastEnd(h) \/ MeshEnd(h)
      PROVE  LockTypes' /\ pc' \in [Handler -> Pcs]
  <2>1. PICK l \in {"load", "idle", "lock", "broadcast", "check"} : Goto(h, l)
    BY <1>3 DEF Check, Load, BroadcastLookup, BroadcastEnd, MeshEnd
  <2>2. mu' = mu /\ pc[h] \in {"check", "load", "stopping", "broadcast", "mesh"}
    BY <1>3 DEF Check, Load, BroadcastLookup, BroadcastEnd, MeshEnd
  <2>3. l \in Pcs /\ l \notin Busy /\ pc[h] \notin Busy
    BY <2>2 DEF Pcs, Busy
  <2> QED
    BY <2>1, <2>2, <2>3, GotoKeepsLock
<1>4. ASSUME NEW h \in Handler, Resolve(h) \/ ResolveFlows(h) \/ Snapshot(h) \/ EndPass1(h)
      PROVE  LockTypes' /\ pc' \in [Handler -> Pcs]
  <2>1. PICK l \in {"plan", "agents", "pass1", "pass2"} : Goto(h, l)
    BY <1>4 DEF Resolve, ResolveFlows, Snapshot, EndPass1
  <2>2. mu' = mu /\ pc[h] \in {"resolve", "plan", "agents", "pass1"}
    BY <1>4 DEF Resolve, ResolveFlows, Snapshot, EndPass1
  <2>3. l \in Pcs /\ l \in Busy /\ pc[h] \in Busy
    BY <2>2 DEF Pcs, Busy
  <2> QED
    BY <2>1, <2>2, <2>3, GotoKeepsLock
<1>5. ASSUME NEW h \in Handler, Lock(h) PROVE LockTypes' /\ pc' \in [Handler -> Pcs]
  <2>1. mu = NoHandler /\ mu' = h /\ pc' = [pc EXCEPT ![h] = "resolve"]
    BY <1>5 DEF Lock, Goto
  <2>2. "resolve" \in Busy /\ "resolve" \in Pcs /\ \A g \in Handler : pc[g] \notin Busy
    BY <2>1, Consts DEF LockTypes, Busy, Pcs
  <2> QED
    BY <1>t, <2>1, <2>2 DEF LockTypes
<1>6. ASSUME NEW h \in Handler, Unlock(h) PROVE LockTypes' /\ pc' \in [Handler -> Pcs]
  <2>1. pc[h] = "pass2" /\ mu' = NoHandler /\ pc' = [pc EXCEPT ![h] = "idle"]
    BY <1>6 DEF Unlock, Goto
  <2>2. "idle" \notin Busy /\ "idle" \in Pcs /\ mu = h
    BY <2>1 DEF LockTypes, Busy, Pcs
  <2>3. \A g \in Handler : g # h => pc[g] \notin Busy
    BY <2>2 DEF LockTypes
  <2> QED
    BY <1>t, <2>1, <2>2, <2>3, Consts DEF LockTypes
<1>7. ASSUME NEW h \in Handler,
             \/ \E a \in Agent : ResolveAgent(h, a) \/ Pass1(h, a) \/ Pass2(h, a) \/ BroadcastSend(h, a)
             \/ \E f \in Flow : MeshAdd(h, f)
      PROVE  LockTypes' /\ pc' \in [Handler -> Pcs]
  BY <1>1, <1>7 DEF ResolveAgent, Pass1, Pass2, BroadcastSend, MeshAdd
<1>8. ASSUME NEW a \in Agent, AgentStep(a) \/ Disconnect(a) \/ Reconnect(a)
      PROVE  LockTypes' /\ pc' \in [Handler -> Pcs]
  BY <1>1, <1>8 DEF AgentStep, OnFlowPlan, OnTestStart, OnTestStop, Next1, Disconnect, Reconnect
<1>9. CASE UNCHANGED vars
  BY <1>1, <1>9 DEF vars
<1> QED
  BY <1>2, <1>3, <1>4, <1>5, <1>6, <1>7, <1>8, <1>9 DEF Next, HandlerStep

LEMMA LocalTypesStep ==
  ASSUME TypeOK, [Next]_vars
  PROVE  /\ ivl' \in [Handler -> Interval \cup {0}]
         /\ ends' \in [Handler -> SUBSET Agent] /\ who' \in [Handler -> SUBSET Agent]
         /\ todo' \in [Handler -> SUBSET Agent] /\ plan' \in [Handler -> SUBSET Flow]
         /\ run' \in [Handler -> Nat] /\ nrun' \in Nat
<1> DEFINE P == /\ ivl' \in [Handler -> Interval \cup {0}]
                /\ ends' \in [Handler -> SUBSET Agent] /\ who' \in [Handler -> SUBSET Agent]
                /\ todo' \in [Handler -> SUBSET Agent] /\ plan' \in [Handler -> SUBSET Flow]
                /\ run' \in [Handler -> Nat] /\ nrun' \in Nat
<1> SUFFICES P
  OBVIOUS
<1>t. /\ ivl \in [Handler -> Interval \cup {0}]
      /\ ends \in [Handler -> SUBSET Agent] /\ who \in [Handler -> SUBSET Agent]
      /\ todo \in [Handler -> SUBSET Agent] /\ plan \in [Handler -> SUBSET Flow]
      /\ run \in [Handler -> Nat] /\ nrun \in Nat
      /\ curInterval \in Interval \cup {0} /\ connected \subseteq Agent /\ flows \subseteq Flow
  BY DEF TypeOK, StoreTypes, HandlerTypes
<1>1. ASSUME UNCHANGED <<local, todo, nrun>> PROVE P
  BY <1>t, <1>1 DEF local
<1>2. ASSUME NEW h \in Handler, NEW i \in Interval, RequestStart(h, i) PROVE P
  BY <1>t, <1>2 DEF RequestStart
<1>3. ASSUME NEW h \in Handler,
             RequestStop(h) \/ RequestFlow(h) \/ \E a \in Agent : RequestEnable(h, a)
      PROVE  P
  BY <1>1, <1>3 DEF RequestStop, RequestFlow, RequestEnable
<1>4. ASSUME NEW h \in Handler, RequestMesh(h) PROVE P
  BY <1>t, <1>4 DEF RequestMesh
<1>5. ASSUME NEW h \in Handler, HandlerStep(h) PROVE P
  <2>1. CASE Load(h) \/ Lock(h) \/ Resolve(h) \/ ResolveFlows(h) \/ Snapshot(h) \/ EndPass1(h)
             \/ BroadcastLookup(h)
    BY <1>t, <2>1 DEF Load, Lock, Resolve, ResolveFlows, Snapshot, EndPass1, BroadcastLookup, local
  <2>2. CASE Unlock(h)
    BY <1>t, <2>2 DEF Unlock, Leave
  <2>3. CASE Check(h) \/ BroadcastEnd(h) \/ MeshEnd(h)
    BY <1>1, <2>3 DEF Check, BroadcastEnd, MeshEnd
  <2>4. ASSUME NEW a \in Agent,
               ResolveAgent(h, a) \/ Pass1(h, a) \/ Pass2(h, a) \/ BroadcastSend(h, a)
        PROVE  P
    <3>1. todo' = [todo EXCEPT ![h] = @ \ {a}] /\ UNCHANGED <<ivl, plan, who, run, nrun>>
      BY <2>4 DEF ResolveAgent, Pass1, Pass2, BroadcastSend, local
    <3>2. ends' = ends \/ ends' = [ends EXCEPT ![h] = @ \cup {a}]
      BY <1>t, <2>4 DEF ResolveAgent, Pass1, Pass2, BroadcastSend, local
    <3>3. ends' \in [Handler -> SUBSET Agent]
      BY <1>t, <3>2
    <3> QED
      BY <1>t, <3>1, <3>3
  <2>5. ASSUME NEW f \in Flow, MeshAdd(h, f) PROVE P
    BY <1>t, <2>5 DEF MeshAdd
  <2> QED
    BY <1>5, <2>1, <2>2, <2>3, <2>4, <2>5 DEF HandlerStep
<1>6. ASSUME NEW a \in Agent, AgentStep(a) \/ Disconnect(a) \/ Reconnect(a) PROVE P
  BY <1>1, <1>6 DEF AgentStep, OnFlowPlan, OnTestStart, OnTestStop, Next1, Disconnect, Reconnect
<1>7. CASE UNCHANGED vars
  BY <1>1, <1>7 DEF vars
<1> QED
  BY <1>2, <1>3, <1>4, <1>5, <1>6, <1>7 DEF Next

LEMMA TypesInit == Init => TypeOK
<1> SUFFICES ASSUME Init PROVE TypeOK
  OBVIOUS
<1>1. StoreTypes
  BY DEF Init, StoreTypes
<1>2. <<>> \in Seq(Frames) /\ Len(<<>>) = 0
  BY EmptySeq
<1>3. AgentTypes
  BY <1>2, Consts DEF Init, AgentTypes
<1>4. HandlerTypes
  BY DEF Init, HandlerTypes, Pcs
<1>5. LockTypes
  BY Consts DEF Init, LockTypes, Busy
<1> QED
  BY <1>1, <1>3, <1>4, <1>5 DEF TypeOK

LEMMA TypesStep == TypeOK /\ [Next]_vars => TypeOK'
  BY AgentTypesStep, StoreTypesStep, LockStep, LocalTypesStep DEF TypeOK, HandlerTypes

(* applyMu is held by exactly the handler that is inside applyFlows; no    *)
(* agent is sent a plan or a start that its onControl could not read.      *)
THEOREM LifecycleTypes == Spec => []TypeOK
  BY TypesInit, TypesStep, PTL DEF Spec

-----------------------------------------------------------------------------
(* The order of the applies.  What RunsInOrder needs to be inductive: no   *)
(* number is above that of the last apply, which the lock's holder has.    *)
OrderAt(a) ==
  /\ \A i, j \in Numbered(a) : i < j => ctl[a][i].run <= ctl[a][j].run
  /\ \A i \in Numbered(a) : /\ planRun[a] <= ctl[a][i].run
                            /\ engine[a].on => engine[a].run <= ctl[a][i].run
                            /\ ctl[a][i].run <= nrun
  /\ engine[a].on => planRun[a] <= engine[a].run /\ engine[a].run <= nrun
  /\ planRun[a] <= nrun

NumberInv ==
  /\ \A h \in Handler : mu = h => run[h] = nrun
  /\ \A a \in Agent : OrderAt(a)

LEMMA NumberTypes ==
  ASSUME AgentTypes, NEW a \in Agent
  PROVE  /\ ctl[a] \in Seq(Frames) /\ Len(ctl[a]) \in Nat /\ DOMAIN ctl[a] = 1 .. Len(ctl[a])
         /\ \A i \in DOMAIN ctl[a] : ctl[a][i] \in Frames
         /\ \A i \in Numbered(a) : i \in 1 .. Len(ctl[a]) /\ ctl[a][i].run \in Nat
         /\ planRun[a] \in Nat /\ (engine[a].on => engine[a].run \in Nat)
<1>1. /\ ctl[a] \in Seq(Frames) /\ Len(ctl[a]) \in Nat /\ DOMAIN ctl[a] = 1 .. Len(ctl[a])
      /\ planRun[a] \in Nat /\ engine[a] \in {Idle} \cup Tests
  BY LenProperties DEF AgentTypes
<1>2. \A i \in DOMAIN ctl[a] : ctl[a][i] \in Frames
  BY <1>1, ElementOfSeq
<1>3. \A i \in Numbered(a) : i \in 1 .. Len(ctl[a]) /\ ctl[a][i].run \in Nat
  BY <1>1, <1>2, FrameTypes DEF Numbered
<1>4. engine[a].on => engine[a].run \in Nat
  BY <1>1, TestTypes
<1> QED
  BY <1>1, <1>2, <1>3, <1>4

(* A queue with a frame put at its end, and without its head.              *)
LEMMA AppendCtl ==
  ASSUME AgentTypes, NEW a \in Agent, NEW f \in Frames, ctl' = [ctl EXCEPT ![a] = Append(@, f)]
  PROVE  /\ \A b \in Agent : b # a => ctl'[b] = ctl[b]
         /\ ctl'[a] = Append(ctl[a], f) /\ Len(ctl'[a]) = Len(ctl[a]) + 1
         /\ DOMAIN ctl'[a] = 1 .. Len(ctl[a]) + 1
         /\ \A i \in 1 .. Len(ctl[a]) : ctl'[a][i] = ctl[a][i]
         /\ ctl'[a][Len(ctl[a]) + 1] = f /\ ctl'[a] # <<>>
<1>1. ctl \in [Agent -> Seq(Frames)] /\ ctl[a] \in Seq(Frames)
  BY DEF AgentTypes
<1>2. /\ Append(ctl[a], f) \in Seq(Frames) /\ Len(Append(ctl[a], f)) = Len(ctl[a]) + 1
      /\ \A i \in 1 .. Len(ctl[a]) : Append(ctl[a], f)[i] = ctl[a][i]
      /\ Append(ctl[a], f)[Len(ctl[a]) + 1] = f /\ Append(ctl[a], f) # <<>>
  BY <1>1, AppendProperties
<1>3. DOMAIN Append(ctl[a], f) = 1 .. Len(ctl[a]) + 1
  BY <1>2, LenProperties
<1>4. ctl'[a] = Append(ctl[a], f) /\ \A b \in Agent : b # a => ctl'[b] = ctl[b]
  BY <1>1
<1> QED
  BY <1>2, <1>3, <1>4

LEMMA TailCtl ==
  ASSUME AgentTypes, NEW a \in Agent, ctl[a] # <<>>, ctl' = [ctl EXCEPT ![a] = Tail(@)]
  PROVE  /\ \A b \in Agent : b # a => ctl'[b] = ctl[b]
         /\ ctl'[a] = Tail(ctl[a]) /\ Len(ctl'[a]) = Len(ctl[a]) - 1 /\ Len(ctl[a]) \in Nat \ {0}
         /\ ctl'[a] \in Seq(Frames) /\ (ctl'[a] = <<>> <=> Len(ctl[a]) = 1)
         /\ DOMAIN ctl'[a] = 1 .. Len(ctl[a]) - 1
         /\ \A i \in DOMAIN ctl'[a] : ctl'[a][i] = ctl[a][i + 1] /\ i + 1 \in DOMAIN ctl[a]
         /\ Head(ctl[a]) = ctl[a][1] /\ 1 \in DOMAIN ctl[a] /\ Head(ctl[a]) \in Frames
<1> DEFINE t == Tail(ctl[a])
<1>1. ctl \in [Agent -> Seq(Frames)] /\ ctl[a] \in Seq(Frames)
  BY DEF AgentTypes
<1>2. /\ t \in Seq(Frames) /\ Len(t) = Len(ctl[a]) - 1
      /\ Len(ctl[a]) \in Nat \ {0} /\ DOMAIN ctl[a] = 1 .. Len(ctl[a])
      /\ \A i \in 1 .. Len(ctl[a]) - 1 : t[i] = ctl[a][i + 1]
      /\ Head(ctl[a]) \in Frames /\ Head(ctl[a]) = ctl[a][1]
  BY <1>1, HeadTailProperties, EmptySeq, LenProperties
<1>3. DOMAIN t = 1 .. Len(ctl[a]) - 1
  BY <1>2, LenProperties
<1>4. ctl'[a] = t /\ \A b \in Agent : b # a => ctl'[b] = ctl[b]
  BY <1>1
<1>5. t = <<>> <=> Len(ctl[a]) = 1
  <2>1. t # <<>> => Len(t) \in Nat \ {0}
    BY <1>2, EmptySeq
  <2>2. t = <<>> => Len(t) = 0
    BY EmptySeq
  <2> QED
    BY <1>2, <2>1, <2>2
<1> HIDE DEF t
<1>6. \A i \in DOMAIN t : t[i] = ctl[a][i + 1] /\ i + 1 \in DOMAIN ctl[a]
  BY <1>2, <1>3
<1>7. 1 \in DOMAIN ctl[a]
  BY <1>2
<1> QED
  BY <1>2, <1>3, <1>4, <1>5, <1>6, <1>7 DEF t

LEMMA OrderSend ==
  ASSUME AgentTypes, NumberInv, nrun \in Nat, NEW a \in Agent, NEW f \in Frames, SendTo(a, f),
         f.kind # "TEST_STOP" => f.run = nrun,
         UNCHANGED <<agentSide, mu, run, nrun>>
  PROVE  NumberInv'
<1>1. UNCHANGED <<planRun, engine>>
  BY DEF agentSide
<1>2. CASE UNCHANGED ctl
  BY <1>1, <1>2 DEF NumberInv, OrderAt, Numbered
<1>3. CASE ctl' = [ctl EXCEPT ![a] = Append(@, f)]
  <2>1. /\ \A b \in Agent : b # a => ctl'[b] = ctl[b]
        /\ DOMAIN ctl'[a] = 1 .. Len(ctl[a]) + 1
        /\ \A i \in 1 .. Len(ctl[a]) : ctl'[a][i] = ctl[a][i]
        /\ ctl'[a][Len(ctl[a]) + 1] = f
    BY <1>3, AppendCtl
  <2>2. /\ Len(ctl[a]) \in Nat /\ DOMAIN ctl[a] = 1 .. Len(ctl[a])
        /\ \A i \in Numbered(a) : i \in 1 .. Len(ctl[a]) /\ ctl[a][i].run \in Nat
        /\ planRun[a] \in Nat /\ (engine[a].on => engine[a].run \in Nat)
    BY NumberTypes
  <2>f. f.kind # "TEST_STOP" => f.run = nrun
    OBVIOUS
  <2>n. Numbered(a)' = {i \in DOMAIN ctl'[a] : ctl'[a][i].kind # "TEST_STOP"}
    BY DEF Numbered
  <2>3. ASSUME NEW i \in Numbered(a)'
        PROVE  \/ i \in Numbered(a) /\ ctl'[a][i] = ctl[a][i]
               \/ i = Len(ctl[a]) + 1 /\ ctl'[a][i].run = nrun
    <3>1. i \in 1 .. Len(ctl[a]) + 1 /\ ctl'[a][i].kind # "TEST_STOP"
      BY <2>1, <2>n
    <3>2. CASE i = Len(ctl[a]) + 1
      BY <2>1, <2>f, <3>1, <3>2
    <3>3. CASE i # Len(ctl[a]) + 1
      <4>1. i \in 1 .. Len(ctl[a])
        BY <2>2, <3>1, <3>3
      <4> QED
        BY <2>1, <2>2, <3>1, <4>1 DEF Numbered
    <3> QED
      BY <3>2, <3>3
  <2>4. OrderAt(a)
    BY DEF NumberInv
  <2>5. OrderAt(a)'
    <3>1. ASSUME NEW i \in Numbered(a)', NEW j \in Numbered(a)', i < j
          PROVE  ctl'[a][i].run <= ctl'[a][j].run
      <4>1. CASE j \in Numbered(a) /\ ctl'[a][j] = ctl[a][j]
        <5>1. i # Len(ctl[a]) + 1
          BY <2>2, <3>1, <4>1
        <5> QED
          BY <2>3, <2>4, <3>1, <4>1, <5>1 DEF OrderAt
      <4>2. CASE j = Len(ctl[a]) + 1 /\ ctl'[a][j].run = nrun
        <5>1. i # Len(ctl[a]) + 1
          BY <2>2, <3>1, <4>2
        <5> QED
          BY <2>3, <2>4, <4>2, <5>1 DEF OrderAt
      <4> QED
        BY <2>3, <4>1, <4>2
    <3>2. ASSUME NEW i \in Numbered(a)'
          PROVE  /\ planRun'[a] <= ctl'[a][i].run
                 /\ engine'[a].on => engine'[a].run <= ctl'[a][i].run
                 /\ ctl'[a][i].run <= nrun'
      <4>1. CASE i \in Numbered(a) /\ ctl'[a][i] = ctl[a][i]
        BY <1>1, <2>4, <4>1 DEF OrderAt
      <4>2. CASE i = Len(ctl[a]) + 1 /\ ctl'[a][i].run = nrun
        <5>1. planRun[a] <= nrun /\ (engine[a].on => engine[a].run <= nrun) /\ nrun <= nrun
          BY <2>4 DEF OrderAt
        <5> QED
          BY <1>1, <4>2, <5>1
      <4> QED
        BY <2>3, <4>1, <4>2
    <3> QED
      BY <1>1, <2>4, <3>1, <3>2 DEF OrderAt
  <2>6. \A b \in Agent : b # a => OrderAt(b)'
    BY <1>1, <2>1 DEF NumberInv, OrderAt, Numbered
  <2> QED
    BY <2>5, <2>6 DEF NumberInv
<1> QED
  BY <1>2, <1>3 DEF SendTo

LEMMA OrderRead ==
  ASSUME AgentTypes, NumberInv, nrun \in Nat, NEW a \in Agent, AgentStep(a)
  PROVE  NumberInv'
<1>1. /\ UNCHANGED <<mu, run, nrun>> /\ ctl[a] # <<>> /\ ctl' = [ctl EXCEPT ![a] = Tail(@)]
  BY DEF AgentStep, OnFlowPlan, OnTestStart, OnTestStop, Next1, local
<1>2. /\ \A b \in Agent : b # a => ctl'[b] = ctl[b]
      /\ \A i \in DOMAIN ctl'[a] : ctl'[a][i] = ctl[a][i + 1] /\ i + 1 \in DOMAIN ctl[a]
      /\ DOMAIN ctl'[a] = 1 .. Len(ctl[a]) - 1
      /\ Head(ctl[a]) = ctl[a][1] /\ 1 \in DOMAIN ctl[a] /\ Len(ctl[a]) \in Nat \ {0}
  BY <1>1, TailCtl
<1>3. /\ \A i \in Numbered(a) : i \in 1 .. Len(ctl[a]) /\ ctl[a][i].run \in Nat
      /\ planRun[a] \in Nat /\ (engine[a].on => engine[a].run \in Nat)
  BY NumberTypes
<1>4. \A i \in Numbered(a)' : i + 1 \in Numbered(a) /\ ctl'[a][i] = ctl[a][i + 1] /\ i \in Nat \ {0}
  BY <1>2 DEF Numbered
<1>5. OrderAt(a)
  BY DEF NumberInv
<1>6. \A i, j \in Numbered(a)' : i < j => ctl'[a][i].run <= ctl'[a][j].run
  <2> SUFFICES ASSUME NEW i \in Numbered(a)', NEW j \in Numbered(a)', i < j
               PROVE  ctl'[a][i].run <= ctl'[a][j].run
    OBVIOUS
  <2>1. i + 1 < j + 1
    BY <1>4
  <2> QED
    BY <1>4, <1>5, <2>1 DEF OrderAt
<1>7. \A b \in Agent : b # a => engine'[b] = engine[b] /\ planRun'[b] = planRun[b]
  BY DEF AgentTypes, AgentStep, OnFlowPlan, OnTestStart, OnTestStop
<1>8. \A b \in Agent : b # a => OrderAt(b)'
  BY <1>1, <1>2, <1>7 DEF NumberInv, OrderAt, Numbered
<1>9. OrderAt(a)'
  <2>1. CASE OnFlowPlan(a)
    <3>1. planRun'[a] = ctl[a][1].run /\ engine'[a].on = FALSE /\ 1 \in Numbered(a)
      BY <1>2, <2>1, TestTypes DEF OnFlowPlan, Numbered, AgentTypes
    <3>2. \A i \in Numbered(a)' : ctl[a][1].run <= ctl[a][i + 1].run /\ ctl[a][i + 1].run <= nrun
      <4> SUFFICES ASSUME NEW i \in Numbered(a)'
                   PROVE  ctl[a][1].run <= ctl[a][i + 1].run /\ ctl[a][i + 1].run <= nrun
        OBVIOUS
      <4>1. 1 < i + 1 /\ i + 1 \in Numbered(a)
        BY <1>4
      <4> QED
        BY <1>5, <3>1, <4>1 DEF OrderAt
    <3>3. ctl[a][1].run <= nrun
      BY <1>5, <3>1 DEF OrderAt
    <3> QED
      BY <1>1, <1>4, <1>6, <3>1, <3>2, <3>3 DEF OrderAt
  <2>2. CASE OnTestStart(a)
    <3>1. /\ engine'[a].run = ctl[a][1].run /\ planRun'[a] = planRun[a] /\ 1 \in Numbered(a)
      BY <1>2, <2>2 DEF OnTestStart, Numbered, AgentTypes, Test
    <3>2. \A i \in Numbered(a)' :
            /\ ctl[a][1].run <= ctl[a][i + 1].run /\ ctl[a][i + 1].run <= nrun
            /\ planRun[a] <= ctl[a][i + 1].run
      <4> SUFFICES ASSUME NEW i \in Numbered(a)'
                   PROVE  /\ ctl[a][1].run <= ctl[a][i + 1].run /\ ctl[a][i + 1].run <= nrun
                          /\ planRun[a] <= ctl[a][i + 1].run
        OBVIOUS
      <4>1. 1 < i + 1 /\ i + 1 \in Numbered(a)
        BY <1>4
      <4> QED
        BY <1>5, <3>1, <4>1 DEF OrderAt
    <3>3. planRun[a] <= ctl[a][1].run /\ ctl[a][1].run <= nrun /\ planRun[a] <= nrun
      BY <1>5, <3>1 DEF OrderAt
    <3> QED
      BY <1>1, <1>4, <1>6, <3>1, <3>2, <3>3 DEF OrderAt
  <2>3. CASE OnTestStop(a)
    <3>1. planRun'[a] = planRun[a] /\ engine'[a].on = FALSE
      BY <2>3, TestTypes DEF OnTestStop, AgentTypes
    <3> QED
      BY <1>1, <1>4, <1>5, <1>6, <3>1 DEF OrderAt
  <2> QED
    BY <2>1, <2>2, <2>3 DEF AgentStep
<1> QED
  BY <1>1, <1>8, <1>9 DEF NumberInv

LEMMA NumberStep == TypeOK /\ NumberInv /\ [Next]_vars => NumberInv'
<1> SUFFICES ASSUME TypeOK, NumberInv, [Next]_vars PROVE NumberInv'
  OBVIOUS
<1>t. AgentTypes /\ HandlerTypes /\ LockTypes /\ nrun \in Nat
  BY DEF TypeOK, HandlerTypes
<1>1. ASSUME UNCHANGED <<ctl, agentSide, mu, run, nrun>> PROVE NumberInv'
  BY <1>1 DEF NumberInv, OrderAt, Numbered, agentSide
<1>2. ASSUME NEW h \in Handler,
             \/ \E i \in Interval : RequestStart(h, i)
             \/ RequestStop(h) \/ RequestFlow(h) \/ RequestMesh(h)
             \/ \E a \in Agent : RequestEnable(h, a)
      PROVE  NumberInv'
  BY <1>1, <1>2 DEF RequestStart, RequestStop, RequestFlow, RequestMesh, RequestEnable, local
<1>3. ASSUME NEW h \in Handler, NEW a \in Agent, Pass1(h, a) PROVE NumberInv'
  <2>1. pc[h] = "pass1" /\ mu = h
    BY <1>t, <1>3 DEF Pass1, LockTypes, Busy
  <2>2. plan[h] \in SUBSET Flow /\ run[h] \in Nat /\ run[h] = nrun
    BY <1>t, <2>1 DEF HandlerTypes, NumberInv
  <2> DEFINE f == IF enabled[a] THEN Plan(plan[h], run[h]) ELSE Stop
  <2>3. f \in Frames /\ (f.kind # "TEST_STOP" => f.run = nrun)
    BY <2>2, FrameTypes
  <2>4. SendTo(a, f) /\ UNCHANGED <<agentSide, mu, run, nrun>>
    BY <1>3 DEF Pass1, local
  <2> QED
    BY <1>t, <2>3, <2>4, OrderSend
<1>4. ASSUME NEW h \in Handler, NEW a \in Agent, Pass2(h, a) PROVE NumberInv'
  <2>1. pc[h] = "pass2" /\ mu = h
    BY <1>t, <1>4 DEF Pass2, LockTypes, Busy
  <2>2. ivl[h] \in Interval \cup {0} /\ run[h] \in Nat /\ run[h] = nrun
    BY <1>t, <2>1 DEF HandlerTypes, NumberInv
  <2> DEFINE f == Start(ivl[h], run[h])
  <2>3. f \in Frames /\ f.run = nrun
    BY <2>2, FrameTypes
  <2>4. (SendTo(a, f) \/ UNCHANGED ctl) /\ UNCHANGED <<agentSide, mu, run, nrun>>
    BY <1>4 DEF Pass2, local
  <2> QED
    BY <1>t, <1>1, <2>3, <2>4, OrderSend
<1>5. ASSUME NEW h \in Handler, NEW a \in Agent, BroadcastSend(h, a) PROVE NumberInv'
  BY <1>t, <1>5, FrameTypes, OrderSend DEF BroadcastSend, local
<1>6. ASSUME NEW h \in Handler, Lock(h) PROVE NumberInv'
  <2>1. /\ UNCHANGED <<ctl, engine, planRun>> /\ mu' = h /\ nrun' = nrun + 1
        /\ run' = [run EXCEPT ![h] = nrun + 1]
    BY <1>6 DEF Lock, agentSide
  <2>2. \A g \in Handler : mu' = g => run'[g] = nrun'
    BY <1>t, <2>1 DEF HandlerTypes
  <2>3. ASSUME NEW a \in Agent PROVE OrderAt(a)'
    <3>1. /\ \A i \in Numbered(a) : ctl[a][i].run \in Nat
          /\ planRun[a] \in Nat /\ (engine[a].on => engine[a].run \in Nat)
      BY <1>t, NumberTypes
    <3>2. OrderAt(a) /\ Numbered(a)' = Numbered(a)
      BY <2>1 DEF NumberInv, Numbered
    <3>3. /\ \A i \in Numbered(a) : ctl[a][i].run <= nrun + 1
          /\ engine[a].on => engine[a].run <= nrun + 1
          /\ planRun[a] <= nrun + 1
      BY <1>t, <3>1, <3>2 DEF OrderAt
    <3> QED
      BY <2>1, <3>2, <3>3 DEF OrderAt
  <2> QED
    BY <2>2, <2>3 DEF NumberInv
<1>7. ASSUME NEW h \in Handler, Unlock(h) PROVE NumberInv'
  <2>1. UNCHANGED <<ctl, engine, planRun, nrun>> /\ mu' = NoHandler
    BY <1>7 DEF Unlock, agentSide
  <2> QED
    BY <2>1, Consts DEF NumberInv, OrderAt, Numbered
<1>8. ASSUME NEW h \in Handler,
             \/ Check(h) \/ Load(h) \/ Resolve(h) \/ ResolveFlows(h) \/ Snapshot(h) \/ EndPass1(h)
             \/ BroadcastLookup(h) \/ BroadcastEnd(h) \/ MeshEnd(h)
             \/ \E a \in Agent : ResolveAgent(h, a)
             \/ \E f \in Flow : MeshAdd(h, f)
      PROVE  NumberInv'
  BY <1>1, <1>8 DEF Check, Load, Resolve, ResolveFlows, Snapshot, EndPass1, BroadcastLookup,
                    BroadcastEnd, MeshEnd, ResolveAgent, MeshAdd, local
<1>9. ASSUME NEW a \in Agent, AgentStep(a) PROVE NumberInv'
  BY <1>t, <1>9, OrderRead
<1>10. ASSUME NEW a \in Agent, Disconnect(a) PROVE NumberInv'
  <2>1. UNCHANGED <<engine, planRun, mu, run, nrun>> /\ ctl' = [ctl EXCEPT ![a] = <<>>]
    BY <1>10 DEF Disconnect, agentSide, local
  <2>2. DOMAIN <<>> = {}
    OBVIOUS
  <2>3. ctl'[a] = <<>> /\ \A b \in Agent : b # a => ctl'[b] = ctl[b]
    BY <1>t, <2>1 DEF AgentTypes
  <2>4. Numbered(a)' = {}
    BY <2>2, <2>3 DEF Numbered
  <2> QED
    BY <2>1, <2>3, <2>4 DEF NumberInv, OrderAt, Numbered
<1>11. ASSUME NEW a \in Agent, Reconnect(a) PROVE NumberInv'
  BY <1>1, <1>11 DEF Reconnect, local
<1>12. CASE UNCHANGED vars
  BY <1>1, <1>12 DEF vars, local
<1> QED
  BY <1>2, <1>3, <1>4, <1>5, <1>6, <1>7, <1>8, <1>9, <1>10, <1>11, <1>12 DEF Next, HandlerStep

(* The comment on applyMu: the frames of two applies never interleave on   *)
(* an agent's connection, whatever handlers are at work at once.           *)
THEOREM AppliesInOrder == Spec => []RunsInOrder
<1>1. Init => NumberInv
  BY Consts, TestTypes DEF Init, NumberInv, OrderAt, Numbered
<1>2. NumberInv => RunsInOrder
  BY DEF NumberInv, OrderAt, RunsInOrder
<1> QED
  BY <1>1, <1>2, LifecycleTypes, NumberStep, PTL DEF Spec

-----------------------------------------------------------------------------
(* What an agent has carried out, or will have when it has read its queue  *)
(* to the end: a TEST_STOP last; a plan last; a plan and its TEST_START.   *)
LastOf(s) == s[Len(s)]

Quieted(a) ==
  IF ctl[a] = <<>> THEN ~ engine[a].on /\ bound[a] = {}
  ELSE LastOf(ctl[a]).kind = "TEST_STOP"

IsPlan(f, fs) == f.kind = "FLOW_PLAN" /\ f.flows = fs
IsStart(f, i) == f.kind = "TEST_START" /\ f.interval = i
Carries(a, fs) == held[a] = From(a, fs) /\ bound[a] = To(a, fs)

Planned(a, fs) ==
  IF ctl[a] = <<>> THEN Carries(a, fs) ELSE IsPlan(LastOf(ctl[a]), fs)

Probes(a, fs, i) ==
  /\ engine[a].on /\ engine[a].flows = From(a, fs) /\ engine[a].interval = Effective(i)
  /\ bound[a] = To(a, fs)

Started(a, fs, i) ==
  \/ ctl[a] = <<>> /\ Probes(a, fs, i)
  \/ Len(ctl[a]) = 1 /\ IsStart(ctl[a][1], i) /\ Carries(a, fs)
  \/ /\ Len(ctl[a]) >= 2
     /\ IsPlan(ctl[a][Len(ctl[a]) - 1], fs) /\ IsStart(LastOf(ctl[a]), i)

(* Another agent's queue is not looked at.                                 *)
LEMMA SameAgent ==
  ASSUME NEW a \in Agent, ctl'[a] = ctl[a], engine'[a] = engine[a], held'[a] = held[a],
         bound'[a] = bound[a], NEW fs \in SUBSET Flow, NEW i \in Interval \cup {0}
  PROVE  /\ Quieted(a) => Quieted(a)'
         /\ Planned(a, fs) => Planned(a, fs)'
         /\ Started(a, fs, i) => Started(a, fs, i)'
  BY DEF Quieted, Planned, Started, Carries, Probes, LastOf

(* Reading a frame does not change where an agent will end.                *)
LEMMA ReadKeeps ==
  ASSUME AgentTypes, NEW a \in Agent, AgentStep(a),
         NEW fs \in SUBSET Flow, NEW i \in Interval \cup {0}
  PROVE  /\ Quieted(a) => Quieted(a)'
         /\ Planned(a, fs) => Planned(a, fs)'
         /\ Started(a, fs, i) => Started(a, fs, i)'
<1> DEFINE n == Len(ctl[a])
           f == ctl[a][1]
<1>1. ctl[a] # <<>> /\ ctl' = [ctl EXCEPT ![a] = Tail(@)]
  BY DEF AgentStep, OnFlowPlan, OnTestStart, OnTestStop, Next1
<1>2. /\ Len(ctl'[a]) = n - 1 /\ n \in Nat \ {0} /\ (ctl'[a] = <<>> <=> n = 1)
      /\ DOMAIN ctl'[a] = 1 .. n - 1
      /\ \A k \in DOMAIN ctl'[a] : ctl'[a][k] = ctl[a][k + 1] /\ k + 1 \in DOMAIN ctl[a]
      /\ Head(ctl[a]) = f
  BY <1>1, TailCtl
<1>3. n # 1 => LastOf(ctl[a])' = LastOf(ctl[a]) /\ ctl'[a] # <<>> /\ n >= 2
  <2> SUFFICES ASSUME n # 1
               PROVE  LastOf(ctl[a])' = LastOf(ctl[a]) /\ ctl'[a] # <<>> /\ n >= 2
    OBVIOUS
  <2>1. n >= 2 /\ n - 1 \in DOMAIN ctl'[a] /\ (n - 1) + 1 = n
    BY <1>2
  <2>2. ctl'[a][n - 1] = ctl[a][n]
    BY <1>2, <2>1
  <2> QED
    BY <1>2, <2>1, <2>2 DEF LastOf
<1>4. n = 1 => LastOf(ctl[a]) = f /\ ctl'[a] = <<>>
  BY <1>2 DEF LastOf
<1> HIDE DEF n
<1>5. /\ engine \in [Agent -> {Idle} \cup Tests]
      /\ held \in [Agent -> SUBSET Flow] /\ bound \in [Agent -> SUBSET Flow]
  BY DEF AgentTypes
<1>6. ASSUME Quieted(a) PROVE Quieted(a)'
  <2>1. CASE n # 1
    BY <1>1, <1>3, <1>6, <2>1 DEF Quieted
  <2>2. CASE n = 1
    <3>1. f.kind = "TEST_STOP"
      BY <1>1, <1>4, <1>6, <2>2 DEF Quieted
    <3>2. engine' = [engine EXCEPT ![a] = Idle] /\ bound' = [bound EXCEPT ![a] = {}]
      BY <1>2, <3>1 DEF AgentStep, OnFlowPlan, OnTestStart, OnTestStop
    <3>3. ~ engine'[a].on /\ bound'[a] = {}
      BY <1>5, <3>2, TestTypes
    <3> QED
      BY <1>4, <2>2, <3>3 DEF Quieted
  <2> QED
    BY <2>1, <2>2
<1>7. ASSUME Planned(a, fs) PROVE Planned(a, fs)'
  <2>1. CASE n # 1
    BY <1>1, <1>3, <1>7, <2>1 DEF Planned
  <2>2. CASE n = 1
    <3>1. f.kind = "FLOW_PLAN" /\ f.flows = fs
      BY <1>1, <1>4, <1>7, <2>2 DEF Planned, IsPlan
    <3>2. /\ held' = [held EXCEPT ![a] = From(a, fs)]
          /\ bound' = [bound EXCEPT ![a] = To(a, fs)]
      BY <1>2, <3>1 DEF AgentStep, OnFlowPlan, OnTestStart, OnTestStop
    <3>3. held'[a] = From(a, fs) /\ bound'[a] = To(a, fs)
      BY <1>5, <3>2
    <3> QED
      BY <1>4, <2>2, <3>3 DEF Planned, Carries
  <2> QED
    BY <2>1, <2>2
<1>8. ASSUME Started(a, fs, i) PROVE Started(a, fs, i)'
  <2>0. n = 0 \/ n = 1 \/ n = 2 \/ n > 2
    BY <1>2
  <2>1. CASE n = 1
    <3>1. IsStart(f, i) /\ Carries(a, fs)
      BY <1>1, <1>8, <2>1 DEF Started, n
    <3>2. /\ engine' = [engine EXCEPT ![a] = Test(held[a], Effective(i), f.run)]
          /\ UNCHANGED <<held, bound>>
      BY <1>2, <3>1 DEF AgentStep, OnFlowPlan, OnTestStart, OnTestStop, IsStart
    <3>3. engine'[a] = Test(held[a], Effective(i), f.run) /\ bound'[a] = To(a, fs)
      BY <1>5, <3>1, <3>2 DEF Carries
    <3>4. /\ engine'[a].on = TRUE /\ engine'[a].flows = held[a]
          /\ engine'[a].interval = Effective(i)
      BY <3>3 DEF Test
    <3> QED
      BY <1>4, <2>1, <3>1, <3>3, <3>4 DEF Started, Probes, Carries
  <2>2. CASE n = 2
    <3>1. IsPlan(f, fs) /\ IsStart(LastOf(ctl[a]), i)
      BY <1>1, <1>8, <2>2 DEF Started, n
    <3>2. /\ held' = [held EXCEPT ![a] = From(a, fs)]
          /\ bound' = [bound EXCEPT ![a] = To(a, fs)]
      BY <1>2, <3>1 DEF AgentStep, OnFlowPlan, OnTestStart, OnTestStop, IsPlan
    <3>3. held'[a] = From(a, fs) /\ bound'[a] = To(a, fs)
      BY <1>5, <3>2
    <3>4. Len(ctl'[a]) = 1 /\ ctl'[a][1] = LastOf(ctl[a])
      BY <1>2, <1>3, <2>2 DEF LastOf
    <3> QED
      BY <3>1, <3>3, <3>4 DEF Started, Carries
  <2>3. CASE n > 2
    <3>1. IsPlan(ctl[a][n - 1], fs) /\ IsStart(LastOf(ctl[a]), i)
      BY <1>1, <1>8, <2>3 DEF Started, n
    <3>2. /\ Len(ctl'[a]) = n - 1 /\ n - 1 >= 2 /\ n - 2 \in DOMAIN ctl'[a]
          /\ (n - 2) + 1 = n - 1 /\ (n - 1) - 1 = n - 2
      BY <1>2, <2>3
    <3>3. ctl'[a][Len(ctl'[a]) - 1] = ctl[a][n - 1]
      BY <1>2, <3>2
    <3>4. LastOf(ctl[a])' = LastOf(ctl[a])
      BY <1>2, <1>3, <2>3
    <3> QED
      BY <3>1, <3>2, <3>3, <3>4 DEF Started
  <2> QED
    BY <1>2, <2>0, <2>1, <2>2, <2>3
<1> QED
  BY <1>6, <1>7, <1>8

LEMMA StepKeeps ==
  ASSUME AgentTypes, NEW b \in Agent, AgentStep(b), NEW a \in Agent,
         NEW fs \in SUBSET Flow, NEW i \in Interval \cup {0}
  PROVE  /\ Quieted(a) => Quieted(a)'
         /\ Planned(a, fs) => Planned(a, fs)'
         /\ Started(a, fs, i) => Started(a, fs, i)'
<1>1. CASE a = b
  BY <1>1, ReadKeeps
<1>2. CASE a # b
  <2>1. /\ ctl'[a] = ctl[a] /\ engine'[a] = engine[a] /\ held'[a] = held[a]
        /\ bound'[a] = bound[a]
    BY <1>2 DEF AgentTypes, AgentStep, OnFlowPlan, OnTestStart, OnTestStop, Next1
  <2> QED
    BY <2>1, SameAgent
<1> QED
  BY <1>1, <1>2

(* Sending decides where the agent will end.                               *)
LEMMA SendSettles ==
  ASSUME AgentTypes, NEW a \in connected, a \in Agent, NEW f \in Frames, SendTo(a, f),
         UNCHANGED agentSide, NEW fs \in SUBSET Flow, NEW i \in Interval \cup {0}
  PROVE  /\ f.kind = "TEST_STOP" => Quieted(a)'
         /\ IsPlan(f, fs) => Planned(a, fs)'
         /\ IsStart(f, i) /\ Planned(a, fs) => Started(a, fs, i)'
         /\ \A b \in Agent : b # a => ctl'[b] = ctl[b]
<1> DEFINE n == Len(ctl[a])
<1>1. ctl' = [ctl EXCEPT ![a] = Append(@, f)]
  BY DEF SendTo
<1>2. /\ \A b \in Agent : b # a => ctl'[b] = ctl[b]
      /\ Len(ctl'[a]) = n + 1 /\ ctl'[a] # <<>> /\ ctl'[a][n + 1] = f
      /\ \A k \in 1 .. n : ctl'[a][k] = ctl[a][k]
  BY <1>1, AppendCtl
<1>3. n \in Nat /\ (ctl[a] # <<>> => n \in Nat \ {0}) /\ (ctl[a] = <<>> => n = 0)
  <2>1. ctl[a] \in Seq(Frames)
    BY DEF AgentTypes
  <2> QED
    BY <2>1, EmptySeq, LenProperties
<1> HIDE DEF n
<1>4. LastOf(ctl[a])' = f
  BY <1>2 DEF LastOf
<1>5. f.kind = "TEST_STOP" => Quieted(a)'
  BY <1>2, <1>4 DEF Quieted
<1>6. IsPlan(f, fs) => Planned(a, fs)'
  BY <1>2, <1>4 DEF Planned, IsPlan
<1>7. ASSUME IsStart(f, i), Planned(a, fs) PROVE Started(a, fs, i)'
  <2>1. CASE ctl[a] = <<>>
    <3>1. Carries(a, fs)' /\ Len(ctl'[a]) = 1 /\ ctl'[a][1] = f
      BY <1>2, <1>3, <1>7, <2>1 DEF Planned, Carries, agentSide
    <3> QED
      BY <1>7, <3>1 DEF Started, IsStart
  <2>2. CASE ctl[a] # <<>>
    <3>1. IsPlan(ctl[a][n], fs)
      BY <1>7, <2>2 DEF Planned, LastOf, n
    <3>2. Len(ctl'[a]) >= 2 /\ n \in 1 .. n /\ Len(ctl'[a]) - 1 = n
      BY <1>2, <1>3, <2>2
    <3>3. ctl'[a][Len(ctl'[a]) - 1] = ctl[a][n]
      BY <1>2, <3>2
    <3> QED
      BY <1>4, <1>7, <3>1, <3>2, <3>3 DEF Started, IsStart, IsPlan
  <2> QED
    BY <2>1, <2>2
<1> QED
  BY <1>2, <1>5, <1>6, <1>7

-----------------------------------------------------------------------------
(* With a STOP asked for only when nothing else is served, whoever is on   *)
(* the way to applyFlows, or in it, found a test running, and a STOP has   *)
(* the controller for itself.                                              *)
Stopping == {"stopping", "broadcast"}

StopInv ==
  /\ \A h \in Handler : pc[h] \in {"load", "lock"} \cup Busy => running
  /\ \A h \in Handler : pc[h] \in Stopping =>
       ~ running /\ \A g \in Handler : g # h => pc[g] = "idle"

LEMMA GotoKeepsStop ==
  ASSUME pc \in [Handler -> Pcs], StopInv, NEW h \in Handler, NEW l, Goto(h, l),
         running' = running,
         l \in {"load", "lock"} \cup Busy => running,
         l \in Stopping => pc[h] = "stopping",
         pc[h] = "idle" => \A g \in Handler : pc[g] \notin Stopping
  PROVE  StopInv'
<1>1. pc'[h] = l /\ \A g \in Handler : g # h => pc'[g] = pc[g]
  BY DEF Goto
<1>2. ASSUME NEW g \in Handler, pc'[g] \in {"load", "lock"} \cup Busy PROVE running'
  BY <1>1, <1>2 DEF StopInv
<1>3. ASSUME NEW g \in Handler, pc'[g] \in Stopping, NEW k \in Handler, k # g
      PROVE  ~ running' /\ pc'[k] = "idle"
  <2>1. CASE g = h
    BY <1>1, <1>3, <2>1 DEF StopInv, Stopping
  <2>2. CASE g # h
    <3>1. pc[g] \in Stopping /\ pc[h] = "idle"
      BY <1>1, <1>3, <2>2 DEF StopInv
    <3> QED
      BY <3>1
  <2> QED
    BY <2>1, <2>2
<1>4. ASSUME NEW g \in Handler, pc'[g] \in Stopping PROVE ~ running'
  <2>1. CASE g = h
    BY <1>1, <1>4, <2>1 DEF StopInv, Stopping
  <2>2. CASE g # h
    BY <1>1, <1>4, <2>2 DEF StopInv
  <2> QED
    BY <2>1, <2>2
<1> QED
  BY <1>2, <1>3, <1>4 DEF StopInv

LEMMA StopStep ==
  ASSUME StopAlone, TypeOK, StopInv, [Next]_vars
  PROVE  StopInv'
<1>t. pc \in [Handler -> Pcs]
  BY DEF TypeOK, HandlerTypes
<1>1. ASSUME UNCHANGED <<running, pc>> PROVE StopInv'
  BY <1>1 DEF StopInv
<1>2. ASSUME NEW h \in Handler, Accept(h)
      PROVE  pc[h] = "idle" /\ \A g \in Handler : pc[g] \notin Stopping
  BY <1>2 DEF Accept, Stopping
<1>3. ASSUME NEW h \in Handler, NEW i \in Interval, RequestStart(h, i) PROVE StopInv'
  <2>1. running' = TRUE /\ pc' = [pc EXCEPT ![h] = "lock"] /\ Accept(h)
    BY <1>3 DEF RequestStart, Goto
  <2>2. \A g \in Handler : pc'[g] \notin Stopping
    BY <1>2, <1>t, <2>1 DEF Stopping
  <2> QED
    BY <2>1, <2>2 DEF StopInv
<1>4. ASSUME NEW h \in Handler, RequestStop(h) PROVE StopInv'
  <2>1. /\ running' = FALSE /\ pc' = [pc EXCEPT ![h] = "stopping"]
        /\ \A g \in Handler : pc[g] = "idle"
    BY <1>4 DEF RequestStop, Goto
  <2>2. pc'[h] = "stopping" /\ \A g \in Handler : g # h => pc'[g] = "idle"
    BY <1>t, <2>1
  <2>3. \A g \in Handler : pc'[g] \notin {"load", "lock"} \cup Busy
    BY <2>2 DEF Busy
  <2>4. \A g \in Handler : pc'[g] \in Stopping => g = h
    BY <2>2 DEF Stopping
  <2> QED
    BY <2>1, <2>2, <2>3, <2>4 DEF StopInv
<1>5. ASSUME NEW h \in Handler,
             RequestFlow(h) \/ RequestMesh(h) \/ \E a \in Agent : RequestEnable(h, a)
      PROVE  StopInv'
  <2>1. PICK l \in {"check", "mesh"} : Goto(h, l)
    BY <1>5 DEF RequestFlow, RequestMesh, RequestEnable
  <2>2. Accept(h) /\ running' = running
    BY <1>5 DEF RequestFlow, RequestMesh, RequestEnable, stores
  <2>3. l \notin {"load", "lock"} \cup Busy /\ l \notin Stopping
    BY DEF Busy, Stopping
  <2> QED
    BY <1>2, <1>t, <2>1, <2>2, <2>3, GotoKeepsStop
<1>6. ASSUME NEW h \in Handler, Check(h) \/ MeshEnd(h) \/ BroadcastEnd(h) \/ Unlock(h)
      PROVE  StopInv'
  <2>1. PICK l \in {"idle", "check", "load"} : Goto(h, l) /\ (l = "load" => running)
    BY <1>6 DEF Check, MeshEnd, BroadcastEnd, Unlock
  <2>2. running' = running /\ pc[h] # "idle"
    BY <1>6 DEF Check, MeshEnd, BroadcastEnd, Unlock, stores
  <2>3. l # "load" => l \notin {"load", "lock"} \cup Busy
    BY DEF Busy
  <2>4. l \notin Stopping
    BY DEF Stopping
  <2> QED
    BY <1>t, <2>1, <2>2, <2>3, <2>4, GotoKeepsStop
<1>7. ASSUME NEW h \in Handler,
             Load(h) \/ Lock(h) \/ Resolve(h) \/ ResolveFlows(h) \/ Snapshot(h) \/ EndPass1(h)
      PROVE  StopInv'
  <2>1. PICK l \in {"lock"} \cup Busy : Goto(h, l)
    BY <1>7 DEF Load, Lock, Resolve, ResolveFlows, Snapshot, EndPass1, Busy
  <2>2. running' = running /\ pc[h] \in {"load", "lock"} \cup Busy
    BY <1>7 DEF Load, Lock, Resolve, ResolveFlows, Snapshot, EndPass1, Busy, stores
  <2>3. l \notin Stopping /\ pc[h] # "idle"
    BY <2>2 DEF Stopping, Busy
  <2> QED
    BY <1>t, <2>1, <2>2, <2>3, GotoKeepsStop DEF StopInv
<1>8. ASSUME NEW h \in Handler, BroadcastLookup(h) PROVE StopInv'
  <2>1. Goto(h, "broadcast") /\ running' = running /\ pc[h] = "stopping"
    BY <1>8 DEF BroadcastLookup, stores
  <2>2. "broadcast" \notin {"load", "lock"} \cup Busy
    BY DEF Busy
  <2> QED
    BY <1>t, <2>1, <2>2, GotoKeepsStop
<1>9. ASSUME NEW h \in Handler,
             \/ \E a \in Agent : ResolveAgent(h, a) \/ Pass1(h, a) \/ Pass2(h, a) \/ BroadcastSend(h, a)
             \/ \E f \in Flow : MeshAdd(h, f)
      PROVE  StopInv'
  BY <1>1, <1>9 DEF ResolveAgent, Pass1, Pass2, BroadcastSend, MeshAdd, stores
<1>10. ASSUME NEW a \in Agent, AgentStep(a) \/ Disconnect(a) \/ Reconnect(a) PROVE StopInv'
  BY <1>1, <1>10 DEF AgentStep, OnFlowPlan, OnTestStart, OnTestStop, Next1, Disconnect, Reconnect,
                     stores
<1>11. CASE UNCHANGED vars
  BY <1>1, <1>11 DEF vars, stores
<1> QED
  BY <1>3, <1>4, <1>5, <1>6, <1>7, <1>8, <1>9, <1>10, <1>11 DEF Next, HandlerStep

(* applyFlows' own variables: the interval it stored, and nobody found     *)
(* before it looks.                                                        *)
Found == Busy \ {"resolve"}

LocalInv ==
  \A h \in Handler :
    /\ pc[h] \in Busy => ivl[h] = curInterval
    /\ pc[h] \notin Found => ends[h] = {}

LEMMA LocalStep ==
  ASSUME TypeOK, LocalInv, [Next]_vars
  PROVE  LocalInv'
<1>t. /\ pc \in [Handler -> Pcs] /\ ivl \in [Handler -> Interval \cup {0}]
      /\ ends \in [Handler -> SUBSET Agent] /\ \A h \in Handler : (mu = h) <=> pc[h] \in Busy
  BY DEF TypeOK, HandlerTypes, LockTypes
<1>1. ASSUME UNCHANGED <<pc, ivl, ends, curInterval>> PROVE LocalInv'
  BY <1>1 DEF LocalInv
<1>2. ASSUME NEW h \in Handler, NEW l, Goto(h, l), l \notin Busy, pc[h] \notin Busy,
             UNCHANGED <<ends, curInterval>>, \A g \in Handler : g # h => ivl'[g] = ivl[g]
      PROVE  LocalInv'
  <2>1. pc'[h] = l /\ \A g \in Handler : g # h => pc'[g] = pc[g]
    BY <1>t, <1>2 DEF Goto
  <2>2. l \notin Found /\ pc[h] \notin Found
    BY <1>2 DEF Found
  <2> QED
    BY <1>2, <2>1, <2>2 DEF LocalInv
<1>3. ASSUME NEW h \in Handler,
             \/ \E i \in Interval : RequestStart(h, i)
             \/ RequestStop(h) \/ RequestFlow(h) \/ RequestMesh(h)
             \/ \E a \in Agent : RequestEnable(h, a)
             \/ Check(h) \/ Load(h) \/ BroadcastLookup(h) \/ BroadcastEnd(h) \/ MeshEnd(h)
      PROVE  LocalInv'
  <2>1. PICK l \in {"lock", "stopping", "check", "mesh", "load", "idle", "broadcast"} : Goto(h, l)
    BY <1>3 DEF RequestStart, RequestStop, RequestFlow, RequestMesh, RequestEnable, Check, Load,
                BroadcastLookup, BroadcastEnd, MeshEnd
  <2>2. pc[h] \in {"idle", "check", "load", "stopping", "broadcast", "mesh"}
    BY <1>3 DEF RequestStart, RequestStop, RequestFlow, RequestMesh, RequestEnable, Check, Load,
                BroadcastLookup, BroadcastEnd, MeshEnd, Accept
  <2>3. l \notin Busy /\ pc[h] \notin Busy
    BY <2>2 DEF Busy
  <2>4. UNCHANGED <<ends, curInterval>> /\ \A g \in Handler : g # h => ivl'[g] = ivl[g]
    BY <1>3, <1>t DEF RequestStart, RequestStop, RequestFlow, RequestMesh, RequestEnable, Check,
                      Load, BroadcastLookup, BroadcastEnd, MeshEnd, stores, local
  <2> QED
    BY <1>2, <2>1, <2>3, <2>4
<1>4. ASSUME NEW h \in Handler, Lock(h) PROVE LocalInv'
  <2>1. /\ mu = NoHandler /\ pc[h] = "lock" /\ pc' = [pc EXCEPT ![h] = "resolve"]
        /\ curInterval' = ivl[h] /\ UNCHANGED <<ivl, ends>>
    BY <1>4 DEF Lock, Goto
  <2>2. \A g \in Handler : pc[g] \notin Busy
    BY <1>t, <2>1, Consts
  <2>3. pc'[h] = "resolve" /\ \A g \in Handler : g # h => pc'[g] = pc[g]
    BY <1>t, <2>1
  <2>4. pc[h] \notin Found
    BY <2>2 DEF Found
  <2> QED
    BY <2>1, <2>2, <2>3, <2>4 DEF LocalInv
<1>5. ASSUME NEW h \in Handler, Resolve(h) \/ ResolveFlows(h) \/ Snapshot(h) \/ EndPass1(h)
      PROVE  LocalInv'
  <2>1. PICK l \in Found : Goto(h, l)
    BY <1>5 DEF Resolve, ResolveFlows, Snapshot, EndPass1, Found, Busy
  <2>2. UNCHANGED <<ends, ivl, curInterval>> /\ pc[h] \in Busy
    BY <1>5 DEF Resolve, ResolveFlows, Snapshot, EndPass1, Busy, local, stores
  <2>3. pc'[h] = l /\ \A g \in Handler : g # h => pc'[g] = pc[g]
    BY <1>t, <2>1 DEF Goto
  <2> QED
    BY <2>1, <2>2, <2>3 DEF LocalInv
<1>6. ASSUME NEW h \in Handler, Unlock(h) PROVE LocalInv'
  <2>1. /\ pc' = [pc EXCEPT ![h] = "idle"] /\ ends' = [ends EXCEPT ![h] = {}]
        /\ ivl' = [ivl EXCEPT ![h] = 0] /\ curInterval' = curInterval
    BY <1>6 DEF Unlock, Goto, Leave, stores
  <2>2. pc'[h] = "idle" /\ ends'[h] = {} /\ "idle" \notin Busy
    BY <1>t, <2>1 DEF Busy
  <2>3. \A g \in Handler : g # h => pc'[g] = pc[g] /\ ends'[g] = ends[g] /\ ivl'[g] = ivl[g]
    BY <1>t, <2>1
  <2> QED
    BY <2>1, <2>2, <2>3 DEF LocalInv
<1>7. ASSUME NEW h \in Handler, NEW a \in Agent, ResolveAgent(h, a) PROVE LocalInv'
  <2>1. pc[h] = "plan" /\ UNCHANGED <<pc, ivl, curInterval>> /\ "plan" \in Found
    BY <1>7 DEF ResolveAgent, stores, Found, Busy
  <2>2. \A g \in Handler : g # h => ends'[g] = ends[g]
    BY <1>7, <1>t DEF ResolveAgent
  <2> QED
    BY <2>1, <2>2 DEF LocalInv
<1>8. ASSUME NEW h \in Handler,
             \/ \E a \in Agent : Pass1(h, a) \/ Pass2(h, a) \/ BroadcastSend(h, a)
             \/ \E f \in Flow : MeshAdd(h, f)
      PROVE  LocalInv'
  BY <1>1, <1>8 DEF Pass1, Pass2, BroadcastSend, MeshAdd, stores, local
<1>9. ASSUME NEW a \in Agent, AgentStep(a) \/ Disconnect(a) \/ Reconnect(a) PROVE LocalInv'
  BY <1>1, <1>9 DEF AgentStep, OnFlowPlan, OnTestStart, OnTestStop, Next1, Disconnect, Reconnect,
                    stores, local
<1>10. CASE UNCHANGED vars
  BY <1>1, <1>10 DEF vars, stores, local
<1> QED
  BY <1>3, <1>4, <1>5, <1>6, <1>7, <1>8, <1>9, <1>10 DEF Next, HandlerStep

-----------------------------------------------------------------------------
(* How far a STOP has come: whoever has been sent one ends idle, and when  *)
(* it is over so does everyone.                                            *)
StoppedInv ==
  ~ running /\ ~ changed =>
    /\ (\A h \in Handler : pc[h] \notin Stopping) => \A a \in connected : Quieted(a)
    /\ \A h \in Handler : pc[h] = "broadcast" => \A a \in connected \ todo[h] : Quieted(a)

(* Only an apply and a STOP send anything. *)
LEMMA StoppedKeeps ==
  ASSUME StoppedInv, NEW h \in Handler, NEW l, pc \in [Handler -> Pcs], Goto(h, l),
         l \notin Stopping, pc[h] \notin Stopping,
         UNCHANGED <<running, changed, connected, ctl, engine, bound, todo>>
  PROVE  StoppedInv'
<1>1. pc'[h] = l /\ \A g \in Handler : g # h => pc'[g] = pc[g]
  BY DEF Goto
<1>2. \A g \in Handler : /\ pc'[g] \notin Stopping => pc[g] \notin Stopping
                         /\ pc'[g] = "broadcast" => pc[g] = "broadcast"
  BY <1>1 DEF Stopping
<1>3. \A a : Quieted(a) => Quieted(a)'
  BY DEF Quieted, LastOf
<1> QED
  BY <1>2, <1>3 DEF StoppedInv

LEMMA StoppedStep ==
  ASSUME StopAlone, TypeOK, StopInv, StoppedInv, [Next]_vars
  PROVE  StoppedInv'
<1>t. /\ pc \in [Handler -> Pcs] /\ todo \in [Handler -> SUBSET Agent] /\ connected \subseteq Agent
      /\ AgentTypes
  BY DEF TypeOK, HandlerTypes, StoreTypes
<1>1. ASSUME UNCHANGED <<running, changed, connected, pc, ctl, engine, bound, todo>>
      PROVE  StoppedInv'
  <2>1. \A a : Quieted(a) => Quieted(a)'
    BY <1>1 DEF Quieted, LastOf
  <2> QED
    BY <1>1, <2>1 DEF StoppedInv
<1>2. ASSUME NEW h \in Handler, NEW i \in Interval, RequestStart(h, i) PROVE StoppedInv'
  BY <1>2 DEF RequestStart, StoppedInv
<1>3. ASSUME NEW h \in Handler, RequestStop(h) PROVE StoppedInv'
  <2>1. pc' = [pc EXCEPT ![h] = "stopping"] /\ \A g \in Handler : pc[g] = "idle"
    BY <1>3 DEF RequestStop, Goto
  <2>2. pc'[h] \in Stopping /\ \A g \in Handler : pc'[g] # "broadcast"
    BY <1>t, <2>1 DEF Stopping
  <2> QED
    BY <2>2 DEF StoppedInv
<1>4. ASSUME NEW h \in Handler,
             RequestFlow(h) \/ RequestMesh(h) \/ \E a \in Agent : RequestEnable(h, a)
      PROVE  StoppedInv'
  <2>1. PICK l \in {"check", "mesh"} : Goto(h, l)
    BY <1>4 DEF RequestFlow, RequestMesh, RequestEnable
  <2>2. /\ UNCHANGED <<running, changed, connected, ctl, engine, bound, todo>>
        /\ pc[h] = "idle"
    BY <1>4 DEF RequestFlow, RequestMesh, RequestEnable, Accept, stores, agentSide
  <2>3. l \notin Stopping /\ pc[h] \notin Stopping
    BY <2>2 DEF Stopping
  <2> QED
    BY <1>t, <2>1, <2>2, <2>3, StoppedKeeps
<1>5. ASSUME NEW h \in Handler, Check(h) \/ MeshEnd(h) PROVE StoppedInv'
  <2>1. PICK l \in {"check", "load", "idle"} : Goto(h, l)
    BY <1>5 DEF Check, MeshEnd
  <2>2. /\ UNCHANGED <<running, changed, connected, ctl, engine, bound, todo>>
        /\ pc[h] \in {"check", "mesh"}
    BY <1>5 DEF Check, MeshEnd, stores, agentSide
  <2>3. l \notin Stopping /\ pc[h] \notin Stopping
    BY <2>2 DEF Stopping
  <2> QED
    BY <1>t, <2>1, <2>2, <2>3, StoppedKeeps
<1>6. ASSUME NEW h \in Handler,
             \/ Load(h) \/ Lock(h) \/ Resolve(h) \/ ResolveFlows(h) \/ Snapshot(h) \/ EndPass1(h)
             \/ Unlock(h)
             \/ \E a \in Agent : ResolveAgent(h, a) \/ Pass1(h, a) \/ Pass2(h, a)
      PROVE  StoppedInv'
  <2>1. pc[h] \in {"load", "lock"} \cup Busy /\ running' = running
    BY <1>6 DEF Load, Lock, Resolve, ResolveFlows, Snapshot, EndPass1, Unlock, ResolveAgent, Pass1,
                Pass2, Busy, stores
  <2> QED
    BY <2>1 DEF StopInv, StoppedInv
<1>7. ASSUME NEW h \in Handler, BroadcastLookup(h) PROVE StoppedInv'
  <2>1. /\ pc[h] = "stopping" /\ pc' = [pc EXCEPT ![h] = "broadcast"]
        /\ todo' = [todo EXCEPT ![h] = connected] /\ connected' = connected
    BY <1>7 DEF BroadcastLookup, Goto
  <2>2. pc'[h] = "broadcast" /\ todo'[h] = connected'
    BY <1>t, <2>1
  <2>3. \A g \in Handler : g # h => pc'[g] = "idle"
    BY <1>t, <2>1 DEF StopInv, Stopping
  <2>4. "broadcast" \in Stopping /\ \A g \in Handler : pc'[g] = "broadcast" => g = h
    BY <2>3 DEF Stopping
  <2> QED
    BY <2>2, <2>4 DEF StoppedInv
<1>8. ASSUME NEW h \in Handler, NEW a \in Agent, BroadcastSend(h, a) PROVE StoppedInv'
  <2>1. /\ pc[h] = "broadcast" /\ SendTo(a, Stop) /\ todo' = [todo EXCEPT ![h] = @ \ {a}]
        /\ UNCHANGED <<running, changed, connected, pc, engine, bound, agentSide>>
    BY <1>8 DEF BroadcastSend, stores, agentSide
  <2>2. pc[h] \in Stopping /\ \A g \in Handler : pc[g] = "broadcast" => g = h
    BY <2>1 DEF StopInv, Stopping
  <2>3. ASSUME ~ running, ~ changed, NEW b \in connected \ todo'[h] PROVE Quieted(b)'
    <3>1. CASE b = a
      <4>1. a \in connected /\ Stop \in Frames /\ Stop.kind = "TEST_STOP"
        BY <2>3, <3>1, FrameTypes
      <4>2. {} \in SUBSET Flow /\ 0 \in Interval \cup {0}
        OBVIOUS
      <4>3. Quieted(a)'
        BY <1>t, <2>1, <4>1, <4>2, SendSettles
      <4> QED
        BY <3>1, <4>3
    <3>2. CASE b # a
      <4>1. ctl'[b] = ctl[b]
        BY <1>t, <2>1, <2>3, <3>2 DEF SendTo, AgentTypes
      <4>2. Quieted(b)
        BY <1>t, <2>1, <2>3, <3>2 DEF StoppedInv
      <4> QED
        BY <2>1, <4>1, <4>2 DEF Quieted, LastOf
    <3> QED
      BY <3>1, <3>2
  <2> QED
    BY <2>1, <2>2, <2>3 DEF StoppedInv
<1>9. ASSUME NEW h \in Handler, BroadcastEnd(h) PROVE StoppedInv'
  <2>1. /\ pc[h] = "broadcast" /\ todo[h] = {} /\ pc' = [pc EXCEPT ![h] = "idle"]
        /\ UNCHANGED <<running, changed, connected, ctl, engine, bound, todo>>
    BY <1>9 DEF BroadcastEnd, Goto, stores, agentSide
  <2>2. \A g \in Handler : pc'[g] = "idle"
    BY <1>t, <2>1 DEF StopInv, Stopping
  <2>3. \A a : Quieted(a) => Quieted(a)'
    BY <2>1 DEF Quieted, LastOf
  <2> QED
    BY <2>1, <2>2, <2>3 DEF StoppedInv
<1>10. ASSUME NEW h \in Handler, NEW f \in Flow, MeshAdd(h, f) PROVE StoppedInv'
  BY <1>1, <1>10 DEF MeshAdd, agentSide
<1>11. ASSUME NEW b \in Agent, AgentStep(b) PROVE StoppedInv'
  <2>1. UNCHANGED <<running, changed, connected, pc, todo>>
    BY <1>11 DEF AgentStep, OnFlowPlan, OnTestStart, OnTestStop, Next1, stores
  <2>2. \A fs \in SUBSET Flow, i \in Interval \cup {0}, a \in Agent : Quieted(a) => Quieted(a)'
    BY <1>t, <1>11, StepKeeps
  <2>3. \A a \in connected : Quieted(a) => Quieted(a)'
    BY <1>t, <2>2
  <2> QED
    BY <2>1, <2>3 DEF StoppedInv
<1>12. ASSUME NEW a \in Agent, Disconnect(a) \/ Reconnect(a) PROVE StoppedInv'
  BY <1>12 DEF Disconnect, Reconnect, StoppedInv
<1>13. CASE UNCHANGED vars
  BY <1>1, <1>13 DEF vars, stores, agentSide
<1> QED
  BY <1>2, <1>3, <1>4, <1>5, <1>6, <1>7, <1>8, <1>9, <1>10, <1>11, <1>12, <1>13
     DEF Next, HandlerStep

-----------------------------------------------------------------------------
(* A handler that has changed a store, or will, and has still to apply it. *)
Pending == \E h \in Handler : pc[h] \in {"mesh", "check", "load", "lock"}

Stable == running /\ ~ changed /\ ~ Pending

(* How far an apply has come, while nothing it has read has changed.       *)
Progress(h) ==
  /\ pc[h] = "plan" => /\ todo[h] \subseteq connected
                       /\ ends[h] = {a \in connected \ todo[h] : enabled[a]}
  /\ pc[h] \in {"agents", "pass1", "pass2"} => plan[h] = Resolved
  /\ pc[h] \in {"pass1", "pass2"} => who[h] = connected
  /\ pc[h] = "pass1" => \A a \in connected \ todo[h] :
       IF enabled[a] THEN Planned(a, plan[h]) ELSE Quieted(a)
  /\ pc[h] = "pass2" => \A a \in connected :
       IF ~ enabled[a] THEN Quieted(a)
       ELSE IF a \in todo[h] THEN Planned(a, plan[h])
       ELSE Started(a, plan[h], ivl[h])

Applied ==
  \A a \in connected :
    IF enabled[a] THEN Started(a, Resolved, curInterval) ELSE Quieted(a)

ApplyInv ==
  Stable => /\ \A h \in Handler : Progress(h)
            /\ mu = NoHandler => Applied

(* An apply at work is the only one.                                       *)
LEMMA Inside ==
  ASSUME HandlerTypes, LockTypes, NEW h \in Handler, pc[h] \in Busy, NEW l \in Busy \cup {"idle"},
         pc' = [pc EXCEPT ![h] = l], running' = running, changed' = changed, Stable'
  PROVE  /\ Stable /\ mu = h /\ h # NoHandler
         /\ pc'[h] = l /\ \A g \in Handler : g # h => Progress(g)'
<1>1. pc'[h] = l /\ mu = h /\ \A g \in Handler : g # h => pc'[g] = pc[g] /\ pc[g] \notin Busy
  BY DEF HandlerTypes, LockTypes
<1>2. \A g \in Handler : g # h => Progress(g)'
  <2> SUFFICES ASSUME NEW g \in Handler, g # h PROVE Progress(g)'
    OBVIOUS
  <2>1. pc'[g] \notin {"plan", "agents", "pass1", "pass2"}
    BY <1>1 DEF Busy
  <2> QED
    BY <2>1 DEF Progress
<1>3. Stable
  BY <1>1 DEF Stable, Pending, Busy
<1> QED
  BY <1>1, <1>2, <1>3, Consts

LEMMA RenamedPlan ==
  ASSUME NEW a, NEW h, NEW p, p = plan'[h]
  PROVE  Planned(a, p)' => Planned(a, plan[h])'
  BY DEF Planned, IsPlan, Carries

LEMMA RenamedStart ==
  ASSUME NEW a, NEW h, NEW p, NEW i, p = plan'[h], i = ivl'[h]
  PROVE  Started(a, p, i)' => Started(a, plan[h], ivl[h])'
  BY DEF Started, Probes, IsPlan, IsStart, Carries

LEMMA RenamedApplied ==
  ASSUME NEW a, NEW p, NEW i, p = Resolved', i = curInterval'
  PROVE  Started(a, p, i)' => Started(a, Resolved, curInterval)'
  BY DEF Started, Probes, IsPlan, IsStart, Carries

LEMMA ApplyResolve ==
  ASSUME TypeOK, LocalInv, ApplyInv, Stable', NEW h \in Handler, Resolve(h)
  PROVE  (\A g \in Handler : Progress(g)') /\ (mu' = NoHandler => Applied')
<1>t. pc \in [Handler -> Pcs] /\ todo \in [Handler -> SUBSET Agent] /\ connected \subseteq Agent
  BY DEF TypeOK, HandlerTypes, StoreTypes
<1>1. /\ pc[h] = "resolve" /\ pc' = [pc EXCEPT ![h] = "plan"] /\ mu' = mu
      /\ todo' = [todo EXCEPT ![h] = connected] /\ UNCHANGED <<ends, connected>>
  BY DEF Resolve, Goto, local
<1>2. /\ pc'[h] = "plan" /\ todo'[h] = connected' /\ ends'[h] = {}
      /\ pc[h] \in Busy
  <2>1. "resolve" \notin Found /\ "resolve" \in Busy
    BY DEF Found, Busy
  <2> QED
    BY <1>t, <1>1, <2>1 DEF LocalInv
<1>3. Progress(h)'
  BY <1>2 DEF Progress
<1>4. mu = h /\ \A g \in Handler : g # h => pc'[g] = pc[g] /\ pc[g] \notin Busy
  BY <1>t, <1>1, <1>2 DEF TypeOK, LockTypes
<1>5. ASSUME NEW g \in Handler, g # h PROVE Progress(g)'
  <2>1. pc'[g] \notin {"plan", "agents", "pass1", "pass2"}
    BY <1>4, <1>5 DEF Busy
  <2> QED
    BY <2>1 DEF Progress
<1> QED
  BY <1>1, <1>3, <1>4, <1>5, Consts

LEMMA ApplyPlan ==
  ASSUME TypeOK, ApplyInv, Stable', NEW h \in Handler,
         (\E a \in Agent : ResolveAgent(h, a)) \/ ResolveFlows(h) \/ Snapshot(h) \/ EndPass1(h)
  PROVE  (\A g \in Handler : Progress(g)') /\ (mu' = NoHandler => Applied')
<1>t. /\ pc \in [Handler -> Pcs] /\ todo \in [Handler -> SUBSET Agent] /\ connected \subseteq Agent
      /\ ends \in [Handler -> SUBSET Agent] /\ plan \in [Handler -> SUBSET Flow]
      /\ who \in [Handler -> SUBSET Agent] /\ flows \subseteq Flow
      /\ HandlerTypes /\ LockTypes
  BY DEF TypeOK, HandlerTypes, StoreTypes
<1>1. PICK l \in Busy : pc' = [pc EXCEPT ![h] = l]
  <2>1. CASE \E a \in Agent : ResolveAgent(h, a)
    <3>1. pc[h] = "plan" /\ pc' = pc
      BY <2>1 DEF ResolveAgent
    <3>2. pc' = [pc EXCEPT ![h] = "plan"] /\ "plan" \in Busy
      BY <1>t, <3>1 DEF Busy
    <3> QED
      BY <3>2
  <2>2. CASE ResolveFlows(h) \/ Snapshot(h) \/ EndPass1(h)
    BY <2>2 DEF ResolveFlows, Snapshot, EndPass1, Goto, Busy
  <2> QED
    BY <2>1, <2>2
<1>2. /\ pc[h] \in Busy /\ mu' = mu
      /\ UNCHANGED <<running, changed, connected, enabled, flows, ctl, engine, held, bound>>
  BY DEF ResolveAgent, ResolveFlows, Snapshot, EndPass1, Busy, stores, agentSide
<1>3. /\ Stable /\ mu = h /\ h # NoHandler
      /\ pc'[h] = l /\ \A g \in Handler : g # h => Progress(g)'
  BY <1>t, <1>1, <1>2, Inside
<1>4. Progress(h) /\ Resolved' = Resolved
  BY <1>2, <1>3 DEF ApplyInv, Resolved, Live
<1>5. ASSUME NEW a \in Agent, ResolveAgent(h, a) PROVE Progress(h)'
  <2>1. /\ pc[h] = "plan" /\ pc'[h] = "plan" /\ a \in todo[h]
        /\ todo'[h] = todo[h] \ {a}
        /\ ends'[h] = IF enabled[a] THEN ends[h] \cup {a} ELSE ends[h]
    BY <1>5, <1>t DEF ResolveAgent
  <2>2. /\ todo[h] \subseteq connected
        /\ ends[h] = {b \in connected \ todo[h] : enabled[b]}
    BY <1>4, <2>1 DEF Progress
  <2>3. /\ todo'[h] \subseteq connected
        /\ ends'[h] = {b \in connected \ todo'[h] : enabled[b]}
    BY <2>1, <2>2
  <2>4. pc'[h] = "plan" /\ "plan" \notin {"agents", "pass1", "pass2"}
    BY <2>1
  <2> QED
    BY <1>2, <2>3, <2>4 DEF Progress
<1>6. ASSUME ResolveFlows(h) PROVE Progress(h)'
  <2>1. /\ pc[h] = "plan" /\ pc'[h] = "agents" /\ todo[h] = {}
        /\ plan'[h] = {f \in flows : f[1] \in ends[h] /\ f[2] \in ends[h]}
    BY <1>6, <1>t DEF ResolveFlows, Goto
  <2>2. ends[h] = {b \in connected : enabled[b]}
    BY <1>4, <2>1 DEF Progress
  <2>3. plan'[h] = Resolved
    BY <2>1, <2>2 DEF Resolved, Live
  <2> QED
    BY <1>4, <2>1, <2>3 DEF Progress
<1>7. ASSUME Snapshot(h) PROVE Progress(h)'
  <2>1. /\ pc[h] = "agents" /\ pc'[h] = "pass1" /\ plan' = plan
        /\ todo'[h] = connected /\ who'[h] = connected
    BY <1>7, <1>t DEF Snapshot, Goto
  <2>2. plan'[h] = Resolved'
    BY <1>4, <2>1 DEF Progress
  <2>3. who'[h] = connected' /\ connected' \ todo'[h] = {}
    BY <1>2, <2>1
  <2> QED
    BY <2>1, <2>2, <2>3 DEF Progress
<1>8. ASSUME EndPass1(h) PROVE Progress(h)'
  <2>1. /\ pc[h] = "pass1" /\ pc'[h] = "pass2" /\ UNCHANGED <<plan, ivl, who>>
        /\ todo'[h] = who[h] /\ todo[h] = {}
    BY <1>8, <1>t DEF EndPass1, Goto, local
  <2>2. /\ plan[h] = Resolved /\ who[h] = connected
        /\ \A a \in connected : IF enabled[a] THEN Planned(a, plan[h]) ELSE Quieted(a)
    BY <1>4, <2>1 DEF Progress
  <2>3. \A a \in connected : IF enabled[a] THEN Planned(a, plan[h])' ELSE Quieted(a)'
    BY <1>2, <2>1, <2>2 DEF Planned, Quieted, IsPlan, Carries, LastOf
  <2>4. /\ plan'[h] = Resolved' /\ who'[h] = connected' /\ todo'[h] = connected'
        /\ connected' = connected /\ enabled' = enabled
    BY <1>2, <1>4, <2>1, <2>2
  <2> QED
    BY <2>1, <2>3, <2>4 DEF Progress
<1> QED
  BY <1>2, <1>3, <1>5, <1>6, <1>7, <1>8

LEMMA ApplySend ==
  ASSUME TypeOK, ApplyInv, Stable', NEW h \in Handler, NEW a \in Agent,
         Pass1(h, a) \/ Pass2(h, a)
  PROVE  (\A g \in Handler : Progress(g)') /\ (mu' = NoHandler => Applied')
<1>t. /\ pc \in [Handler -> Pcs] /\ todo \in [Handler -> SUBSET Agent] /\ connected \subseteq Agent
      /\ plan \in [Handler -> SUBSET Flow] /\ ivl \in [Handler -> Interval \cup {0}]
      /\ run \in [Handler -> Nat]
      /\ HandlerTypes /\ LockTypes /\ AgentTypes
  BY DEF TypeOK, HandlerTypes, StoreTypes
<1>1. /\ pc[h] \in {"pass1", "pass2"} /\ mu' = mu /\ pc' = pc /\ a \in todo[h]
      /\ todo' = [todo EXCEPT ![h] = @ \ {a}]
      /\ UNCHANGED <<running, changed, connected, enabled, flows, engine, held, bound, plan, ivl,
                     who, agentSide>>
  BY DEF Pass1, Pass2, stores, agentSide, local
<1>2. pc[h] \in Busy /\ pc' = [pc EXCEPT ![h] = pc[h]] /\ todo'[h] = todo[h] \ {a}
  BY <1>t, <1>1 DEF Busy
<1>3. /\ Stable /\ mu = h /\ h # NoHandler
      /\ \A g \in Handler : g # h => Progress(g)'
  BY <1>t, <1>1, <1>2, Inside
<1>4. Progress(h) /\ Resolved' = Resolved
  BY <1>1, <1>3 DEF ApplyInv, Resolved, Live
<1>5. PICK p \in SUBSET Flow : p = plan[h]
  BY <1>t
<1>6. PICK i \in Interval \cup {0} : i = ivl[h]
  BY <1>t
<1>7. p = plan'[h] /\ i = ivl'[h]
  BY <1>1, <1>5, <1>6
<1>8. ASSUME NEW b \in Agent, ctl'[b] = ctl[b]
      PROVE  /\ Quieted(b) => Quieted(b)'
             /\ Planned(b, p) => Planned(b, p)'
             /\ Started(b, p, i) => Started(b, p, i)'
  BY <1>1, <1>8, SameAgent
<1>9. plan'[h] = Resolved' /\ who'[h] = connected' /\ who[h] = connected
  BY <1>1, <1>4 DEF Progress
<1>10. ASSUME Pass1(h, a) PROVE Progress(h)'
  <2>1. /\ pc[h] = "pass1"
        /\ SendTo(a, IF enabled[a] THEN Plan(plan[h], run[h]) ELSE Stop)
    BY <1>10 DEF Pass1
  <2>2. \A b \in connected \ todo[h] : IF enabled[b] THEN Planned(b, p) ELSE Quieted(b)
    BY <1>4, <1>5, <2>1 DEF Progress
  <2>3. ASSUME NEW b \in connected \ todo'[h]
        PROVE  IF enabled[b] THEN Planned(b, p)' ELSE Quieted(b)'
    <3>1. CASE b = a /\ enabled[a]
      <4>r. run[h] \in Nat /\ a \in connected
        BY <1>t, <2>3, <3>1
      <4>f. /\ Plan(p, run[h]) \in Frames /\ Plan(p, run[h]).kind = "FLOW_PLAN"
            /\ Plan(p, run[h]).flows = p
        BY <4>r, FrameTypes
      <4>1. /\ Plan(plan[h], run[h]) \in Frames /\ IsPlan(Plan(plan[h], run[h]), p)
            /\ a \in connected
        BY <1>5, <4>r, <4>f DEF IsPlan
      <4>2. SendTo(a, Plan(plan[h], run[h]))
        BY <2>1, <3>1
      <4>3. Planned(a, p)'
        BY <1>t, <1>1, <4>1, <4>2, SendSettles
      <4> QED
        BY <3>1, <4>3
    <3>2. CASE b = a /\ ~ enabled[a]
      <4>1. Stop \in Frames /\ Stop.kind = "TEST_STOP" /\ a \in connected
        BY <2>3, <3>2, FrameTypes
      <4>2. SendTo(a, Stop)
        BY <2>1, <3>2
      <4>3. Quieted(a)'
        BY <1>t, <1>1, <4>1, <4>2, SendSettles
      <4> QED
        BY <3>2, <4>3
    <3>3. CASE b # a
      <4>1. b \in Agent /\ b \in connected \ todo[h] /\ ctl'[b] = ctl[b]
        BY <1>t, <1>2, <2>1, <2>3, <3>3 DEF SendTo, AgentTypes
      <4> QED
        BY <1>8, <2>2, <4>1
    <3> QED
      BY <3>1, <3>2, <3>3
  <2>4. \A b \in connected' \ todo'[h] : IF enabled'[b] THEN Planned(b, plan[h])' ELSE Quieted(b)'
    BY <1>1, <1>7, <2>3, RenamedPlan
  <2>5. pc'[h] = "pass1"
    BY <1>1, <2>1
  <2> QED
    BY <1>9, <2>4, <2>5 DEF Progress
<1>11. ASSUME Pass2(h, a) PROVE Progress(h)'
  <2>1. /\ pc[h] = "pass2"
        /\ IF enabled[a] THEN SendTo(a, Start(ivl[h], run[h])) ELSE UNCHANGED ctl
    BY <1>11 DEF Pass2
  <2>2. \A b \in connected :
          IF ~ enabled[b] THEN Quieted(b)
          ELSE IF b \in todo[h] THEN Planned(b, p) ELSE Started(b, p, i)
    BY <1>4, <1>5, <1>6, <2>1 DEF Progress
  <2>3. ASSUME NEW b \in connected
        PROVE  IF ~ enabled[b] THEN Quieted(b)'
               ELSE IF b \in todo'[h] THEN Planned(b, p)' ELSE Started(b, p, i)'
    <3>1. CASE b = a /\ enabled[a]
      <4>r. run[h] \in Nat /\ a \in connected
        BY <1>t, <2>3, <3>1
      <4>f. /\ Start(i, run[h]) \in Frames /\ Start(i, run[h]).kind = "TEST_START"
            /\ Start(i, run[h]).interval = i
        BY <4>r, FrameTypes
      <4>1. /\ Start(ivl[h], run[h]) \in Frames /\ IsStart(Start(ivl[h], run[h]), i)
            /\ a \in connected
        BY <1>6, <4>r, <4>f DEF IsStart
      <4>2. SendTo(a, Start(ivl[h], run[h])) /\ Planned(a, p)
        BY <1>1, <2>1, <2>2, <2>3, <3>1
      <4>3. Started(a, p, i)'
        BY <1>t, <1>1, <4>1, <4>2, SendSettles
      <4> QED
        BY <1>2, <3>1, <4>3
    <3>2. CASE b # a \/ ~ enabled[a]
      <4>1. b \in Agent /\ ctl'[b] = ctl[b]
        BY <1>t, <2>1, <2>3, <3>2 DEF SendTo, AgentTypes
      <4>2. b # a => (b \in todo'[h] <=> b \in todo[h])
        BY <1>2
      <4> QED
        BY <1>8, <2>2, <3>2, <4>1, <4>2
    <3> QED
      BY <3>1, <3>2
  <2>4. \A b \in connected' :
          IF ~ enabled'[b] THEN Quieted(b)'
          ELSE IF b \in todo'[h] THEN Planned(b, plan[h])' ELSE Started(b, plan[h], ivl[h])'
    BY <1>1, <1>7, <2>3, RenamedPlan, RenamedStart
  <2>5. pc'[h] = "pass2"
    BY <1>1, <2>1
  <2> QED
    BY <1>9, <2>4, <2>5 DEF Progress
<1> QED
  BY <1>1, <1>3, <1>10, <1>11

LEMMA ApplyUnlock ==
  ASSUME TypeOK, LocalInv, ApplyInv, Stable', NEW h \in Handler, Unlock(h)
  PROVE  (\A g \in Handler : Progress(g)') /\ (mu' = NoHandler => Applied')
<1>t. pc \in [Handler -> Pcs] /\ HandlerTypes /\ LockTypes
  BY DEF TypeOK, HandlerTypes
<1>1. /\ pc[h] = "pass2" /\ todo[h] = {} /\ pc' = [pc EXCEPT ![h] = "idle"]
      /\ UNCHANGED <<running, changed, connected, enabled, flows, curInterval, ctl, engine, held,
                     bound>>
  BY DEF Unlock, Goto, stores, agentSide
<1>2. pc[h] \in Busy
  BY <1>1 DEF Busy
<1>3. Stable /\ pc'[h] = "idle" /\ \A g \in Handler : g # h => Progress(g)'
  BY <1>t, <1>1, <1>2, Inside
<1>4. Progress(h)'
  BY <1>3 DEF Progress
<1>5. /\ plan[h] = Resolved /\ ivl[h] = curInterval
      /\ \A a \in connected : IF ~ enabled[a] THEN Quieted(a) ELSE Started(a, plan[h], ivl[h])
  BY <1>1, <1>2, <1>3 DEF ApplyInv, Progress, LocalInv
<1>6. Applied
  BY <1>5 DEF Applied
<1>p. PICK p \in SUBSET Flow : p = plan[h]
  BY <1>t DEF HandlerTypes
<1>i. PICK i \in Interval \cup {0} : i = ivl[h]
  BY <1>t DEF HandlerTypes
<1>r. p = Resolved /\ p = Resolved' /\ i = curInterval /\ i = curInterval'
  BY <1>1, <1>5, <1>p, <1>i DEF Resolved, Live
<1>7. Applied'
  <2>1. ASSUME NEW a \in connected
        PROVE  IF enabled[a] THEN Started(a, p, i)' ELSE Quieted(a)'
    <3>1. a \in Agent
      BY DEF TypeOK, StoreTypes
    <3> QED
      BY <1>1, <1>6, <1>r, <3>1, SameAgent DEF Applied
  <2>2. \A a \in connected' : IF enabled'[a] THEN Started(a, Resolved, curInterval)'
                               ELSE Quieted(a)'
    BY <1>1, <1>r, <2>1, RenamedApplied
  <2> QED
    BY <2>2 DEF Applied
<1> QED
  BY <1>3, <1>4, <1>7

LEMMA ApplyRead ==
  ASSUME TypeOK, ApplyInv, Stable', NEW b \in Agent, AgentStep(b)
  PROVE  (\A g \in Handler : Progress(g)') /\ (mu' = NoHandler => Applied')
<1>t. /\ plan \in [Handler -> SUBSET Flow] /\ ivl \in [Handler -> Interval \cup {0}]
      /\ connected \subseteq Agent /\ flows \subseteq Flow /\ curInterval \in Interval \cup {0}
      /\ AgentTypes
  BY DEF TypeOK, HandlerTypes, StoreTypes
<1>1. UNCHANGED <<running, changed, connected, enabled, flows, curInterval, pc, mu, todo, plan,
                  ivl, who, ends>>
  BY DEF AgentStep, OnFlowPlan, OnTestStart, OnTestStop, Next1, stores, local
<1>2. Stable /\ Resolved' = Resolved
  BY <1>1 DEF Stable, Pending, Resolved, Live
<1>3. \A fs \in SUBSET Flow, i \in Interval \cup {0}, a \in Agent :
        /\ Quieted(a) => Quieted(a)'
        /\ Planned(a, fs) => Planned(a, fs)'
        /\ Started(a, fs, i) => Started(a, fs, i)'
  BY <1>t, StepKeeps
<1>4. ASSUME NEW g \in Handler PROVE Progress(g)'
  <2>1. PICK p \in SUBSET Flow : p = plan[g]
    BY <1>t
  <2>2. PICK i \in Interval \cup {0} : i = ivl[g]
    BY <1>t
  <2>3. Progress(g) /\ p = plan'[g] /\ i = ivl'[g]
    BY <1>1, <1>2, <2>1, <2>2 DEF ApplyInv
  <2>4. \A a \in Agent : /\ Quieted(a) => Quieted(a)'
                         /\ Planned(a, p) => Planned(a, plan[g])'
                         /\ Started(a, p, i) => Started(a, plan[g], ivl[g])'
    BY <1>3, <2>3, RenamedPlan, RenamedStart
  <2>5. pc[g] = "pass1" => \A a \in connected \ todo[g] :
          IF enabled[a] THEN Planned(a, plan[g])' ELSE Quieted(a)'
    BY <1>t, <2>1, <2>3, <2>4 DEF Progress
  <2>6. pc[g] = "pass2" => \A a \in connected :
          IF ~ enabled[a] THEN Quieted(a)'
          ELSE IF a \in todo[g] THEN Planned(a, plan[g])' ELSE Started(a, plan[g], ivl[g])'
    BY <1>t, <2>1, <2>2, <2>3, <2>4 DEF Progress
  <2>7. /\ pc[g] = "plan" => /\ todo[g] \subseteq connected
                             /\ ends[g] = {a \in connected \ todo[g] : enabled[a]}
        /\ pc[g] \in {"agents", "pass1", "pass2"} => plan[g] = Resolved
        /\ pc[g] \in {"pass1", "pass2"} => who[g] = connected
    BY <2>3 DEF Progress
  <2> QED
    BY <1>1, <1>2, <2>5, <2>6, <2>7 DEF Progress
<1>5. ASSUME mu' = NoHandler PROVE Applied'
  <2>1. PICK p \in SUBSET Flow : p = Resolved
    BY <1>t DEF Resolved
  <2>2. PICK i \in Interval \cup {0} : i = curInterval
    BY <1>t
  <2>3. p = Resolved' /\ i = curInterval' /\ Applied
    BY <1>1, <1>2, <1>5, <2>1, <2>2 DEF ApplyInv
  <2>4. \A a \in connected : IF enabled[a] THEN Started(a, p, i) ELSE Quieted(a)
    BY <2>1, <2>2, <2>3 DEF Applied
  <2>5. \A a \in connected : IF enabled[a] THEN Started(a, p, i)' ELSE Quieted(a)'
    BY <1>t, <1>3, <2>4
  <2>6. \A a \in connected :
          IF enabled[a] THEN Started(a, Resolved, curInterval)' ELSE Quieted(a)'
    BY <2>3, <2>5, RenamedApplied
  <2> QED
    BY <1>1, <2>6 DEF Applied
<1> QED
  BY <1>4, <1>5

LEMMA ApplyStep ==
  ASSUME StopAlone, TypeOK, StopInv, LocalInv, ApplyInv, [Next]_vars
  PROVE  ApplyInv'
<1> DEFINE Goal == (\A g \in Handler : Progress(g)') /\ (mu' = NoHandler => Applied')
<1> SUFFICES ASSUME Stable' PROVE Goal
  BY DEF ApplyInv
<1>t. pc \in [Handler -> Pcs] /\ \A h \in Handler : (mu = h) <=> pc[h] \in Busy
  BY DEF TypeOK, HandlerTypes, LockTypes
<1>s. /\ running' /\ ~ changed'
      /\ \A h \in Handler : pc'[h] \notin {"mesh", "check", "load", "lock"}
  BY DEF Stable, Pending
<1> HIDE DEF Goal
<1>1. ASSUME NEW h \in Handler,
             \/ \E i \in Interval : RequestStart(h, i)
             \/ RequestFlow(h) \/ RequestMesh(h) \/ \E a \in Agent : RequestEnable(h, a)
             \/ Load(h) \/ MeshEnd(h)
      PROVE  FALSE
  <2>1. PICK l \in {"lock", "check", "mesh"} : Goto(h, l)
    BY <1>1 DEF RequestStart, RequestFlow, RequestMesh, RequestEnable, Load, MeshEnd
  <2>2. pc'[h] = l
    BY <1>t, <2>1 DEF Goto
  <2> QED
    BY <1>s, <2>1, <2>2
<1>2. ASSUME NEW h \in Handler, RequestStop(h) PROVE FALSE
  BY <1>s, <1>2 DEF RequestStop
<1>3. ASSUME NEW h \in Handler, Check(h) PROVE FALSE
  <2>1. running' = running /\ pc' = [pc EXCEPT ![h] = IF running THEN "load" ELSE "idle"]
    BY <1>3 DEF Check, Goto, stores
  <2>2. pc'[h] = "load"
    BY <1>s, <1>t, <2>1
  <2> QED
    BY <1>s, <2>2
<1>4. ASSUME NEW h \in Handler, NEW f \in Flow, MeshAdd(h, f) PROVE FALSE
  BY <1>s, <1>4 DEF MeshAdd
<1>5. ASSUME NEW h \in Handler,
             BroadcastLookup(h) \/ BroadcastEnd(h) \/ \E a \in Agent : BroadcastSend(h, a)
      PROVE  FALSE
  <2>1. pc[h] \in Stopping /\ running' = running
    BY <1>5 DEF BroadcastLookup, BroadcastEnd, BroadcastSend, Stopping, stores
  <2> QED
    BY <1>s, <2>1 DEF StopInv
<1>6. ASSUME NEW a \in Agent, Disconnect(a) \/ Reconnect(a) PROVE FALSE
  BY <1>s, <1>6 DEF Disconnect, Reconnect
<1>7. ASSUME NEW h \in Handler, Lock(h) PROVE Goal
  <2>1. mu = NoHandler /\ mu' = h /\ pc' = [pc EXCEPT ![h] = "resolve"]
    BY <1>7 DEF Lock, Goto
  <2>2. \A g \in Handler : pc[g] \notin Busy
    BY <1>t, <2>1, Consts
  <2>3. ASSUME NEW g \in Handler PROVE Progress(g)'
    <3>1. pc'[g] \notin {"plan", "agents", "pass1", "pass2"}
      BY <1>t, <2>1, <2>2 DEF Busy
    <3> QED
      BY <3>1 DEF Progress
  <2> QED
    BY <2>1, <2>3, Consts DEF Goal
<1>8. ASSUME NEW h \in Handler, Resolve(h) PROVE Goal
  BY <1>8, ApplyResolve DEF Goal
<1>9. ASSUME NEW h \in Handler,
             \/ \E a \in Agent : ResolveAgent(h, a)
             \/ ResolveFlows(h) \/ Snapshot(h) \/ EndPass1(h)
      PROVE  Goal
  BY <1>9, ApplyPlan DEF Goal
<1>10. ASSUME NEW h \in Handler, NEW a \in Agent, Pass1(h, a) \/ Pass2(h, a) PROVE Goal
  BY <1>10, ApplySend DEF Goal
<1>11. ASSUME NEW h \in Handler, Unlock(h) PROVE Goal
  BY <1>11, ApplyUnlock DEF Goal
<1>12. ASSUME NEW a \in Agent, AgentStep(a) PROVE Goal
  BY <1>12, ApplyRead DEF Goal
<1>13. CASE UNCHANGED vars
  <2>1. Stable /\ UNCHANGED vars
    BY <1>13 DEF Stable, Pending, vars, stores
  <2>2. (\A g \in Handler : Progress(g)) /\ (mu = NoHandler => Applied)
    BY <2>1 DEF ApplyInv
  <2>u. UNCHANGED <<flows, enabled, connected, curInterval, ctl, engine, held, bound, mu, pc, todo,
                    plan, ends, who, ivl>>
    BY <2>1 DEF vars, stores, agentSide, local
  <2>r. Resolved' = Resolved
    BY <2>u DEF Resolved, Live
  <2>q. \A a \in connected : Quieted(a)' <=> Quieted(a)
    BY <2>u DEF Quieted, LastOf
  <2>p. \A a \in connected, g \in Handler : Planned(a, plan[g])' <=> Planned(a, plan[g])
    BY <2>u DEF Planned, Carries, IsPlan, LastOf
  <2>s. \A a \in connected, g \in Handler :
          Started(a, plan[g], ivl[g])' <=> Started(a, plan[g], ivl[g])
    BY <2>u DEF Started, Probes, Carries, IsPlan, IsStart, LastOf
  <2>o. \A a \in connected :
          Started(a, Resolved, curInterval)' <=> Started(a, Resolved, curInterval)
    BY <2>u, <2>r DEF Started, Probes, Carries, IsPlan, IsStart, LastOf
  <2>3. \A g \in Handler : Progress(g)'
    BY <2>u, <2>r, <2>q, <2>p, <2>s, <2>2 DEF Progress
  <2>4. mu' = NoHandler => Applied'
    BY <2>u, <2>o, <2>q, <2>2 DEF Applied
  <2> QED
    BY <2>3, <2>4 DEF Goal
<1> QED
  BY <1>1, <1>2, <1>3, <1>4, <1>5, <1>6, <1>7, <1>8, <1>9, <1>10, <1>11, <1>12, <1>13
     DEF Next, HandlerStep

-----------------------------------------------------------------------------
LEMMA RestInit == Init => StopInv /\ LocalInv /\ ApplyInv /\ StoppedInv
<1> SUFFICES ASSUME Init PROVE StopInv /\ LocalInv /\ ApplyInv /\ StoppedInv
  OBVIOUS
<1>1. StopInv /\ LocalInv
  BY DEF Init, StopInv, LocalInv, Stopping, Busy, Found
<1>2. ApplyInv
  BY DEF Init, ApplyInv, Stable
<1>3. StoppedInv
  BY TestTypes DEF Init, StoppedInv, Quieted, Stopping
<1> QED
  BY <1>1, <1>2, <1>3

(* As long as a STOP is asked for only when no other request is served,    *)
(* the invariants above hold of every behaviour.                           *)
LEMMA RestInvariant == StopAlone => (Spec => [](StopInv /\ LocalInv /\ ApplyInv /\ StoppedInv))
<1> SUFFICES ASSUME StopAlone
             PROVE  Spec => [](StopInv /\ LocalInv /\ ApplyInv /\ StoppedInv)
  OBVIOUS
<1> DEFINE I == StopInv /\ LocalInv /\ ApplyInv /\ StoppedInv
<1>1. Init => I
  BY RestInit
<1>2. TypeOK /\ I /\ [Next]_vars => I'
  BY StopStep, LocalStep, ApplyStep, StoppedStep
<1> HIDE DEF I
<1>3. Spec => []I
  BY <1>1, <1>2, LifecycleTypes, PTL DEF Spec
<1> QED
  BY <1>3 DEF I

LEMMA AtRestApplied ==
  ASSUME TypeOK, ApplyInv PROVE AppliedIsCurrent
<1> SUFFICES ASSUME AtRest, running, ~ changed,
                    NEW a \in connected
             PROVE  IF enabled[a]
                      THEN /\ engine[a].on
                           /\ engine[a].flows = From(a, Resolved)
                           /\ engine[a].interval = Effective(curInterval)
                           /\ bound[a] = To(a, Resolved)
                      ELSE ~ engine[a].on /\ bound[a] = {}
  BY DEF AppliedIsCurrent
<1>1. Stable
  BY DEF AtRest, Stable, Pending
<1>2. mu = NoHandler
  BY DEF AtRest, TypeOK, LockTypes, Busy
<1>3. IF enabled[a] THEN Started(a, Resolved, curInterval) ELSE Quieted(a)
  BY <1>1, <1>2 DEF ApplyInv, Applied
<1>4. ctl[a] = <<>> /\ Len(ctl[a]) = 0
  BY EmptySeq DEF AtRest, TypeOK, StoreTypes
<1> QED
  BY <1>3, <1>4 DEF Started, Quieted, Probes

LEMMA AtRestStopped ==
  ASSUME TypeOK, StoppedInv PROVE StoppedIsIdle
<1> SUFFICES ASSUME AtRest, ~ running, ~ changed, NEW a \in connected
             PROVE  ~ engine[a].on /\ bound[a] = {}
  BY DEF StoppedIsIdle
<1>1. \A h \in Handler : pc[h] \notin Stopping
  BY DEF AtRest, Stopping
<1>2. Quieted(a)
  BY <1>1 DEF StoppedInv
<1>3. ctl[a] = <<>>
  BY DEF AtRest, TypeOK, StoreTypes
<1> QED
  BY <1>2, <1>3 DEF Quieted

(* applyFlows and reapplyIfRunning: however the edits, the starts and the  *)
(* applies of any number of handlers overlap, once all is carried out the  *)
(* agents run what the stores say.  A STOP that overlaps another request   *)
(* leaves agents running (MCTestControl_stop.cfg), so it comes alone here. *)
THEOREM EditsAreApplied == StopAlone => (Spec => []AppliedIsCurrent)
<1>1. TypeOK /\ (StopInv /\ LocalInv /\ ApplyInv /\ StoppedInv) => AppliedIsCurrent
  BY AtRestApplied
<1> QED
  BY <1>1, LifecycleTypes, RestInvariant, PTL

(* handleTestStop: when c.running is false and nothing is under way, no    *)
(* connected agent runs a test or holds a port.                            *)
THEOREM StopsEverywhere == StopAlone => (Spec => []StoppedIsIdle)
<1>1. TypeOK /\ (StopInv /\ LocalInv /\ ApplyInv /\ StoppedInv) => StoppedIsIdle
  BY AtRestStopped
<1> QED
  BY <1>1, LifecycleTypes, RestInvariant, PTL
=============================================================================
