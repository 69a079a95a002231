-------------------------- MODULE HubRegistryProofs --------------------------
(***************************************************************************)
(* Proofs about HubRegistry for any agents, callers, queue depth and       *)
(* number of connections.                                                  *)
(***************************************************************************)
EXTENDS HubRegistry, SequenceTheorems, TLAPS

(* What the life of a connection adds to make the invariants inductive: a  *)
(* connection has no name before its REGISTER, a dialled one has an owner, *)
(* a number not dialled yet has no goroutine, and Run returns only when    *)
(* the peer is done.                                                       *)
Lifecycle ==
  /\ \A c \in Conns : phase[c] \in {"none", "open"} => acId[c] = NoAgent
  /\ \A c \in Conns : phase[c] = "open" => owner[c] \in Agent
  /\ \A c \in Conns : c > nconn => phase[c] = "none"
  /\ \A c \in Conns : phase[c] = "returned" => done[c]

Inv ==
  /\ TypeOK
  /\ Lifecycle
  /\ LiveIsAddressable
  /\ NoGhost
  /\ Addressed

(* The number the next dial takes. *)
LEMMA NextConn ==
  ASSUME nconn \in 0 .. MaxConns, nconn < MaxConns
  PROVE  nconn + 1 \in Conns /\ nconn + 1 \in 0 .. MaxConns
  BY BoundsAssumption DEF Conns

-----------------------------------------------------------------------------
LEMMA InitInv == Init => Inv
<1> SUFFICES ASSUME Init PROVE Inv
  OBVIOUS
<1> USE DEF Init
<1>1. TypeOK
  <2>1. <<>> \in Seq(Agent \cup {All, Ack})  OBVIOUS
  <2> QED  BY <2>1, BoundsAssumption DEF TypeOK, Conns
<1>2. Lifecycle  BY DEF Lifecycle
<1>3. LiveIsAddressable  BY DEF LiveIsAddressable
<1>4. NoGhost  BY DEF NoGhost
<1>5. Addressed  BY DEF Addressed
<1> QED  BY <1>1, <1>2, <1>3, <1>4, <1>5 DEF Inv

-----------------------------------------------------------------------------
(* Type correctness, action by action.                                     *)

LEMMA AppendFits ==
  ASSUME TypeOK, NEW c \in Conns, NEW f \in Agent \cup {All, Ack},
         Len(sendq[c]) < SendCap,
         sendq' = [sendq EXCEPT ![c] = Append(@, f)]
  PROVE  /\ sendq' \in [Conns -> Seq(Agent \cup {All, Ack})]
         /\ \A d \in Conns : Len(sendq'[d]) <= SendCap
<1>1. /\ sendq \in [Conns -> Seq(Agent \cup {All, Ack})]
      /\ sendq[c] \in Seq(Agent \cup {All, Ack})
  BY DEF TypeOK
<1>2. /\ Append(sendq[c], f) \in Seq(Agent \cup {All, Ack})
      /\ Len(Append(sendq[c], f)) = Len(sendq[c]) + 1
      /\ Len(sendq[c]) \in Nat
  BY <1>1, AppendProperties
<1>3. SendCap \in Nat  BY BoundsAssumption
<1>4. \A d \in Conns : sendq'[d] = IF d = c THEN Append(sendq[c], f) ELSE sendq[d]
  BY <1>1
<1>5. \A d \in Conns : Len(sendq[d]) <= SendCap  BY DEF TypeOK
<1> QED  BY <1>1, <1>2, <1>3, <1>4, <1>5

LEMMA TailFits ==
  ASSUME TypeOK, NEW c \in Conns, sendq[c] # <<>>,
         sendq' = [sendq EXCEPT ![c] = Tail(@)]
  PROVE  /\ sendq' \in [Conns -> Seq(Agent \cup {All, Ack})]
         /\ \A d \in Conns : Len(sendq'[d]) <= SendCap
<1>1. /\ sendq \in [Conns -> Seq(Agent \cup {All, Ack})]
      /\ sendq[c] \in Seq(Agent \cup {All, Ack})
  BY DEF TypeOK
<1>2. /\ Tail(sendq[c]) \in Seq(Agent \cup {All, Ack})
      /\ Len(Tail(sendq[c])) = Len(sendq[c]) - 1
      /\ Len(sendq[c]) \in Nat
  BY <1>1, HeadTailProperties, LenProperties
<1>3. SendCap \in Nat  BY BoundsAssumption
<1>4. \A d \in Conns : sendq'[d] = IF d = c THEN Tail(sendq[c]) ELSE sendq[d]
  BY <1>1
<1>5. \A d \in Conns : Len(sendq[d]) <= SendCap  BY DEF TypeOK
<1> QED  BY <1>1, <1>2, <1>3, <1>4, <1>5

LEMMA TypeStep == Inv /\ [Next]_vars => TypeOK'
<1> SUFFICES ASSUME Inv, [Next]_vars PROVE TypeOK'
  OBVIOUS
<1>0. TypeOK  BY DEF Inv
<1> USE <1>0
<1>1. ASSUME NEW a \in Agent, Dial(a) PROVE TypeOK'
  <2>1. nconn + 1 \in Conns /\ nconn + 1 \in 0 .. MaxConns
    BY <1>1, NextConn DEF TypeOK, Dial
  <2> QED  BY <1>1, <2>1 DEF TypeOK, Dial, handlerVars, callerVars
<1>2. ASSUME NEW c \in Conns, AgentDrop(c) PROVE TypeOK'
  <2>1. PICK arrives \in {inbound[c], FALSE} :
          inbound' = [inbound EXCEPT ![c] = arrives]
    BY <1>2 DEF AgentDrop
  <2>2. inbound[c] \in BOOLEAN /\ arrives \in BOOLEAN  BY DEF TypeOK
  <2>3. inbound' \in [Conns -> BOOLEAN]  BY <2>1, <2>2 DEF TypeOK
  <2> QED  BY <1>2, <2>3 DEF TypeOK, AgentDrop, handlerVars, callerVars
<1>3. ASSUME NEW c \in Conns, HubRegister(c) PROVE TypeOK'
  <2>1. owner[c] \in Agent  BY <1>3 DEF Inv, Lifecycle, HubRegister
  <2>2. c \in 0 .. MaxConns  BY DEF Conns
  <2>3. agents' \in [Agent -> 0 .. MaxConns]
    BY <1>3, <2>1, <2>2 DEF TypeOK, HubRegister
  <2>4. done' \in [Conns -> BOOLEAN]
    BY <1>3 DEF TypeOK, HubRegister
  <2> QED  BY <1>3, <2>1, <2>3, <2>4 DEF TypeOK, HubRegister, callerVars
<1>4. ASSUME NEW c \in Conns, QueueAck(c) PROVE TypeOK'
  <2>1. /\ sendq' \in [Conns -> Seq(Agent \cup {All, Ack})]
        /\ \A d \in Conns : Len(sendq'[d]) <= SendCap
    BY <1>4, AppendFits DEF QueueAck, TypeOK
  <2> QED  BY <1>4, <2>1 DEF TypeOK, QueueAck, connVars, callerVars
<1>5. ASSUME NEW c \in Conns, WriteFrame(c) PROVE TypeOK'
  <2>1. /\ sendq' \in [Conns -> Seq(Agent \cup {All, Ack})]
        /\ \A d \in Conns : Len(sendq'[d]) <= SendCap
    BY <1>5, TailFits DEF WriteFrame
  <2> QED  BY <1>5, <2>1 DEF TypeOK, WriteFrame, connVars, handlerVars, callerVars
<1>6. ASSUME NEW c \in Conns, DetectLoss(c) PROVE TypeOK'
  BY <1>6 DEF TypeOK, DetectLoss, connVars, handlerVars, callerVars
<1>7. ASSUME NEW c \in Conns, Return(c) PROVE TypeOK'
  BY <1>7 DEF TypeOK, Return, connVars, callerVars
<1>8. ASSUME NEW c \in Conns, Unregister(c) PROVE TypeOK'
  <2>1. 0 \in 0 .. MaxConns  BY BoundsAssumption
  <2>2. agents' \in [Agent -> 0 .. MaxConns]
    BY <1>8, <2>1 DEF TypeOK, Unregister
  <2> QED  BY <1>8, <2>2 DEF TypeOK, Unregister, connVars, callerVars
<1>9. ASSUME NEW g \in Caller, NEW i \in Agent, LookupSend(g, i) PROVE TypeOK'
  <2>1. agents[i] \in Conns  BY <1>9 DEF TypeOK, LookupSend, Conns
  <2> QED  BY <1>9, <2>1 DEF TypeOK, LookupSend, connVars, handlerVars
<1>10. ASSUME NEW g \in Caller, NEW i \in Agent, LookupEvict(g, i) PROVE TypeOK'
  <2>1. agents[i] \in Conns  BY <1>10 DEF TypeOK, LookupEvict, Conns
  <2> QED  BY <1>10, <2>1 DEF TypeOK, LookupEvict, connVars, handlerVars
<1>11. ASSUME NEW g \in Caller, LookupBroadcast(g) PROVE TypeOK'
  <2>1. {agents[i] : i \in Agent} \ {0} \subseteq Conns
    BY DEF TypeOK, Conns
  <2> QED  BY <1>11, <2>1 DEF TypeOK, LookupBroadcast, connVars, handlerVars
<1>12. ASSUME NEW g \in Caller, NEW c \in Conns, SendOne(g, c) PROVE TypeOK'
  <2>1. msg[g] \in Agent \cup {All, Ack}  BY DEF TypeOK
  <2>2. /\ sendq' \in [Conns -> Seq(Agent \cup {All, Ack})]
        /\ \A d \in Conns : Len(sendq'[d]) <= SendCap
    BY <1>12, <2>1, AppendFits DEF SendOne, TypeOK
  <2>3. /\ job' \in [Caller -> {"none", "send", "evict"}]
        /\ msg' \in [Caller -> Agent \cup {All}]
        /\ todo' \in [Caller -> SUBSET Conns]
    BY <1>12 DEF TypeOK, SendOne, Finish
  <2> QED  BY <1>12, <2>2, <2>3 DEF TypeOK, SendOne, connVars, handlerVars
<1>13. ASSUME NEW g \in Caller, NEW c \in Conns, EvictClose(g, c) PROVE TypeOK'
  <2>1. /\ job' \in [Caller -> {"none", "send", "evict"}]
        /\ msg' \in [Caller -> Agent \cup {All}]
        /\ todo' \in [Caller -> SUBSET Conns]
    BY <1>13 DEF TypeOK, EvictClose, Finish
  <2> QED  BY <1>13, <2>1 DEF TypeOK, EvictClose, connVars, handlerVars
<1>14. CASE UNCHANGED vars
  BY <1>14 DEF TypeOK, vars, connVars, handlerVars, callerVars
<1> QED
  BY <1>1, <1>2, <1>3, <1>4, <1>5, <1>6, <1>7, <1>8, <1>9, <1>10, <1>11,
     <1>12, <1>13, <1>14
  DEF Next

-----------------------------------------------------------------------------
(* The steps that leave owners, names, phases and the registry alone, and  *)
(* close connections at most.                                              *)
Quiet ==
  /\ UNCHANGED <<nconn, owner, phase, acId, agents>>
  /\ \A d \in Conns : done[d] => done'[d]

LEMMA StepKinds ==
  ASSUME TypeOK, [Next]_vars
  PROVE  \/ \E a \in Agent : Dial(a)
         \/ \E c \in Conns : \/ HubRegister(c) \/ QueueAck(c)
                            \/ Return(c) \/ Unregister(c)
         \/ Quiet
<1>1. ASSUME NEW c \in Conns, AgentDrop(c) PROVE Quiet
  BY <1>1 DEF AgentDrop, Quiet, handlerVars
<1>2. ASSUME NEW c \in Conns, WriteFrame(c) PROVE Quiet
  BY <1>2 DEF WriteFrame, Quiet, connVars, handlerVars
<1>3. ASSUME NEW c \in Conns, DetectLoss(c) PROVE Quiet
  BY <1>3 DEF DetectLoss, Quiet, connVars, handlerVars, TypeOK
<1>4. ASSUME NEW g \in Caller, NEW i \in Agent,
             LookupSend(g, i) \/ LookupEvict(g, i) PROVE Quiet
  BY <1>4 DEF LookupSend, LookupEvict, Quiet, connVars, handlerVars
<1>5. ASSUME NEW g \in Caller, LookupBroadcast(g) PROVE Quiet
  BY <1>5 DEF LookupBroadcast, Quiet, connVars, handlerVars
<1>6. ASSUME NEW g \in Caller, NEW c \in Conns, SendOne(g, c) PROVE Quiet
  BY <1>6 DEF SendOne, Quiet, connVars, handlerVars
<1>7. ASSUME NEW g \in Caller, NEW c \in Conns, EvictClose(g, c) PROVE Quiet
  BY <1>7 DEF EvictClose, Quiet, connVars, handlerVars, TypeOK
<1>8. CASE UNCHANGED vars
  BY <1>8 DEF vars, Quiet, connVars, handlerVars
<1> QED
  BY <1>1, <1>2, <1>3, <1>4, <1>5, <1>6, <1>7, <1>8 DEF Next

-----------------------------------------------------------------------------
LEMMA LifecycleStep == Inv /\ [Next]_vars => Lifecycle'
<1> SUFFICES ASSUME Inv, [Next]_vars PROVE Lifecycle'
  OBVIOUS
<1>0. TypeOK /\ Lifecycle  BY DEF Inv
<1>1. ASSUME NEW a \in Agent, Dial(a) PROVE Lifecycle'
  <2>1. nconn + 1 \in Conns  BY <1>0, <1>1, NextConn DEF TypeOK, Dial
  <2>2. phase[nconn + 1] = "none"
    BY <1>0, <2>1 DEF Lifecycle, TypeOK
  <2> QED  BY <1>0, <1>1, <2>1, <2>2 DEF Dial, Lifecycle, TypeOK, Conns
<1>2. ASSUME NEW c \in Conns, HubRegister(c) PROVE Lifecycle'
  BY <1>0, <1>2 DEF HubRegister, Lifecycle, TypeOK
<1>3. ASSUME NEW c \in Conns, QueueAck(c) PROVE Lifecycle'
  BY <1>0, <1>3 DEF QueueAck, Lifecycle, TypeOK, connVars
<1>4. ASSUME NEW c \in Conns, Return(c) PROVE Lifecycle'
  BY <1>0, <1>4 DEF Return, Lifecycle, TypeOK, connVars
<1>5. ASSUME NEW c \in Conns, Unregister(c) PROVE Lifecycle'
  BY <1>0, <1>5 DEF Unregister, Lifecycle, TypeOK, connVars
<1>6. CASE Quiet
  BY <1>0, <1>6 DEF Quiet, Lifecycle
<1> QED  BY <1>0, <1>1, <1>2, <1>3, <1>4, <1>5, <1>6, StepKinds

LEMMA LiveStep == Inv /\ [Next]_vars => LiveIsAddressable'
<1> SUFFICES ASSUME Inv, [Next]_vars PROVE LiveIsAddressable'
  OBVIOUS
<1>0. TypeOK /\ Lifecycle /\ LiveIsAddressable  BY DEF Inv
<1> SUFFICES ASSUME NEW d \in Conns,
                    Running(d)', acId'[d] # NoAgent, ~ done'[d]
             PROVE  agents'[acId'[d]] = d
  BY DEF LiveIsAddressable
<1>1. ASSUME NEW a \in Agent, Dial(a) PROVE agents'[acId'[d]] = d
  <2>1. nconn + 1 \in Conns  BY <1>0, <1>1, NextConn DEF TypeOK, Dial
  <2>2. acId[nconn + 1] = NoAgent
    BY <1>0, <2>1 DEF Lifecycle, TypeOK
  <2>3. d # nconn + 1  BY <1>1, <2>2 DEF Dial, handlerVars
  <2>4. phase'[d] = phase[d]  BY <1>0, <1>1, <2>3 DEF Dial, TypeOK
  <2> QED  BY <1>0, <1>1, <2>4 DEF Dial, LiveIsAddressable, Running
<1>2. ASSUME NEW c \in Conns, HubRegister(c) PROVE agents'[acId'[d]] = d
  <2>1. owner[c] \in Agent  BY <1>0, <1>2 DEF Lifecycle, HubRegister
  <2>2. CASE d = c
    BY <1>0, <1>2, <2>1, <2>2 DEF HubRegister, TypeOK
  <2>3. CASE d # c
    <3>1. /\ acId'[d] = acId[d] /\ phase'[d] = phase[d]
          /\ ~ done[d] /\ d # agents[owner[c]]
      BY <1>0, <1>2, <2>3 DEF HubRegister, TypeOK
    <3>2. agents[acId[d]] = d
      BY <1>0, <3>1 DEF LiveIsAddressable, Running
    <3>3. acId[d] \in Agent /\ acId[d] # owner[c]
      BY <1>0, <3>1, <3>2 DEF TypeOK
    <3> QED  BY <1>0, <1>2, <3>1, <3>2, <3>3 DEF HubRegister, TypeOK
  <2> QED  BY <2>2, <2>3
<1>3. ASSUME NEW c \in Conns, QueueAck(c) PROVE agents'[acId'[d]] = d
  <2>1. Running(d)  BY <1>0, <1>3 DEF QueueAck, Running, TypeOK
  <2> QED  BY <1>0, <1>3, <2>1 DEF QueueAck, LiveIsAddressable
<1>4. ASSUME NEW c \in Conns, Return(c) PROVE agents'[acId'[d]] = d
  <2>1. Running(d)  BY <1>0, <1>4 DEF Return, Running, TypeOK
  <2> QED  BY <1>0, <1>4, <2>1 DEF Return, LiveIsAddressable
<1>5. ASSUME NEW c \in Conns, Unregister(c) PROVE agents'[acId'[d]] = d
  <2>1. Running(d) /\ d # c
    BY <1>0, <1>5 DEF Unregister, Running, TypeOK
  <2>2. acId[d] \in Agent /\ agents[acId[d]] = d
    BY <1>0, <1>5, <2>1 DEF Unregister, LiveIsAddressable, TypeOK
  <2> QED  BY <1>5, <2>1, <2>2 DEF Unregister
<1>6. CASE Quiet
  <2>1. Running(d) /\ ~ done[d]  BY <1>6 DEF Quiet, Running
  <2> QED  BY <1>0, <1>6, <2>1 DEF Quiet, LiveIsAddressable
<1> QED  BY <1>0, <1>1, <1>2, <1>3, <1>4, <1>5, <1>6, StepKinds

LEMMA NoGhostStep == Inv /\ [Next]_vars => NoGhost'
<1> SUFFICES ASSUME Inv, [Next]_vars PROVE NoGhost'
  OBVIOUS
<1>0. TypeOK /\ Lifecycle /\ NoGhost  BY DEF Inv
<1> SUFFICES ASSUME NEW i \in Agent, agents'[i] # 0
             PROVE  /\ acId'[agents'[i]] = i
                    /\ phase'[agents'[i]] \in {"acking", "serving", "returned"}
  BY DEF NoGhost
<1>a. agents[i] # 0 => agents[i] \in Conns  BY <1>0 DEF TypeOK, Conns
<1>b. agents[i] # 0 => /\ acId[agents[i]] = i
                       /\ phase[agents[i]] \in {"acking", "serving", "returned"}
  BY <1>0 DEF NoGhost
<1> DEFINE Goal == /\ acId'[agents'[i]] = i
                   /\ phase'[agents'[i]] \in {"acking", "serving", "returned"}
<1>1. ASSUME NEW a \in Agent, Dial(a) PROVE Goal
  <2>1. nconn + 1 \in Conns  BY <1>0, <1>1, NextConn DEF TypeOK, Dial
  <2>2. phase[nconn + 1] = "none"
    BY <1>0, <2>1 DEF Lifecycle, TypeOK
  <2>3. agents[i] # 0 /\ agents'[i] = agents[i]  BY <1>1 DEF Dial
  <2>4. agents[i] # nconn + 1  BY <1>b, <2>2, <2>3
  <2> QED  BY <1>0, <1>1, <1>a, <1>b, <2>1, <2>3, <2>4 DEF Dial, TypeOK, handlerVars
<1>2. ASSUME NEW c \in Conns, HubRegister(c) PROVE Goal
  <2>1. owner[c] \in Agent  BY <1>0, <1>2 DEF Lifecycle, HubRegister
  <2>2. CASE i = owner[c]
    BY <1>0, <1>2, <2>1, <2>2 DEF HubRegister, TypeOK
  <2>3. CASE i # owner[c]
    <3>1. agents'[i] = agents[i]  BY <1>0, <1>2, <2>3 DEF HubRegister, TypeOK
    <3>2. agents[i] # c  BY <1>2, <1>b, <3>1 DEF HubRegister
    <3> QED  BY <1>0, <1>2, <1>a, <1>b, <3>1, <3>2 DEF HubRegister, TypeOK
  <2> QED  BY <2>2, <2>3
<1>3. ASSUME NEW c \in Conns, QueueAck(c) PROVE Goal
  BY <1>0, <1>3, <1>a, <1>b DEF QueueAck, TypeOK
<1>4. ASSUME NEW c \in Conns, Return(c) PROVE Goal
  BY <1>0, <1>4, <1>a, <1>b DEF Return, TypeOK
<1>5. ASSUME NEW c \in Conns, Unregister(c) PROVE Goal
  <2>1. agents'[i] = agents[i] /\ ~ (i = acId[c] /\ agents[i] = c)
    BY <1>5 DEF Unregister
  <2>2. agents[i] # c  BY <1>b, <2>1
  <2> QED  BY <1>0, <1>5, <1>a, <1>b, <2>1, <2>2 DEF Unregister, TypeOK
<1>6. CASE Quiet
  BY <1>6, <1>b DEF Quiet
<1> QED  BY <1>0, <1>1, <1>2, <1>3, <1>4, <1>5, <1>6, StepKinds

-----------------------------------------------------------------------------
(* The two parts of Addressed, for one connection and for one caller.      *)
QueueAddressed(c) ==
  \A k \in DOMAIN sendq[c] : sendq[c][k] \in Agent => sendq[c][k] = acId[c]

CallerAddressed(g) ==
  job[g] = "send" /\ msg[g] \in Agent => \A c \in todo[g] : acId[c] = msg[g]

LEMMA AddressedParts ==
  Addressed <=> /\ \A c \in Conns : QueueAddressed(c)
                /\ \A g \in Caller : CallerAddressed(g)
  BY DEF Addressed, QueueAddressed, CallerAddressed

(* A name, once taken, is kept. *)
LEMMA NamesKept ==
  ASSUME Inv, [Next]_vars, NEW c \in Conns, acId[c] \in Agent
  PROVE  acId'[c] = acId[c]
<1>0. TypeOK /\ Lifecycle  BY DEF Inv
<1>1. ASSUME NEW a \in Agent, Dial(a) PROVE acId'[c] = acId[c]
  BY <1>1 DEF Dial
<1>2. ASSUME NEW d \in Conns, HubRegister(d) PROVE acId'[c] = acId[c]
  <2>1. c # d
    BY <1>0, <1>2, NamesAssumption DEF HubRegister, Lifecycle
  <2> QED  BY <1>0, <1>2, <2>1 DEF HubRegister, TypeOK
<1>3. ASSUME NEW d \in Conns, QueueAck(d) \/ Return(d) \/ Unregister(d)
      PROVE  acId'[c] = acId[c]
  BY <1>3 DEF QueueAck, Return, Unregister
<1>4. CASE Quiet  BY <1>4 DEF Quiet
<1> QED  BY <1>0, <1>1, <1>2, <1>3, <1>4, StepKinds

(* Frames only join a queue for the connection's own name, or for nobody.  *)
LEMMA AppendAddressed ==
  ASSUME Inv, [Next]_vars, NEW c \in Conns, NEW f \in Agent \cup {All, Ack},
         sendq' = [sendq EXCEPT ![c] = Append(@, f)],
         f \in Agent => f = acId[c]
  PROVE  \A d \in Conns : QueueAddressed(d)'
<1>1. sendq \in [Conns -> Seq(Agent \cup {All, Ack})]  BY DEF Inv, TypeOK
<1>2. \A d \in Conns : QueueAddressed(d)  BY AddressedParts DEF Inv
<1> SUFFICES ASSUME NEW d \in Conns, NEW k \in DOMAIN sendq'[d],
                    sendq'[d][k] \in Agent
             PROVE  sendq'[d][k] = acId'[d]
  BY DEF QueueAddressed
<1>3. CASE d # c
  <2>1. sendq'[d] = sendq[d]  BY <1>1, <1>3
  <2> QED  BY <1>2, <2>1, NamesKept DEF QueueAddressed
<1>4. CASE d = c
  <2>1. sendq'[c] = Append(sendq[c], f) /\ sendq[c] \in Seq(Agent \cup {All, Ack})
    BY <1>1
  <2>2. /\ Len(sendq'[c]) = Len(sendq[c]) + 1 /\ Len(sendq[c]) \in Nat
        /\ DOMAIN sendq'[c] = 1 .. Len(sendq[c]) + 1
        /\ DOMAIN sendq[c] = 1 .. Len(sendq[c])
        /\ \A j \in 1 .. Len(sendq[c]) : sendq'[c][j] = sendq[c][j]
        /\ sendq'[c][Len(sendq[c]) + 1] = f
    BY <2>1, AppendProperties, LenProperties
  <2>3. CASE k = Len(sendq[c]) + 1  BY <1>4, <2>2, <2>3, NamesKept
  <2>4. CASE k # Len(sendq[c]) + 1
    <3>1. k \in DOMAIN sendq[c] /\ sendq'[c][k] = sendq[c][k]
      BY <1>4, <2>2, <2>4
    <3> QED  BY <1>2, <1>4, <3>1, NamesKept DEF QueueAddressed
  <2> QED  BY <2>3, <2>4
<1> QED  BY <1>3, <1>4

LEMMA TailAddressed ==
  ASSUME Inv, [Next]_vars, NEW c \in Conns, sendq[c] # <<>>,
         sendq' = [sendq EXCEPT ![c] = Tail(@)]
  PROVE  \A d \in Conns : QueueAddressed(d)'
<1>1. sendq \in [Conns -> Seq(Agent \cup {All, Ack})]  BY DEF Inv, TypeOK
<1>2. \A d \in Conns : QueueAddressed(d)  BY AddressedParts DEF Inv
<1> SUFFICES ASSUME NEW d \in Conns, NEW k \in DOMAIN sendq'[d],
                    sendq'[d][k] \in Agent
             PROVE  sendq'[d][k] = acId'[d]
  BY DEF QueueAddressed
<1>3. CASE d # c
  <2>1. sendq'[d] = sendq[d]  BY <1>1, <1>3
  <2> QED  BY <1>2, <2>1, NamesKept DEF QueueAddressed
<1>4. CASE d = c
  <2>1. sendq'[c] = Tail(sendq[c]) /\ sendq[c] \in Seq(Agent \cup {All, Ack})
    BY <1>1
  <2>a. /\ Len(sendq[c]) \in Nat
        /\ DOMAIN sendq[c] = 1 .. Len(sendq[c])
    BY <2>1, LenProperties
  <2> DEFINE s == sendq[c]
  <2>b. s \in Seq(Agent \cup {All, Ack}) /\ s # <<>>
    BY <2>1
  <2> HIDE DEF s
  <2>c. /\ Tail(s) \in Seq(Agent \cup {All, Ack}) /\ Len(Tail(s)) = Len(s) - 1
        /\ \A j \in 1 .. Len(Tail(s)) : Tail(s)[j] = s[j + 1]
    BY <2>b, HeadTailProperties
  <2>2. /\ Len(sendq[c]) \in Nat /\ Len(sendq'[c]) = Len(sendq[c]) - 1
        /\ DOMAIN sendq[c] = 1 .. Len(sendq[c])
        /\ sendq'[c] \in Seq(Agent \cup {All, Ack})
        /\ \A j \in 1 .. Len(sendq'[c]) : sendq'[c][j] = sendq[c][j + 1]
    BY <2>1, <2>a, <2>c DEF s
  <2>3. DOMAIN sendq'[c] = 1 .. Len(sendq'[c])  BY <2>2, LenProperties
  <2>4. k + 1 \in DOMAIN sendq[c] /\ sendq'[c][k] = sendq[c][k + 1]
    BY <1>4, <2>2, <2>3
  <2> QED  BY <1>2, <1>4, <2>4, NamesKept DEF QueueAddressed
<1> QED  BY <1>3, <1>4

LEMMA SameQueuesAddressed ==
  ASSUME Inv, [Next]_vars, UNCHANGED sendq
  PROVE  \A d \in Conns : QueueAddressed(d)'
<1>1. \A d \in Conns : QueueAddressed(d)  BY AddressedParts DEF Inv
<1> QED  BY <1>1, NamesKept DEF QueueAddressed

LEMMA SameCallersAddressed ==
  ASSUME Inv, [Next]_vars, UNCHANGED callerVars
  PROVE  \A g \in Caller : CallerAddressed(g)'
<1>1. \A g \in Caller : CallerAddressed(g)  BY AddressedParts DEF Inv
<1>2. todo \in [Caller -> SUBSET Conns]  BY DEF Inv, TypeOK
<1> SUFFICES ASSUME NEW g \in Caller, job[g] = "send", msg[g] \in Agent,
                    NEW c \in todo[g]
             PROVE  acId'[c] = msg[g]
  BY DEF CallerAddressed, callerVars
<1>3. c \in Conns /\ acId[c] = msg[g]  BY <1>1, <1>2 DEF CallerAddressed
<1> QED  BY <1>3, NamesKept

(* One caller moves: its own state is right and the others' is unchanged.  *)
LEMMA OneCallerAddressed ==
  ASSUME Inv, [Next]_vars, NEW g \in Caller,
         \A h \in Caller \ {g} : /\ job'[h] = job[h] /\ msg'[h] = msg[h]
                                 /\ todo'[h] = todo[h],
         job'[g] = "send" /\ msg'[g] \in Agent =>
           \A c \in todo'[g] : c \in Conns /\ acId[c] = msg'[g]
  PROVE  \A h \in Caller : CallerAddressed(h)'
<1>1. \A h \in Caller : CallerAddressed(h)  BY AddressedParts DEF Inv
<1>2. todo \in [Caller -> SUBSET Conns]  BY DEF Inv, TypeOK
<1> SUFFICES ASSUME NEW h \in Caller, job'[h] = "send", msg'[h] \in Agent,
                    NEW c \in todo'[h]
             PROVE  acId'[c] = msg'[h]
  BY DEF CallerAddressed
<1>3. CASE h = g  BY <1>3, NamesKept
<1>4. CASE h # g
  <2>1. c \in Conns /\ acId[c] = msg[h] /\ msg'[h] = msg[h]
    BY <1>1, <1>2, <1>4 DEF CallerAddressed
  <2> QED  BY <2>1, NamesKept
<1> QED  BY <1>3, <1>4

LEMMA AddressedStep == Inv /\ [Next]_vars => Addressed'
<1> SUFFICES ASSUME Inv, [Next]_vars
             PROVE  /\ \A c \in Conns : QueueAddressed(c)'
                    /\ \A g \in Caller : CallerAddressed(g)'
  BY DEF Addressed, QueueAddressed, CallerAddressed
<1> DEFINE Goal == /\ \A c \in Conns : QueueAddressed(c)'
                   /\ \A g \in Caller : CallerAddressed(g)'
<1>0. TypeOK /\ NoGhost /\ (\A g \in Caller : CallerAddressed(g))
  BY AddressedParts DEF Inv
<1>1. ASSUME NEW a \in Agent, Dial(a) PROVE Goal
  BY <1>1, SameQueuesAddressed, SameCallersAddressed DEF Dial
<1>2. ASSUME NEW c \in Conns,
             AgentDrop(c) \/ HubRegister(c) \/ DetectLoss(c) \/ Return(c)
               \/ Unregister(c)
      PROVE  Goal
  BY <1>2, SameQueuesAddressed, SameCallersAddressed
  DEF AgentDrop, HubRegister, DetectLoss, Return, Unregister
<1>3. ASSUME NEW c \in Conns, QueueAck(c) PROVE Goal
  <2>1. \A d \in Conns : QueueAddressed(d)'
    BY <1>3, NamesAssumption, AppendAddressed, SameQueuesAddressed DEF QueueAck
  <2> QED  BY <1>3, <2>1, SameCallersAddressed DEF QueueAck
<1>4. ASSUME NEW c \in Conns, WriteFrame(c) PROVE Goal
  <2>1. \A d \in Conns : QueueAddressed(d)'
    BY <1>4, TailAddressed DEF WriteFrame
  <2> QED  BY <1>4, <2>1, SameCallersAddressed DEF WriteFrame
<1>5. ASSUME NEW g \in Caller, NEW i \in Agent, LookupSend(g, i) PROVE Goal
  <2>1. agents[i] \in Conns /\ acId[agents[i]] = i
    BY <1>0, <1>5 DEF LookupSend, TypeOK, NoGhost, Conns
  <2>2. job'[g] = "send" /\ msg'[g] = i /\ todo'[g] = {agents[i]}
    BY <1>0, <1>5 DEF LookupSend, TypeOK
  <2>3. \A h \in Caller \ {g} : /\ job'[h] = job[h] /\ msg'[h] = msg[h]
                                /\ todo'[h] = todo[h]
    BY <1>0, <1>5 DEF LookupSend, TypeOK
  <2>4. \A h \in Caller : CallerAddressed(h)'
    BY <2>1, <2>2, <2>3, OneCallerAddressed
  <2> QED  BY <1>5, <2>4, SameQueuesAddressed DEF LookupSend
<1>6. ASSUME NEW g \in Caller, NEW i \in Agent, LookupEvict(g, i) PROVE Goal
  <2>1. job'[g] = "evict"  BY <1>0, <1>6 DEF LookupEvict, TypeOK
  <2>2. \A h \in Caller \ {g} : /\ job'[h] = job[h] /\ msg'[h] = msg[h]
                                /\ todo'[h] = todo[h]
    BY <1>0, <1>6 DEF LookupEvict, TypeOK
  <2>3. \A h \in Caller : CallerAddressed(h)'
    BY <2>1, <2>2, OneCallerAddressed
  <2> QED  BY <1>6, <2>3, SameQueuesAddressed DEF LookupEvict
<1>7. ASSUME NEW g \in Caller, LookupBroadcast(g) PROVE Goal
  <2>1. msg'[g] \notin Agent
    BY <1>0, <1>7, NamesAssumption DEF LookupBroadcast, TypeOK
  <2>2. \A h \in Caller \ {g} : /\ job'[h] = job[h] /\ msg'[h] = msg[h]
                                /\ todo'[h] = todo[h]
    BY <1>0, <1>7 DEF LookupBroadcast, TypeOK
  <2>3. \A h \in Caller : CallerAddressed(h)'
    BY <2>1, <2>2, OneCallerAddressed
  <2> QED  BY <1>7, <2>3, SameQueuesAddressed DEF LookupBroadcast
<1>8. ASSUME NEW g \in Caller, NEW c \in Conns, Finish(g, c), job[g] # "none"
      PROVE  \A h \in Caller : CallerAddressed(h)'
  <2>1. /\ todo'[g] = todo[g] \ {c}
        /\ job'[g] \in {job[g], "none"}
        /\ msg'[g] \in {msg[g], All}
    BY <1>0, <1>8 DEF Finish, TypeOK
  <2>2. \A h \in Caller \ {g} : /\ job'[h] = job[h] /\ msg'[h] = msg[h]
                                /\ todo'[h] = todo[h]
    BY <1>0, <1>8 DEF Finish, TypeOK
  <2>3. job'[g] = "send" /\ msg'[g] \in Agent =>
          \A d \in todo'[g] : d \in Conns /\ acId[d] = msg'[g]
    BY <1>0, <2>1, NamesAssumption DEF CallerAddressed, TypeOK
  <2> QED  BY <2>2, <2>3, OneCallerAddressed
<1>9. ASSUME NEW g \in Caller, NEW c \in Conns, SendOne(g, c) PROVE Goal
  <2>1. msg[g] \in Agent \cup {All, Ack}  BY <1>0 DEF TypeOK
  <2>2. msg[g] \in Agent => msg[g] = acId[c]
    BY <1>0, <1>9 DEF SendOne, CallerAddressed
  <2>3. \A d \in Conns : QueueAddressed(d)'
    BY <1>9, <2>1, <2>2, AppendAddressed, SameQueuesAddressed DEF SendOne
  <2> QED  BY <1>8, <1>9, <2>3 DEF SendOne
<1>10. ASSUME NEW g \in Caller, NEW c \in Conns, EvictClose(g, c) PROVE Goal
  <2>1. \A d \in Conns : QueueAddressed(d)'
    BY <1>10, SameQueuesAddressed DEF EvictClose
  <2> QED  BY <1>8, <1>10, <2>1 DEF EvictClose
<1>11. CASE UNCHANGED vars
  BY <1>11, SameQueuesAddressed, SameCallersAddressed DEF vars
<1> QED
  BY <1>1, <1>2, <1>3, <1>4, <1>5, <1>6, <1>7, <1>9, <1>10, <1>11 DEF Next

-----------------------------------------------------------------------------
LEMMA InvStep == Inv /\ [Next]_vars => Inv'
  BY TypeStep, LifecycleStep, LiveStep, NoGhostStep, AddressedStep DEF Inv

(* Queues stay within sendBuffer and the registry within the connections   *)
(* there are (hub.go, pump.go).                                            *)
THEOREM RegistryTypeOK == Spec => []TypeOK
<1>1. Inv => TypeOK  BY DEF Inv
<1> QED  BY <1>1, InitInv, InvStep, PTL DEF Spec

(* An agent in session can be addressed, however many sessions of any      *)
(* agents are registered, evicted and unregistered (register, unregister). *)
THEOREM RegistryLiveIsAddressable == Spec => []LiveIsAddressable
<1>1. Inv => LiveIsAddressable  BY DEF Inv
<1> QED  BY <1>1, InitInv, InvStep, PTL DEF Spec

(* No entry of h.agents outlives the ServeAgent goroutine of the           *)
(* connection it holds (ServeAgent, unregister).                           *)
THEOREM RegistryNoGhost == Spec => []NoGhost
<1>1. Inv => NoGhost  BY DEF Inv
<1> QED  BY <1>1, InitInv, InvStep, PTL DEF Spec

(* A frame for an agent is never queued on another agent's connection,     *)
(* although the lookup and the send are two steps (SendTo).                *)
THEOREM RegistryAddressed == Spec => []Addressed
<1>1. Inv => Addressed  BY DEF Inv
<1> QED  BY <1>1, InitInv, InvStep, PTL DEF Spec

(* An entry disappears only by the unregister of the connection it holds   *)
(* (unregister).                                                           *)
LEMMA RemovalStep ==
  ASSUME Inv, [Next]_vars, NEW i \in Agent, agents[i] # 0, agents'[i] = 0
  PROVE  /\ phase[agents[i]] = "returned" /\ phase'[agents[i]] = "ended"
         /\ done[agents[i]]
<1>0. TypeOK /\ Lifecycle  BY DEF Inv
<1>1. ASSUME NEW a \in Agent, Dial(a) PROVE FALSE
  BY <1>1 DEF Dial
<1>2. ASSUME NEW c \in Conns, HubRegister(c) PROVE FALSE
  <2>1. c # 0  BY DEF Conns
  <2> QED  BY <1>0, <1>2, <2>1 DEF HubRegister, TypeOK
<1>3. ASSUME NEW c \in Conns, QueueAck(c) \/ Return(c) PROVE FALSE
  BY <1>3 DEF QueueAck, Return
<1>4. ASSUME NEW c \in Conns, Unregister(c)
      PROVE  /\ phase[agents[i]] = "returned" /\ phase'[agents[i]] = "ended"
             /\ done[agents[i]]
  <2>1. agents[i] = c  BY <1>4 DEF Unregister
  <2> QED  BY <1>0, <1>4, <2>1 DEF Unregister, Lifecycle, TypeOK
<1>5. CASE Quiet  BY <1>5 DEF Quiet
<1> QED  BY <1>0, <1>1, <1>2, <1>3, <1>4, <1>5, StepKinds

THEOREM RegistryOnlyOwnRemoval == Spec => OnlyOwnRemoval
<1>1. Inv /\ [Next]_vars =>
        [\A i \in Agent : agents[i] # 0 /\ agents'[i] = 0 =>
           /\ phase[agents[i]] = "returned" /\ phase'[agents[i]] = "ended"
           /\ done[agents[i]]]_vars
  BY RemovalStep
<1> QED  BY <1>1, InitInv, InvStep, PTL DEF Spec, OnlyOwnRemoval
=============================================================================
