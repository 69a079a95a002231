----------------------------- MODULE HubRegistry -----------------------------
(***************************************************************************)
(* The controller's registry of agents, transport/hub.go: ServeAgent and   *)
(* its read pump on every connection, register and unregister under h.mu,  *)
(* and the goroutines that look a connection up under the lock and use it  *)
(* after they have let go of it (SendTo, Broadcast, Evict).                *)
(*                                                                         *)
(* Connections are numbered in the order the agents dialled them.  An      *)
(* agent dials one at a time (client.go connectOnce) and says who it is    *)
(* once on each, but the hub serves every connection in a goroutine of its *)
(* own, so it may learn of them in any order.                              *)
(***************************************************************************)
EXTENDS Naturals, Sequences, FiniteSets

CONSTANTS
  Agent,      \* agent ids
  NoAgent,    \* "", the id of a connection that has not registered
  All,        \* addressee of a broadcast frame
  Ack,        \* REGISTER_ACK
  Caller,     \* goroutines that call SendTo, Broadcast and Evict
  SendCap,    \* sendBuffer, frames a peer queues
  MaxConns    \* bound of the model: connections dialled

ASSUME BoundsAssumption == SendCap \in Nat \ {0} /\ MaxConns \in Nat \ {0}
ASSUME NamesAssumption ==
  /\ NoAgent \notin Agent
  /\ All \notin Agent /\ Ack \notin Agent

VARIABLES
  nconn,    \* connections dialled so far
  owner,    \* per connection: the agent that dialled it
  linked,   \* per connection: the agent's end is open
  inbound,  \* per connection: REGISTER is on its way to the hub
  phase,    \* per connection: where its ServeAgent goroutine stands
  acId,     \* per connection: ac.id
  done,     \* per connection: the hub's peer has shut down
  sendq,    \* per connection: the peer's send channel (addressees only)
  agents,   \* h.agents: the connection registered for an id, 0 for none
  job,      \* per caller: what it is doing
  msg,      \* per caller: the addressee of what it sends
  todo      \* per caller: the connections it looked up and has not used yet

connVars == <<nconn, owner, linked, inbound>>
handlerVars == <<phase, acId>>
callerVars == <<job, msg, todo>>
vars == <<connVars, handlerVars, done, sendq, agents, callerVars>>

Conns == 1 .. MaxConns

(* The goroutine is inside peer.Run. *)
Running(c) == phase[c] \in {"open", "acking", "serving"}

Init ==
  /\ nconn = 0
  /\ owner = [c \in Conns |-> NoAgent]
  /\ linked = [c \in Conns |-> FALSE]
  /\ inbound = [c \in Conns |-> FALSE]
  /\ phase = [c \in Conns |-> "none"]
  /\ acId = [c \in Conns |-> NoAgent]
  /\ done = [c \in Conns |-> FALSE]
  /\ sendq = [c \in Conns |-> <<>>]
  /\ agents = [i \in Agent |-> 0]
  /\ job = [g \in Caller |-> "none"]
  /\ msg = [g \in Caller |-> All]
  /\ todo = [g \in Caller |-> {}]

-----------------------------------------------------------------------------
(* The agents and the network, as far as the hub can tell.                 *)

(* An agent dials when its previous connection has ended on its side; the  *)
(* upgrade starts the pumps, and REGISTER is the first frame it sends.     *)
Dial(a) ==
  /\ nconn < MaxConns
  /\ \A c \in Conns : owner[c] = a => ~ linked[c]
  /\ nconn' = nconn + 1
  /\ owner' = [owner EXCEPT ![nconn + 1] = a]
  /\ linked' = [linked EXCEPT ![nconn + 1] = TRUE]
  /\ inbound' = [inbound EXCEPT ![nconn + 1] = TRUE]
  /\ phase' = [phase EXCEPT ![nconn + 1] = "open"]
  /\ UNCHANGED <<acId, done, sendq, agents, callerVars>>

(* The connection ends on the agent's side; a REGISTER still on its way    *)
(* may arrive or not.                                                      *)
AgentDrop(c) ==
  /\ linked[c]
  /\ linked' = [linked EXCEPT ![c] = FALSE]
  /\ \E arrives \in {inbound[c], FALSE} :
       inbound' = [inbound EXCEPT ![c] = arrives]
  /\ UNCHANGED <<nconn, owner, handlerVars, done, sendq, agents, callerVars>>

-----------------------------------------------------------------------------
(* The ServeAgent goroutine and the pumps of a connection.                 *)

(* A bug to compare with: the old session is replaced but not closed. *)
RegisterWithoutEvict(c) ==
  /\ phase[c] = "open"
  /\ inbound[c]
  /\ inbound' = [inbound EXCEPT ![c] = FALSE]
  /\ phase' = [phase EXCEPT ![c] = "acking"]
  /\ acId' = [acId EXCEPT ![c] = owner[c]]
  /\ agents' = [agents EXCEPT ![owner[c]] = c]
  /\ UNCHANGED <<nconn, owner, linked, done, sendq, callerVars>>

(* A bug to compare with: the connection does not keep its name. *)
RegisterWithoutName(c) ==
  /\ phase[c] = "open"
  /\ inbound[c]
  /\ inbound' = [inbound EXCEPT ![c] = FALSE]
  /\ phase' = [phase EXCEPT ![c] = "acking"]
  /\ done' = [d \in Conns |-> done[d] \/ d = agents[owner[c]]]
  /\ agents' = [agents EXCEPT ![owner[c]] = c]
  /\ UNCHANGED <<nconn, owner, linked, acId, sendq, callerVars>>

(* onMessage(REGISTER): the connection takes its name, and register, under *)
(* h.mu, closes the connection that had it and replaces it.                *)
HubRegister(c) ==
  /\ phase[c] = "open"
  /\ inbound[c]
  /\ inbound' = [inbound EXCEPT ![c] = FALSE]
  /\ phase' = [phase EXCEPT ![c] = "acking"]
  /\ acId' = [acId EXCEPT ![c] = owner[c]]
  /\ done' = [d \in Conns |-> done[d] \/ d = agents[owner[c]]]
  /\ agents' = [agents EXCEPT ![owner[c]] = c]
  /\ UNCHANGED <<nconn, owner, linked, sendq, callerVars>>

(* A bug to compare with: the acknowledgement waits for room even when the *)
(* peer is done, so the read pump never returns.                           *)
QueueAckBlocking(c) ==
  /\ phase[c] = "acking"
  /\ Len(sendq[c]) < SendCap
  /\ sendq' = [sendq EXCEPT ![c] = Append(@, Ack)]
  /\ phase' = [phase EXCEPT ![c] = "serving"]
  /\ UNCHANGED <<connVars, acId, done, agents, callerVars>>

(* A bug to compare with: the acknowledgement does not wait for room. *)
QueueAckOverfills(c) ==
  /\ phase[c] = "acking"
  /\ sendq' = [sendq EXCEPT ![c] = Append(@, Ack)]
  /\ phase' = [phase EXCEPT ![c] = "serving"]
  /\ UNCHANGED <<connVars, acId, done, agents, callerVars>>

(* The read pump itself sends REGISTER_ACK, and reads nothing until the    *)
(* queue has room or the peer is done.                                     *)
QueueAck(c) ==
  /\ phase[c] = "acking"
  /\ \/ /\ Len(sendq[c]) < SendCap
        /\ sendq' = [sendq EXCEPT ![c] = Append(@, Ack)]
     \/ /\ done[c]
        /\ UNCHANGED sendq
  /\ phase' = [phase EXCEPT ![c] = "serving"]
  /\ UNCHANGED <<connVars, acId, done, agents, callerVars>>

WriteFrame(c) ==
  /\ Running(c)
  /\ sendq[c] # <<>>
  /\ sendq' = [sendq EXCEPT ![c] = Tail(@)]
  /\ UNCHANGED <<connVars, handlerVars, done, agents, callerVars>>

(* A read error, an expired read deadline, a failed or overdue write.      *)
DetectLoss(c) ==
  /\ Running(c)
  /\ ~ done[c]
  /\ done' = [done EXCEPT ![c] = TRUE]
  /\ UNCHANGED <<connVars, handlerVars, sendq, agents, callerVars>>

(* peer.Run returns: the read pump has seen the closed connection.         *)
Return(c) ==
  /\ phase[c] \in {"open", "serving"}
  /\ done[c]
  /\ phase' = [phase EXCEPT ![c] = "returned"]
  /\ UNCHANGED <<connVars, acId, done, sendq, agents, callerVars>>

(* A bug to compare with: the entry is deleted whoever holds it now. *)
UnregisterById(c) ==
  /\ phase[c] = "returned"
  /\ phase' = [phase EXCEPT ![c] = "ended"]
  /\ agents' = [i \in Agent |-> IF i = acId[c] THEN 0 ELSE agents[i]]
  /\ UNCHANGED <<connVars, acId, done, sendq, callerVars>>

(* A bug to compare with: ServeAgent returns without unregister. *)
UnregisterNever(c) ==
  /\ phase[c] = "returned"
  /\ phase' = [phase EXCEPT ![c] = "ended"]
  /\ UNCHANGED <<connVars, acId, done, sendq, agents, callerVars>>

(* unregister, under h.mu: the entry goes only if it is still this         *)
(* connection's.  A connection without a name has none.                    *)
Unregister(c) ==
  /\ phase[c] = "returned"
  /\ phase' = [phase EXCEPT ![c] = "ended"]
  /\ agents' = [i \in Agent |-> IF i = acId[c] /\ agents[i] = c
                                  THEN 0 ELSE agents[i]]
  /\ UNCHANGED <<connVars, acId, done, sendq, callerVars>>

-----------------------------------------------------------------------------
(* The callers.  The lookup holds h.mu for reading; what follows does not. *)

LookupSend(g, i) ==
  /\ job[g] = "none"
  /\ agents[i] # 0
  /\ job' = [job EXCEPT ![g] = "send"]
  /\ msg' = [msg EXCEPT ![g] = i]
  /\ todo' = [todo EXCEPT ![g] = {agents[i]}]
  /\ UNCHANGED <<connVars, handlerVars, done, sendq, agents>>

LookupBroadcast(g) ==
  /\ job[g] = "none"
  /\ \E i \in Agent : agents[i] # 0
  /\ job' = [job EXCEPT ![g] = "send"]
  /\ msg' = [msg EXCEPT ![g] = All]
  /\ todo' = [todo EXCEPT ![g] = {agents[i] : i \in Agent} \ {0}]
  /\ UNCHANGED <<connVars, handlerVars, done, sendq, agents>>

LookupEvict(g, i) ==
  /\ job[g] = "none"
  /\ agents[i] # 0
  /\ job' = [job EXCEPT ![g] = "evict"]
  /\ todo' = [todo EXCEPT ![g] = {agents[i]}]
  /\ UNCHANGED <<connVars, handlerVars, done, sendq, agents, msg>>

Finish(g, c) ==
  /\ todo' = [todo EXCEPT ![g] = @ \ {c}]
  /\ job' = [job EXCEPT ![g] = IF todo[g] = {c} THEN "none" ELSE @]
  /\ msg' = [msg EXCEPT ![g] = IF todo[g] = {c} THEN All ELSE @]

(* A bug to compare with: a send waits for room only. *)
SendOneBlocking(g, c) ==
  /\ job[g] = "send"
  /\ c \in todo[g]
  /\ Len(sendq[c]) < SendCap
  /\ sendq' = [sendq EXCEPT ![c] = Append(@, msg[g])]
  /\ Finish(g, c)
  /\ UNCHANGED <<connVars, handlerVars, done, agents>>

(* Peer.Send on one looked-up connection: queued, or refused because the   *)
(* peer is done.                                                           *)
SendOne(g, c) ==
  /\ job[g] = "send"
  /\ c \in todo[g]
  /\ \/ /\ Len(sendq[c]) < SendCap
        /\ sendq' = [sendq EXCEPT ![c] = Append(@, msg[g])]
     \/ /\ done[c]
        /\ UNCHANGED sendq
  /\ Finish(g, c)
  /\ UNCHANGED <<connVars, handlerVars, done, agents>>

EvictClose(g, c) ==
  /\ job[g] = "evict"
  /\ c \in todo[g]
  /\ done' = [done EXCEPT ![c] = TRUE]
  /\ Finish(g, c)
  /\ UNCHANGED <<connVars, handlerVars, sendq, agents>>

Next ==
  \/ \E a \in Agent : Dial(a)
  \/ \E c \in Conns :
       \/ AgentDrop(c)
       \/ HubRegister(c)
       \/ QueueAck(c)
       \/ WriteFrame(c)
       \/ DetectLoss(c)
       \/ Return(c)
       \/ Unregister(c)
  \/ \E g \in Caller :
       \/ \E i \in Agent : LookupSend(g, i) \/ LookupEvict(g, i)
       \/ LookupBroadcast(g)
       \/ \E c \in Conns : SendOne(g, c) \/ EvictClose(g, c)

Spec == Init /\ [][Next]_vars

(* The goroutines of the hub keep running; the write pump of a connection  *)
(* whose agent reads keeps writing; a connection whose agent is gone is    *)
(* noticed (end of file, or the 15 s read deadline).  Senders blocked on a *)
(* channel are served in their order of arrival, so one of them is not     *)
(* overtaken for ever: the sends are strongly fair.  Nothing is asked of   *)
(* the agents, nor that a healthy connection be closed.                    *)
Fairness ==
  /\ \A c \in Conns :
       /\ WF_vars(HubRegister(c))
       /\ SF_vars(QueueAck(c))
       /\ WF_vars(WriteFrame(c) /\ linked[c])
       /\ WF_vars(DetectLoss(c) /\ ~ linked[c])
       /\ WF_vars(Return(c))
       /\ WF_vars(Unregister(c))
  /\ \A g \in Caller, c \in Conns : SF_vars(SendOne(g, c)) /\ WF_vars(EvictClose(g, c))

FairSpec == Spec /\ Fairness

-----------------------------------------------------------------------------
TypeOK ==
  /\ nconn \in 0 .. MaxConns
  /\ owner \in [Conns -> Agent \cup {NoAgent}]
  /\ linked \in [Conns -> BOOLEAN]
  /\ inbound \in [Conns -> BOOLEAN]
  /\ phase \in [Conns -> {"none", "open", "acking", "serving", "returned",
                          "ended"}]
  /\ acId \in [Conns -> Agent \cup {NoAgent}]
  /\ done \in [Conns -> BOOLEAN]
  /\ sendq \in [Conns -> Seq(Agent \cup {All, Ack})]
  /\ \A c \in Conns : Len(sendq[c]) <= SendCap
  /\ agents \in [Agent -> 0 .. MaxConns]
  /\ job \in [Caller -> {"none", "send", "evict"}]
  /\ msg \in [Caller -> Agent \cup {All}]
  /\ todo \in [Caller -> SUBSET Conns]

(* A registered connection that nobody has closed is the one its id is     *)
(* looked up as: an agent in session can be addressed, whatever sessions   *)
(* of the same agent are registered, evicted and unregistered around it    *)
(* (register, unregister).  So an agent has one such session at most.      *)
LiveIsAddressable ==
  \A c \in Conns :
    Running(c) /\ acId[c] # NoAgent /\ ~ done[c] => agents[acId[c]] = c

(* No entry outlives its connection: what h.agents holds for an id is a    *)
(* connection that registered under it and whose goroutine has still to    *)
(* run unregister.                                                         *)
NoGhost ==
  \A i \in Agent : agents[i] # 0 =>
    /\ acId[agents[i]] = i
    /\ phase[agents[i]] \in {"acking", "serving", "returned"}

(* A frame for an agent is only ever queued on a connection that agent     *)
(* registered, although the lookup may be stale by the time of the Send    *)
(* (SendTo).                                                               *)
Addressed ==
  /\ \A c \in Conns : \A k \in DOMAIN sendq[c] :
       sendq[c][k] \in Agent => sendq[c][k] = acId[c]
  /\ \A g \in Caller : job[g] = "send" /\ msg[g] \in Agent =>
       \A c \in todo[g] : acId[c] = msg[g]

(* An entry disappears only by the unregister of the very connection it    *)
(* holds, after that connection is done: the end of a stale session never  *)
(* takes away the session that replaced it.                                *)
OnlyOwnRemoval ==
  [][\A i \in Agent : agents[i] # 0 /\ agents'[i] = 0 =>
       /\ phase[agents[i]] = "returned" /\ phase'[agents[i]] = "ended"
       /\ done[agents[i]]]_vars

(* "A reconnect beat our detection of the stale session: evict the old     *)
(* one" (register): the session that is closed is older than the one that  *)
(* registers.                                                              *)
EvictsTheOlder ==
  [][\A c \in Conns : phase[c] = "open" /\ phase'[c] = "acking" =>
       \A d \in Conns : ~ done[d] /\ done'[d] => d < c]_vars

(* A connection that was closed, by an eviction or a lost link, leaves the *)
(* registry: its goroutine is never stuck sending REGISTER_ACK.            *)
ClosedLeaves ==
  \A c \in Conns : Running(c) /\ done[c] ~> phase[c] = "ended"

(* An agent whose connection is gone does not stay registered with it.     *)
LostAgentIsDropped ==
  \A i \in Agent, c \in Conns : agents[i] = c /\ ~ linked[c] ~> agents[i] # c

(* A caller of SendTo or Broadcast is never blocked for ever by a full     *)
(* queue, even one whose agent has gone (Peer.Send).                       *)
CallersReturn == \A g \in Caller : job[g] # "none" ~> job[g] = "none"
=============================================================================
