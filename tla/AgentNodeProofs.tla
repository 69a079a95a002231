--------------------------- MODULE AgentNodeProofs ---------------------------
(***************************************************************************)
(* Safety of an agent for any number of controllers, joiners, flows,       *)
(* listeners and inputs, and for any sizes of pipes and budgets.  A step   *)
(* of the agent is a move of its link, of its data plane or of its         *)
(* diagnostic and leaves the other two alone, so each has an invariant of  *)
(* its own.                                                                *)
(***************************************************************************)
EXTENDS AgentNode, TLAPS

LinkMove ==
  \/ UNCHANGED linkVars
  \/ \E j \in Joiner : (\E a \in Addr : SetMasterAddr(j, a)) \/ ClosePeer(j)
  \/ DialFails \/ Cut \/ Top \/ DialOk \/ Recheck \/ SetPeer \/ EndServe \/ WaitOver
  \/ WriterEnds \/ ReaderEnds

DataMove ==
  \/ UNCHANGED dataVars
  \/ \E f \in Frame : OnControl(f)
  \/ Terminate
  \/ \E s \in socks : EchoFails(s)
  \/ DataplaneStep

DiagMove ==
  \/ UNCHANGED diagVars
  \/ StartChild
  \/ \E r \in {"rejected", "failed"} : Refuse(r)
  \/ DiagStep

LEMMA NextMoves == [Next]_vars => LinkMove /\ DataMove /\ DiagMove
<1> SUFFICES ASSUME [Next]_vars PROVE LinkMove /\ DataMove /\ DiagMove
  OBVIOUS
<1>1. CASE Input
  BY <1>1 DEF Input, LinkInput, ReadFrame, ReadDiag, LinkMove, DataMove, DiagMove
<1>2. CASE Link
  BY <1>2 DEF Link, OfLink, Run, Close, ReadPumpEnds, LinkMove, DataMove, DiagMove
<1>3. CASE Data
  BY <1>3 DEF Data, OfData, LinkMove, DataMove, DiagMove
<1>4. CASE Diag
  BY <1>4 DEF Diag, OfDiag, LinkMove, DataMove, DiagMove
<1>5. CASE UNCHANGED vars
  BY <1>5 DEF vars, LinkMove, DataMove, DiagMove
<1> QED
  BY <1>1, <1>2, <1>3, <1>4, <1>5 DEF Next

-----------------------------------------------------------------------------
(* The link: whoever changed the address of a connection that is about to  *)
(* be published, or is, has yet to look for a peer to close, found it, or  *)
(* slipped in between.                                                     *)
LinkInv ==
  /\ master \in Addr \cup {NoAddr} /\ addr \in Addr \cup {NoAddr}
  /\ joining \subseteq Joiner
  /\ lpc \in {"top", "dial", "dialled", "checked", "serve", "wait"}
  /\ done \in BOOLEAN /\ wended \in BOOLEAN /\ rended \in BOOLEAN
  /\ broken \in BOOLEAN /\ slip \in BOOLEAN
  /\ backoff \in BackoffInitial..BackoffMax
  /\ ~slip /\ lpc \in {"checked", "serve"} /\ addr # master => joining # {} \/ done

LEMMA InitialBackoff == BackoffInitial \in BackoffInitial..BackoffMax
  BY LinkAssumption

LEMMA LinkInvInit == Init => LinkInv
  BY InitialBackoff, LinkAssumption DEF Init, LinkInit, LinkInv

LEMMA NextBackoff ==
  ASSUME NEW d \in BackoffInitial..BackoffMax
  PROVE  nextBackoff(d) \in BackoffInitial..BackoffMax
  BY LinkAssumption DEF nextBackoff

LEMMA LinkInvStep == LinkInv /\ LinkMove => LinkInv'
<1> SUFFICES ASSUME LinkInv, LinkMove PROVE LinkInv'
  OBVIOUS
<1> USE DEF pump
<1>1. CASE UNCHANGED linkVars
  BY <1>1 DEF LinkInv, linkVars
<1>2. ASSUME NEW j \in Joiner, NEW a \in Addr, SetMasterAddr(j, a) PROVE LinkInv'
  BY <1>2 DEF LinkInv, SetMasterAddr
<1>3. ASSUME NEW j \in Joiner, ClosePeer(j) PROVE LinkInv'
  <2>1. done' \in BOOLEAN /\ slip' \in BOOLEAN
    BY <1>3 DEF LinkInv, ClosePeer
  <2>2. ~slip' /\ lpc' \in {"checked", "serve"} => done'
    BY <1>3 DEF LinkInv, ClosePeer, Published
  <2> QED
    BY <1>3, <2>1, <2>2 DEF LinkInv, ClosePeer
<1>4. ASSUME NEW s \in BOOLEAN, WaitAfter(s) PROVE LinkInv'
  BY <1>4, InitialBackoff DEF LinkInv, WaitAfter
<1>5. CASE DialFails
  BY <1>4, <1>5 DEF DialFails
<1>6. CASE Cut
  BY <1>6 DEF LinkInv, Cut
<1>7. CASE Top
  BY <1>7 DEF LinkInv, Top
<1>8. CASE DialOk
  BY <1>8 DEF LinkInv, DialOk
<1>9. CASE Recheck
  BY <1>4, <1>9 DEF LinkInv, Recheck
<1>10. CASE SetPeer
  BY <1>10 DEF LinkInv, SetPeer
<1>11. CASE EndServe
  BY <1>4, <1>11 DEF EndServe
<1>12. CASE WaitOver
  BY <1>12, NextBackoff DEF LinkInv, WaitOver
<1>13. CASE WriterEnds
  BY <1>13 DEF LinkInv, WriterEnds
<1>14. CASE ReaderEnds
  BY <1>14 DEF LinkInv, ReaderEnds
<1> QED
  BY <1>1, <1>2, <1>3, <1>5, <1>6, <1>7, <1>8, <1>9, <1>10, <1>11, <1>12, <1>13,
     <1>14 DEF LinkMove

-----------------------------------------------------------------------------
(* The types of the data plane.                                            *)
ProberSet == [flow : Flow, run : 1..nrun, count : {0, 1}, done : BOOLEAN,
              st : {"probe", "tick"}]

EngineTypes ==
  /\ hpc \in {"idle", "stop", "join", "stopped", "launch", "drain", "bind", "report"}
  /\ frame \in Frame /\ flows \subseteq Flow
  /\ cancel \in 0..nrun /\ nrun \in Nat
  /\ probers \subseteq ProberSet
  /\ down \in BOOLEAN
  /\ spc \in {"serving", "join", "ended"}
  /\ hpc = "launch" => frame.kind = "TEST_START" /\ nrun > 0

LEMMA FrameFields ==
  ASSUME NEW f \in Frame
  PROVE  /\ f.kind = "TEST_START" => f.count \in {0, 1}
         /\ f.kind = "FLOW_PLAN" => f.flows \subseteq Flow /\ f.ports \subseteq Listener
<1>1. ASSUME NEW fs \in SUBSET Flow, NEW ls \in SUBSET Listener, f = Plan(fs, ls)
      PROVE  f.kind = "FLOW_PLAN" /\ f.flows = fs /\ f.ports = ls
  BY <1>1 DEF Plan
<1>2. ASSUME NEW n \in {0, 1}, f = Start(n) PROVE f.kind = "TEST_START" /\ f.count = n
  BY <1>2 DEF Start
<1>3. CASE f = Stop
  BY <1>3 DEF Stop
<1> QED
  BY <1>1, <1>2, <1>3 DEF Frame

LEMMA PortsAreListeners == frame \in Frame => Ports \subseteq Listener
  BY FrameFields DEF Ports

LEMMA EngineTypesInit == Init => EngineTypes
<1> SUFFICES ASSUME Init PROVE EngineTypes
  OBVIOUS
<1>1. frame \in Frame
  BY DEF Init, DataplaneInit, Frame
<1>2. probers \subseteq ProberSet /\ flows \subseteq Flow
  BY DEF Init, DataplaneInit
<1>3. cancel \in 0..nrun /\ nrun \in Nat
  BY DEF Init, DataplaneInit
<1> QED
  BY <1>1, <1>2, <1>3 DEF Init, DataplaneInit, EngineTypes

(* Cancelling a run, by the handler or by Agent.Run.                       *)
LEMMA CancelRunTypes ==
  EngineTypes /\ CancelRun => probers' \subseteq ProberSet /\ cancel' = 0 /\ nrun' = nrun
<1> SUFFICES ASSUME EngineTypes, CancelRun, NEW q \in probers' PROVE q \in ProberSet
  BY DEF CancelRun
<1>1. PICK p \in probers : q = IF p.run = cancel THEN [p EXCEPT !.done = TRUE] ELSE p
  BY DEF CancelRun
<1>2. p \in ProberSet
  BY DEF EngineTypes
<1> QED
  BY <1>1, <1>2 DEF ProberSet

LEMMA EngineTypesStep == EngineTypes /\ DataMove => EngineTypes'
<1> SUFFICES ASSUME EngineTypes, DataMove PROVE EngineTypes'
  OBVIOUS
<1> USE DEF engine
<1>1. CASE UNCHANGED dataVars
  BY <1>1 DEF EngineTypes, ProberSet, dataVars
<1>2. ASSUME NEW f \in Frame, OnControl(f) PROVE EngineTypes'
  BY <1>2 DEF EngineTypes, ProberSet, OnControl
<1>3. CASE Terminate
  BY <1>3 DEF EngineTypes, ProberSet, Terminate
<1>4. CASE StopCancel
  BY <1>4, CancelRunTypes DEF EngineTypes, ProberSet, StopCancel
<1>5. CASE StopJoin
  BY <1>5 DEF EngineTypes, ProberSet, StopJoin
<1>6. CASE StartCancel
  BY <1>6 DEF EngineTypes, ProberSet, StartCancel
<1>7. CASE Launch
  <2>1. \A f \in flows : Prober(f) \in ProberSet
    BY <1>7, FrameFields DEF EngineTypes, Launch, Prober, ProberSet
  <2>2. probers' \subseteq ProberSet
    BY <1>7, <2>1 DEF EngineTypes, Launch
  <2> QED
    BY <1>7, <2>2 DEF EngineTypes, Launch, ProberSet
<1>8. CASE Unbind
  <2>1. flows' \subseteq Flow
    BY <1>8, FrameFields DEF EngineTypes, Unbind
  <2> QED
    BY <1>8, <2>1 DEF EngineTypes, ProberSet, Unbind
<1>9. CASE Drain
  BY <1>9 DEF EngineTypes, ProberSet, Drain
<1>10. CASE SendReport
  BY <1>10 DEF EngineTypes, ProberSet, SendReport
<1>11. ASSUME NEW ls \in SUBSET Ports, Bind(ls) PROVE EngineTypes'
  BY <1>11 DEF EngineTypes, ProberSet, Bind
<1>12. CASE ShutCancel
  BY <1>12, CancelRunTypes DEF EngineTypes, ProberSet, ShutCancel
<1>13. CASE ShutJoin
  BY <1>13 DEF EngineTypes, ProberSet, ShutJoin
<1>14. ASSUME NEW p \in probers, ProbeEnds(p) \/ Tick(p) \/ Quit(p) PROVE EngineTypes'
  <2>1. p \in ProberSet
    BY DEF EngineTypes
  <2>2. [p EXCEPT !.st = "tick"] \in ProberSet /\ [p EXCEPT !.st = "probe"] \in ProberSet
    BY <2>1 DEF ProberSet
  <2>3. probers' \subseteq ProberSet
    BY <1>14, <2>2 DEF EngineTypes, ProbeEnds, Tick, Quit
  <2> QED
    BY <1>14, <2>3 DEF EngineTypes, ProberSet, ProbeEnds, Tick, Quit
<1>15. ASSUME NEW s \in socks, CloseSock(s) PROVE EngineTypes'
  BY <1>15 DEF EngineTypes, ProberSet, CloseSock
<1>16. ASSUME NEW s \in socks, NEW k \in 1..MaxConns, Accept(s, k) PROVE EngineTypes'
  BY <1>16 DEF EngineTypes, ProberSet, Accept
<1>17. ASSUME NEW c \in conns, ConnEnds(c) PROVE EngineTypes'
  BY <1>17 DEF EngineTypes, ProberSet, ConnEnds
<1>18. ASSUME NEW s \in socks, EchoFails(s) PROVE EngineTypes'
  BY <1>18 DEF EngineTypes, ProberSet, EchoFails
<1> QED
  BY <1>1, <1>2, <1>3, <1>4, <1>5, <1>6, <1>7, <1>8, <1>9, <1>10, <1>11, <1>12, <1>13,
     <1>14, <1>15, <1>16, <1>17, <1>18 DEF DataMove, DataplaneStep, Handle

-----------------------------------------------------------------------------
(* The engine, until the process is told to end: nothing is probed from    *)
(* the end of a Stop to the next Launch, and Launch still finds the cancel *)
(* function that StartCancel published.                                    *)
Engaged ==
  /\ spc = "serving"
  /\ hpc \in {"stopped", "launch", "drain", "bind", "report"} => probers = {}
  /\ hpc = "launch" => cancel = nrun
  /\ hpc # "join" => \A p \in probers : p.run = cancel /\ p.flow \in flows

EngineInv == EngineTypes /\ (down \/ Engaged)

LEMMA EngineInvInit == Init => EngineInv
  BY EngineTypesInit DEF Init, DataplaneInit, EngineInv, Engaged

(* A run that is over has no cancel function, and every prober has a run.  *)
LEMMA NoRunNoProbers == EngineTypes /\ Engaged /\ cancel = 0 /\ hpc # "join" => probers = {}
  BY DEF EngineTypes, Engaged, ProberSet

LEMMA DownStays == DataMove /\ down => down'
  BY DEF DataMove, dataVars, OnControl, Terminate, DataplaneStep, Handle, StopCancel,
         StopJoin, StartCancel, Launch, Unbind, Drain, SendReport, Bind, ShutCancel,
         ShutJoin, ProbeEnds, Tick, Quit, EchoFails, CloseSock, Accept, ConnEnds

LEMMA EngineInvStep == EngineInv /\ DataMove => EngineInv'
<1> SUFFICES ASSUME EngineInv, DataMove PROVE EngineInv'
  OBVIOUS
<1>t. EngineTypes /\ EngineTypes'
  BY EngineTypesStep DEF EngineInv
<1> SUFFICES ASSUME ~down' PROVE Engaged'
  BY <1>t DEF EngineInv
<1>d. ~down
  BY DownStays
<1>e. Engaged
  BY <1>d DEF EngineInv
<1> USE DEF engine
<1>1. CASE UNCHANGED dataVars
  BY <1>1, <1>e DEF Engaged, dataVars
<1>2. ASSUME NEW f \in Frame, OnControl(f) PROVE Engaged'
  BY <1>2, <1>e DEF Engaged, OnControl
<1>3. CASE Terminate
  BY <1>3 DEF Terminate
<1>4. CASE StopCancel
  <2>1. CASE cancel = 0
    <3>1. probers = {}
      BY <1>4, <1>t, <1>e, <2>1, NoRunNoProbers DEF StopCancel
    <3>2. probers' = {}
      BY <1>4, <3>1 DEF StopCancel, CancelRun
    <3> QED
      BY <1>4, <1>e, <2>1, <3>2 DEF Engaged, StopCancel
  <2>2. CASE cancel # 0
    BY <1>4, <1>e, <2>2 DEF Engaged, StopCancel
  <2> QED
    BY <2>1, <2>2
<1>5. CASE StopJoin
  BY <1>5, <1>e DEF Engaged, StopJoin
<1>6. CASE StartCancel
  BY <1>6, <1>e DEF Engaged, StartCancel
<1>7. CASE Launch
  <2>1. probers' = {Prober(f) : f \in flows}
    BY <1>7, <1>e DEF Engaged, Launch
  <2>2. \A f \in flows : Prober(f).run = cancel /\ Prober(f).flow = f
    BY <1>7, <1>e DEF Engaged, Launch, Prober
  <2>3. \A p \in probers' : p.run = cancel' /\ p.flow \in flows'
    BY <1>7, <2>1, <2>2 DEF Launch
  <2> QED
    BY <1>7, <1>e, <2>3 DEF Engaged, Launch
<1>8. CASE Unbind
  BY <1>8, <1>e DEF Engaged, Unbind
<1>9. CASE Drain
  BY <1>9, <1>e DEF Engaged, Drain
<1>10. CASE SendReport
  BY <1>10, <1>e DEF Engaged, SendReport
<1>11. ASSUME NEW ls \in SUBSET Ports, Bind(ls) PROVE Engaged'
  BY <1>11, <1>e DEF Engaged, Bind
<1>12. CASE ShutCancel
  BY <1>12 DEF ShutCancel
<1>13. CASE ShutJoin
  BY <1>13, <1>e DEF Engaged, ShutJoin
<1>14. ASSUME NEW p \in probers, ProbeEnds(p) \/ Tick(p) \/ Quit(p) PROVE Engaged'
  <2>1. p \in ProberSet
    BY <1>t DEF EngineTypes
  <2>2. \A q \in probers' : (q.run = p.run /\ q.flow = p.flow) \/ q \in probers
    BY <1>14, <2>1 DEF ProbeEnds, Tick, Quit, ProberSet
  <2> QED
    BY <1>14, <1>e, <2>2 DEF Engaged, ProbeEnds, Tick, Quit
<1>15. ASSUME NEW s \in socks, CloseSock(s) PROVE Engaged'
  BY <1>15, <1>e DEF Engaged, CloseSock
<1>16. ASSUME NEW s \in socks, NEW k \in 1..MaxConns, Accept(s, k) PROVE Engaged'
  BY <1>16, <1>e DEF Engaged, Accept
<1>17. ASSUME NEW c \in conns, ConnEnds(c) PROVE Engaged'
  BY <1>17, <1>e DEF Engaged, ConnEnds
<1>18. ASSUME NEW s \in socks, EchoFails(s) PROVE Engaged'
  BY <1>18, <1>e DEF Engaged, EchoFails
<1> QED
  BY <1>1, <1>2, <1>3, <1>4, <1>5, <1>6, <1>7, <1>8, <1>9, <1>10, <1>11, <1>12, <1>13,
     <1>14, <1>15, <1>16, <1>17, <1>18 DEF DataMove, DataplaneStep, Handle

-----------------------------------------------------------------------------
(* The responder: between Drain and Bind nothing is open, and outside the  *)
(* drain no open listener has been told to close.                          *)
SockSet == [bind : 1..nbind, at : Listener, done : BOOLEAN, echo : BOOLEAN]
ConnSet == [bind : 1..nbind, id : 1..MaxConns, done : BOOLEAN]

ResponderInv ==
  /\ cur \in 0..nbind /\ nbind \in Nat
  /\ socks \subseteq SockSet /\ conns \subseteq ConnSet
  /\ report \subseteq Listener
  /\ OneBinding
  /\ hpc = "bind" => socks = {} /\ conns = {}
  /\ down \/ hpc = "drain" \/ \A s \in socks : s.done = FALSE
  /\ ReportHolds

LEMMA ResponderInvInit == Init => ResponderInv
  BY DEF Init, DataplaneInit, ResponderInv, OneBinding, ReportHolds

LEMMA ResponderInvStep == EngineTypes /\ ResponderInv /\ DataMove => ResponderInv'
<1> SUFFICES ASSUME EngineTypes, ResponderInv, DataMove PROVE ResponderInv'
  OBVIOUS
<1> USE DEF engine, responder
<1>1. ASSUME UNCHANGED responder, UNCHANGED down,
             hpc' \notin {"drain", "bind"}, hpc \notin {"drain", "bind"}
      PROVE  ResponderInv'
  BY <1>1 DEF ResponderInv, OneBinding, ReportHolds, SockSet, ConnSet
<1>2. CASE UNCHANGED dataVars
  BY <1>2 DEF ResponderInv, OneBinding, ReportHolds, SockSet, ConnSet, dataVars
<1>3. ASSUME NEW f \in Frame, OnControl(f) PROVE ResponderInv'
  BY <1>1, <1>3 DEF OnControl
<1>4. CASE Terminate
  BY <1>4 DEF ResponderInv, OneBinding, ReportHolds, SockSet, ConnSet, Terminate
<1>5. CASE StopCancel \/ StopJoin \/ StartCancel \/ Launch \/ SendReport
  BY <1>1, <1>5 DEF StopCancel, StopJoin, StartCancel, Launch, SendReport
<1>6. CASE Unbind
  <2>1. \A x \in SockSet \cup ConnSet : [x EXCEPT !.done = TRUE].bind = x.bind
    BY DEF SockSet, ConnSet
  <2>2. socks' \subseteq SockSet /\ conns' \subseteq ConnSet
    BY <1>6 DEF ResponderInv, Unbind, SockSet, ConnSet
  <2>3. OneBinding'
    BY <1>6, <2>1 DEF ResponderInv, OneBinding, Unbind
  <2> QED
    BY <1>6, <2>2, <2>3 DEF ResponderInv, ReportHolds, SockSet, ConnSet, Unbind
<1>7. CASE Drain
  <2>1. socks = {} /\ conns = {}
    BY <1>7 DEF ResponderInv, OneBinding, Drain, Drained
  <2> QED
    BY <1>7, <2>1 DEF ResponderInv, OneBinding, ReportHolds, SockSet, ConnSet, Drain
<1>8. ASSUME NEW ls \in SUBSET Ports, Bind(ls) PROVE ResponderInv'
  <2> DEFINE sock(l) == [bind |-> nbind + 1, at |-> l, done |-> ~Active(ls), echo |-> TRUE]
  <2>1. socks' = {sock(l) : l \in ls} /\ conns' = {} /\ nbind' = nbind + 1 /\ report' = ls
    BY <1>8 DEF ResponderInv, Bind
  <2>2. ls \subseteq Listener
    BY PortsAreListeners DEF EngineTypes
  <2>3. \A l \in ls : Active(ls)
    BY DEF Active
  <2>4. cur' \in 0..nbind' /\ nbind' \in Nat
    BY <1>8 DEF ResponderInv, Bind
  <2>5. \A l \in ls : cur' = nbind + 1 /\ (~Active(ls)) = FALSE
    BY <1>8, <2>3 DEF Bind
  <2>6. \A l \in ls : /\ sock(l) \in SockSet' /\ sock(l).at = l
                      /\ sock(l).bind = cur' /\ sock(l).done = FALSE
    <3> SUFFICES ASSUME NEW l \in ls
                 PROVE  /\ sock(l) \in SockSet' /\ sock(l).at = l
                        /\ sock(l).bind = cur' /\ sock(l).done = FALSE
      OBVIOUS
    <3>1. sock(l) = [bind |-> nbind + 1, at |-> l, done |-> FALSE, echo |-> TRUE]
      BY <2>5, Zenon
    <3>2. nbind + 1 \in 1..nbind' /\ l \in Listener
      BY <2>1, <2>2 DEF ResponderInv
    <3> HIDE DEF sock
    <3> QED
      BY <2>5, <3>1, <3>2 DEF SockSet
  <2>7. hpc' # "bind"
    BY <1>8 DEF Bind
  <2> HIDE DEF sock
  <2>8. report' = {s.at : s \in socks'}
    BY <2>1, <2>6
  <2> QED
    BY <2>1, <2>2, <2>4, <2>6, <2>7, <2>8 DEF ResponderInv, OneBinding, ReportHolds
<1>9. CASE ShutCancel \/ ShutJoin
  BY <1>9 DEF ShutCancel, ShutJoin, ResponderInv, OneBinding, ReportHolds, SockSet, ConnSet
<1>10. ASSUME NEW p \in probers, ProbeEnds(p) \/ Tick(p) \/ Quit(p) PROVE ResponderInv'
  BY <1>10 DEF ProbeEnds, Tick, Quit, ResponderInv, OneBinding, ReportHolds, SockSet, ConnSet
<1>11. ASSUME NEW s \in socks, CloseSock(s) PROVE ResponderInv'
  BY <1>11 DEF CloseSock, ResponderInv, OneBinding, ReportHolds, SockSet, ConnSet
<1>12. ASSUME NEW s \in socks, NEW k \in 1..MaxConns, Accept(s, k) PROVE ResponderInv'
  <2>1. [bind |-> s.bind, id |-> k, done |-> s.done] \in ConnSet /\ s.bind = cur
    BY DEF ResponderInv, OneBinding, SockSet, ConnSet
  <2>2. conns' \subseteq ConnSet /\ \A c \in conns' : c.bind = cur
    BY <1>12, <2>1 DEF ResponderInv, OneBinding, Accept
  <2> QED
    BY <1>12, <2>2 DEF ResponderInv, OneBinding, ReportHolds, SockSet, ConnSet, Accept
<1>13. ASSUME NEW c \in conns, ConnEnds(c) PROVE ResponderInv'
  BY <1>13 DEF ConnEnds, ResponderInv, OneBinding, ReportHolds, SockSet, ConnSet
<1>14. ASSUME NEW s \in socks, EchoFails(s) PROVE ResponderInv'
  <2> DEFINE t == [s EXCEPT !.echo = FALSE]
  <2>1. /\ t \in SockSet /\ t.bind = s.bind
        /\ t.at = s.at /\ t.done = s.done
    BY DEF ResponderInv, SockSet
  <2>2. socks' = (socks \ {s}) \cup {t}
    BY <1>14 DEF EchoFails
  <2>3. UNCHANGED <<hpc, cur, nbind, conns, report, down>>
    BY <1>14 DEF EchoFails
  <2> HIDE DEF t
  <2>4. {x.at : x \in socks'} = {x.at : x \in socks}
    BY <2>1, <2>2
  <2>5. socks' \subseteq SockSet /\ \A x \in socks' : x.bind = cur
    BY <2>1, <2>2 DEF ResponderInv, OneBinding
  <2>6. hpc # "bind"
    BY DEF ResponderInv
  <2>7. ReportHolds'
    BY <2>3, <2>4 DEF ResponderInv, ReportHolds
  <2> QED
    BY <2>1, <2>2, <2>3, <2>5, <2>6, <2>7 DEF ResponderInv, OneBinding, SockSet, ConnSet
<1> QED
  BY <1>2, <1>3, <1>4, <1>5, <1>6, <1>7, <1>8, <1>9, <1>10, <1>11, <1>12, <1>13,
     <1>14
  DEF DataMove, DataplaneStep, Handle

-----------------------------------------------------------------------------
(* The diagnostic: what was sent, what the two goroutines are about to     *)
(* send and what is left of the budget.                                    *)
DiagInv ==
  /\ dpc \in {"idle", "streaming", "ended"}
  /\ child \in {"none", "up", "exited", "killed"}
  /\ piped \in [Pipe -> 0..PipeCap] /\ rpc \in [Pipe -> {"scan", "emit", "ended"}]
  /\ line \in [Pipe -> 0..MaxLine] /\ budget \in 0..MaxOutput /\ sent \in Nat
  /\ result \in {"none", "rejected", "failed", "exited", "killed"}
  /\ sent + line["stdout"] + line["stderr"] + budget <= MaxOutput

LEMMA DiagInvInit == Init => DiagInv
  BY DiagAssumption DEF Init, DiagInit, DiagInv, Pipe

LEMMA DiagInvStep == DiagInv /\ DiagMove => DiagInv'
<1> SUFFICES ASSUME DiagInv, DiagMove PROVE DiagInv'
  OBVIOUS
<1> USE DiagAssumption
<1>1. CASE UNCHANGED diagVars
  BY <1>1 DEF DiagInv, diagVars
<1>2. CASE StartChild
  BY <1>2 DEF DiagInv, StartChild
<1>3. ASSUME NEW r \in {"rejected", "failed"}, Refuse(r) PROVE DiagInv'
  BY <1>3 DEF DiagInv, Refuse, Finish
<1>4. CASE ChildExits
  BY <1>4 DEF DiagInv, ChildExits
<1>5. CASE Kill
  BY <1>5 DEF DiagInv, Kill
<1>6. CASE End
  BY <1>6 DEF DiagInv, End, Finish
<1>7. ASSUME NEW s \in Pipe, ChildWrites(s) PROVE DiagInv'
  BY <1>7 DEF DiagInv, ChildWrites
<1>8. ASSUME NEW s \in Pipe, GiveUp(s) PROVE DiagInv'
  BY <1>8 DEF DiagInv, GiveUp
<1>9. ASSUME NEW s \in Pipe, Emit(s) PROVE DiagInv'
  BY <1>9 DEF DiagInv, Emit, Pipe
<1>10. ASSUME NEW s \in Pipe, NEW n \in 0..MaxLine, Take(s, n) PROVE DiagInv'
  BY <1>10 DEF DiagInv, Take, Least, Pipe
<1> QED
  BY <1>1, <1>2, <1>3, <1>4, <1>5, <1>6, <1>7, <1>8, <1>9, <1>10
  DEF DiagMove, DiagStep, StreamStep

-----------------------------------------------------------------------------
AgentInv == LinkInv /\ EngineInv /\ ResponderInv /\ DiagInv /\ ninput \in 0..MaxInputs

LEMMA InputsStep == ninput \in 0..MaxInputs /\ [Next]_vars => ninput' \in 0..MaxInputs
<1> SUFFICES ASSUME ninput \in 0..MaxInputs, [Next]_vars PROVE ninput' \in 0..MaxInputs
  OBVIOUS
<1>1. ASSUME NEW n \in {1, DiagWeight}, Spend(n) PROVE ninput' \in 0..MaxInputs
  BY <1>1, InputsAssumption DEF Spend
<1>2. CASE UNCHANGED ninput
  BY <1>2
<1> QED
  BY <1>1, <1>2 DEF Next, Input, Link, Data, Diag, OfLink, OfData, OfDiag, vars

LEMMA AgentInvariant == Spec => []AgentInv
<1>1. Init => AgentInv
  BY LinkInvInit, EngineInvInit, ResponderInvInit, DiagInvInit, InputsAssumption
  DEF AgentInv, Init
<1>2. AgentInv /\ [Next]_vars => AgentInv'
  BY NextMoves, LinkInvStep, EngineInvStep, ResponderInvStep, DiagInvStep, InputsStep
  DEF AgentInv, EngineInv
<1> QED
  BY <1>1, <1>2, PTL DEF Spec

(* The agent's variables keep their types.                                 *)
THEOREM AgentTypes == Spec => []TypeOK
<1>1. AgentInv => TypeOK
  <2> SUFFICES ASSUME AgentInv PROVE TypeOK
    OBVIOUS
  <2>1. {done, wended, rended, broken, slip, down} \subseteq BOOLEAN
    BY DEF AgentInv, LinkInv, EngineInv, EngineTypes
  <2>2. LinkInv /\ EngineTypes /\ ResponderInv /\ DiagInv /\ ninput \in 0..MaxInputs
    BY DEF AgentInv, EngineInv
  <2> QED
    BY <2>1, <2>2
    DEF TypeOK, LinkInv, EngineTypes, ResponderInv, DiagInv, ProberSet, SockSet, ConnSet
<1> QED
  BY <1>1, AgentInvariant, PTL

(* client.go:89-91, as far as it is true: a connection to an address that  *)
(* SetMaster has replaced is closed, unless a SetMaster slipped in between *)
(* the second look at the address and setPeer.                             *)
THEOREM StaleLinkNeedsSlip == Spec => []StaleOnlyIfSlipped
<1>1. AgentInv => StaleOnlyIfSlipped
  BY DEF AgentInv, LinkInv, StaleOnlyIfSlipped, StaleLinkCloses
<1> QED
  BY <1>1, AgentInvariant, PTL

(* dataplane.go:95-106: until the process is told to end, no prober of a   *)
(* stopped run, or of a flow the latest plan does not hold, outlives the   *)
(* Stop that waits for it.                                                 *)
THEOREM StoppedForGood == Spec => []StopIsFinal
<1>1. AgentInv => StopIsFinal
  BY DEF AgentInv, EngineInv, Engaged, StopIsFinal
<1> QED
  BY <1>1, AgentInvariant, PTL

(* responder.go:48-50: the sockets and connections that are open belong to *)
(* one binding, the latest.                                                *)
THEOREM BindingsNeverOverlap == Spec => []OneBinding
<1>1. AgentInv => OneBinding
  BY DEF AgentInv, ResponderInv
<1> QED
  BY <1>1, AgentInvariant, PTL

(* responder.go:48-66: what the latest PORT_STATUS calls bound is open     *)
(* until the next frame that rebinds.                                      *)
THEOREM ReportedPortsAreOpen == Spec => []ReportHolds
<1>1. AgentInv => ReportHolds
  BY DEF AgentInv, ResponderInv
<1> QED
  BY <1>1, AgentInvariant, PTL

(* diag.go:14,38: two goroutines that draw on one budget never exceed it.  *)
THEOREM DiagOutputIsBounded == Spec => []BudgetKept
<1>1. AgentInv => BudgetKept
  BY DiagAssumption DEF AgentInv, DiagInv, BudgetKept, Pipe
<1> QED
  BY <1>1, AgentInvariant, PTL
=============================================================================
