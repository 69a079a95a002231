------------------------------ MODULE AgentNode ------------------------------
(***************************************************************************)
(* An agent: its link and what the frames that arrive over it start and    *)
(* stop.  The read pump handles a frame to its end before it reads the     *)
(* next and before it returns, so a link that ends waits for the handler,  *)
(* and the reconnect loop for the link; what runs on the agent outlives    *)
(* the connection it was ordered over.                                     *)
(***************************************************************************)
EXTENDS AgentLink, AgentDataplane, DiagRun

CONSTANTS
  MaxInputs,   \* bound of the model: joins, failures, frames and signals
  DiagWeight   \* bound of the model: as how many of them a diagnostic counts

ASSUME InputsAssumption == MaxInputs \in Nat /\ DiagWeight \in Nat

VARIABLE ninput  \* inputs so far

vars == <<linkVars, dataVars, diagVars, ninput>>

Init == LinkInit /\ DataplaneInit /\ DiagInit /\ ninput = 0

LinkInput ==
  \/ \E j \in Joiner, a \in Addr : SetMasterAddr(j, a)
  \/ DialFails
  \/ Cut

(* A frame read while the read pump lives; it may have been buffered before *)
(* the connection died.                                                    *)
ReadFrame(f) == lpc = "serve" /\ ~rended /\ OnControl(f)

(* DIAG_REQUEST is handled by a goroutine of its own.                      *)
ReadDiag ==
  /\ lpc = "serve" /\ ~rended /\ hpc = "idle"
  /\ StartChild \/ \E r \in {"rejected", "failed"} : Refuse(r)

(* The read pump returns between two frames only.                          *)
ReadPumpEnds == hpc = "idle" /\ ReaderEnds

Spend(n) ==
  /\ ninput + n <= MaxInputs
  /\ ninput' = ninput + n

Input ==
  \/ LinkInput /\ Spend(1) /\ UNCHANGED <<dataVars, diagVars>>
  \/ (\E f \in Frame : ReadFrame(f)) /\ Spend(1) /\ UNCHANGED <<linkVars, diagVars>>
  \/ ReadDiag /\ Spend(DiagWeight) /\ UNCHANGED <<linkVars, dataVars>>
  \/ (Terminate \/ \E s \in socks : EchoFails(s)) /\ Spend(1) /\ UNCHANGED <<linkVars, diagVars>>

OfLink(A) == A /\ UNCHANGED <<dataVars, diagVars, ninput>>
OfData(A) == A /\ UNCHANGED <<linkVars, diagVars, ninput>>
OfDiag(A) == A /\ UNCHANGED <<linkVars, dataVars, ninput>>

(* Run stops dialling once the context is cancelled.                       *)
Run == (Top /\ ~down) \/ DialOk \/ Recheck \/ SetPeer \/ EndServe \/ WaitOver
Close == \E j \in Joiner : ClosePeer(j)

Link == OfLink(Run \/ Close \/ WriterEnds \/ ReadPumpEnds)
Data == OfData(DataplaneStep)
Diag == OfDiag(DiagStep)

Next == Input \/ Link \/ Data \/ Diag

Spec == Init /\ [][Next]_vars

(* Every goroutine of the agent goes on.  A probe ends after its time-out; *)
(* a select that may take the context's end again and again does so in the *)
(* end; an accepted connection has 10 s, a diagnostic 30.  The read pump   *)
(* owes its return to an error only: no PING need come once done is closed. *)
Fairness ==
  /\ WF_vars(OfLink(Run)) /\ WF_vars(OfLink(Close))
  /\ WF_vars(OfLink(WriterEnds)) /\ WF_vars(OfLink((wended \/ broken) /\ ReadPumpEnds))
  /\ WF_vars(OfData(Handle)) /\ WF_vars(OfData(ShutCancel \/ ShutJoin))
  /\ \A f \in Flow :
       /\ WF_vars(OfData(\E p \in probers : p.flow = f /\ ProbeEnds(p)))
       /\ SF_vars(OfData(\E p \in probers : p.flow = f /\ Quit(p)))
  /\ WF_vars(OfData(\E s \in socks : CloseSock(s)))
  /\ \A k \in 1..MaxConns : WF_vars(OfData(\E c \in conns : c.id = k /\ ConnEnds(c)))
  /\ WF_vars(OfDiag(Kill)) /\ WF_vars(OfDiag(End))
  /\ \A s \in Pipe : WF_vars(OfDiag(StreamStep(s)))

FairSpec == Spec /\ Fairness

-----------------------------------------------------------------------------
(* Types.                                                                  *)
TypeOK ==
  /\ master \in Addr \cup {NoAddr} /\ addr \in Addr \cup {NoAddr}
  /\ joining \subseteq Joiner
  /\ lpc \in {"top", "dial", "dialled", "checked", "serve", "wait"}
  /\ {done, wended, rended, broken, slip, down} \subseteq BOOLEAN
  /\ backoff \in BackoffInitial..BackoffMax
  /\ hpc \in {"idle", "stop", "join", "stopped", "launch", "drain", "bind", "report"}
  /\ frame \in Frame /\ flows \subseteq Flow
  /\ cancel \in 0..nrun /\ nrun \in Nat /\ cur \in 0..nbind /\ nbind \in Nat
  /\ probers \subseteq [flow : Flow, run : 1..nrun, count : {0, 1}, done : BOOLEAN,
                         st : {"probe", "tick"}]
  /\ socks \subseteq [bind : 1..nbind, at : Listener, done : BOOLEAN, echo : BOOLEAN]
  /\ conns \subseteq [bind : 1..nbind, id : 1..MaxConns, done : BOOLEAN]
  /\ report \subseteq Listener
  /\ spc \in {"serving", "join", "ended"}
  /\ dpc \in {"idle", "streaming", "ended"}
  /\ child \in {"none", "up", "exited", "killed"}
  /\ piped \in [Pipe -> 0..PipeCap] /\ rpc \in [Pipe -> {"scan", "emit", "ended"}]
  /\ line \in [Pipe -> 0..MaxLine] /\ budget \in 0..MaxOutput /\ sent \in Nat
  /\ result \in {"none", "rejected", "failed", "exited", "killed"}
  /\ ninput \in 0..MaxInputs

(* client.go:89-91: SetMaster "forces the current connection (if any) to   *)
(* drop so the reconnect loop targets the new address": once no SetMaster  *)
(* is under way, a link to another address is being closed.                *)
StaleLinkCloses ==
  lpc = "serve" /\ joining = {} /\ addr # master => done

(* What is true instead: it is, unless a SetMaster looked for the peer     *)
(* between connectOnce's second look at the address and setPeer.           *)
StaleOnlyIfSlipped == ~slip => StaleLinkCloses

(* While the process is not ending, a prober of another run than the one   *)
(* e.cancel belongs to exists only as long as a Stop waits for it: no      *)
(* metric of a stopped test follows its Stop (dataplane.go:95-106), and no *)
(* flow is probed that the latest plan does not hold (agent.go:147-150).   *)
StopIsFinal ==
  down \/ hpc = "join" \/ \A p \in probers : p.run = cancel /\ p.flow \in flows

(* responder.go:48-50: a rebind never overlaps the old sockets or leaves   *)
(* echo goroutines from a prior plan alive; and what the latest PORT_STATUS *)
(* calls bound stays bound until the next frame that rebinds.              *)
OneBinding == \A x \in socks \cup conns : x.bind = cur

ReportHolds == down \/ hpc \in {"drain", "bind"} \/ report = {s.at : s \in socks}

(* diag.go:14,38: the output of a diagnostic is bounded, though two        *)
(* goroutines draw on the budget.                                          *)
BudgetKept == sent <= MaxOutput

(* The read pump is never held for ever by what a frame waits for.         *)
HandlerReturns == hpc # "idle" ~> hpc = "idle"

(* An agent that has a controller's address gets a link, and gets one      *)
(* again whenever it loses it, as long as dials do not fail for ever.      *)
Rejoins == master # NoAddr ~> (lpc = "serve" /\ ~done) \/ down

(* diag.go:114: an EOF chunk is always emitted, also when the budget is    *)
(* used up, nobody reads the pipes any more and the child blocks on them.  *)
DiagEnds == dpc = "streaming" ~> dpc = "ended"
=============================================================================
