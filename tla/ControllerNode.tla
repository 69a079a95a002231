---------------------------- MODULE ControllerNode ----------------------------
(***************************************************************************)
(* A controller around its hub: the handlers change the stores and start   *)
(* and stop the test, the read pumps of an agent's connections deliver     *)
(* metrics and diagnostics, both publish events, and metrics, diagnostics  *)
(* and events are broadcast to the browsers.  What the handlers send to    *)
(* the agents, and whether a test is running, is the subject of            *)
(* TestControl.                                                            *)
(***************************************************************************)
EXTENDS Stores, UiSessions, FlowHealth, Sequences

CONSTANTS
  pump,          \* the goroutine in pumpEventsToUI
  Handler,       \* goroutines serving a request about flows or tests
  AuthEnabled,   \* the controller is secured
  MaxInputs      \* bound of the model: requests, metrics, events, crashes, disks

ASSUME ControllerAssumption ==
  /\ pump \notin Conn /\ Caster = Conn \cup {pump}
  /\ AuthEnabled \in BOOLEAN /\ MaxInputs \in Nat

VARIABLES
  todo,     \* per handler: what is left of its request
  ninput    \* inputs so far

vars == <<storeVars, uiVars, healthVars, todo, ninput>>

Init ==
  /\ StoresInit /\ UiInit /\ HealthInit
  /\ todo = [h \in Handler |-> <<>>]
  /\ ninput = 0

OfStores(A) == A /\ UNCHANGED <<uiVars, healthVars>>
OfUi(A) == A /\ UNCHANGED <<storeVars, healthVars, todo, ninput>>
OfHealth(A) == A /\ UNCHANGED <<storeVars, uiVars>>
OfMedia(A) == A /\ UNCHANGED <<storeVars, todo>>

-----------------------------------------------------------------------------
(* The requests, as the calls each makes in turn: START and STOP make the  *)
(* same ones here.                                                         *)
TestChange == <<"reset", "clear", "emit">>
FlowEdit == <<"change", "save", "clear">>
FlowsMesh == <<"change", "save", "change", "save", "clear">>

Call(step) ==
  \/ step = "change" /\ OfStores(ChangeFlows)
  \/ step = "save" /\ OfStores(SaveLocked)
  \/ step = "clear" /\ OfHealth(Clear)
  \/ step = "reset" /\ OfHealth(ResetFlows)
  \/ step = "emit" /\ OfHealth(Emit)

Handle(h) ==
  /\ todo[h] # <<>>
  /\ Call(Head(todo[h]))
  /\ todo' = [todo EXCEPT ![h] = Tail(@)]
  /\ UNCHANGED ninput

-----------------------------------------------------------------------------
Request(h) ==
  /\ todo[h] = <<>>
  /\ \E r \in {TestChange, FlowEdit, FlowsMesh} : todo' = [todo EXCEPT ![h] = r]
  /\ UNCHANGED <<storeVars, uiVars, healthVars>>

(* handleAdminUpdate: the settings, then the event.                        *)
AdminUpdate(u) == OfStores(ChangeSettings(u)) /\ UNCHANGED todo

AdminSave(u) ==
  /\ Marshal(u) \/ Truncate(u)
  /\ UNCHANGED <<uiVars, healthVars, todo, ninput>>

AdminSaved(u) ==
  /\ Write(u)
  /\ Emit
  /\ UNCHANGED <<uiVars, todo, ninput>>

(* A frame of the agent: metrics or the output of a diagnostic.            *)
Metrics(c) ==
  /\ c \notin rlock
  /\ \E m \in Metric, replay \in BOOLEAN : OfHealth(OnTelemetry(c, m, replay))
  /\ UNCHANGED todo

OnDiag(c) ==
  /\ tpc[c] = "idle"
  /\ OfMedia(Broadcast(c, AuthEnabled))
  /\ UNCHANGED healthVars

(* Any other event of the controller: an agent's coming and going, or the  *)
(* mesh summary of a test, of whose conditions none is kept.               *)
Event ==
  /\ Emit
  /\ UNCHANGED <<storeVars, uiVars, todo>>

(* The process ends and starts again; the websockets end with it.          *)
Restart ==
  /\ Reload
  /\ UiRestart /\ HealthRestart
  /\ todo' = [h \in Handler |-> <<>>]

Input ==
  /\ ninput < MaxInputs
  /\ ninput' = ninput + 1
  /\ \/ \E h \in Handler : Request(h)
     \/ \E u \in Updater : AdminUpdate(u)
     \/ \E s \in Session : OfMedia(Open(s)) /\ UNCHANGED healthVars
     \/ \E c \in Conn : Metrics(c) \/ OnDiag(c)
     \/ Event \/ Restart
     \/ OfStores(DiskTurns) /\ UNCHANGED todo

Reader(c) ==
  /\ \/ BeginBroadcast(c) /\ Broadcast(c, FALSE)
     \/ (\E s \in Session : Offer(c, s)) /\ UNCHANGED healthVars
     \/ EndCast(c) /\ IF tpc[c] = "casting" THEN EndBroadcast(c) ELSE UNCHANGED healthVars
     \/ (Judge(c) \/ EmitTransition(c)) /\ UNCHANGED uiVars
  /\ UNCHANGED <<storeVars, todo, ninput>>

PumpEvents ==
  /\ \/ TakeEvent /\ Broadcast(pump, FALSE)
     \/ CastStep(pump) /\ UNCHANGED healthVars
  /\ UNCHANGED <<storeVars, todo, ninput>>

Throttle == OfHealth(ThrottleEnds) /\ UNCHANGED <<todo, ninput>>

Next ==
  \/ Input \/ PumpEvents \/ Throttle
  \/ \E c \in Conn : Reader(c)
  \/ \E h \in Handler : Handle(h)
  \/ \E u \in Updater : AdminSave(u) \/ AdminSaved(u)
  \/ \E s \in Session : OfUi(BrowserGone(s) \/ SessionStep(s))

Spec == Init /\ [][Next]_vars

(* Goroutines go on.  RWMutex lets a writer in ahead of the readers that   *)
(* come after it, so a Remove that waits is served.                        *)
Fairness ==
  /\ WF_vars(PumpEvents) /\ \A c \in Conn : WF_vars(Reader(c))
  /\ \A s \in Session :
       /\ WF_vars(OfUi(Range(s) \/ WriteJSON(s))) /\ WF_vars(OfUi(ReadFails(s)))
       /\ SF_vars(OfUi(WriterRemoves(s))) /\ SF_vars(OfUi(ReaderRemoves(s)))

FairSpec == Spec /\ Fairness

-----------------------------------------------------------------------------
(* Types, and the locks: flowStore.mu is held by the one handler inside a  *)
(* change, the hub's read lock by those that have sessions to visit.       *)
TypeOK ==
  /\ {fmem, amem, nchange} \cup {copy[u] : u \in Updater} \subseteq Nat
  /\ ffile \in Nat \cup {Torn} /\ afile \in Nat \cup {Torn}
  /\ flocked <=> \E h \in Handler : todo[h] # <<>> /\ Head(todo[h]) = "save"
  /\ upc \in [Updater -> {"idle", "marshal", "truncate", "write", "fail"}]
  /\ clients \subseteq Session /\ closed \subseteq Session /\ gone \subseteq Session
  /\ q \in [Session -> 0..QCap]
  /\ wpc \in [Session -> {"none", "range", "write", "remove", "ended"}]
  /\ rpc \in [Session -> {"none", "read", "remove", "ended"}]
  /\ rlock \subseteq Caster /\ visit \in [Caster -> SUBSET Session]
  /\ \A c \in Caster : visit[c] # {} => c \in rlock
  /\ latest \in Metric \cup {None} /\ batch \in [Conn -> Metric \cup {None}]
  /\ highest \in 0..MaxSeq
  /\ status \in Status \cup {""} /\ told \in Status \cup {""}
  /\ tpc \in [Conn -> {"idle", "cast", "casting", "judge", "emit"}]
  /\ replayed \in [Conn -> BOOLEAN]
  /\ bus \in 0..BusCap
  /\ {flocked, overlap, funsaved, aunsaved, failing, recent, excused} \subseteq BOOLEAN
  /\ ninput \in 0..MaxInputs

(* flows.go:62-65: whenever no flow edit is under way, a restart would     *)
(* find the flows as they are, if the latest write did not fail.  For the  *)
(* settings, whose file is written without a lock (admin.go:61-69), only   *)
(* if besides no two updates have overlapped since one was last alone.     *)
FileIsMemory ==
  /\ ~flocked /\ ~funsaved => Load(ffile) = fmem
  /\ Updating = {} /\ ~aunsaved /\ ~overlap => Load(afile) = amem

(* What admin.go is not: the same for updates that overlap.                *)
SettingsSurvive == Updating = {} /\ ~aunsaved => Load(afile) = amem

(* uistream.go:48-55: no goroutine sends on a closed channel, which would  *)
(* end the process: not while a Broadcast has the session yet to visit.    *)
NoSendOnClosed == \A c \in Caster : visit[c] \cap closed = {}

(* uistream.go:89-90, "newest Seq wins", over any order of live and        *)
(* replayed batches with the Clears between them.                          *)
NewestSinceClear == IF latest = None THEN highest = 0 ELSE latest.seq = highest

(* controller.go:586-588: the last event about a flow is about the health  *)
(* it has, silence standing for healthy, unless the throttle swallowed a   *)
(* change or resetFlows fell between a decision and its event.             *)
OnlyExcusedDiffers ==
  Emitting = {} /\ ~excused => told = status \/ (told = "" /\ status = "healthy")

(* controller.go:733-735: a session whose browser is gone ends, with both  *)
(* its goroutines, whatever the broadcasts do and however full it is.      *)
SessionsEnd ==
  \A s \in Session :
    s \in gone ~> wpc[s] \in {"none", "ended"} /\ rpc[s] \in {"none", "ended"}
                  /\ s \notin clients
=============================================================================
