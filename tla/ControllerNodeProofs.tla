------------------------- MODULE ControllerNodeProofs -------------------------
(***************************************************************************)
(* Safety of the controller's node for any number of handlers, updaters,   *)
(* sessions and inputs.  Each component's invariant is preserved by the    *)
(* component's own steps; a step of the node is one of them, or leaves the *)
(* component alone.                                                        *)
(***************************************************************************)
EXTENDS ControllerNode, TLAPS

(* What a step of the node may do to the sessions.                         *)
UiMove ==
  \/ UNCHANGED uiVars
  \/ UiRestart
  \/ \E c \in Caster, only \in BOOLEAN : Broadcast(c, only)
  \/ \E c \in Caster : CastStep(c)
  \/ \E s \in Session : Open(s) \/ BrowserGone(s) \/ SessionStep(s)

LEMMA NextUi == [Next]_vars => UiMove
<1> SUFFICES ASSUME [Next]_vars PROVE UiMove
  OBVIOUS
<1> USE ControllerAssumption
<1>1. CASE Input
  <2>1. CASE \E h \in Handler : Request(h)
    BY <2>1 DEF Request, UiMove
  <2>2. CASE \E u \in Updater : AdminUpdate(u)
    BY <2>2 DEF AdminUpdate, OfStores, UiMove
  <2>3. CASE \E s \in Session : OfMedia(Open(s)) /\ UNCHANGED healthVars
    BY <2>3 DEF OfMedia, UiMove
  <2>4. CASE \E c \in Conn : Metrics(c)
    BY <2>4 DEF Metrics, OfHealth, UiMove
  <2>5. CASE \E c \in Conn : OnDiag(c)
    BY <2>5 DEF OnDiag, OfMedia, UiMove
  <2>6. CASE Event
    BY <2>6 DEF Event, UiMove
  <2>7. CASE Restart
    BY <2>7 DEF Restart, UiMove
  <2>8. CASE OfStores(DiskTurns)
    BY <2>8 DEF OfStores, UiMove
  <2> QED
    BY <1>1, <2>1, <2>2, <2>3, <2>4, <2>5, <2>6, <2>7, <2>8 DEF Input
<1>2. ASSUME NEW c \in Conn, Reader(c) PROVE UiMove
  <2>1. CASE Broadcast(c, FALSE)
    BY <2>1 DEF UiMove
  <2>2. CASE \E s \in Session : Offer(c, s)
    BY <2>2 DEF UiMove, CastStep
  <2>3. CASE EndCast(c)
    BY <2>3 DEF UiMove, CastStep
  <2>4. CASE UNCHANGED uiVars
    BY <2>4 DEF UiMove
  <2> QED
    BY <1>2, <2>1, <2>2, <2>3, <2>4 DEF Reader
<1>3. CASE PumpEvents
  <2>1. CASE Broadcast(pump, FALSE)
    BY <2>1 DEF UiMove
  <2>2. CASE CastStep(pump)
    BY <2>2 DEF UiMove
  <2> QED
    BY <1>3, <2>1, <2>2 DEF PumpEvents
<1>4. CASE Throttle
  BY <1>4 DEF Throttle, OfHealth, UiMove
<1>5. CASE \E h \in Handler : Handle(h)
  BY <1>5 DEF Handle, Call, OfStores, OfHealth, UiMove
<1>6. CASE \E u \in Updater : AdminSave(u) \/ AdminSaved(u)
  BY <1>6 DEF AdminSave, AdminSaved, UiMove
<1>7. CASE \E s \in Session : OfUi(BrowserGone(s) \/ SessionStep(s))
  BY <1>7 DEF OfUi, UiMove
<1>8. CASE UNCHANGED vars
  BY <1>8 DEF vars, UiMove
<1> QED
  BY <1>1, <1>2, <1>3, <1>4, <1>5, <1>6, <1>7, <1>8 DEF Next

-----------------------------------------------------------------------------
(* A session to visit is registered, for no Remove runs while a Broadcast  *)
(* holds the lock; a registered channel is not closed; and a session is    *)
(* registered once only.                                                   *)
UiInv ==
  /\ visit \in [Caster -> SUBSET Session]
  /\ clients \subseteq Session /\ closed \subseteq Session
  /\ wpc \in [Session -> {"none", "range", "write", "remove", "ended"}]
  /\ \A c \in Caster : visit[c] \subseteq clients
  /\ \A c \in Caster : visit[c] # {} => c \in rlock
  /\ clients \cap closed = {}
  /\ \A s \in clients \cup closed : wpc[s] # "none"

LEMMA UiInvInit == Init => UiInv
  BY DEF Init, UiInit, UiInv

(* Remove, by either goroutine of a session.                               *)
LEMMA RemoveKeeps ==
  ASSUME UiInv, NEW s \in Session, Remove(s), wpc[s] # "none",
         UNCHANGED visit, UNCHANGED rlock,
         wpc' \in {wpc, [wpc EXCEPT ![s] = "ended"]}
  PROVE  UiInv'
<1>1. \A c \in Caster : visit[c] = {}
  BY DEF UiInv, Remove, Exclusive
<1>2. clients' \cap closed' = {}
  BY DEF UiInv, Remove
<1>3. \A t \in clients' \cup closed' : wpc'[t] # "none"
  <2> SUFFICES ASSUME NEW t \in clients' \cup closed' PROVE wpc'[t] # "none"
    OBVIOUS
  <2>1. t \in clients \cup closed /\ t \in Session
    BY DEF UiInv, Remove
  <2>2. wpc[t] # "none"
    BY <2>1 DEF UiInv
  <2> QED
    BY <2>1, <2>2 DEF UiInv
<1>4. wpc' \in [Session -> {"none", "range", "write", "remove", "ended"}]
  BY DEF UiInv
<1> QED
  BY <1>1, <1>2, <1>3, <1>4 DEF UiInv, Remove

LEMMA UiInvStep == UiInv /\ UiMove => UiInv'
<1> SUFFICES ASSUME UiInv, UiMove PROVE UiInv'
  OBVIOUS
<1>1. CASE UNCHANGED uiVars
  BY <1>1 DEF UiInv, uiVars
<1>2. CASE UiRestart
  BY <1>2 DEF UiInv, UiRestart
<1>3. ASSUME NEW c \in Caster, NEW only \in BOOLEAN, Broadcast(c, only) PROVE UiInv'
  <2>1. visit' = [visit EXCEPT ![c] = IF only THEN clients \cap Privileged ELSE clients]
    BY <1>3 DEF Broadcast
  <2>2. visit' \in [Caster -> SUBSET Session]
    BY <2>1 DEF UiInv
  <2>3. \A d \in Caster : visit'[d] \subseteq clients
    BY <2>1 DEF UiInv
  <2>4. \A d \in Caster : visit'[d] # {} => d \in rlock'
    BY <1>3, <2>1 DEF UiInv, Broadcast
  <2> QED
    BY <1>3, <2>2, <2>3, <2>4 DEF UiInv, Broadcast
<1>4. ASSUME NEW c \in Caster, CastStep(c) PROVE UiInv'
  <2>1. CASE EndCast(c)
    <3>1. \A d \in Caster : visit[d] # {} => d \in rlock'
      BY <2>1 DEF UiInv, EndCast
    <3> QED
      BY <2>1, <3>1 DEF UiInv, EndCast
  <2>2. ASSUME NEW s \in Session, Offer(c, s) PROVE UiInv'
    <3>1. visit' \in [Caster -> SUBSET Session]
      BY <2>2 DEF UiInv, Offer
    <3>2. \A d \in Caster : visit'[d] \subseteq visit[d]
      BY <2>2 DEF UiInv, Offer
    <3> QED
      BY <2>2, <3>1, <3>2 DEF UiInv, Offer
  <2> QED
    BY <1>4, <2>1, <2>2 DEF CastStep
<1>5. ASSUME NEW s \in Session, Open(s) PROVE UiInv'
  <2>1. s \notin clients \cup closed
    BY <1>5 DEF UiInv, Open
  <2>2. clients' \cap closed' = {}
    BY <1>5, <2>1 DEF UiInv, Open, Add
  <2>3. \A t \in clients' \cup closed' : wpc'[t] # "none"
    BY <1>5 DEF UiInv, Open, Add
  <2> QED
    BY <1>5, <2>2, <2>3 DEF UiInv, Open, Add
<1>6. ASSUME NEW s \in Session, BrowserGone(s) PROVE UiInv'
  BY <1>6 DEF UiInv, BrowserGone
<1>7. ASSUME NEW s \in Session, SessionStep(s) PROVE UiInv'
  <2>1. CASE Range(s)
    BY <2>1 DEF UiInv, Range
  <2>2. CASE WriteJSON(s)
    BY <2>2 DEF UiInv, WriteJSON
  <2>3. CASE WriterRemoves(s)
    BY <2>3, RemoveKeeps DEF WriterRemoves
  <2>4. CASE ReadFails(s)
    BY <2>4 DEF UiInv, ReadFails
  <2>5. CASE ReaderRemoves(s)
    <3>1. CASE wpc[s] # "none"
      BY <2>5, <3>1, RemoveKeeps DEF ReaderRemoves
    <3>2. CASE wpc[s] = "none"
      <4>1. s \notin clients
        BY <3>2 DEF UiInv
      <4> QED
        BY <2>5, <4>1 DEF UiInv, ReaderRemoves, Remove
    <3> QED
      BY <3>1, <3>2
  <2> QED
    BY <1>7, <2>1, <2>2, <2>3, <2>4, <2>5 DEF SessionStep
<1> QED
  BY <1>1, <1>2, <1>3, <1>4, <1>5, <1>6, <1>7 DEF UiMove

(* uistream.go:48-55: Remove and Broadcast never meet on a channel.        *)
THEOREM NodeNoSendOnClosed == Spec => []NoSendOnClosed
<1>1. UiInv => NoSendOnClosed
  BY DEF UiInv, NoSendOnClosed
<1>2. UiInv /\ [Next]_vars => UiInv'
  BY NextUi, UiInvStep
<1> QED
  BY <1>1, <1>2, UiInvInit, PTL DEF Spec

-----------------------------------------------------------------------------
(* What a step of the node may do to the stores.                           *)
StoreMove ==
  \/ UNCHANGED storeVars
  \/ ChangeFlows \/ SaveLocked \/ Reload \/ DiskTurns
  \/ \E u \in Updater : ChangeSettings(u) \/ Marshal(u) \/ Truncate(u) \/ Write(u)

LEMMA NextStores == [Next]_vars => StoreMove
<1> SUFFICES ASSUME [Next]_vars PROVE StoreMove
  OBVIOUS
<1> USE DEF StoreMove
<1>1. CASE Input
  <2>1. CASE \E h \in Handler : Request(h)
    BY <2>1 DEF Request
  <2>2. CASE \E u \in Updater : AdminUpdate(u)
    BY <2>2 DEF AdminUpdate, OfStores
  <2>3. CASE \E s \in Session : OfMedia(Open(s)) /\ UNCHANGED healthVars
    BY <2>3 DEF OfMedia
  <2>4. CASE \E c \in Conn : Metrics(c)
    BY <2>4 DEF Metrics, OfHealth
  <2>5. CASE \E c \in Conn : OnDiag(c)
    BY <2>5 DEF OnDiag, OfMedia
  <2>6. CASE Event
    BY <2>6 DEF Event
  <2>7. CASE Restart
    BY <2>7 DEF Restart
  <2>8. CASE OfStores(DiskTurns)
    BY <2>8 DEF OfStores
  <2> QED
    BY <1>1, <2>1, <2>2, <2>3, <2>4, <2>5, <2>6, <2>7, <2>8 DEF Input
<1>2. CASE \E c \in Conn : Reader(c)
  BY <1>2 DEF Reader
<1>3. CASE PumpEvents
  BY <1>3 DEF PumpEvents
<1>4. CASE Throttle
  BY <1>4 DEF Throttle, OfHealth
<1>5. CASE \E h \in Handler : Handle(h)
  BY <1>5 DEF Handle, Call, OfStores, OfHealth
<1>6. CASE \E u \in Updater : AdminSave(u) \/ AdminSaved(u)
  BY <1>6 DEF AdminSave, AdminSaved
<1>7. CASE \E s \in Session : OfUi(BrowserGone(s) \/ SessionStep(s))
  BY <1>7 DEF OfUi
<1>8. CASE UNCHANGED vars
  BY <1>8 DEF vars
<1> QED
  BY <1>1, <1>2, <1>3, <1>4, <1>5, <1>6, <1>7, <1>8 DEF Next

-----------------------------------------------------------------------------
(* A change of the flows ends with the file written, or with the failure   *)
(* noted; a change of the settings that overlaps no other is alone until   *)
(* its file is written.                                                    *)
StoreInv ==
  /\ fmem \in Nat /\ amem \in Nat /\ nchange \in Nat
  /\ ffile \in Nat \cup {Torn} /\ afile \in Nat \cup {Torn}
  /\ copy \in [Updater -> Nat]
  /\ upc \in [Updater -> {"idle", "marshal", "truncate", "write", "fail"}]
  /\ ~flocked /\ ~funsaved => Load(ffile) = fmem
  /\ ~overlap =>
       /\ Updating = {} /\ ~aunsaved => Load(afile) = amem
       /\ \A u, v \in Updating : u = v
       /\ \A u \in Updating : upc[u] \in {"truncate", "write"} => copy[u] = amem
       /\ \A u \in Updating : upc[u] = "write" => afile = Torn

LEMMA StoreInvInit == Init => StoreInv
  BY StoresAssumption DEF Init, StoresInit, StoreInv, Load, Updating

LEMMA StoreInvStep == StoreInv /\ StoreMove => StoreInv'
<1> SUFFICES ASSUME StoreInv, StoreMove PROVE StoreInv'
  OBVIOUS
<1> USE StoresAssumption DEF flowVars, adminVars
<1>1. CASE UNCHANGED storeVars
  BY <1>1 DEF StoreInv, storeVars, Load, Updating
<1>2. CASE ChangeFlows
  BY <1>2 DEF StoreInv, ChangeFlows, Load, Updating
<1>3. CASE SaveLocked
  BY <1>3 DEF StoreInv, SaveLocked, Load, Updating
<1>4. CASE Reload
  <2>1. Load(ffile) \in Nat /\ Load(afile) \in Nat
    BY DEF StoreInv, Load
  <2>2. Updating' = {}
    BY <1>4 DEF Reload, Updating
  <2>3. Load(ffile') = fmem' /\ Load(afile') = amem'
    BY <1>4 DEF Reload, Load
  <2>4. /\ copy' \in [Updater -> Nat]
        /\ upc' \in [Updater -> {"idle", "marshal", "truncate", "write", "fail"}]
    BY <1>4 DEF Reload
  <2> QED
    BY <1>4, <2>1, <2>2, <2>3, <2>4 DEF StoreInv, Reload, Load
<1>5. ASSUME NEW u \in Updater, ChangeSettings(u) PROVE StoreInv'
  <2>1. Updating' = Updating \cup {u} /\ u \notin Updating
    BY <1>5 DEF StoreInv, ChangeSettings, Updating
  <2>2. ~overlap' => Updating = {}
    BY <1>5 DEF ChangeSettings
  <2>3. upc'[u] = "marshal"
    BY <1>5 DEF StoreInv, ChangeSettings
  <2>4. upc' \in [Updater -> {"idle", "marshal", "truncate", "write", "fail"}]
    BY <1>5 DEF StoreInv, ChangeSettings
  <2>5. ~overlap' => Updating' = {u}
    BY <2>1, <2>2
  <2> QED
    BY <1>5, <2>3, <2>4, <2>5 DEF StoreInv, ChangeSettings, Load
<1>6. ASSUME NEW u \in Updater, Marshal(u) PROVE StoreInv'
  <2>1. Updating' = Updating /\ u \in Updating
    BY <1>6 DEF StoreInv, Marshal, Updating
  <2>2. upc'[u] = "truncate" /\ copy'[u] = amem
    BY <1>6 DEF StoreInv, Marshal
  <2>3. /\ upc' \in [Updater -> {"idle", "marshal", "truncate", "write", "fail"}]
        /\ copy' \in [Updater -> Nat]
    BY <1>6 DEF StoreInv, Marshal
  <2> QED
    BY <1>6, <2>1, <2>2, <2>3 DEF StoreInv, Marshal, Load
<1>7. ASSUME NEW u \in Updater, Truncate(u) PROVE StoreInv'
  <2>1. Updating' = Updating /\ u \in Updating
    BY <1>7 DEF StoreInv, Truncate, Updating
  <2>2. upc' \in [Updater -> {"idle", "marshal", "truncate", "write", "fail"}]
    BY <1>7 DEF StoreInv, Truncate
  <2>3. ~overlap => copy[u] = amem
    BY <1>7, <2>1 DEF StoreInv, Truncate
  <2> QED
    BY <1>7, <2>1, <2>2, <2>3 DEF StoreInv, Truncate, Load
<1>8. ASSUME NEW u \in Updater, Write(u) PROVE StoreInv'
  <2>1. Updating' = Updating \ {u} /\ u \in Updating
    BY <1>8 DEF StoreInv, Write, Updating
  <2>2. /\ upc' \in [Updater -> {"idle", "marshal", "truncate", "write", "fail"}]
        /\ copy' \in [Updater -> Nat]
    BY <1>8 DEF StoreInv, Write
  <2>3. afile' \in Nat \cup {Torn}
    BY <1>8 DEF StoreInv, Write
  <2>4. ~overlap => Updating' = {} /\ (aunsaved' \/ afile' = amem)
    BY <1>8, <2>1 DEF StoreInv, Write
  <2>5. ~overlap /\ ~aunsaved' => Load(afile') = amem
    BY <2>4 DEF StoreInv, Load
  <2> QED
    BY <1>8, <2>2, <2>3, <2>4, <2>5 DEF StoreInv, Write
<1>9. CASE DiskTurns
  BY <1>9 DEF StoreInv, DiskTurns, Load, Updating
<1> QED
  BY <1>1, <1>2, <1>3, <1>4, <1>5, <1>6, <1>7, <1>8, <1>9 DEF StoreMove

(* flows.go:62-65: at rest the files hold what memory holds.               *)
THEOREM NodeFileIsMemory == Spec => []FileIsMemory
<1>1. StoreInv => FileIsMemory
  BY DEF StoreInv, FileIsMemory, Updating
<1>2. StoreInv /\ [Next]_vars => StoreInv'
  BY NextStores, StoreInvStep
<1> QED
  BY <1>1, <1>2, StoreInvInit, PTL DEF Spec

-----------------------------------------------------------------------------
(* What a step of the node may do to the flow's health.                    *)
HealthMove ==
  \/ UNCHANGED healthVars
  \/ HealthRestart \/ Clear \/ ResetFlows \/ Emit \/ TakeEvent \/ ThrottleEnds
  \/ \E c \in Conn :
       \/ \E m \in Metric, replay \in BOOLEAN : OnTelemetry(c, m, replay)
       \/ BeginBroadcast(c) \/ EndBroadcast(c) \/ Judge(c) \/ EmitTransition(c)

LEMMA NextHealth == [Next]_vars => HealthMove
<1> SUFFICES ASSUME [Next]_vars PROVE HealthMove
  OBVIOUS
<1> USE DEF HealthMove
<1>1. CASE Input
  <2>1. CASE \E h \in Handler : Request(h)
    BY <2>1 DEF Request
  <2>2. CASE \E u \in Updater : AdminUpdate(u)
    BY <2>2 DEF AdminUpdate, OfStores
  <2>3. CASE \E s \in Session : OfMedia(Open(s)) /\ UNCHANGED healthVars
    BY <2>3
  <2>4. CASE \E c \in Conn : Metrics(c)
    BY <2>4 DEF Metrics, OfHealth
  <2>5. CASE \E c \in Conn : OnDiag(c)
    BY <2>5 DEF OnDiag
  <2>6. CASE Event
    BY <2>6 DEF Event
  <2>7. CASE Restart
    BY <2>7 DEF Restart
  <2>8. CASE OfStores(DiskTurns)
    BY <2>8 DEF OfStores
  <2> QED
    BY <1>1, <2>1, <2>2, <2>3, <2>4, <2>5, <2>6, <2>7, <2>8 DEF Input
<1>2. CASE \E c \in Conn : Reader(c)
  BY <1>2 DEF Reader
<1>3. CASE PumpEvents
  BY <1>3 DEF PumpEvents
<1>4. CASE Throttle
  BY <1>4 DEF Throttle, OfHealth
<1>5. CASE \E h \in Handler : Handle(h)
  BY <1>5 DEF Handle, Call, OfStores, OfHealth
<1>6. CASE \E u \in Updater : AdminSave(u) \/ AdminSaved(u)
  BY <1>6 DEF AdminSave, AdminSaved
<1>7. CASE \E s \in Session : OfUi(BrowserGone(s) \/ SessionStep(s))
  BY <1>7 DEF OfUi
<1>8. CASE UNCHANGED vars
  BY <1>8 DEF vars
<1> QED
  BY <1>1, <1>2, <1>3, <1>4, <1>5, <1>6, <1>7, <1>8 DEF Next

-----------------------------------------------------------------------------
(* The store's metric has the highest number ingested.                     *)
StoreOfMetricsInv ==
  /\ latest \in Metric \cup {None}
  /\ highest \in Nat
  /\ NewestSinceClear

LEMMA NoneIsNoMetric == None \notin Metric
  BY HealthAssumption DEF Metric, Status

LEMMA StoreOfMetricsInvStep == StoreOfMetricsInv /\ HealthMove => StoreOfMetricsInv'
<1> SUFFICES ASSUME StoreOfMetricsInv, HealthMove PROVE StoreOfMetricsInv'
  OBVIOUS
<1> USE NoneIsNoMetric DEF StoreOfMetricsInv, NewestSinceClear
<1>1. CASE latest' = latest /\ highest' = highest
  BY <1>1
<1>2. CASE latest' = None /\ highest' = 0
  BY <1>2
<1>3. ASSUME NEW c \in Conn, NEW m \in Metric, NEW replay \in BOOLEAN,
             OnTelemetry(c, m, replay)
      PROVE  StoreOfMetricsInv'
  <2>1. m.seq \in Nat /\ m.seq > 0
    BY HealthAssumption DEF Metric
  <2>2. latest' = IF latest # None /\ latest.seq > m.seq THEN latest ELSE m
    BY <1>3, <2>1 DEF OnTelemetry, Ingest
  <2>3. highest' = IF m.seq > highest THEN m.seq ELSE highest
    BY <1>3 DEF OnTelemetry
  <2> QED
    BY <2>1, <2>2, <2>3
<1> QED
  BY <1>1, <1>2, <1>3
  DEF HealthMove, healthVars, HealthRestart, Clear, ResetFlows, Emit, TakeEvent,
      ThrottleEnds, BeginBroadcast, EndBroadcast, Judge, EmitTransition

(* uistream.go:89-90: newest Seq wins, between two Clears.                 *)
THEOREM NodeNewestSinceClear == Spec => []NewestSinceClear
<1>1. Init => StoreOfMetricsInv
  <2> SUFFICES ASSUME Init PROVE StoreOfMetricsInv
    OBVIOUS
  <2>1. latest = None /\ highest = 0
    BY DEF Init, HealthInit
  <2> QED
    BY <2>1 DEF StoreOfMetricsInv, NewestSinceClear
<1>2. StoreOfMetricsInv => NewestSinceClear
  BY DEF StoreOfMetricsInv
<1>3. StoreOfMetricsInv /\ [Next]_vars => StoreOfMetricsInv'
  BY NextHealth, StoreOfMetricsInvStep
<1> QED
  BY <1>1, <1>2, <1>3, PTL DEF Spec

-----------------------------------------------------------------------------
(* Between the decision and the event nothing changes the health recorded  *)
(* but resetFlows and another connection's metric, and both leave an       *)
(* excuse: the latter because the decision has just started the throttle.  *)
HealthInv ==
  /\ tpc \in [Conn -> {"idle", "cast", "casting", "judge", "emit"}]
  /\ batch \in [Conn -> Metric \cup {None}]
  /\ excused \in BOOLEAN /\ recent \in BOOLEAN
  /\ \A c \in Conn : tpc[c] # "idle" => batch[c] \in Metric
  /\ ~excused => \A c, d \in Emitting : c = d
  /\ ~excused => \A c \in Emitting : recent /\ batch[c].st = status
  /\ OnlyExcusedDiffers

LEMMA HealthInvInit == Init => HealthInv
  BY DEF Init, HealthInit, HealthInv, OnlyExcusedDiffers, Emitting

(* A read pump that moves on without a decision.                           *)
LEMMA QuietKeeps ==
  ASSUME HealthInv, NEW c \in Conn, tpc[c] # "emit",
         NEW pc \in {"idle", "cast", "casting", "judge"},
         NEW m \in Metric \cup {None}, pc # "idle" => m \in Metric,
         tpc' = [tpc EXCEPT ![c] = pc], batch' = [batch EXCEPT ![c] = m],
         UNCHANGED <<status, told, excused, recent>>
  PROVE  HealthInv'
<1>1. Emitting' = Emitting
  BY DEF HealthInv, Emitting
<1>2. \A d \in Emitting : batch'[d] = batch[d]
  BY DEF HealthInv, Emitting
<1>3. \A d \in Conn : tpc'[d] # "idle" => batch'[d] \in Metric
  BY DEF HealthInv
<1> QED
  BY <1>1, <1>2, <1>3 DEF HealthInv, OnlyExcusedDiffers

LEMMA JudgeKeeps ==
  ASSUME HealthInv, NEW c \in Conn, Judge(c)
  PROVE  HealthInv'
<1> DEFINE news == batch[c].st # status /\ ~Expected(batch[c])
<1>1. tpc[c] = "judge" /\ batch[c] \in Metric /\ status' = batch[c].st /\ told' = told
  BY DEF Judge, HealthInv
<1>2. status' # ""
  BY <1>1 DEF Metric, Status
<1>3. CASE news /\ ~recent
  <2>1. /\ tpc' = [tpc EXCEPT ![c] = "emit"] /\ batch' = batch
        /\ recent' = TRUE /\ excused' = (Emitting # {})
    BY <1>3 DEF Judge, GoOn, HealthInv
  <2>2. Emitting' = Emitting \cup {c}
    BY <2>1 DEF Emitting, HealthInv
  <2>3. \A d \in Conn : tpc'[d] # "idle" => batch'[d] \in Metric
    BY <1>1, <2>1 DEF HealthInv
  <2>4. ~excused' => Emitting' = {c}
    BY <2>1, <2>2
  <2> QED
    BY <1>1, <2>1, <2>2, <2>3, <2>4 DEF HealthInv, OnlyExcusedDiffers
<1>4. CASE ~(news /\ ~recent)
  <2>1. /\ tpc' = [tpc EXCEPT ![c] = "idle"] /\ batch' = [batch EXCEPT ![c] = None]
        /\ recent' = recent
        /\ excused' = IF news THEN TRUE ELSE excused
    BY <1>4 DEF Judge, Done, HealthInv
  <2>2. Emitting' = Emitting
    BY <1>1, <2>1 DEF Emitting, HealthInv
  <2>3. \A d \in Conn : tpc'[d] # "idle" => tpc[d] # "idle" /\ batch'[d] = batch[d]
    BY <2>1 DEF HealthInv
  <2>4. \A d \in Emitting : batch'[d] = batch[d]
    BY <1>1, <2>1 DEF Emitting, HealthInv
  <2>5. tpc' \in [Conn -> {"idle", "cast", "casting", "judge", "emit"}]
        /\ batch' \in [Conn -> Metric \cup {None}]
        /\ excused' \in BOOLEAN /\ recent' \in BOOLEAN
    BY <2>1 DEF HealthInv
  <2>6. CASE news
    BY <2>1, <2>3, <2>5, <2>6 DEF HealthInv, OnlyExcusedDiffers
  <2>7. CASE ~news
    <3>1. excused' = excused
      BY <2>1, <2>7
    <3>2. batch[c].st = status \/ (status = "" /\ status' = "healthy")
      BY <1>1, <2>7 DEF Expected
    <3>3. ~excused => \A d \in Emitting : batch'[d].st = status'
      <4> SUFFICES ASSUME ~excused, NEW d \in Emitting PROVE batch'[d].st = status'
        OBVIOUS
      <4>1. d \in Conn /\ tpc[d] = "emit" /\ batch[d].st = status
        BY DEF HealthInv, Emitting
      <4>2. batch[d].st # ""
        BY <4>1 DEF HealthInv, Metric, Status
      <4> QED
        BY <1>1, <2>4, <3>2, <4>1, <4>2
    <3>4. OnlyExcusedDiffers'
      BY <1>1, <2>2, <3>1, <3>2 DEF HealthInv, OnlyExcusedDiffers
    <3>5. \A d \in Conn : tpc'[d] # "idle" => batch'[d] \in Metric
      BY <2>3 DEF HealthInv
    <3>6. ~excused' => /\ \A d, e \in Emitting' : d = e
                       /\ \A d \in Emitting' : recent' /\ batch'[d].st = status'
      <4>1. recent' = recent
        BY <2>1
      <4> QED
        BY <2>2, <3>1, <3>3, <4>1 DEF HealthInv
    <3> QED
      BY <2>5, <3>4, <3>5, <3>6 DEF HealthInv
  <2> QED
    BY <2>6, <2>7
<1> QED
  BY <1>3, <1>4

LEMMA EmitKeeps ==
  ASSUME HealthInv, NEW c \in Conn, EmitTransition(c)
  PROVE  HealthInv'
<1>1. /\ c \in Emitting /\ told' = batch[c].st
      /\ tpc' = [tpc EXCEPT ![c] = "idle"] /\ batch' = [batch EXCEPT ![c] = None]
      /\ UNCHANGED <<status, recent, excused>>
  BY DEF EmitTransition, Done, Emitting
<1>2. Emitting' = Emitting \ {c}
  BY <1>1 DEF Emitting, HealthInv
<1>3. \A d \in Conn : tpc'[d] # "idle" => tpc[d] # "idle" /\ batch'[d] = batch[d]
  BY <1>1 DEF HealthInv
<1>4. ~excused => told' = status
  BY <1>1 DEF HealthInv
<1>5. \A d \in Emitting' : d \in Emitting /\ batch'[d] = batch[d]
  BY <1>1, <1>2 DEF Emitting, HealthInv
<1>6. OnlyExcusedDiffers'
  BY <1>1, <1>4 DEF OnlyExcusedDiffers
<1>7. tpc' \in [Conn -> {"idle", "cast", "casting", "judge", "emit"}]
      /\ batch' \in [Conn -> Metric \cup {None}]
  BY <1>1 DEF HealthInv
<1> QED
  BY <1>1, <1>3, <1>5, <1>6, <1>7 DEF HealthInv

LEMMA HealthInvStep == HealthInv /\ HealthMove => HealthInv'
<1> SUFFICES ASSUME HealthInv, HealthMove PROVE HealthInv'
  OBVIOUS
<1>1. CASE UNCHANGED <<tpc, batch, status, told, excused, recent>>
  BY <1>1 DEF HealthInv, OnlyExcusedDiffers, Emitting
<1>2. CASE HealthRestart
  BY <1>2 DEF HealthRestart, HealthInv, OnlyExcusedDiffers, Emitting
<1>3. CASE ResetFlows
  <2>1. UNCHANGED <<tpc, batch, Emitting>>
    BY <1>3 DEF ResetFlows, Emitting
  <2>2. /\ status' = "" /\ told' = "" /\ recent' = FALSE
        /\ excused' = (Emitting # {})
    BY <1>3 DEF ResetFlows
  <2> QED
    BY <2>1, <2>2 DEF HealthInv, OnlyExcusedDiffers
<1>4. CASE ThrottleEnds
  <2>1. UNCHANGED <<tpc, batch, status, told, excused, Emitting>>
        /\ recent' = FALSE /\ Emitting = {}
    BY <1>4 DEF ThrottleEnds, Emitting
  <2> QED
    BY <2>1 DEF HealthInv, OnlyExcusedDiffers
<1>5. ASSUME NEW c \in Conn, NEW m \in Metric, NEW replay \in BOOLEAN,
             OnTelemetry(c, m, replay)
      PROVE  HealthInv'
  BY <1>5, QuietKeeps DEF OnTelemetry
<1>6. ASSUME NEW c \in Conn, BeginBroadcast(c) PROVE HealthInv'
  <2>1. batch[c] \in Metric /\ batch' = [batch EXCEPT ![c] = batch[c]]
    BY <1>6 DEF BeginBroadcast, GoOn, HealthInv
  <2> QED
    BY <1>6, <2>1, QuietKeeps DEF BeginBroadcast, GoOn
<1>7. ASSUME NEW c \in Conn, EndBroadcast(c) PROVE HealthInv'
  <2>1. CASE replayed[c]
    BY <1>7, <2>1, QuietKeeps DEF EndBroadcast, Done
  <2>2. CASE ~replayed[c]
    <3>1. batch[c] \in Metric /\ batch' = [batch EXCEPT ![c] = batch[c]]
      BY <1>7, <2>2 DEF EndBroadcast, GoOn, HealthInv
    <3> QED
      BY <1>7, <2>2, <3>1, QuietKeeps DEF EndBroadcast, GoOn
  <2> QED
    BY <2>1, <2>2
<1> QED
  BY <1>1, <1>2, <1>3, <1>4, <1>5, <1>6, <1>7, JudgeKeeps, EmitKeeps
  DEF HealthMove, healthVars, Clear, Emit, TakeEvent

(* controller.go:586-588: the last event and the health recorded agree but *)
(* for the named excuses.                                                  *)
THEOREM NodeOnlyExcusedDiffers == Spec => []OnlyExcusedDiffers
<1>1. HealthInv => OnlyExcusedDiffers
  BY DEF HealthInv
<1>2. HealthInv /\ [Next]_vars => HealthInv'
  BY NextHealth, HealthInvStep
<1> QED
  BY <1>1, <1>2, HealthInvInit, PTL DEF Spec

-----------------------------------------------------------------------------
(* The types.  What the invariants above leave open, of the sessions ...   *)
LEMMA Bounds == MaxSeq \in Nat /\ BusCap \in Nat /\ QCap \in Nat /\ MaxInputs \in Nat
<1>1. MaxSeq \in Nat /\ BusCap \in Nat
  BY HealthAssumption
<1>2. QCap \in Nat
  BY SessionsAssumption
<1>3. MaxInputs \in Nat
  BY ControllerAssumption
<1> QED
  BY <1>1, <1>2, <1>3

UiTypes ==
  /\ UiInv
  /\ gone \subseteq Session /\ rlock \subseteq Caster
  /\ q \in [Session -> 0..QCap]
  /\ rpc \in [Session -> {"none", "read", "remove", "ended"}]

LEMMA UiTypesStep == UiTypes /\ UiMove => UiTypes'
<1> SUFFICES ASSUME UiTypes, UiMove PROVE UiTypes'
  OBVIOUS
<1>1. UiInv'
  BY UiInvStep DEF UiTypes
<1>2. QCap \in Nat
  BY Bounds
<1> USE DEF UiTypes
<1>3. CASE UNCHANGED uiVars
  BY <1>1, <1>3 DEF uiVars
<1>4. CASE UiRestart
  BY <1>1, <1>2, <1>4 DEF UiRestart
<1>5. ASSUME NEW c \in Caster, NEW only \in BOOLEAN, Broadcast(c, only) PROVE UiTypes'
  BY <1>1, <1>5 DEF Broadcast
<1>6. ASSUME NEW c \in Caster, EndCast(c) PROVE UiTypes'
  BY <1>1, <1>6 DEF EndCast
<1>7. ASSUME NEW c \in Caster, NEW s \in Session, Offer(c, s) PROVE UiTypes'
  <2>1. q' \in [Session -> 0..QCap]
    BY <1>2, <1>7 DEF Offer
  <2> QED
    BY <1>1, <1>7, <2>1 DEF Offer
<1>8. ASSUME NEW s \in Session, Open(s) \/ BrowserGone(s) PROVE UiTypes'
  BY <1>1, <1>8 DEF Open, BrowserGone
<1>9. ASSUME NEW s \in Session, Range(s) PROVE UiTypes'
  <2>1. q' \in [Session -> 0..QCap]
    BY <1>2, <1>9 DEF Range
  <2> QED
    BY <1>1, <1>9, <2>1 DEF Range
<1>10. ASSUME NEW s \in Session, WriteJSON(s) \/ WriterRemoves(s) \/ ReadFails(s) \/ ReaderRemoves(s)
       PROVE  UiTypes'
  BY <1>1, <1>10 DEF WriteJSON, WriterRemoves, ReadFails, ReaderRemoves
<1> QED
  BY <1>3, <1>4, <1>5, <1>6, <1>7, <1>8, <1>9, <1>10 DEF UiMove, CastStep, SessionStep

(* ... and of the flow's health ...                                        *)
HealthTypes ==
  /\ HealthInv /\ StoreOfMetricsInv
  /\ highest \in 0..MaxSeq
  /\ status \in Status \cup {""} /\ told \in Status \cup {""}
  /\ replayed \in [Conn -> BOOLEAN]
  /\ bus \in 0..BusCap

LEMMA HealthTypesStep == HealthTypes /\ HealthMove => HealthTypes'
<1> SUFFICES ASSUME HealthTypes, HealthMove PROVE HealthTypes'
  OBVIOUS
<1>1. HealthInv' /\ StoreOfMetricsInv'
  BY HealthInvStep, StoreOfMetricsInvStep DEF HealthTypes
<1>2. MaxSeq \in Nat /\ BusCap \in Nat
  BY Bounds
<1>3. \A c \in Conn : tpc[c] # "idle" => batch[c].st \in Status
  BY DEF HealthTypes, HealthInv, Metric
<1>t. highest \in 0..MaxSeq /\ bus \in 0..BusCap
  BY DEF HealthTypes
<1>r. replayed \in [Conn -> BOOLEAN]
  BY DEF HealthTypes
<1>s. status \in Status \cup {""} /\ told \in Status \cup {""}
  BY DEF HealthTypes
<1>4. highest' \in 0..MaxSeq
  <2>1. ASSUME NEW c \in Conn, NEW m \in Metric, NEW r \in BOOLEAN, OnTelemetry(c, m, r)
        PROVE  highest' \in 0..MaxSeq
    <3>1. m.seq \in 1..MaxSeq /\ highest' = IF m.seq > highest THEN m.seq ELSE highest
      BY <2>1 DEF OnTelemetry, Metric
    <3> QED
      BY <1>2, <1>t, <3>1
  <2>2. CASE highest' = highest \/ highest' = 0
    BY <1>2, <1>t, <2>2
  <2> QED
    BY <2>1, <2>2 DEF HealthMove, healthVars, HealthRestart, Clear, ResetFlows, Emit, TakeEvent,
       ThrottleEnds, BeginBroadcast, EndBroadcast, Judge, EmitTransition
<1>5. status' \in Status \cup {""} /\ told' \in Status \cup {""}
  <2>1. CASE \E c \in Conn : Judge(c) \/ EmitTransition(c)
    BY <1>3, <1>s, <2>1 DEF Judge, EmitTransition
  <2>2. CASE status' \in {status, ""} /\ told' \in {told, ""}
    BY <1>s, <2>2
  <2> QED
    BY <2>1, <2>2 DEF HealthMove, healthVars, HealthRestart, Clear, ResetFlows, Emit, TakeEvent,
       ThrottleEnds, BeginBroadcast, EndBroadcast, OnTelemetry
<1>6. replayed' \in [Conn -> BOOLEAN]
  <2>1. CASE \/ UNCHANGED replayed
             \/ replayed' = [c \in Conn |-> FALSE]
             \/ \E c \in Conn, r \in BOOLEAN : replayed' = [replayed EXCEPT ![c] = r]
    BY <1>r, <2>1
  <2>2. CASE UNCHANGED healthVars
    BY <2>1, <2>2 DEF healthVars
  <2>3. CASE HealthRestart
    BY <2>1, <2>3 DEF HealthRestart
  <2>4. CASE Clear \/ ResetFlows \/ Emit \/ TakeEvent \/ ThrottleEnds
    BY <2>1, <2>4 DEF Clear, ResetFlows, Emit, TakeEvent, ThrottleEnds
  <2>5. ASSUME NEW c \in Conn, NEW m \in Metric, NEW r \in BOOLEAN, OnTelemetry(c, m, r)
        PROVE  replayed' \in [Conn -> BOOLEAN]
    BY <2>1, <2>5 DEF OnTelemetry
  <2>6. ASSUME NEW c \in Conn,
               BeginBroadcast(c) \/ EndBroadcast(c) \/ Judge(c) \/ EmitTransition(c)
        PROVE  replayed' \in [Conn -> BOOLEAN]
    BY <2>1, <2>6 DEF BeginBroadcast, EndBroadcast, Judge, EmitTransition, GoOn, Done
  <2> QED
    BY <2>2, <2>3, <2>4, <2>5, <2>6 DEF HealthMove
<1>7. bus' \in 0..BusCap
  <2>1. CASE Publish
    BY <1>2, <1>t, <2>1 DEF Publish
  <2>2. CASE TakeEvent
    BY <1>2, <1>t, <2>2 DEF TakeEvent
  <2>3. CASE bus' \in {bus, 0}
    BY <1>2, <1>t, <2>3
  <2> QED
    BY <2>1, <2>2, <2>3 DEF HealthMove, healthVars, HealthRestart, Clear, ResetFlows, Emit,
       ThrottleEnds, BeginBroadcast, EndBroadcast, OnTelemetry, Judge, EmitTransition
<1> QED
  BY <1>1, <1>4, <1>5, <1>6, <1>7 DEF HealthTypes

(* ... and of the stores.                                                  *)
StoreTypes ==
  /\ StoreInv
  /\ flocked \in BOOLEAN /\ overlap \in BOOLEAN /\ failing \in BOOLEAN
  /\ funsaved \in BOOLEAN /\ aunsaved \in BOOLEAN

LEMMA StoreTypesStep == StoreTypes /\ StoreMove => StoreTypes'
<1> SUFFICES ASSUME StoreTypes, StoreMove PROVE StoreTypes'
  OBVIOUS
<1>1. StoreInv'
  BY StoreInvStep DEF StoreTypes
<1>2. /\ flocked' \in BOOLEAN /\ overlap' \in BOOLEAN /\ failing' \in BOOLEAN
      /\ funsaved' \in BOOLEAN /\ aunsaved' \in BOOLEAN
  <2> USE DEF StoreTypes, flowVars, adminVars
  <2>1. CASE UNCHANGED storeVars
    BY <2>1 DEF storeVars
  <2>2. CASE ChangeFlows \/ SaveLocked
    BY <2>2 DEF ChangeFlows, SaveLocked
  <2>3. CASE Reload \/ DiskTurns
    BY <2>3 DEF Reload, DiskTurns
  <2>4. ASSUME NEW u \in Updater, ChangeSettings(u) \/ Marshal(u)
        PROVE  /\ flocked' \in BOOLEAN /\ overlap' \in BOOLEAN /\ failing' \in BOOLEAN
               /\ funsaved' \in BOOLEAN /\ aunsaved' \in BOOLEAN
    BY <2>4 DEF ChangeSettings, Marshal
  <2>5. ASSUME NEW u \in Updater, Truncate(u) \/ Write(u)
        PROVE  /\ flocked' \in BOOLEAN /\ overlap' \in BOOLEAN /\ failing' \in BOOLEAN
               /\ funsaved' \in BOOLEAN /\ aunsaved' \in BOOLEAN
    BY <2>5 DEF Truncate, Write
  <2> QED
    BY <2>1, <2>2, <2>3, <2>4, <2>5 DEF StoreMove
<1> QED
  BY <1>1, <1>2 DEF StoreTypes

-----------------------------------------------------------------------------
(* A request with its first calls made: whoever has changed the flows, and *)
(* nobody else, saves them next.                                           *)
Work ==
  {<<>>, <<"emit">>, <<"clear", "emit">>, <<"reset", "clear", "emit">>,
   <<"clear">>, <<"save", "clear">>, <<"change", "save", "clear">>,
   <<"save", "change", "save", "clear">>, <<"change", "save", "change", "save", "clear">>}

SavesNext(t) == t # <<>> /\ Head(t) = "save"

LEMMA WorkTail ==
  ASSUME NEW t \in Work, t # <<>>
  PROVE  Tail(t) \in Work /\ (SavesNext(Tail(t)) <=> Head(t) = "change")
<1>1. CASE t = <<"emit">> \/ t = <<"clear">>
  <2>1. Tail(t) = <<>> /\ Head(t) \in {"emit", "clear"}
    <3>1. CASE t = <<"emit">>
      BY <3>1
    <3>2. CASE t = <<"clear">>
      BY <3>2
    <3> QED
      BY <1>1, <3>1, <3>2
  <2> QED
    BY <2>1 DEF Work, SavesNext
<1>2. CASE t = <<"clear", "emit">>
  <2>1. Tail(t) = <<"emit">> /\ Head(t) = "clear" /\ Head(<<"emit">>) = "emit"
    BY <1>2
  <2> QED
    BY <2>1 DEF Work, SavesNext
<1>3. CASE t = <<"reset", "clear", "emit">>
  <2>1. Tail(t) = <<"clear", "emit">> /\ Head(t) = "reset" /\ Head(<<"clear", "emit">>) = "clear"
    BY <1>3
  <2> QED
    BY <2>1 DEF Work, SavesNext
<1>4. CASE t = <<"save", "clear">>
  <2>1. Tail(t) = <<"clear">> /\ Head(t) = "save" /\ Head(<<"clear">>) = "clear"
    BY <1>4
  <2> QED
    BY <2>1 DEF Work, SavesNext
<1>5. CASE t = <<"change", "save", "clear">>
  <2>1. Tail(t) = <<"save", "clear">> /\ Head(t) = "change" /\ Head(<<"save", "clear">>) = "save"
    BY <1>5
  <2>2. <<"save", "clear">> # <<>>
    OBVIOUS
  <2> QED
    BY <2>1, <2>2 DEF Work, SavesNext
<1>6. CASE t = <<"save", "change", "save", "clear">>
  <2>1. /\ Tail(t) = <<"change", "save", "clear">> /\ Head(t) = "save"
        /\ Head(<<"change", "save", "clear">>) = "change"
    BY <1>6
  <2> QED
    BY <2>1 DEF Work, SavesNext
<1>7. CASE t = <<"change", "save", "change", "save", "clear">>
  <2>1. /\ Tail(t) = <<"save", "change", "save", "clear">> /\ Head(t) = "change"
        /\ Head(<<"save", "change", "save", "clear">>) = "save"
    BY <1>7
  <2>2. <<"save", "change", "save", "clear">> # <<>>
    OBVIOUS
  <2> QED
    BY <2>1, <2>2 DEF Work, SavesNext
<1> QED
  BY <1>1, <1>2, <1>3, <1>4, <1>5, <1>6, <1>7 DEF Work

LEMMA RequestsAreWork ==
  ASSUME NEW r \in {TestChange, FlowEdit, FlowsMesh}
  PROVE  r \in Work /\ ~ SavesNext(r)
<1>1. CASE r = TestChange
  <2>1. Head(<<"reset", "clear", "emit">>) = "reset"
    OBVIOUS
  <2> QED
    BY <1>1, <2>1 DEF TestChange, Work, SavesNext
<1>2. CASE r = FlowEdit \/ r = FlowsMesh
  <2>1. Head(<<"change", "save", "clear">>) = "change"
        /\ Head(<<"change", "save", "change", "save", "clear">>) = "change"
    OBVIOUS
  <2> QED
    BY <1>2, <2>1 DEF FlowEdit, FlowsMesh, Work, SavesNext
<1> QED
  BY <1>1, <1>2

LockInv ==
  /\ todo \in [Handler -> Work]
  /\ flocked <=> \E h \in Handler : SavesNext(todo[h])
  /\ \A g, h \in Handler : SavesNext(todo[g]) /\ SavesNext(todo[h]) => g = h

LEMMA LockHandle ==
  ASSUME LockInv, NEW h \in Handler, Handle(h)
  PROVE  LockInv'
<1> USE DEF flowVars, adminVars
<1> DEFINE t == Tail(todo[h])
<1>1. todo[h] \in Work /\ todo[h] # <<>> /\ todo' = [todo EXCEPT ![h] = t]
  BY DEF LockInv, Handle
<1>2. t \in Work /\ (SavesNext(t) <=> Head(todo[h]) = "change")
  BY <1>1, WorkTail
<1> HIDE DEF t
<1>3. todo' \in [Handler -> Work] /\ todo'[h] = t /\ \A g \in Handler : g # h => todo'[g] = todo[g]
  BY <1>1, <1>2 DEF LockInv
<1>4. CASE Head(todo[h]) = "change"
  <2>1. ~ flocked /\ flocked'
    BY <1>4 DEF Handle, Call, OfStores, ChangeFlows
  <2>2. SavesNext(todo'[h]) /\ \A g \in Handler : g # h => ~ SavesNext(todo'[g])
    BY <1>2, <1>3, <1>4, <2>1 DEF LockInv
  <2> QED
    BY <1>3, <2>1, <2>2 DEF LockInv
<1>5. CASE Head(todo[h]) = "save"
  <2>1. ~ flocked' /\ SavesNext(todo[h])
    BY <1>1, <1>5 DEF Handle, Call, OfStores, SaveLocked, SavesNext
  <2>2. \A g \in Handler : ~ SavesNext(todo'[g])
    BY <1>2, <1>3, <1>5, <2>1 DEF LockInv
  <2> QED
    BY <1>3, <2>1, <2>2 DEF LockInv
<1>6. CASE Head(todo[h]) \notin {"change", "save"}
  <2>1. flocked' = flocked /\ ~ SavesNext(todo[h]) /\ ~ SavesNext(todo'[h])
    BY <1>2, <1>3, <1>6 DEF Handle, Call, OfHealth, storeVars, SavesNext
  <2>2. \A g \in Handler : SavesNext(todo'[g]) <=> SavesNext(todo[g])
    BY <1>3, <2>1
  <2> QED
    BY <1>3, <2>1, <2>2 DEF LockInv
<1> QED
  BY <1>4, <1>5, <1>6

LEMMA LockStep == LockInv /\ [Next]_vars => LockInv'
<1> SUFFICES ASSUME LockInv, [Next]_vars PROVE LockInv'
  OBVIOUS
<1> USE DEF flowVars, adminVars
<1>1. ASSUME UNCHANGED <<todo, flocked>> PROVE LockInv'
  BY <1>1 DEF LockInv
<1>2. CASE Input
  <2>1. ASSUME NEW h \in Handler, Request(h) PROVE LockInv'
    <3>1. PICK r \in {TestChange, FlowEdit, FlowsMesh} : todo' = [todo EXCEPT ![h] = r]
      BY <2>1 DEF Request
    <3>2. r \in Work /\ ~ SavesNext(r) /\ ~ SavesNext(todo[h]) /\ flocked' = flocked
      BY <2>1, <3>1, RequestsAreWork DEF Request, SavesNext, storeVars
    <3>3. todo' \in [Handler -> Work]
      BY <3>1, <3>2 DEF LockInv
    <3>4. \A g \in Handler : SavesNext(todo'[g]) <=> SavesNext(todo[g])
      BY <3>1, <3>2 DEF LockInv
    <3> QED
      BY <3>2, <3>3, <3>4 DEF LockInv
  <2>2. CASE \E u \in Updater : AdminUpdate(u)
    BY <1>1, <2>2 DEF AdminUpdate, OfStores, ChangeSettings
  <2>3. CASE (\E s \in Session : OfMedia(Open(s)) /\ UNCHANGED healthVars)
             \/ \E c \in Conn : OnDiag(c)
    BY <1>1, <2>3 DEF OfMedia, OnDiag, storeVars
  <2>4. CASE (\E c \in Conn : Metrics(c)) \/ Event
    BY <1>1, <2>4 DEF Metrics, OfHealth, Event, storeVars
  <2>5. CASE Restart
    <3>1. todo' = [h \in Handler |-> <<>>] /\ flocked' = FALSE /\ <<>> \in Work
      BY <2>5 DEF Restart, Reload, Work
    <3> QED
      BY <3>1 DEF LockInv, SavesNext
  <2>6. CASE OfStores(DiskTurns) /\ UNCHANGED todo
    BY <1>1, <2>6 DEF OfStores, DiskTurns
  <2> QED
    BY <1>2, <2>1, <2>2, <2>3, <2>4, <2>5, <2>6 DEF Input
<1>3. CASE \E h \in Handler : Handle(h)
  BY <1>3, LockHandle
<1>4. CASE PumpEvents \/ Throttle \/ \E c \in Conn : Reader(c)
  BY <1>1, <1>4 DEF PumpEvents, Throttle, OfHealth, Reader, storeVars
<1>5. CASE \E u \in Updater : AdminSave(u) \/ AdminSaved(u)
  BY <1>1, <1>5 DEF AdminSave, AdminSaved, Marshal, Truncate, Write
<1>6. CASE \E s \in Session : OfUi(BrowserGone(s) \/ SessionStep(s))
  BY <1>1, <1>6 DEF OfUi, storeVars
<1>7. CASE UNCHANGED vars
  BY <1>1, <1>7 DEF vars, storeVars
<1> QED
  BY <1>2, <1>3, <1>4, <1>5, <1>6, <1>7 DEF Next

InputTypes == ninput \in 0..MaxInputs

LEMMA InputTypesStep == InputTypes /\ [Next]_vars => InputTypes'
<1> SUFFICES ASSUME InputTypes, [Next]_vars PROVE InputTypes'
  OBVIOUS
<1>1. CASE Input
  BY <1>1, Bounds DEF Input, InputTypes
<1>2. CASE ninput' = ninput
  BY <1>2 DEF InputTypes
<1> QED
  BY <1>1, <1>2
  DEF Next, PumpEvents, Throttle, Reader, Handle, AdminSave, AdminSaved, OfUi, vars

LEMMA NodeTypesInit == Init => UiTypes /\ HealthTypes /\ StoreTypes /\ LockInv /\ InputTypes
<1> SUFFICES ASSUME Init PROVE UiTypes /\ HealthTypes /\ StoreTypes /\ LockInv /\ InputTypes
  OBVIOUS
<1>1. UiTypes
  BY UiInvInit, Bounds DEF Init, UiInit, UiTypes
<1>2. HealthTypes
  <2>1. StoreOfMetricsInv
    BY DEF Init, HealthInit, StoreOfMetricsInv, NewestSinceClear
  <2>2. highest \in 0..MaxSeq /\ bus \in 0..BusCap
    <3>1. highest = 0 /\ bus = 0
      BY DEF Init, HealthInit
    <3> QED
      BY <3>1, Bounds
  <2>3. /\ status \in Status \cup {""} /\ told \in Status \cup {""}
        /\ replayed \in [Conn -> BOOLEAN]
    BY DEF Init, HealthInit
  <2> QED
    BY <2>1, <2>2, <2>3, HealthInvInit DEF HealthTypes
<1>3. StoreTypes
  BY StoreInvInit DEF Init, StoresInit, StoreTypes
<1>4. LockInv
  <2>1. <<>> \in Work
    BY DEF Work
  <2> QED
    BY <2>1 DEF Init, StoresInit, LockInv, SavesNext
<1>5. InputTypes
  BY Bounds DEF Init, InputTypes
<1> QED
  BY <1>1, <1>2, <1>3, <1>4, <1>5

LEMMA NodeTypesHold ==
  ASSUME UiTypes, HealthTypes, StoreTypes, LockInv, InputTypes
  PROVE  TypeOK
<1>1. /\ {fmem, amem, nchange} \cup {copy[u] : u \in Updater} \subseteq Nat
      /\ ffile \in Nat \cup {Torn} /\ afile \in Nat \cup {Torn}
      /\ upc \in [Updater -> {"idle", "marshal", "truncate", "write", "fail"}]
  BY DEF StoreTypes, StoreInv
<1>2. flocked <=> \E h \in Handler : todo[h] # <<>> /\ Head(todo[h]) = "save"
  BY DEF LockInv, SavesNext
<1>3. /\ clients \subseteq Session /\ closed \subseteq Session /\ gone \subseteq Session
      /\ q \in [Session -> 0..QCap]
      /\ wpc \in [Session -> {"none", "range", "write", "remove", "ended"}]
      /\ rpc \in [Session -> {"none", "read", "remove", "ended"}]
      /\ rlock \subseteq Caster /\ visit \in [Caster -> SUBSET Session]
      /\ \A c \in Caster : visit[c] # {} => c \in rlock
  BY DEF UiTypes, UiInv
<1>4. /\ latest \in Metric \cup {None} /\ batch \in [Conn -> Metric \cup {None}]
      /\ highest \in 0..MaxSeq
      /\ status \in Status \cup {""} /\ told \in Status \cup {""}
      /\ tpc \in [Conn -> {"idle", "cast", "casting", "judge", "emit"}]
      /\ replayed \in [Conn -> BOOLEAN]
      /\ bus \in 0..BusCap
  BY DEF HealthTypes, HealthInv, StoreOfMetricsInv
<1>5. {flocked, overlap, funsaved, aunsaved, failing, recent, excused} \subseteq BOOLEAN
  BY DEF StoreTypes, HealthTypes, HealthInv
<1>6. ninput \in 0..MaxInputs
  BY DEF InputTypes
<1> QED
  BY <1>1, <1>2, <1>3, <1>4, <1>5, <1>6 DEF TypeOK

(* Types, and the two locks: flowStore.mu is held by the one handler       *)
(* inside a change, the hub's read lock by whoever has sessions to visit.  *)
THEOREM NodeTypes == Spec => []TypeOK
<1> DEFINE I == UiTypes /\ HealthTypes /\ StoreTypes /\ LockInv /\ InputTypes
<1>1. Init => I
  BY NodeTypesInit
<1>2. I /\ [Next]_vars => I'
  BY NextUi, NextHealth, NextStores, UiTypesStep, HealthTypesStep, StoreTypesStep, LockStep,
     InputTypesStep
<1>3. I => TypeOK
  BY NodeTypesHold
<1> HIDE DEF I
<1> QED
  BY <1>1, <1>2, <1>3, PTL DEF Spec
=============================================================================
