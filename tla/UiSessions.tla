------------------------------ MODULE UiSessions ------------------------------
(***************************************************************************)
(* The browsers' sessions (uistream.Hub and serveUI): goroutines broadcast *)
(* to the registered sessions without waiting for any, under a read lock;  *)
(* a session's reader and its writer each deregister it, under the write   *)
(* lock, and whoever is first closes the channel both Broadcast and the    *)
(* writer use.                                                             *)
(***************************************************************************)
EXTENDS Naturals, FiniteSets

CONSTANTS
  Session,     \* browser sessions, one websocket each
  Privileged,  \* those that showed the token: they get diagnostics as well
  Caster,      \* goroutines that broadcast
  QCap         \* capacity of a session's channel (256 in the code)

ASSUME SessionsAssumption == Privileged \subseteq Session /\ QCap \in Nat \ {0}

VARIABLES
  clients,  \* the sessions registered in the Hub
  closed,   \* those whose channel is closed
  q,        \* messages in each session's channel
  wpc,      \* the writer of each, serveUI itself
  rpc,      \* the reader of each
  gone,     \* sessions whose browser is gone
  rlock,    \* goroutines inside Broadcast, holding mu for reading
  visit     \* per goroutine: the sessions its loop has yet to visit

uiVars == <<clients, closed, q, wpc, rpc, gone, rlock, visit>>

UiInit ==
  /\ clients = {} /\ closed = {} /\ gone = {} /\ rlock = {}
  /\ q = [s \in Session |-> 0]
  /\ wpc = [s \in Session |-> "none"]
  /\ rpc = [s \in Session |-> "none"]
  /\ visit = [c \in Caster |-> {}]

(* The process ends, and its websockets with it.                           *)
UiRestart ==
  /\ clients' = {} /\ closed' = {} /\ gone' = {} /\ rlock' = {}
  /\ q' = [s \in Session |-> 0]
  /\ wpc' = [s \in Session |-> "none"]
  /\ rpc' = [s \in Session |-> "none"]
  /\ visit' = [c \in Caster |-> {}]

-----------------------------------------------------------------------------
(* Hub.                                                                    *)

(* A bug to compare with: Add and Remove take the lock for reading.        *)
Shared == TRUE

(* mu can be taken for writing.                                            *)
Exclusive == rlock = {}

Add(s) ==
  /\ Exclusive
  /\ clients' = clients \cup {s}

(* The second Remove of a session finds it gone and does nothing.          *)
Remove(s) ==
  /\ Exclusive
  /\ clients' = clients \ {s}
  /\ closed' = closed \cup (clients \cap {s})

(* Broadcast: the lock, and the sessions to visit ...                      *)
Broadcast(c, onlyPrivileged) ==
  /\ c \notin rlock
  /\ rlock' = rlock \cup {c}
  /\ visit' = [visit EXCEPT ![c] =
       IF onlyPrivileged THEN clients \cap Privileged ELSE clients]
  /\ UNCHANGED <<clients, closed, q, wpc, rpc, gone>>

(* ... a send to each, in any order, that a full channel drops ...         *)
Offer(c, s) ==
  /\ s \in visit[c]
  /\ visit' = [visit EXCEPT ![c] = @ \ {s}]
  /\ q' = [q EXCEPT ![s] = IF @ < QCap THEN @ + 1 ELSE @]
  /\ UNCHANGED <<clients, closed, wpc, rpc, gone, rlock>>

(* A bug to compare with: the sessions are copied under the lock, and sent *)
(* to without it.                                                          *)
EndCastEarly(c) ==
  /\ c \in rlock
  /\ rlock' = rlock \ {c}
  /\ UNCHANGED <<clients, closed, q, wpc, rpc, gone, visit>>

(* ... and the unlock.                                                     *)
EndCast(c) ==
  /\ c \in rlock /\ visit[c] = {}
  /\ rlock' = rlock \ {c}
  /\ UNCHANGED <<clients, closed, q, wpc, rpc, gone, visit>>

CastStep(c) == EndCast(c) \/ \E s \in Session : Offer(c, s)

-----------------------------------------------------------------------------
(* serveUI.                                                                *)
Open(s) ==
  /\ wpc[s] = "none"
  /\ Add(s)
  /\ wpc' = [wpc EXCEPT ![s] = "range"]
  /\ rpc' = [rpc EXCEPT ![s] = "read"]
  /\ UNCHANGED <<closed, q, gone, rlock, visit>>

(* The browser's tab is closed or its host unreachable (external).         *)
BrowserGone(s) ==
  /\ wpc[s] # "none" /\ s \notin gone
  /\ gone' = gone \cup {s}
  /\ UNCHANGED <<clients, closed, q, wpc, rpc, rlock, visit>>

(* The writer takes a message, or finds the channel closed and empty.      *)
Range(s) ==
  /\ wpc[s] = "range"
  /\ \/ q[s] > 0
        /\ q' = [q EXCEPT ![s] = @ - 1]
        /\ wpc' = [wpc EXCEPT ![s] = "write"]
     \/ q[s] = 0 /\ s \in closed
        /\ wpc' = [wpc EXCEPT ![s] = "remove"]
        /\ UNCHANGED q
  /\ UNCHANGED <<clients, closed, rpc, gone, rlock, visit>>

(* WriteJSON: what is written to a browser that is gone may still fit into *)
(* the socket's buffer; a browser that does not read costs the session its *)
(* 10 s deadline.                                                          *)
WriteJSON(s) ==
  /\ wpc[s] = "write"
  /\ wpc' = [wpc EXCEPT ![s] = "remove"] \/ wpc' = [wpc EXCEPT ![s] = "range"]
  /\ UNCHANGED <<clients, closed, q, rpc, gone, rlock, visit>>

(* The deferred calls: Remove, then conn.Close.                            *)
WriterRemoves(s) ==
  /\ wpc[s] = "remove"
  /\ Remove(s)
  /\ wpc' = [wpc EXCEPT ![s] = "ended"]
  /\ UNCHANGED <<q, rpc, gone, rlock, visit>>

(* ReadMessage fails once the browser is gone or the connection closed.    *)
ReadFails(s) ==
  /\ rpc[s] = "read"
  /\ s \in gone \/ wpc[s] = "ended"
  /\ rpc' = [rpc EXCEPT ![s] = "remove"]
  /\ UNCHANGED <<clients, closed, q, wpc, gone, rlock, visit>>

(* A bug to compare with: the reader leaves the session to its writer,     *)
(* which learns of the end only by a message to write.                     *)
ReaderReturns(s) ==
  /\ rpc[s] = "remove"
  /\ rpc' = [rpc EXCEPT ![s] = "ended"]
  /\ UNCHANGED <<clients, closed, q, wpc, gone, rlock, visit>>

ReaderRemoves(s) ==
  /\ rpc[s] = "remove"
  /\ Remove(s)
  /\ rpc' = [rpc EXCEPT ![s] = "ended"]
  /\ UNCHANGED <<q, wpc, gone, rlock, visit>>

SessionStep(s) ==
  \/ Range(s) \/ WriteJSON(s) \/ WriterRemoves(s)
  \/ ReadFails(s) \/ ReaderRemoves(s)
=============================================================================
