------------------------------ MODULE AgentLink ------------------------------
(***************************************************************************)
(* The agent's one logical connection (transport/client.go): the reconnect *)
(* loop Run, a turn of it (connectOnce), the peer's two pumps and their    *)
(* shutdown (transport/pump.go), and SetMaster, which goroutines serving   *)
(* /api/join call while the loop is at any of its steps.                   *)
(***************************************************************************)
EXTENDS Naturals

CONSTANTS
  Addr,            \* controllers an agent may be pointed at
  NoAddr,          \* c.masterAddr is empty: the holding state
  Configured,      \* what its command line may say, NoAddr for nothing
  Joiner,          \* goroutines serving POST /api/join
  BackoffInitial,  \* backoffInitial and backoffMax
  BackoffMax

ASSUME LinkAssumption ==
  /\ NoAddr \notin Addr /\ Configured \subseteq Addr \cup {NoAddr}
  /\ BackoffInitial \in Nat \ {0} /\ BackoffMax \in Nat
  /\ BackoffInitial <= BackoffMax

VARIABLES
  master,     \* c.masterAddr
  joining,    \* joiners between SetMaster's two halves
  lpc,        \* where Run and connectOnce stand
  addr,       \* the address connectOnce dialled
  done,       \* the peer's done channel is closed
  wended,     \* its write pump has returned, closing the websocket
  rended,     \* its read pump has returned
  broken,     \* the TCP connection is dead
  backoff,    \* the next wait, without its jitter
  slip        \* history: SetMaster looked for a peer just before it was published

pump == <<done, wended, rended, broken>>
linkVars == <<master, joining, lpc, addr, pump, backoff, slip>>

LinkInit ==
  /\ master \in Configured
  /\ joining = {}
  /\ lpc = "top"
  /\ addr = NoAddr
  /\ done = FALSE /\ wended = FALSE /\ rended = FALSE /\ broken = FALSE
  /\ backoff = BackoffInitial
  /\ slip = FALSE

-----------------------------------------------------------------------------
(* POST /api/join: handleJoin calls SetMaster, which sets the address and  *)
(* then closes the peer it finds published, if any.                        *)
SetMasterAddr(j, a) ==
  /\ j \notin joining
  /\ master' = a
  /\ joining' = joining \cup {j}
  /\ UNCHANGED <<lpc, addr, pump, backoff, slip>>

Published == lpc = "serve"

ClosePeer(j) ==
  /\ j \in joining
  /\ joining' = joining \ {j}
  /\ done' = (done \/ Published)
  /\ slip' = (slip \/ lpc = "checked")
  /\ UNCHANGED <<master, lpc, addr, wended, rended, broken, backoff>>

(* The top of Run: nothing to dial while the address is empty, else        *)
(* connectOnce reads it.                                                   *)
Top ==
  /\ lpc = "top"
  /\ master # NoAddr
  /\ lpc' = "dial"
  /\ addr' = master
  /\ UNCHANGED <<master, joining, pump, backoff, slip>>

(* connectOnce returns and Run waits; a link that was up for long enough   *)
(* puts the back-off to its initial value first.                           *)
WaitAfter(stable) ==
  /\ lpc' = "wait"
  /\ addr' = NoAddr
  /\ slip' = FALSE
  /\ backoff' = IF stable THEN BackoffInitial ELSE backoff
  /\ done' = FALSE /\ wended' = FALSE /\ rended' = FALSE /\ broken' = FALSE
  /\ UNCHANGED <<master, joining>>

DialFails == lpc = "dial" /\ WaitAfter(FALSE)

DialOk ==
  /\ lpc = "dial"
  /\ lpc' = "dialled"
  /\ UNCHANGED <<master, joining, addr, pump, backoff, slip>>

(* A bug to compare with: no second look.                                  *)
RecheckNot ==
  /\ lpc = "dialled"
  /\ lpc' = "checked"
  /\ UNCHANGED <<master, joining, addr, pump, backoff, slip>>

(* The second look at the address: a connection dialled for another one is *)
(* dropped.                                                                *)
Recheck ==
  /\ lpc = "dialled"
  /\ IF master # addr
       THEN WaitAfter(FALSE)
       ELSE /\ lpc' = "checked"
            /\ UNCHANGED <<master, joining, addr, pump, backoff, slip>>

(* REGISTER and the spool are queued, then setPeer, then Peer.Run.         *)
SetPeer ==
  /\ lpc = "checked"
  /\ lpc' = "serve"
  /\ UNCHANGED <<master, joining, addr, pump, backoff, slip>>

(* A bug to compare with: the write pump does not watch done.              *)
WriterIgnoresDone ==
  /\ lpc = "serve" /\ ~wended
  /\ broken
  /\ wended' = TRUE
  /\ done' = TRUE
  /\ UNCHANGED <<master, joining, lpc, addr, rended, broken, backoff, slip>>

(* The write pump returns once done is closed, or on a failed write, and   *)
(* closes the websocket.  The read pump returns on the error that a closed *)
(* or dead connection gives it (read deadline 15 s), or on done alone when *)
(* that keeps it from answering a PING.                                    *)
WriterEnds ==
  /\ lpc = "serve" /\ ~wended
  /\ done \/ broken
  /\ wended' = TRUE
  /\ done' = TRUE
  /\ UNCHANGED <<master, joining, lpc, addr, rended, broken, backoff, slip>>

ReaderEnds ==
  /\ lpc = "serve" /\ ~rended
  /\ done \/ broken
  /\ rended' = TRUE
  /\ done' = TRUE
  /\ UNCHANGED <<master, joining, lpc, addr, wended, broken, backoff, slip>>

(* Peer.Run has waited for both pumps; the peer is taken back.  Its uptime *)
(* may or may not have reached stableThreshold.                            *)
EndServe ==
  /\ lpc = "serve" /\ wended /\ rended
  /\ \E stable \in BOOLEAN : WaitAfter(stable)

(* A bug to compare with: no maximum.                                      *)
nextBackoffUncapped(d) == 2 * d

nextBackoff(d) == IF 2 * d > BackoffMax THEN BackoffMax ELSE 2 * d

(* The (jittered) wait is over.                                            *)
WaitOver ==
  /\ lpc = "wait"
  /\ lpc' = "top"
  /\ backoff' = nextBackoff(backoff)
  /\ UNCHANGED <<master, joining, addr, pump, slip>>

(* The controller's end, or the network, goes away.                        *)
Cut ==
  /\ lpc = "serve" /\ ~broken
  /\ broken' = TRUE
  /\ UNCHANGED <<master, joining, lpc, addr, done, wended, rended, backoff, slip>>

=============================================================================
