------------------------------- MODULE DiagRun -------------------------------
(***************************************************************************)
(* A diagnostic on an agent (diag/diag.go Run): a child process with two   *)
(* pipes, a goroutine that streams each to the controller, an output       *)
(* budget they share, a time-out that kills the child, and a last chunk    *)
(* with EOF.  A chunk is represented by the amount of output in it.        *)
(***************************************************************************)
EXTENDS Naturals

CONSTANTS
  PipeCap,    \* lines a pipe holds
  MaxOutput,  \* MaxOutputB
  MaxLine     \* chunkScanCap: no line is longer in a chunk

ASSUME DiagAssumption ==
  PipeCap \in Nat \ {0} /\ MaxOutput \in Nat /\ MaxLine \in Nat

Pipe == {"stdout", "stderr"}

VARIABLES
  dpc,      \* where Run stands
  child,    \* the child process: "none", "up", or how it ended
  piped,    \* per pipe: lines the child has written, not yet read
  rpc,      \* per pipe: where its goroutine stands
  line,     \* per pipe: the line its goroutine is about to emit
  budget,   \* output still allowed
  sent,     \* history: output emitted
  result    \* the EOF chunk: how the run ended, or "none"

diagVars == <<dpc, child, piped, rpc, line, budget, sent, result>>

DiagInit ==
  /\ dpc = "idle" /\ child = "none" /\ result = "none"
  /\ piped = [s \in Pipe |-> 0]
  /\ rpc = [s \in Pipe |-> "ended"]
  /\ line = [s \in Pipe |-> 0]
  /\ budget = MaxOutput /\ sent = 0

-----------------------------------------------------------------------------
Finish(r) ==
  /\ dpc' = "ended"
  /\ result' = r

(* A request for a command that resolve does not know, or for one the host *)
(* cannot start, ends at once with its EOF chunk; else the child runs.     *)
Refuse(r) ==
  /\ dpc = "idle"
  /\ Finish(r)
  /\ UNCHANGED <<child, piped, rpc, line, budget, sent>>

StartChild ==
  /\ dpc = "idle"
  /\ dpc' = "streaming"
  /\ child' = "up"
  /\ rpc' = [s \in Pipe |-> "scan"]
  /\ UNCHANGED <<piped, line, budget, sent, result>>

(* The child writes as long as the pipe has room, and blocks on a full one *)
(* that nobody reads any more.                                             *)
ChildWrites(s) ==
  /\ child = "up" /\ piped[s] < PipeCap
  /\ piped' = [piped EXCEPT ![s] = @ + 1]
  /\ UNCHANGED <<dpc, child, rpc, line, budget, sent, result>>

ChildExits ==
  /\ child = "up"
  /\ child' = "exited"
  /\ UNCHANGED <<dpc, piped, rpc, line, budget, sent, result>>

(* MaxRuntime, or the end of the agent: the context kills the child.       *)
Kill ==
  /\ child = "up"
  /\ child' = "killed"
  /\ UNCHANGED <<dpc, piped, rpc, line, budget, sent, result>>

Least(a, b) == IF a < b THEN a ELSE b

(* A bug to compare with: a line is emitted whole.                         *)
TakeWhole(s, n) ==
  /\ rpc[s] = "scan" /\ piped[s] > 0
  /\ budget > 0
  /\ piped' = [piped EXCEPT ![s] = @ - 1]
  /\ line' = [line EXCEPT ![s] = n]
  /\ budget' = budget - Least(n, budget)
  /\ rpc' = [rpc EXCEPT ![s] = "emit"]
  /\ UNCHANGED <<dpc, child, sent, result>>

(* The goroutine of a pipe takes a line's share of the budget under        *)
(* budgetMu, or gives up when there is none left ...                       *)
Take(s, n) ==
  /\ rpc[s] = "scan" /\ piped[s] > 0
  /\ budget > 0
  /\ piped' = [piped EXCEPT ![s] = @ - 1]
  /\ line' = [line EXCEPT ![s] = Least(n, budget)]
  /\ budget' = budget - Least(n, budget)
  /\ rpc' = [rpc EXCEPT ![s] = "emit"]
  /\ UNCHANGED <<dpc, child, sent, result>>

(* A bug to compare with: it waits instead.                                *)
GiveUpAtEof(s) ==
  /\ rpc[s] = "scan"
  /\ piped[s] = 0 /\ child # "up"
  /\ rpc' = [rpc EXCEPT ![s] = "ended"]
  /\ UNCHANGED <<dpc, child, piped, line, budget, sent, result>>

(* ... or when the line is too long for it, or the pipe is at its end.     *)
GiveUp(s) ==
  /\ rpc[s] = "scan"
  /\ piped[s] > 0 \/ child # "up"
  /\ rpc' = [rpc EXCEPT ![s] = "ended"]
  /\ UNCHANGED <<dpc, child, piped, line, budget, sent, result>>

(* The chunk is queued on the connection the request came by, or dropped   *)
(* when that has ended.                                                    *)
Emit(s) ==
  /\ rpc[s] = "emit"
  /\ sent' = sent + line[s]
  /\ line' = [line EXCEPT ![s] = 0]
  /\ rpc' = [rpc EXCEPT ![s] = "scan"]
  /\ UNCHANGED <<dpc, child, piped, budget, result>>

(* wg.Wait, then cmd.Wait, then the EOF chunk.                             *)
Streamed == \A s \in Pipe : rpc[s] = "ended"

End ==
  /\ dpc = "streaming" /\ Streamed
  /\ child # "up"
  /\ Finish(child)
  /\ UNCHANGED <<child, piped, rpc, line, budget, sent>>

StreamStep(s) == GiveUp(s) \/ Emit(s) \/ \E n \in 0..MaxLine : Take(s, n)

DiagStep ==
  \/ ChildExits \/ Kill \/ End
  \/ \E s \in Pipe : ChildWrites(s) \/ StreamStep(s)
=============================================================================
