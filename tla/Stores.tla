-------------------------------- MODULE Stores --------------------------------
(***************************************************************************)
(* The controller's two stores and their files: the flows                  *)
(* (controller/flows.go), saved while the store is locked, and the agents' *)
(* settings (controller/admin.go), marshalled and written after the change *)
(* is made and the lock released.  os.WriteFile truncates, then writes; it *)
(* may fail at either, and nobody looks at the error.                      *)
(* What a store holds is the number of the change that made it so; 0 is    *)
(* the empty store.                                                        *)
(***************************************************************************)
EXTENDS Naturals, FiniteSets

CONSTANTS
  Updater,  \* goroutines changing settings
  Torn      \* a file that is no JSON: truncated, or two writes mixed

ASSUME StoresAssumption == Torn \notin Nat

VARIABLES
  fmem, ffile,  \* the flows in memory and in netmesh-flows.json
  flocked,      \* flowStore.mu is held, the file truncated
  funsaved,     \* history: the latest write of the flows failed
  amem, afile,  \* the settings in memory and in netmesh-admin.json
  upc,          \* per updater: where update and save stand
  copy,         \* per updater: what it marshalled
  aunsaved,     \* history: the latest write of the settings failed
  failing,      \* writing a file fails at present
  nchange,      \* changes so far
  overlap       \* history: updates have overlapped since one was last alone

flowVars == <<fmem, ffile, flocked, funsaved>>
adminVars == <<amem, afile, upc, copy, aunsaved, overlap>>
storeVars == <<flowVars, adminVars, failing, nchange>>

StoresInit ==
  /\ fmem = 0 /\ ffile = 0 /\ flocked = FALSE /\ funsaved = FALSE
  /\ amem = 0 /\ afile = 0 /\ aunsaved = FALSE
  /\ upc = [u \in Updater |-> "idle"]
  /\ copy = [u \in Updater |-> 0]
  /\ failing = FALSE
  /\ nchange = 0
  /\ overlap = FALSE

-----------------------------------------------------------------------------
(* The disk is full or has room again, the directory can be written or not. *)
DiskTurns ==
  /\ failing' = ~failing
  /\ UNCHANGED <<flowVars, adminVars, nchange>>

(* upsert, remove, add, clear: lock, change, and saveLocked's truncation   *)
(* of the file, if it can be opened ...                                    *)
ChangeFlows ==
  /\ ~flocked
  /\ flocked' = TRUE
  /\ nchange' = nchange + 1
  /\ fmem' = nchange + 1
  /\ ffile' \in {Torn} \cup (IF failing THEN {ffile} ELSE {})
  /\ UNCHANGED <<funsaved, adminVars, failing>>

(* A bug to compare with: a caller that does not save.                     *)
UnlockUnsaved ==
  /\ flocked
  /\ flocked' = FALSE
  /\ UNCHANGED <<fmem, ffile, funsaved, adminVars, failing, nchange>>

(* ... then its contents, and unlock.                                      *)
SaveLocked ==
  /\ flocked
  /\ flocked' = FALSE
  /\ \/ ~failing /\ ffile = Torn /\ ffile' = fmem /\ funsaved' = FALSE
     \/ (failing \/ ffile # Torn) /\ ffile' = ffile /\ funsaved' = TRUE
  /\ UNCHANGED <<fmem, adminVars, failing, nchange>>

(* update: the change, under the lock; then save, without it: marshal,     *)
(* truncate unless the file cannot be opened, write.                       *)
Updating == {u \in Updater : upc[u] # "idle"}

ChangeSettings(u) ==
  /\ upc[u] = "idle"
  /\ nchange' = nchange + 1
  /\ amem' = nchange + 1
  /\ upc' = [upc EXCEPT ![u] = "marshal"]
  /\ overlap' = (Updating # {})
  /\ UNCHANGED <<flowVars, afile, copy, aunsaved, failing>>

Marshal(u) ==
  /\ upc[u] = "marshal"
  /\ copy' = [copy EXCEPT ![u] = amem]
  /\ upc' = [upc EXCEPT ![u] = "truncate"]
  /\ UNCHANGED <<flowVars, amem, afile, aunsaved, failing, nchange, overlap>>

Truncate(u) ==
  /\ upc[u] = "truncate"
  /\ \/ afile' = Torn /\ upc' = [upc EXCEPT ![u] = "write"]
     \/ failing /\ afile' = afile /\ upc' = [upc EXCEPT ![u] = "fail"]
  /\ UNCHANGED <<flowVars, amem, copy, aunsaved, failing, nchange, overlap>>

(* Two writers each write from the start of the file: over a longer text,  *)
(* a shorter one leaves its end, and so does a write that fails.           *)
Write(u) ==
  /\ \/ /\ upc[u] = "write" /\ ~failing
        /\ afile' \in {copy[u]} \cup (IF afile = Torn THEN {} ELSE {Torn})
        /\ aunsaved' = FALSE
     \/ /\ upc[u] = "write" /\ failing
        /\ afile' \in {afile, Torn}
        /\ aunsaved' = TRUE
     \/ /\ upc[u] = "fail"
        /\ afile' = afile
        /\ aunsaved' = TRUE
  /\ upc' = [upc EXCEPT ![u] = "idle"]
  /\ copy' = [copy EXCEPT ![u] = 0]
  /\ UNCHANGED <<flowVars, amem, failing, nchange, overlap>>

(* The controller's process ends and starts again: load reads the files,   *)
(* and a file that is no JSON leaves the store empty.                      *)
Load(file) == IF file = Torn THEN 0 ELSE file

Reload ==
  /\ fmem' = Load(ffile) /\ flocked' = FALSE /\ funsaved' = FALSE
  /\ amem' = Load(afile) /\ aunsaved' = FALSE
  /\ upc' = [u \in Updater |-> "idle"]
  /\ copy' = [u \in Updater |-> 0]
  /\ overlap' = FALSE
  /\ UNCHANGED <<ffile, afile, failing, nchange>>
=============================================================================
