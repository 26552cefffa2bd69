----------------------------- MODULE ParamStore -----------------------------
(***************************************************************************)
(* One key of the parameter store: a process whose Params object its       *)
(* caller and the object's own writer thread use, and another process that *)
(* writes the key.  Every put writes a temporary file and moves it into    *)
(* place under the lock of the directory; what a power cut leaves depends  *)
(* on what was synced.  Versions of the key are numbered in the order in   *)
(* which they came into place, removals included.                          *)
(***************************************************************************)
EXTENDS Integers

CONSTANTS
  Caller, Writer, Stranger,  \* the threads that write the key
  WaitingMax,             \* bound of the object's queue
  MovesMax                \* bound of the versions of the key

Threads == {Caller, Writer, Stranger}

ASSUME ParamAssumption ==
  /\ Caller # Writer /\ Writer # Stranger /\ Stranger # Caller
  /\ WaitingMax \in Nat /\ MovesMax \in Nat

VARIABLES
  stage,    \* where a thread is
  waiting,  \* length of the queue
  version,  \* of the key: its number, and whether the content reached the disk
  may,      \* the versions that a power cut may leave
  returned  \* the number of the last version whose write has returned

paramVars == <<stage, waiting, version, may, returned>>
stored == <<version, may, returned>>

(* "free" and "popping" are the caller's and the writer's ends of a call;  *)
(* "none" no future, "leaving" no more work, "ready" the future is ready.  *)
ParamInit ==
  /\ stage = [t \in Threads |-> IF t = Writer THEN "none" ELSE "free"]
  /\ waiting = 0
  /\ version = [number |-> 0, whole |-> TRUE] /\ may = {version}
  /\ returned = 0

Locked == \E t \in Threads : stage[t] = "moved"
End(t) == IF t = Writer THEN "popping" ELSE "free"
Go(t, s) == stage' = [stage EXCEPT ![t] = s]

-----------------------------------------------------------------------------
(* Params::put: write a temporary file, sync it, ...                       *)
WriteTemp(t) ==
  /\ t # Writer /\ stage[t] = "free"
  /\ Go(t, "temp") /\ UNCHANGED <<waiting, stored>>

SyncTemp(t) ==
  /\ stage[t] = "temp"
  /\ Go(t, "synced") /\ UNCHANGED <<waiting, stored>>

(* ... or unlink it when one of these fails; nobody looks at the result.   *)
FailTemp(t) ==
  /\ stage[t] = "temp"
  /\ Go(t, End(t)) /\ UNCHANGED <<waiting, stored>>

InPlace(t, whole) ==
  /\ ~Locked /\ version.number < MovesMax
  /\ version' = [number |-> version.number + 1, whole |-> whole]
  /\ may' = may \cup {version'}
  /\ Go(t, "moved") /\ UNCHANGED <<waiting, returned>>

(* Mutant: moved into place before the file is synced. *)
RenameUnsynced(t) == stage[t] = "temp" /\ InPlace(t, FALSE)

(* ... take the lock and rename, ...                                       *)
Rename(t) == stage[t] = "synced" /\ InPlace(t, TRUE)

(* ... sync the directory and release the lock.                            *)
SyncDir(t) ==
  /\ stage[t] = "moved"
  /\ may' = {version}
  /\ returned' = version.number
  /\ Go(t, End(t)) /\ UNCHANGED <<waiting, version>>

(* Params::remove and clearAll unlink under the lock and sync likewise.    *)
Unlink(t) == t # Writer /\ stage[t] = "free" /\ InPlace(t, TRUE)

-----------------------------------------------------------------------------
(* putNonBlocking: push, then look at the future.                          *)
Push ==
  /\ stage[Caller] = "free" /\ waiting < WaitingMax
  /\ waiting' = waiting + 1
  /\ Go(Caller, "pushed") /\ UNCHANGED stored

StartWriter ==
  /\ stage[Caller] = "pushed"
  /\ stage' = [stage EXCEPT ![Caller] = "free",
                            ![Writer] = IF @ \in {"none", "ready"} THEN "popping" ELSE @]
  /\ UNCHANGED <<waiting, stored>>

(* asyncWriteThread: try_pop, and the end of the thread.                   *)
Pop ==
  /\ stage[Writer] = "popping"
  /\ IF waiting > 0
     THEN Go(Writer, "temp") /\ waiting' = waiting - 1
     ELSE Go(Writer, "leaving") /\ UNCHANGED waiting
  /\ UNCHANGED stored

Leave ==
  /\ stage[Writer] = "leaving"
  /\ Go(Writer, "ready") /\ UNCHANGED <<waiting, stored>>

(* ~Params: wait for the future.                                           *)
Destroy ==
  /\ stage[Caller] = "free" /\ stage[Writer] \in {"none", "ready"}
  /\ Go(Caller, "destroyed") /\ UNCHANGED <<waiting, stored>>

(* The process ends, at any time or after that, and begins again.          *)
Rerun ==
  /\ stage' = [stage EXCEPT ![Caller] = "free", ![Writer] = "none"]
  /\ waiting' = 0 /\ UNCHANGED stored

Blackout ==
  /\ version' \in may /\ may' = {version'}
  /\ stage' = [t \in Threads |-> IF t = Writer THEN "none" ELSE "free"]
  /\ waiting' = 0 /\ UNCHANGED returned

ParamNext ==
  \/ \E t \in Threads :
       WriteTemp(t) \/ SyncTemp(t) \/ FailTemp(t) \/ Rename(t) \/ SyncDir(t) \/ Unlink(t)
  \/ Push \/ StartWriter \/ Pop \/ Leave \/ Destroy \/ Rerun \/ Blackout
=============================================================================
