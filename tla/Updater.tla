------------------------------ MODULE Updater ------------------------------
(***************************************************************************)
(* The over-the-air updater: the launch script that swaps a finalized tree *)
(* into BASEDIR at boot (launch_chffrplus.sh), the daemon that stages it   *)
(* (system/updated/updated.py) and the flashing of the operating system    *)
(* slot it needs (system/hardware/tici/agnos.py).  The power may fail and  *)
(* the manager may kill the daemon between any two steps.                  *)
(*                                                                         *)
(* The file system keeps metadata operations in order; the contents of a   *)
(* copied tree are safe only after os.sync.                                *)
(***************************************************************************)
EXTENDS Naturals

CONSTANTS
  Branches,   \* heads of the remote repository
  Moving,     \* those commits go on being published on, to bound the run
  Revs,       \* commits that are published on a head
  Local,      \* a commit made on the device
  Oses,       \* versions of AGNOS
  Needs,      \* AGNOS_VERSION in launch_env.sh of a version
  None        \* no such tree, or nothing known

Versions == [branch : Branches, rev : Revs \cup {Local}]
Heads == [Branches -> Revs]

(* A tree is a version with the files that steer the launch script:        *)
(* init is .overlay_init, flag is .overlay_consistent.  edited says that   *)
(* .git is newer than .overlay_init, locked that a killed git left its     *)
(* index.lock, copy how far a finalized tree has come.                     *)
BaseTrees == [ver : Versions, init : BOOLEAN, flag : BOOLEAN, edited : BOOLEAN]
MergedTrees == [ver : Versions, init : BOOLEAN, flag : BOOLEAN, locked : BOOLEAN]
FinalTrees == [ver : Versions, init : BOOLEAN, flag : BOOLEAN,
               copy : {"torn", "cached", "synced"}]

ASSUME UpdaterAssumption ==
  /\ Needs \in [Versions -> Oses]
  /\ Moving \subseteq Branches
  /\ Local \notin Revs
  /\ None \notin Versions \cup Heads \cup Oses
  /\ None \notin BaseTrees \cup MergedTrees \cup FinalTrees

VARIABLES
  base,      \* BASEDIR
  old,       \* STAGING_ROOT/old_openpilot
  merged,    \* OVERLAY_MERGED, None when it is not mounted
  fin,       \* FINALIZED
  os,        \* the AGNOS that runs
  slot,      \* the AGNOS in the other slot, None unless it would verify
  remote,    \* the heads of the remote repository
  target,    \* UpdaterTargetBranch
  available, \* UpdateAvailable
  heads,     \* updater.branches
  request,   \* wait_helper.user_request
  first,     \* first_run
  pc         \* the step the launch script or the daemon is at

disk == <<base, old, fin, slot, os>>
daemon == <<heads, request, first>>
vars == <<disk, merged, remote, target, available, daemon, pc>>

DaemonSteps == {"overlay", "teardown", "mount", "early", "check", "decide", "fetch",
                "git", "agnos", "flash", "finalize", "copy", "sync", "flag",
                "publish", "rest"}
Steps == {"launch", "swap", "boot", "setActive", "stopped", "dead"} \cup DaemonSteps

At(here, there) == pc = here /\ pc' = there

(* Mutant: nothing is synced. *)
SyncedNever(f) == f

(* os.sync *)
Synced(f) == IF f # None /\ f.copy = "cached" THEN [f EXCEPT !.copy = "synced"] ELSE f

(* set_consistent_flag(False) *)
Unflagged(f) == IF f = None THEN None ELSE [Synced(f) EXCEPT !.flag = FALSE]

(* Updater.update_ready, with head what the last check saw. *)
UpdateReady ==
  /\ fin # None /\ fin.flag
  /\ fin.ver.branch = target
  /\ \/ heads = None \/ base.ver.branch # target
     \/ base.ver.rev # heads[target]
-----------------------------------------------------------------------------
(* The launch script. *)

(* Mutant: a finalized tree is installed without the flag. *)
LaunchUnflagged ==
  /\ pc = "launch"
  /\ IF base.init /\ ~base.edited /\ fin # None /\ old = None
     THEN old' = base.ver /\ base' = None /\ pc' = "swap"
     ELSE pc' = "boot" /\ UNCHANGED <<old, base>>
  /\ UNCHANGED <<fin, slot, os, merged, remote, target, available, daemon>>

Launch ==
  /\ pc = "launch"
  /\ IF base.init /\ ~base.edited /\ fin # None /\ fin.flag /\ old = None
     THEN old' = base.ver /\ base' = None /\ pc' = "swap"
     ELSE pc' = "boot" /\ UNCHANGED <<old, base>>
  /\ UNCHANGED <<fin, slot, os, merged, remote, target, available, daemon>>

SwapIn ==
  /\ At("swap", "launch")
  /\ base' = [ver |-> fin.ver, init |-> fin.init, flag |-> fin.flag, edited |-> FALSE]
  /\ fin' = None
  /\ UNCHANGED <<old, slot, os, merged, remote, target, available, daemon>>

(* agnos_init when another AGNOS is needed: a verified slot to activate,   *)
(* or one to flash with the updater on the screen.  swap clears the hashes *)
(* before the slot is active.                                              *)
AgnosInit ==
  /\ pc = "boot"
  /\ os # Needs[base.ver]
  /\ \/ slot = Needs[base.ver] /\ slot' = None /\ pc' = "setActive"
     \/ slot # Needs[base.ver] /\ slot' = Needs[base.ver] /\ UNCHANGED pc
  /\ UNCHANGED <<base, old, fin, os, merged, remote, target, available, daemon>>

(* abctl --set_active and the reboot; the slot left behind was activated   *)
(* the same way and does not verify.                                       *)
SetActive ==
  /\ At("setActive", "launch")
  /\ os' = Needs[base.ver] /\ slot' = None
  /\ UNCHANGED <<base, old, fin, merged, remote, target, available, daemon>>

(* Mutant: no default for a target that was cleared. *)
StartManagerNoTarget ==
  /\ At("boot", "stopped")
  /\ os = Needs[base.ver]
  /\ available' = FALSE /\ target' = None
  /\ UNCHANGED <<disk, merged, remote, daemon>>

(* The manager clears the parameters marked CLEAR_ON_MANAGER_START: the    *)
(* target is the branch of BASEDIR again.                                  *)
StartManager ==
  /\ At("boot", "stopped")
  /\ os = Needs[base.ver]
  /\ available' = FALSE /\ target' = base.ver.branch
  /\ UNCHANGED <<disk, merged, remote, daemon>>
-----------------------------------------------------------------------------
(* The daemon. *)

Start ==
  /\ At("stopped", "overlay")
  /\ fin' = Unflagged(fin)
  /\ UNCHANGED <<base, old, slot, os, merged, remote, target, available, daemon>>

(* init_overlay: a valid overlay is kept, any other is invalidated ... *)
InitOverlay ==
  /\ pc = "overlay"
  /\ IF base.init /\ merged # None /\ ~base.edited
     THEN pc' = "early" /\ UNCHANGED <<available, fin>>
     ELSE available' = FALSE /\ fin' = Unflagged(fin) /\ pc' = "teardown"
  /\ UNCHANGED <<base, old, slot, os, merged, remote, target, daemon>>

(* Mutant: the backup is left where it is. *)
TeardownKeepsOld ==
  /\ At("teardown", "mount")
  /\ merged' = None /\ fin' = None
  /\ UNCHANGED <<base, old, slot, os, remote, target, available, daemon>>

(* ... removed with everything else in the staging area ... *)
Teardown ==
  /\ At("teardown", "mount")
  /\ merged' = None /\ fin' = None /\ old' = None
  /\ UNCHANGED <<base, slot, os, remote, target, available, daemon>>

(* ... and mounted again over a BASEDIR that is marked as clean. *)
Mount ==
  /\ At("mount", "early")
  /\ base' = [base EXCEPT !.init = TRUE, !.flag = FALSE, !.edited = FALSE]
  /\ merged' = [ver |-> base.ver, init |-> TRUE, flag |-> FALSE, locked |-> FALSE]
  /\ UNCHANGED <<old, fin, slot, os, remote, target, available, daemon>>

(* The parameters written early in a cycle; the first cycle ends there, as *)
(* does one with a clock that is not set yet.                              *)
EarlyParams(timeValid) ==
  /\ pc = "early"
  /\ available' = UpdateReady
  /\ first' = FALSE
  /\ pc' = IF first \/ ~timeValid THEN "rest" ELSE "check"
  /\ UNCHANGED <<disk, merged, remote, target, heads, request>>

CheckForUpdate ==
  /\ At("check", "decide")
  /\ heads' = remote
  /\ UNCHANGED <<disk, merged, remote, target, available, request, first>>

(* Whether the connection is metered and the last fetch is three days old  *)
(* is up to the environment.                                               *)
Decide(metered, timedOut) ==
  /\ pc = "decide"
  /\ pc' = IF \/ metered /\ ~timedOut /\ request # "fetch"
              \/ request = "check"
           THEN "publish" ELSE "fetch"
  /\ UNCHANGED <<disk, merged, remote, target, available, daemon>>

(* fetch_update invalidates what was staged ... *)
FetchUpdate ==
  /\ At("fetch", "git")
  /\ fin' = Unflagged(fin) /\ available' = FALSE
  /\ UNCHANGED <<base, old, slot, os, merged, remote, target, daemon>>

(* ... and makes the merged tree the clean head of the target branch. *)
GitReset ==
  /\ At("git", "agnos")
  /\ ~merged.locked
  /\ merged' = [ver |-> [branch |-> target, rev |-> remote[target]],
                init |-> FALSE, flag |-> FALSE, locked |-> FALSE]
  /\ UNCHANGED <<disk, remote, target, available, daemon>>

(* Mutant: a failed flash is retried at the next boot. *)
AgnosUpdateLater ==
  /\ At("agnos", "finalize")
  /\ UNCHANGED <<disk, merged, remote, target, available, daemon>>

(* handle_agnos_update: flash_agnos_update leaves the slot unbootable and  *)
(* its hashes cleared until the last partition is written.                 *)
AgnosUpdate ==
  /\ pc = "agnos"
  /\ IF os = Needs[merged.ver]
     THEN pc' = "finalize" /\ UNCHANGED <<fin, slot>>
     ELSE /\ pc' = "flash"
          /\ fin' = Unflagged(fin)
          /\ slot' = IF slot = Needs[merged.ver] THEN slot ELSE None
  /\ UNCHANGED <<base, old, os, merged, remote, target, available, daemon>>

Flash ==
  /\ At("flash", "finalize")
  /\ slot' = Needs[merged.ver]
  /\ UNCHANGED <<base, old, fin, os, merged, remote, target, available, daemon>>

(* finalize_update: start the copy, end it, sync it, raise the flag. *)
Finalize ==
  /\ At("finalize", "copy")
  /\ fin' = [ver |-> merged.ver, init |-> merged.init, flag |-> merged.flag, copy |-> "torn"]
  /\ UNCHANGED <<base, old, slot, os, merged, remote, target, available, daemon>>

CopyTree ==
  /\ At("copy", "sync")
  /\ fin' = [fin EXCEPT !.copy = "cached"]
  /\ UNCHANGED <<base, old, slot, os, merged, remote, target, available, daemon>>

SyncTree ==
  /\ At("sync", "flag")
  /\ fin' = Synced(fin)
  /\ UNCHANGED <<base, old, slot, os, merged, remote, target, available, daemon>>

RaiseFlag ==
  /\ At("flag", "publish")
  /\ fin' = [fin EXCEPT !.flag = TRUE]
  /\ UNCHANGED <<base, old, slot, os, merged, remote, target, available, daemon>>

(* The parameters written at the end of a cycle, and the end of a request. *)
PublishParams ==
  /\ At("publish", "rest")
  /\ available' = UpdateReady
  /\ request' = "none"
  /\ UNCHANGED <<disk, merged, remote, target, heads, first>>

(* Mutant: the request is reset when a cycle starts. *)
WakeAnew ==
  /\ At("rest", "overlay")
  /\ request' = "none"
  /\ UNCHANGED <<disk, merged, remote, target, available, heads, first>>

Wake ==
  /\ At("rest", "overlay")
  /\ UNCHANGED <<disk, merged, remote, target, available, daemon>>

(* Mutant: the overlay is kept after a failure. *)
HandleInPlace ==
  /\ pc' = "publish"
  /\ UNCHANGED <<disk, merged, remote, target, available, daemon>>

(* The exception handlers of main: the overlay is not to be trusted. *)
Handle ==
  /\ pc' = "publish"
  /\ base' = [base EXCEPT !.init = FALSE]
  /\ UNCHANGED <<old, fin, slot, os, merged, remote, target, available, daemon>>

(* git refuses to work next to the index.lock of a killed one. *)
GitRefuses == pc = "git" /\ merged.locked /\ Handle
-----------------------------------------------------------------------------
(* The environment. *)

(* A command fails. *)
Fail ==
  /\ pc \in {"overlay", "teardown", "mount", "early", "check", "decide", "git",
            "agnos", "flash", "finalize", "copy"}
  /\ Handle

(* A command fails while the parameters are written for the second time,   *)
(* before UpdateAvailable, which comes late.                               *)
PublishFails ==
  /\ At("publish", "rest")
  /\ request' = "none"
  /\ UNCHANGED <<disk, merged, remote, target, available, heads, first>>

Forgotten == heads' = None /\ request' = "none" /\ first' = TRUE

(* The manager clears the parameters marked CLEAR_ON_ONROAD_TRANSITION and *)
(* stops the daemon when the car goes onroad.                              *)
Kill ==
  /\ pc \in DaemonSteps /\ pc' = "stopped"
  /\ \/ UNCHANGED merged
     \/ pc = "git" /\ merged' = [merged EXCEPT !.locked = TRUE]
  /\ available' = FALSE
  /\ Forgotten
  /\ UNCHANGED <<disk, remote, target>>

(* A reboot, orderly or not: an unsynced copy may be lost. *)
Reboot ==
  /\ pc # "dead"
  /\ pc' = IF base = None THEN "dead" ELSE "launch"
  /\ merged' = None
  /\ \/ fin' = Synced(fin)
     \/ fin # None /\ fin.copy = "cached" /\ fin' = [fin EXCEPT !.copy = "torn"]
  /\ Forgotten
  /\ UNCHANGED <<base, old, slot, os, remote, target, available>>

(* SIGUSR1 and SIGHUP, from the buttons of the user interface. *)
Signal(r) ==
  /\ pc \in DaemonSteps
  /\ request' = r
  /\ UNCHANGED <<disk, merged, remote, target, available, heads, first, pc>>

(* The user selects a branch; the user interface then asks for a check. *)
SelectBranch(b) ==
  /\ target' = b
  /\ IF pc \in DaemonSteps THEN request' = "check" ELSE UNCHANGED request
  /\ UNCHANGED <<disk, merged, remote, available, heads, first, pc>>

Publish(b, r) ==
  /\ b \in Moving
  /\ remote' = [remote EXCEPT ![b] = r]
  /\ UNCHANGED <<disk, merged, target, available, daemon, pc>>

(* A developer commits or switches branches in BASEDIR. *)
EditBase(b) ==
  /\ pc \in DaemonSteps \cup {"stopped"}
  /\ base' = [base EXCEPT !.ver = [branch |-> b, rev |-> Local], !.edited = TRUE]
  /\ UNCHANGED <<old, fin, slot, os, merged, remote, target, available, daemon, pc>>
-----------------------------------------------------------------------------
Init ==
  /\ remote \in Heads /\ target \in Branches
  /\ base \in {[ver |-> [branch |-> target, rev |-> r], init |-> FALSE, flag |-> FALSE,
                edited |-> FALSE] : r \in Revs}
  /\ old = None /\ fin = None /\ merged = None
  /\ os = Needs[base.ver] /\ slot = None
  /\ available = FALSE /\ heads = None /\ request = "none" /\ first = TRUE
  /\ pc = "launch"

DaemonStep ==
  \/ Start \/ InitOverlay \/ Teardown \/ Mount
  \/ \E timeValid \in BOOLEAN : EarlyParams(timeValid)
  \/ CheckForUpdate
  \/ \E metered \in BOOLEAN, timedOut \in BOOLEAN : Decide(metered, timedOut)
  \/ FetchUpdate \/ GitReset \/ GitRefuses \/ AgnosUpdate \/ Flash
  \/ Finalize \/ CopyTree \/ SyncTree \/ RaiseFlag \/ PublishParams \/ Wake

LaunchStep == Launch \/ SwapIn \/ AgnosInit \/ SetActive \/ StartManager

Disturbance ==
  \/ Fail \/ PublishFails \/ Kill \/ Reboot
  \/ \E r \in {"check", "fetch"} : Signal(r)
  \/ \E b \in Branches : SelectBranch(b) \/ EditBase(b)
  \/ \E b \in Branches, r \in Revs : Publish(b, r)

Next == DaemonStep \/ LaunchStep \/ Disturbance

Spec == Init /\ [][Next]_vars
=============================================================================
