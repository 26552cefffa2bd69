--------------------------- MODULE UpdaterChecks ---------------------------
(***************************************************************************)
(* What the owner of a device may rely on from the updater.  The variable  *)
(* asked only observes: whether the last thing the owner asked for is a    *)
(* fetch that has not started, and when it came.                           *)
(***************************************************************************)
EXTENDS Updater

VARIABLE asked

allvars == <<vars, asked>>

(* The steps at which a cycle has not yet looked at the request. *)
Attentive == {"rest", "overlay", "teardown", "mount", "early", "check", "decide"}

ObservedInit == Init /\ asked = "no"

Asks ==
  \/ /\ Signal("fetch")
     /\ asked' = IF pc \in Attentive THEN "waiting" ELSE "busy"
  \/ /\ Signal("check") \/ \E b \in Branches : SelectBranch(b)
     /\ asked' = "no"

(* A failed cycle, a restart and the fetch itself end what was asked. *)
Ends ==
  /\ FetchUpdate \/ GitRefuses \/ Fail \/ PublishFails \/ Kill \/ Reboot
  /\ asked' = "no"

OtherStep ==
  \/ Start \/ InitOverlay \/ Teardown \/ Mount
  \/ \E timeValid \in BOOLEAN : EarlyParams(timeValid)
  \/ CheckForUpdate
  \/ \E metered \in BOOLEAN, timedOut \in BOOLEAN : Decide(metered, timedOut)
  \/ GitReset \/ AgnosUpdate \/ Flash \/ Finalize \/ CopyTree \/ SyncTree \/ RaiseFlag
  \/ PublishParams \/ Wake
  \/ LaunchStep
  \/ \E b \in Branches : EditBase(b)
  \/ \E b \in Branches, r \in Revs : Publish(b, r)

ObservedNext == Asks \/ Ends \/ (OtherStep /\ UNCHANGED asked)

ObservedSpec == ObservedInit /\ [][ObservedNext]_allvars

FairSpec == ObservedSpec /\ WF_vars(DaemonStep) /\ WF_vars(LaunchStep)
-----------------------------------------------------------------------------
TypeOK ==
  /\ base \in BaseTrees \cup {None}
  /\ old \in Versions \cup {None}
  /\ merged \in MergedTrees \cup {None}
  /\ fin \in FinalTrees \cup {None}
  /\ os \in Oses /\ slot \in Oses \cup {None}
  /\ remote \in Heads /\ target \in Branches
  /\ available \in BOOLEAN
  /\ heads \in Heads \cup {None}
  /\ request \in {"none", "check", "fetch"}
  /\ first \in BOOLEAN
  /\ pc \in Steps

Flagged == fin # None /\ fin.flag

(* The tree the launch script would move into BASEDIR now. *)
Installable ==
  /\ Flagged /\ old = None
  /\ base # None /\ base.init /\ ~base.edited

(* A finalized tree is marked consistent only when it is whole and on the  *)
(* disk, and one the launch script would install finds the AGNOS it needs  *)
(* running or flashed: finalize_update, handle_agnos_update, flash_partition. *)
StagedIsSound ==
  /\ Flagged => fin.copy = "synced"
  /\ Installable => Needs[fin.ver] \in {os, slot}

(* While the launch script has BASEDIR moved away, both the tree it moved  *)
(* and the one it is about to move in are whole: launch_chffrplus.sh.      *)
NothingLost ==
  base = None => /\ old # None
                 /\ Flagged /\ fin.copy = "synced"

(* A backup of an earlier installation never stands in the way of a staged *)
(* one: the launch script's "openpilot backup found, not updating" is not  *)
(* reached, because init_overlay removes the backup before it can stage.   *)
NoStaleBackup == Flagged /\ old # None => base = None

(* A fetch the owner asked for before a cycle decides is carried out in    *)
(* that cycle, however expensive the connection: WaitTimeHelper, main.     *)
RequestServed ==
  [][asked = "waiting" => ~(pc = "decide" /\ pc' = "publish" /\ asked' = asked)]_allvars

(* The version the device runs, or goes on to run once the swap is done,   *)
(* and the one it would install; a tree that is staged but torn is no      *)
(* version of anything.                                                    *)
Running == IF base = None THEN old ELSE base.ver
Staged ==
  IF ~Flagged THEN None
  ELSE IF fin.copy = "synced" THEN fin.ver ELSE [fin.ver EXCEPT !.rev = None]

(* What the device runs changes the way StagedInstall says.                *)
Install == INSTANCE StagedInstall WITH
  Published <- [branch : Branches, rev : Revs],
  Homemade <- [branch : Branches, rev : {Local}],
  Nothing <- None,
  running <- Running,
  staged <- Staged

AtomicInstall == Install!Spec

(* The head of the target branch is ready to be swapped in. *)
HeadStaged == Flagged /\ fin.ver = [branch |-> target, rev |-> remote[target]]

(* A step of the device left in peace, with a clock and a free connection. *)
CalmStep ==
  \/ LaunchStep
  \/ Start \/ InitOverlay \/ Teardown \/ Mount \/ EarlyParams(TRUE) \/ CheckForUpdate
  \/ Decide(FALSE, FALSE)
  \/ FetchUpdate \/ GitReset \/ GitRefuses \/ AgnosUpdate \/ Flash
  \/ Finalize \/ CopyTree \/ SyncTree \/ RaiseFlag \/ PublishParams \/ Wake

(* Whatever was interrupted before, a device left in peace stages the head *)
(* of the target branch again and again: a torn copy, a lock file or a     *)
(* half-flashed slot is repaired by the cycles of main.                    *)
UpdateStaged == <>[][CalmStep]_vars => []<>HeadStaged \/ <>(pc = "dead")
=============================================================================
