--------------------------- MODULE UpdaterProofs ---------------------------
(***************************************************************************)
(* Theorems about Updater and UpdaterChecks, for every set of branches,    *)
(* revisions and AGNOS versions and every need of a version.               *)
(***************************************************************************)
EXTENDS UpdaterChecks, TLAPS

(* The steps before the daemon ever ran since the boot. *)
Booting == {"launch", "swap", "boot", "setActive"}

(* The steps of a cycle after init_overlay, those that replace what is     *)
(* staged, and those after git reset the merged tree.                      *)
Reset == {"agnos", "flash", "finalize", "copy", "sync", "flag"}
Staging == {"git"} \cup Reset
Mounted == {"early", "check", "decide", "fetch"} \cup Staging

(* BASEDIR is away during the swap only, and a device that lost power      *)
(* there is dead.                                                          *)
AwayInv == base = None <=> pc \in {"swap", "dead"}

(* An overlay lasts until a reboot; one that is mounted has seen the       *)
(* backup removed, and never carries the flag into the copy.               *)
OverlayInv ==
  /\ pc \in Booting \cup {"dead"} => merged = None
  /\ pc \in Mounted => merged # None
  /\ pc = "mount" => fin = None /\ old = None
  /\ merged # None => old = None /\ ~merged.flag

(* What the launch script left alone it could not install, and the boot    *)
(* may spend the slot.                                                     *)
BootInv == pc \in {"boot", "setActive"} => ~Installable

(* While a tree is staged there is no flag; the tree copied is the merged  *)
(* one, a published version whose AGNOS runs or is flashed by then.        *)
StagingInv ==
  /\ pc \in Staging => ~Flagged
  /\ pc \in Reset => merged.ver.rev \in Revs
  /\ pc \in {"finalize", "copy", "sync", "flag"} => Needs[merged.ver] \in {os, slot}
  /\ pc \in {"copy", "sync", "flag"} => fin # None /\ fin.ver = merged.ver
  /\ pc = "sync" => fin.copy = "cached"
  /\ pc = "flag" => fin.copy = "synced"

(* What the owner waits for is what the daemon will read. *)
AskedInv == asked = "waiting" => request = "fetch" /\ pc \in Attentive \cup {"fetch"}

IInv ==
  /\ TypeOK /\ StagedIsSound /\ NothingLost /\ NoStaleBackup
  /\ AwayInv /\ OverlayInv /\ BootInv /\ StagingInv /\ AskedInv
-----------------------------------------------------------------------------
(* What the helpers on a finalized tree return. *)
LEMMA SyncedType ==
  ASSUME NEW f \in FinalTrees
  PROVE  /\ Synced(f) \in FinalTrees
         /\ Synced(f).ver = f.ver /\ Synced(f).flag = f.flag
         /\ f.copy = "cached" => Synced(f).copy = "synced"
         /\ f.copy # "cached" => Synced(f) = f
<1> f # None
  BY UpdaterAssumption
<1> QED
  BY DEF Synced, FinalTrees

LEMMA UnflaggedType ==
  ASSUME NEW f \in FinalTrees \cup {None}
  PROVE  /\ Unflagged(f) \in FinalTrees \cup {None}
         /\ Unflagged(f) # None => ~Unflagged(f).flag
<1>1. CASE f = None
  BY <1>1 DEF Unflagged
<1>2. CASE f # None
  <2>1. Synced(f) \in FinalTrees
    BY <1>2, SyncedType
  <2> QED
    BY <1>2, <2>1 DEF Unflagged, FinalTrees
<1> QED
  BY <1>1, <1>2

LEMMA InitInv == ObservedInit => IInv
<1> SUFFICES ASSUME ObservedInit PROVE IInv
  OBVIOUS
<1> USE UpdaterAssumption DEF ObservedInit, Init
<1>1. base \in BaseTrees /\ base.ver \in Versions /\ base # None
  <2>1. PICK r \in Revs : base = [ver |-> [branch |-> target, rev |-> r], init |-> FALSE,
                                 flag |-> FALSE, edited |-> FALSE]
    OBVIOUS
  <2>2. [branch |-> target, rev |-> r] \in Versions
    BY DEF Versions
  <2>3. base \in BaseTrees /\ base.ver \in Versions
    BY <2>1, <2>2, Zenon DEF BaseTrees
  <2> QED
    BY <2>3
<1>2. TypeOK
  BY <1>1 DEF TypeOK, Versions, Heads, Steps
<1>3. StagedIsSound /\ NothingLost /\ NoStaleBackup /\ AwayInv
  BY <1>1 DEF StagedIsSound, Installable, Flagged, NothingLost, NoStaleBackup, AwayInv
<1>4. OverlayInv /\ BootInv /\ StagingInv /\ AskedInv
  BY DEF OverlayInv, BootInv, StagingInv, AskedInv, Mounted, Staging, Reset
<1> QED
  BY <1>2, <1>3, <1>4 DEF IInv
-----------------------------------------------------------------------------
(* The launch script. *)
LEMMA LaunchInv ==
  ASSUME IInv, LaunchStep, asked' = asked
  PROVE  IInv'
<1> USE UpdaterAssumption DEF IInv, disk, daemon
<1>1. CASE Launch
  <2>1. TypeOK'
    BY <1>1 DEF Launch, TypeOK, Steps, BaseTrees, AwayInv
  <2>2. (StagedIsSound /\ NothingLost /\ NoStaleBackup /\ AwayInv /\ BootInv)'
    BY <1>1 DEF Launch, TypeOK, StagedIsSound, NothingLost, NoStaleBackup, AwayInv, BootInv,
        Installable, Flagged, BaseTrees
  <2>3. (OverlayInv /\ StagingInv /\ AskedInv)'
    BY <1>1 DEF Launch, OverlayInv, StagingInv, AskedInv, Booting, Mounted, Staging, Reset,
        Attentive
  <2> QED
    BY <2>1, <2>2, <2>3
<1>2. CASE SwapIn
  <2>1. TypeOK'
    BY <1>2 DEF SwapIn, At, TypeOK, Steps, BaseTrees, FinalTrees, AwayInv, NothingLost, Flagged
  <2>2. base' \in BaseTrees /\ base' # None /\ fin' = None /\ pc' = "launch"
    <3>1. fin \in FinalTrees
      BY <1>2 DEF SwapIn, At, TypeOK, AwayInv, NothingLost, Flagged
    <3>2. base' \in BaseTrees
      BY <1>2, <3>1 DEF SwapIn, BaseTrees, FinalTrees
    <3> QED
      BY <1>2, <3>2 DEF SwapIn, At
  <2>3. (StagedIsSound /\ NothingLost /\ NoStaleBackup /\ AwayInv /\ BootInv)'
    BY <2>2 DEF StagedIsSound, NothingLost, NoStaleBackup, AwayInv, BootInv, Installable, Flagged
  <2>4. (OverlayInv /\ StagingInv /\ AskedInv)'
    BY <1>2 DEF SwapIn, At, OverlayInv, StagingInv, AskedInv, Booting, Mounted, Staging, Reset,
        Attentive
  <2> QED
    BY <2>1, <2>3, <2>4
<1>3. CASE AgnosInit
  <2>1. TypeOK'
    BY <1>3 DEF AgnosInit, TypeOK, Steps, DaemonSteps, BaseTrees, AwayInv
  <2>2. (StagedIsSound /\ NothingLost /\ NoStaleBackup /\ AwayInv /\ BootInv)'
    BY <1>3 DEF AgnosInit, TypeOK, StagedIsSound, NothingLost, NoStaleBackup, AwayInv, BootInv,
        Installable, Flagged
  <2>3. (OverlayInv /\ StagingInv /\ AskedInv)'
    BY <1>3 DEF AgnosInit, TypeOK, OverlayInv, StagingInv, AskedInv, Flagged, Booting, Mounted,
        Staging, Reset, Attentive
  <2> QED
    BY <2>1, <2>2, <2>3
<1>4. CASE SetActive
  <2>1. TypeOK'
    BY <1>4 DEF SetActive, At, TypeOK, Steps, DaemonSteps, BaseTrees, AwayInv
  <2>2. (StagedIsSound /\ NothingLost /\ NoStaleBackup /\ AwayInv /\ BootInv)'
    BY <1>4 DEF SetActive, At, TypeOK, StagedIsSound, NothingLost, NoStaleBackup, AwayInv,
        BootInv, Installable, Flagged
  <2>3. (OverlayInv /\ StagingInv /\ AskedInv)'
    BY <1>4 DEF SetActive, At, TypeOK, OverlayInv, StagingInv, AskedInv, Flagged, Booting,
        Mounted, Staging, Reset, Attentive
  <2> QED
    BY <2>1, <2>2, <2>3
<1>5. CASE StartManager
  <2>1. TypeOK'
    <3>1. base \in BaseTrees
      BY <1>5 DEF StartManager, At, TypeOK, AwayInv
    <3>2. base.ver.branch \in Branches
      BY <3>1 DEF BaseTrees, Versions
    <3> QED
      BY <1>5, <3>2 DEF StartManager, At, TypeOK, Steps, DaemonSteps
  <2>2. (StagedIsSound /\ NothingLost /\ NoStaleBackup /\ AwayInv /\ BootInv)'
    BY <1>5 DEF StartManager, At, TypeOK, StagedIsSound, NothingLost, NoStaleBackup, AwayInv,
        BootInv, Installable, Flagged
  <2>3. (OverlayInv /\ StagingInv /\ AskedInv)'
    BY <1>5 DEF StartManager, At, TypeOK, OverlayInv, StagingInv, AskedInv, Flagged, Booting,
        Mounted, Staging, Reset, Attentive
  <2> QED
    BY <2>1, <2>2, <2>3
<1> QED
  BY <1>1, <1>2, <1>3, <1>4, <1>5 DEF LaunchStep
-----------------------------------------------------------------------------
(* The cycle of the daemon up to the decision. *)
LEMMA CycleInv ==
  ASSUME IInv, asked' = asked,
         \/ Start \/ InitOverlay \/ Teardown \/ Mount
         \/ \E timeValid \in BOOLEAN : EarlyParams(timeValid)
         \/ CheckForUpdate
         \/ \E metered \in BOOLEAN, timedOut \in BOOLEAN : Decide(metered, timedOut)
  PROVE  IInv'
<1> USE UpdaterAssumption DEF IInv, disk, daemon
<1>1. CASE Start
  <2>1. TypeOK'
    BY <1>1, UnflaggedType DEF Start, At, TypeOK, Steps, DaemonSteps
  <2>2. (StagedIsSound /\ NothingLost /\ NoStaleBackup /\ AwayInv /\ BootInv)'
    BY <1>1, UnflaggedType DEF Start, At, TypeOK, StagedIsSound, NothingLost, NoStaleBackup,
        AwayInv, BootInv, Installable, Flagged
  <2>3. (OverlayInv /\ StagingInv /\ AskedInv)'
    BY <1>1, UnflaggedType DEF Start, At, TypeOK, OverlayInv, StagingInv, AskedInv, Flagged,
        Booting, Mounted, Staging, Reset, Attentive
  <2> QED
    BY <2>1, <2>2, <2>3
<1>2. CASE InitOverlay
  <2>1. TypeOK'
    BY <1>2, UnflaggedType DEF InitOverlay, TypeOK, Steps, DaemonSteps
  <2>2. (StagedIsSound /\ NothingLost /\ NoStaleBackup /\ AwayInv /\ BootInv)'
    BY <1>2, UnflaggedType DEF InitOverlay, TypeOK, StagedIsSound, NothingLost, NoStaleBackup,
        AwayInv, BootInv, Installable, Flagged
  <2>3. (OverlayInv /\ StagingInv /\ AskedInv)'
    BY <1>2, UnflaggedType DEF InitOverlay, TypeOK, OverlayInv, StagingInv, AskedInv, Flagged,
        Booting, Mounted, Staging, Reset, Attentive
  <2> QED
    BY <2>1, <2>2, <2>3
<1>3. CASE Teardown
  <2>1. TypeOK'
    BY <1>3 DEF Teardown, At, TypeOK, Steps, DaemonSteps
  <2>2. (StagedIsSound /\ NothingLost /\ NoStaleBackup /\ AwayInv /\ BootInv)'
    BY <1>3 DEF Teardown, At, TypeOK, StagedIsSound, NothingLost, NoStaleBackup, AwayInv,
        BootInv, Installable, Flagged
  <2>3. (OverlayInv /\ StagingInv /\ AskedInv)'
    BY <1>3 DEF Teardown, At, TypeOK, OverlayInv, StagingInv, AskedInv, Flagged, Booting,
        Mounted, Staging, Reset, Attentive
  <2> QED
    BY <2>1, <2>2, <2>3
<1>4. CASE Mount
  <2>1. TypeOK'
    BY <1>4 DEF Mount, At, TypeOK, Steps, DaemonSteps, BaseTrees, MergedTrees, AwayInv
  <2>2. (StagedIsSound /\ NothingLost /\ NoStaleBackup /\ AwayInv /\ BootInv)'
    BY <1>4 DEF Mount, At, TypeOK, StagedIsSound, NothingLost, NoStaleBackup, AwayInv, BootInv,
        Installable, Flagged, BaseTrees, OverlayInv
  <2>3. merged' # None /\ ~merged'.flag
    <3>1. base \in BaseTrees
      BY <1>4 DEF Mount, At, TypeOK, AwayInv
    <3>2. merged' \in MergedTrees
      BY <1>4, <3>1 DEF Mount, BaseTrees, MergedTrees
    <3> QED
      BY <1>4, <3>2 DEF Mount
  <2>4. (OverlayInv /\ StagingInv /\ AskedInv)'
    BY <1>4, <2>3 DEF Mount, At, OverlayInv, StagingInv, AskedInv, Booting, Mounted, Staging,
        Reset, Attentive
  <2> QED
    BY <2>1, <2>2, <2>4
<1>5. ASSUME NEW timeValid \in BOOLEAN, EarlyParams(timeValid)
      PROVE  IInv'
  <2>1. TypeOK'
    BY <1>5 DEF EarlyParams, TypeOK, Steps, DaemonSteps, UpdateReady
  <2>2. (StagedIsSound /\ NothingLost /\ NoStaleBackup /\ AwayInv /\ BootInv)'
    BY <1>5 DEF EarlyParams, TypeOK, StagedIsSound, NothingLost, NoStaleBackup, AwayInv,
        BootInv, Installable, Flagged
  <2>3. (OverlayInv /\ StagingInv /\ AskedInv)'
    BY <1>5 DEF EarlyParams, TypeOK, OverlayInv, StagingInv, AskedInv, Flagged, Booting,
        Mounted, Staging, Reset, Attentive
  <2> QED
    BY <2>1, <2>2, <2>3
<1>6. CASE CheckForUpdate
  <2>1. TypeOK'
    BY <1>6 DEF CheckForUpdate, At, TypeOK, Steps, DaemonSteps
  <2>2. (StagedIsSound /\ NothingLost /\ NoStaleBackup /\ AwayInv /\ BootInv)'
    BY <1>6 DEF CheckForUpdate, At, TypeOK, StagedIsSound, NothingLost, NoStaleBackup, AwayInv,
        BootInv, Installable, Flagged
  <2>3. (OverlayInv /\ StagingInv /\ AskedInv)'
    BY <1>6 DEF CheckForUpdate, At, TypeOK, OverlayInv, StagingInv, AskedInv, Flagged, Booting,
        Mounted, Staging, Reset, Attentive
  <2> QED
    BY <2>1, <2>2, <2>3
<1>7. ASSUME NEW metered \in BOOLEAN, NEW timedOut \in BOOLEAN,
             Decide(metered, timedOut)
      PROVE  IInv'
  <2>1. TypeOK'
    BY <1>7 DEF Decide, TypeOK, Steps, DaemonSteps
  <2>2. (StagedIsSound /\ NothingLost /\ NoStaleBackup /\ AwayInv /\ BootInv)'
    BY <1>7 DEF Decide, TypeOK, StagedIsSound, NothingLost, NoStaleBackup, AwayInv, BootInv,
        Installable, Flagged
  <2>3. (OverlayInv /\ StagingInv /\ AskedInv)'
    BY <1>7 DEF Decide, TypeOK, OverlayInv, StagingInv, AskedInv, Flagged, Booting, Mounted,
        Staging, Reset, Attentive
  <2> QED
    BY <2>1, <2>2, <2>3
<1> QED
  BY <1>1, <1>2, <1>3, <1>4, <1>5, <1>6, <1>7
-----------------------------------------------------------------------------
(* The staging of an update. *)
LEMMA StageInv ==
  ASSUME IInv,
         \/ FetchUpdate /\ asked' = "no"
         \/ asked' = asked /\ (GitReset \/ AgnosUpdate \/ Flash)
         \/ asked' = asked /\ (Finalize \/ CopyTree \/ SyncTree \/ RaiseFlag)
         \/ asked' = asked /\ (PublishParams \/ Wake)
  PROVE  IInv'
<1> USE UpdaterAssumption DEF IInv, disk, daemon
<1>1. CASE FetchUpdate /\ asked' = "no"
  <2>1. TypeOK'
    BY <1>1, UnflaggedType DEF FetchUpdate, At, TypeOK, Steps, DaemonSteps
  <2>2. (StagedIsSound /\ NothingLost /\ NoStaleBackup /\ AwayInv /\ BootInv)'
    BY <1>1, UnflaggedType DEF FetchUpdate, At, TypeOK, StagedIsSound, NothingLost,
        NoStaleBackup, AwayInv, BootInv, Installable, Flagged
  <2>3. (OverlayInv /\ StagingInv /\ AskedInv)'
    BY <1>1, UnflaggedType DEF FetchUpdate, At, TypeOK, OverlayInv, StagingInv, AskedInv,
        Flagged, Booting, Mounted, Staging, Reset, Attentive
  <2> QED
    BY <2>1, <2>2, <2>3
<1>2. CASE GitReset /\ asked' = asked
  <2>1. TypeOK'
    BY <1>2 DEF GitReset, At, TypeOK, Steps, DaemonSteps, MergedTrees, Versions, Heads
  <2>2. (StagedIsSound /\ NothingLost /\ NoStaleBackup /\ AwayInv /\ BootInv)'
    BY <1>2 DEF GitReset, At, TypeOK, StagedIsSound, NothingLost, NoStaleBackup, AwayInv,
        BootInv, Installable, Flagged
  <2>3. merged' # None /\ ~merged'.flag /\ merged'.ver.rev \in Revs
    <3>1. remote[target] \in Revs
      BY DEF TypeOK, Heads
    <3>2. merged' \in MergedTrees
      BY <1>2, <3>1 DEF GitReset, TypeOK, MergedTrees, Versions
    <3> QED
      BY <1>2, <3>1, <3>2 DEF GitReset
  <2>4. (OverlayInv /\ StagingInv /\ AskedInv)'
    BY <1>2, <2>3 DEF GitReset, At, OverlayInv, StagingInv, AskedInv, Flagged, Booting,
        Mounted, Staging, Reset, Attentive
  <2> QED
    BY <2>1, <2>2, <2>4
<1>3. CASE AgnosUpdate /\ asked' = asked
  <2>1. TypeOK'
    BY <1>3, UnflaggedType DEF AgnosUpdate, TypeOK, Steps, DaemonSteps, MergedTrees,
        OverlayInv, Mounted, Staging, Reset
  <2>2. (StagedIsSound /\ NothingLost /\ NoStaleBackup /\ AwayInv /\ BootInv)'
    BY <1>3, UnflaggedType DEF AgnosUpdate, TypeOK, StagedIsSound, NothingLost, NoStaleBackup,
        AwayInv, BootInv, Installable, Flagged
  <2>3. (OverlayInv /\ StagingInv /\ AskedInv)'
    BY <1>3, UnflaggedType DEF AgnosUpdate, TypeOK, OverlayInv, StagingInv, AskedInv, Flagged,
        Booting, Mounted, Staging, Reset, Attentive
  <2> QED
    BY <2>1, <2>2, <2>3
<1>4. CASE Flash /\ asked' = asked
  <2>1. TypeOK'
    BY <1>4 DEF Flash, At, TypeOK, Steps, DaemonSteps, MergedTrees, OverlayInv, Mounted,
        Staging, Reset
  <2>2. (StagedIsSound /\ NothingLost /\ NoStaleBackup /\ AwayInv /\ BootInv)'
    BY <1>4 DEF Flash, At, TypeOK, StagedIsSound, NothingLost, NoStaleBackup, AwayInv, BootInv,
        Installable, Flagged, StagingInv, Staging, Reset
  <2>3. (OverlayInv /\ StagingInv /\ AskedInv)'
    BY <1>4 DEF Flash, At, TypeOK, OverlayInv, StagingInv, AskedInv, Flagged, Booting, Mounted,
        Staging, Reset, Attentive, MergedTrees
  <2> QED
    BY <2>1, <2>2, <2>3
<1>5. CASE Finalize /\ asked' = asked
  <2>1. TypeOK'
    BY <1>5 DEF Finalize, At, TypeOK, Steps, DaemonSteps, MergedTrees, FinalTrees, OverlayInv,
        Mounted, Staging, Reset
  <2>2. (StagedIsSound /\ NothingLost /\ NoStaleBackup /\ AwayInv /\ BootInv)'
    BY <1>5 DEF Finalize, At, TypeOK, StagedIsSound, NothingLost, NoStaleBackup, AwayInv,
        BootInv, Installable, Flagged, OverlayInv, Mounted, Staging, Reset, MergedTrees,
        FinalTrees
  <2>3. (OverlayInv /\ StagingInv /\ AskedInv)'
    BY <1>5 DEF Finalize, At, TypeOK, OverlayInv, StagingInv, AskedInv, Flagged, Booting,
        Mounted, Staging, Reset, Attentive, MergedTrees, FinalTrees
  <2> QED
    BY <2>1, <2>2, <2>3
<1>6. CASE CopyTree /\ asked' = asked
  <2>1. TypeOK'
    BY <1>6 DEF CopyTree, At, TypeOK, Steps, DaemonSteps, FinalTrees, StagingInv
  <2>2. (StagedIsSound /\ NothingLost /\ NoStaleBackup /\ AwayInv /\ BootInv)'
    BY <1>6 DEF CopyTree, At, TypeOK, StagedIsSound, NothingLost, NoStaleBackup, AwayInv,
        BootInv, Installable, Flagged, FinalTrees, StagingInv, Staging, Reset
  <2>3. (OverlayInv /\ StagingInv /\ AskedInv)'
    BY <1>6 DEF CopyTree, At, TypeOK, OverlayInv, StagingInv, AskedInv, Flagged, Booting,
        Mounted, Staging, Reset, Attentive, FinalTrees
  <2> QED
    BY <2>1, <2>2, <2>3
<1>7. CASE SyncTree /\ asked' = asked
  <2>1. TypeOK'
    BY <1>7, SyncedType DEF SyncTree, At, TypeOK, Steps, DaemonSteps, StagingInv
  <2>2. (StagedIsSound /\ NothingLost /\ NoStaleBackup /\ AwayInv /\ BootInv)'
    BY <1>7, SyncedType DEF SyncTree, At, TypeOK, StagedIsSound, NothingLost, NoStaleBackup,
        AwayInv, BootInv, Installable, Flagged, StagingInv, Staging, Reset
  <2>3. (OverlayInv /\ StagingInv /\ AskedInv)'
    BY <1>7, SyncedType DEF SyncTree, At, TypeOK, OverlayInv, StagingInv, AskedInv, Flagged,
        Booting, Mounted, Staging, Reset, Attentive
  <2> QED
    BY <2>1, <2>2, <2>3
<1>8. CASE RaiseFlag /\ asked' = asked
  <2>1. TypeOK'
    BY <1>8 DEF RaiseFlag, At, TypeOK, Steps, DaemonSteps, FinalTrees, StagingInv
  <2>2. (StagedIsSound /\ NothingLost /\ NoStaleBackup /\ AwayInv /\ BootInv)'
    BY <1>8 DEF RaiseFlag, At, TypeOK, StagedIsSound, NothingLost, NoStaleBackup, AwayInv,
        BootInv, Installable, Flagged, FinalTrees, StagingInv, Staging, Reset, OverlayInv, Mounted
  <2>3. (OverlayInv /\ StagingInv /\ AskedInv)'
    BY <1>8 DEF RaiseFlag, At, TypeOK, OverlayInv, StagingInv, AskedInv, Flagged, Booting,
        Mounted, Staging, Reset, Attentive, FinalTrees
  <2> QED
    BY <2>1, <2>2, <2>3
<1>9. CASE PublishParams /\ asked' = asked
  <2>1. TypeOK'
    BY <1>9 DEF PublishParams, At, TypeOK, Steps, DaemonSteps, UpdateReady
  <2>2. (StagedIsSound /\ NothingLost /\ NoStaleBackup /\ AwayInv /\ BootInv)'
    BY <1>9 DEF PublishParams, At, TypeOK, StagedIsSound, NothingLost, NoStaleBackup, AwayInv,
        BootInv, Installable, Flagged
  <2>3. (OverlayInv /\ StagingInv /\ AskedInv)'
    BY <1>9 DEF PublishParams, At, TypeOK, OverlayInv, StagingInv, AskedInv, Flagged, Booting,
        Mounted, Staging, Reset, Attentive
  <2> QED
    BY <2>1, <2>2, <2>3
<1>10. CASE Wake /\ asked' = asked
  <2>1. TypeOK'
    BY <1>10 DEF Wake, At, TypeOK, Steps, DaemonSteps
  <2>2. (StagedIsSound /\ NothingLost /\ NoStaleBackup /\ AwayInv /\ BootInv)'
    BY <1>10 DEF Wake, At, TypeOK, StagedIsSound, NothingLost, NoStaleBackup, AwayInv, BootInv,
        Installable, Flagged
  <2>3. (OverlayInv /\ StagingInv /\ AskedInv)'
    BY <1>10 DEF Wake, At, TypeOK, OverlayInv, StagingInv, AskedInv, Flagged, Booting, Mounted,
        Staging, Reset, Attentive
  <2> QED
    BY <2>1, <2>2, <2>3
<1> QED
  BY <1>1, <1>2, <1>3, <1>4, <1>5, <1>6, <1>7, <1>8, <1>9, <1>10
-----------------------------------------------------------------------------
(* Failures, the manager, the power and the owner. *)
LEMMA HandleInv ==
  ASSUME IInv, Handle, asked' = "no", pc \in DaemonSteps
  PROVE  IInv'
<1> USE UpdaterAssumption DEF IInv, disk, daemon
<1>1. base \in BaseTrees
  BY DEF TypeOK, AwayInv, DaemonSteps
<1>2. base' \in BaseTrees /\ ~base'.init /\ base' # None
  BY <1>1 DEF Handle, BaseTrees
<1>3. TypeOK'
  BY <1>2 DEF Handle, TypeOK, Steps, DaemonSteps
<1>4. (StagedIsSound /\ NothingLost /\ NoStaleBackup /\ AwayInv /\ BootInv)'
  BY <1>2 DEF Handle, StagedIsSound, NothingLost, NoStaleBackup, AwayInv, BootInv, Installable,
      Flagged, DaemonSteps
<1>5. (OverlayInv /\ StagingInv /\ AskedInv)'
  BY DEF Handle, OverlayInv, StagingInv, AskedInv, Flagged, Booting, Mounted, Staging, Reset,
      Attentive
<1> QED
  BY <1>3, <1>4, <1>5

LEMMA EndsInv ==
  ASSUME IInv, asked' = "no", GitRefuses \/ Fail \/ PublishFails \/ Kill \/ Reboot
  PROVE  IInv'
<1> USE UpdaterAssumption DEF IInv, disk, daemon
<1>1. CASE GitRefuses \/ Fail
  BY <1>1, HandleInv DEF GitRefuses, Fail, DaemonSteps
<1>2. CASE PublishFails
  <2>1. TypeOK'
    BY <1>2 DEF PublishFails, At, TypeOK, Steps, DaemonSteps
  <2>2. (StagedIsSound /\ NothingLost /\ NoStaleBackup /\ AwayInv /\ BootInv)'
    BY <1>2 DEF PublishFails, At, TypeOK, StagedIsSound, NothingLost, NoStaleBackup, AwayInv,
        BootInv, Installable, Flagged
  <2>3. (OverlayInv /\ StagingInv /\ AskedInv)'
    BY <1>2 DEF PublishFails, At, TypeOK, OverlayInv, StagingInv, AskedInv, Flagged, Booting,
        Mounted, Staging, Reset, Attentive
  <2> QED
    BY <2>1, <2>2, <2>3
<1>3. CASE Kill
  <2>1. TypeOK'
    BY <1>3 DEF Kill, Forgotten, TypeOK, Steps, DaemonSteps, MergedTrees, OverlayInv, Mounted,
        Staging
  <2>2. (StagedIsSound /\ NothingLost /\ NoStaleBackup /\ AwayInv /\ BootInv)'
    BY <1>3 DEF Kill, Forgotten, TypeOK, StagedIsSound, NothingLost, NoStaleBackup, AwayInv,
        BootInv, Installable, Flagged, DaemonSteps
  <2>3. (OverlayInv /\ StagingInv /\ AskedInv)'
    BY <1>3 DEF Kill, Forgotten, TypeOK, OverlayInv, StagingInv, AskedInv, Flagged, Booting,
        Mounted, Staging, Reset, Attentive, MergedTrees, DaemonSteps
  <2> QED
    BY <2>1, <2>2, <2>3
<1>4. CASE Reboot
  <2>1. fin' \in FinalTrees \cup {None} /\ (Flagged \/ Flagged' => fin' = fin)
    <3>1. CASE fin = None
      BY <1>4, <3>1 DEF Reboot, Synced, Flagged
    <3>2. CASE fin # None /\ fin' = Synced(fin)
      BY <3>2, SyncedType DEF TypeOK, StagedIsSound, Flagged
    <3>3. CASE fin # None /\ fin.copy = "cached" /\ fin' = [fin EXCEPT !.copy = "torn"]
      BY <3>3 DEF TypeOK, StagedIsSound, Flagged, FinalTrees
    <3> QED
      BY <1>4, <3>1, <3>2, <3>3 DEF Reboot
  <2>2. TypeOK'
    BY <1>4, <2>1 DEF Reboot, Forgotten, TypeOK, Steps, DaemonSteps
  <2>3. (StagedIsSound /\ NothingLost /\ NoStaleBackup /\ AwayInv /\ BootInv)'
    BY <1>4, <2>1 DEF Reboot, StagedIsSound, NothingLost, NoStaleBackup, AwayInv, BootInv,
        Installable, Flagged
  <2>4. (OverlayInv /\ StagingInv /\ AskedInv)'
    BY <1>4 DEF Reboot, Forgotten, OverlayInv, StagingInv, AskedInv, Booting, Mounted, Staging,
        Reset, Attentive
  <2> QED
    BY <2>2, <2>3, <2>4
<1> QED
  BY <1>1, <1>2, <1>3, <1>4

LEMMA OwnerInv ==
  ASSUME IInv,
         \/ Asks
         \/ asked' = asked /\ \E b \in Branches : EditBase(b)
         \/ asked' = asked /\ \E b \in Branches, r \in Revs : Publish(b, r)
  PROVE  IInv'
<1> USE UpdaterAssumption DEF IInv, disk, daemon
<1>1. ASSUME NEW r \in {"check", "fetch"}, Signal(r),
             asked' = "waiting" => r = "fetch" /\ pc \in Attentive
      PROVE  IInv'
  <2>1. TypeOK'
    BY <1>1 DEF Signal, TypeOK, Steps, DaemonSteps
  <2>2. (StagedIsSound /\ NothingLost /\ NoStaleBackup /\ AwayInv /\ BootInv)'
    BY <1>1 DEF Signal, TypeOK, StagedIsSound, NothingLost, NoStaleBackup, AwayInv, BootInv,
        Installable, Flagged
  <2>3. (OverlayInv /\ StagingInv /\ AskedInv)'
    BY <1>1 DEF Signal, TypeOK, OverlayInv, StagingInv, AskedInv, Flagged, Booting, Mounted,
        Staging, Reset, Attentive
  <2> QED
    BY <2>1, <2>2, <2>3
<1>2. ASSUME NEW b \in Branches, SelectBranch(b), asked' = "no"
      PROVE  IInv'
  <2>1. TypeOK'
    BY <1>2 DEF SelectBranch, TypeOK, Steps, DaemonSteps
  <2>2. (StagedIsSound /\ NothingLost /\ NoStaleBackup /\ AwayInv /\ BootInv)'
    BY <1>2 DEF SelectBranch, TypeOK, StagedIsSound, NothingLost, NoStaleBackup, AwayInv,
        BootInv, Installable, Flagged, DaemonSteps
  <2>3. (OverlayInv /\ StagingInv /\ AskedInv)'
    BY <1>2 DEF SelectBranch, TypeOK, OverlayInv, StagingInv, AskedInv, Flagged, Booting,
        Mounted, Staging, Reset, Attentive
  <2> QED
    BY <2>1, <2>2, <2>3
<1>3. ASSUME NEW b \in Branches, EditBase(b), asked' = asked
      PROVE  IInv'
  <2>1. base \in BaseTrees
    BY <1>3 DEF EditBase, TypeOK, AwayInv, DaemonSteps
  <2>2. base' \in BaseTrees /\ base'.edited /\ base' # None
    <3>1. [branch |-> b, rev |-> Local] \in Versions
      BY DEF Versions
    <3> QED
      BY <1>3, <2>1, <3>1 DEF EditBase, BaseTrees
  <2>3. TypeOK'
    BY <1>3, <2>2 DEF EditBase, TypeOK
  <2>4. (StagedIsSound /\ NothingLost /\ NoStaleBackup /\ AwayInv /\ BootInv)'
    BY <1>3, <2>2 DEF EditBase, StagedIsSound, NothingLost, NoStaleBackup, AwayInv, BootInv,
        Installable, Flagged, DaemonSteps
  <2>5. (OverlayInv /\ StagingInv /\ AskedInv)'
    BY <1>3 DEF EditBase, OverlayInv, StagingInv, AskedInv, Flagged
  <2> QED
    BY <2>3, <2>4, <2>5
<1>4. ASSUME NEW b \in Branches, NEW r \in Revs, Publish(b, r), asked' = asked
      PROVE  IInv'
  <2>1. TypeOK'
    BY <1>4 DEF Publish, TypeOK, Steps, DaemonSteps, Heads
  <2>2. (StagedIsSound /\ NothingLost /\ NoStaleBackup /\ AwayInv /\ BootInv)'
    BY <1>4 DEF Publish, TypeOK, StagedIsSound, NothingLost, NoStaleBackup, AwayInv, BootInv,
        Installable, Flagged
  <2>3. (OverlayInv /\ StagingInv /\ AskedInv)'
    BY <1>4 DEF Publish, TypeOK, OverlayInv, StagingInv, AskedInv, Flagged, Booting, Mounted,
        Staging, Reset, Attentive
  <2> QED
    BY <2>1, <2>2, <2>3
<1> QED
  BY <1>1, <1>2, <1>3, <1>4 DEF Asks
-----------------------------------------------------------------------------
LEMMA StepInv == IInv /\ [ObservedNext]_allvars => IInv'
<1> SUFFICES ASSUME IInv, [ObservedNext]_allvars
             PROVE  IInv'
  OBVIOUS
<1>1. CASE Asks
  BY <1>1, OwnerInv
<1>2. CASE Ends
  BY <1>2, StageInv, EndsInv DEF Ends
<1>3. CASE OtherStep /\ UNCHANGED asked
  BY <1>3, LaunchInv, CycleInv, StageInv, OwnerInv DEF OtherStep
<1>4. CASE UNCHANGED allvars
  BY <1>4 DEF allvars, vars, disk, daemon, IInv, TypeOK, StagedIsSound, NothingLost,
      NoStaleBackup, AwayInv, BootInv, Installable, Flagged, OverlayInv, StagingInv, AskedInv,
      Flagged, Booting, Mounted, Staging, Reset, Attentive
<1> QED
  BY <1>1, <1>2, <1>3, <1>4 DEF ObservedNext

LEMMA Invariance == ObservedSpec => []IInv
  BY InitInv, StepInv, PTL DEF ObservedSpec

(* Every variable of the updater keeps its type. *)
THEOREM TypeCorrect == ObservedSpec => []TypeOK
<1>1. IInv => TypeOK
  BY DEF IInv
<1> QED
  BY <1>1, Invariance, PTL

(* A tree marked consistent is whole and on the disk, and one the launch   *)
(* script would install finds the AGNOS it needs, wherever the power       *)
(* failed, the daemon was killed or a command failed.                      *)
THEOREM StagedIsSoundSafe == ObservedSpec => []StagedIsSound
<1>1. IInv => StagedIsSound
  BY DEF IInv
<1> QED
  BY <1>1, Invariance, PTL

(* While BASEDIR is moved away, both trees of the swap are whole. *)
THEOREM NothingLostSafe == ObservedSpec => []NothingLost
<1>1. IInv => NothingLost
  BY DEF IInv
<1> QED
  BY <1>1, Invariance, PTL

(* No backup of an earlier installation stands in the way of a staged one. *)
THEOREM NoStaleBackupSafe == ObservedSpec => []NoStaleBackup
<1>1. IInv => NoStaleBackup
  BY DEF IInv
<1> QED
  BY <1>1, Invariance, PTL

(* A fetch asked for before the decision of a cycle is carried out by it:  *)
(* the decision goes past the fetch for another request only.              *)
THEOREM RequestServedSafe == ObservedSpec => RequestServed
<1>1. ASSUME IInv, [ObservedNext]_allvars, asked = "waiting",
             pc = "decide", pc' = "publish", asked' = asked
      PROVE  FALSE
  <2>1. request = "fetch"
    BY <1>1 DEF IInv, AskedInv
  <2>2. ~Asks /\ ~Ends
    BY <1>1 DEF Asks, Ends, Signal, SelectBranch, Attentive
  <2>3. PICK metered \in BOOLEAN, timedOut \in BOOLEAN : Decide(metered, timedOut)
    BY <1>1, <2>2 DEF ObservedNext, allvars, vars, OtherStep, LaunchStep, At, Start,
        InitOverlay, Teardown, Mount, EarlyParams, CheckForUpdate, GitReset, AgnosUpdate,
        Flash, Finalize, CopyTree, SyncTree, RaiseFlag, PublishParams, Wake, Launch, SwapIn,
        AgnosInit, SetActive, StartManager, EditBase, Publish
  <2> QED
    BY <1>1, <2>1, <2>3 DEF Decide
<1>2. IInv /\ [ObservedNext]_allvars
      => [asked = "waiting" => ~(pc = "decide" /\ pc' = "publish" /\ asked' = asked)]_allvars
  BY <1>1
<1> QED
  BY <1>2, Invariance, PTL DEF ObservedSpec, RequestServed
-----------------------------------------------------------------------------
(* The refinement of StagedInstall. *)

(* A step that neither changes what runs nor raises the flag is no step of *)
(* StagedInstall, or discards what is staged.                              *)
LEMMA QuietStep ==
  ASSUME Running' = Running, fin' = fin \/ ~Flagged'
  PROVE  [Install!Next]_(Install!vars)
<1>1. CASE fin' = fin
  BY <1>1 DEF Install!vars, Staged, Flagged
<1>2. CASE ~Flagged'
  BY <1>2 DEF Install!Next, Install!Discard, Staged
<1> QED
  BY <1>1, <1>2

(* The tree that is raised is whole, and a published version. *)
LEMMA RaiseStep ==
  ASSUME IInv, IInv', RaiseFlag
  PROVE  Install!Next
<1> USE DEF IInv, RaiseFlag, At
<1>1. fin # None /\ fin \in FinalTrees /\ fin.ver = merged.ver /\ fin.copy = "synced" /\ ~Flagged
  BY DEF TypeOK, StagingInv, Staging, Reset
<1>2. fin.ver \in [branch : Branches, rev : Revs]
  <2>1. fin.ver \in Versions /\ fin.ver.rev \in Revs
    BY <1>1 DEF FinalTrees, StagingInv, Reset
  <2> QED
    BY <2>1 DEF Versions
<1>3. Flagged' /\ fin'.copy = "synced" /\ fin'.ver = fin.ver
  BY <1>1, UpdaterAssumption DEF Flagged, TypeOK, FinalTrees
<1> QED
  BY <1>1, <1>2, <1>3 DEF Install!Next, Install!Stage, Staged, Running

(* The swap installs what was staged: BASEDIR was away, so the flag was up. *)
LEMMA SwapStep ==
  ASSUME IInv, IInv', SwapIn
  PROVE  Install!Next
<1> USE DEF IInv, SwapIn, At
<1>1. fin # None /\ fin \in FinalTrees /\ Flagged /\ fin.copy = "synced"
  BY DEF AwayInv, NothingLost, Flagged, TypeOK
<1>2. Staged = fin.ver /\ fin.ver # None
  BY <1>1, UpdaterAssumption DEF Staged, FinalTrees
<1>3. base' # None /\ base'.ver = fin.ver /\ ~Flagged'
  BY DEF AwayInv, Flagged
<1> QED
  BY <1>2, <1>3 DEF Install!Next, Install!Install, Staged, Running

(* What is made in BASEDIR is a version of the device's own. *)
LEMMA EditStep ==
  ASSUME IInv, NEW b \in Branches, EditBase(b)
  PROVE  Install!Next
<1> USE DEF IInv, EditBase, disk
<1>1. base \in BaseTrees
  BY DEF TypeOK, AwayInv, DaemonSteps
<1>2. base'.ver = [branch |-> b, rev |-> Local] /\ base' \in BaseTrees
  <2>1. [branch |-> b, rev |-> Local] \in Versions
    BY DEF Versions
  <2> QED
    BY <1>1, <2>1 DEF BaseTrees
<1>3. Running' = [branch |-> b, rev |-> Local]
  BY <1>2, UpdaterAssumption DEF Running
<1> QED
  BY <1>3 DEF Install!Next, Install!Edit, Staged, Flagged

(* Handle and the cycle leave the version that runs alone. *)
LEMMA QuietHandle ==
  ASSUME IInv, Handle, pc \in DaemonSteps
  PROVE  Running' = Running /\ fin' = fin
<1>1. base \in BaseTrees
  BY DEF IInv, TypeOK, AwayInv, DaemonSteps
<1> QED
  BY <1>1, UpdaterAssumption DEF Handle, Running, BaseTrees

LEMMA QuietOthers ==
  ASSUME IInv, IInv', ObservedNext,
         ~SwapIn, ~RaiseFlag, \A b \in Branches : ~EditBase(b)
  PROVE  Running' = Running /\ (fin' = fin \/ ~Flagged')
<1> USE DEF IInv, disk, daemon, At
<1>1. CASE Launch
  BY <1>1 DEF Launch, Running, AwayInv
<1>2. CASE AgnosInit \/ SetActive \/ StartManager
  BY <1>2 DEF AgnosInit, SetActive, StartManager, Running
<1>3. CASE Start \/ InitOverlay \/ FetchUpdate \/ AgnosUpdate
  BY <1>3, UnflaggedType DEF Start, InitOverlay, FetchUpdate, AgnosUpdate, Running, Flagged,
      TypeOK
<1>4. CASE Teardown
  BY <1>4 DEF Teardown, Running, Flagged, AwayInv
<1>5. CASE Mount
  <2>1. base \in BaseTrees
    BY <1>5 DEF Mount, TypeOK, AwayInv
  <2> QED
    BY <1>5, <2>1, UpdaterAssumption DEF Mount, Running, BaseTrees
<1>6. CASE CopyTree \/ SyncTree \/ Finalize
  BY <1>6 DEF CopyTree, SyncTree, Finalize, Running, Flagged, StagingInv, Staging, Reset
<1>7. CASE \/ \E timeValid \in BOOLEAN : EarlyParams(timeValid)
           \/ CheckForUpdate \/ GitReset \/ Flash \/ PublishParams \/ Wake
           \/ \E metered \in BOOLEAN, timedOut \in BOOLEAN : Decide(metered, timedOut)
           \/ \E b \in Branches, r \in Revs : Publish(b, r)
           \/ Asks
  BY <1>7 DEF EarlyParams, CheckForUpdate, GitReset, Flash, PublishParams, Wake, Decide,
      Publish, Asks, Signal, SelectBranch, Running
<1>8. CASE GitRefuses \/ Fail
  BY <1>8, QuietHandle DEF GitRefuses, Fail, DaemonSteps
<1>9. CASE PublishFails \/ Kill
  BY <1>9 DEF PublishFails, Kill, Running
<1>10. CASE Reboot
  <2>1. CASE Flagged'
    <3>1. CASE fin = None
      BY <1>10, <3>1 DEF Reboot, Synced, Running
    <3>2. CASE fin # None /\ fin' = Synced(fin)
      BY <1>10, <2>1, <3>2, SyncedType DEF Reboot, Running, TypeOK, StagedIsSound, Flagged
    <3>3. CASE fin # None /\ fin.copy = "cached" /\ fin' = [fin EXCEPT !.copy = "torn"]
      BY <1>10, <2>1, <3>3 DEF TypeOK, StagedIsSound, Flagged, FinalTrees
    <3> QED
      BY <1>10, <3>1, <3>2, <3>3 DEF Reboot
  <2>2. CASE ~Flagged'
    BY <1>10, <2>2 DEF Reboot, Running
  <2> QED
    BY <2>1, <2>2
<1> QED
  BY <1>1, <1>2, <1>3, <1>4, <1>5, <1>6, <1>7, <1>8, <1>9, <1>10
     DEF ObservedNext, Ends, OtherStep, LaunchStep

(* The updater implements StagedInstall: wherever it is interrupted, the   *)
(* device runs a version it ran before, one that was made on it, or one    *)
(* that was staged whole.                                                  *)
THEOREM AtomicInstallSafe == ObservedSpec => AtomicInstall
<1>1. ObservedInit => Install!Init
  <2> SUFFICES ASSUME ObservedInit PROVE Install!Init
    OBVIOUS
  <2>1. PICK r \in Revs : base = [ver |-> [branch |-> target, rev |-> r], init |-> FALSE,
                                 flag |-> FALSE, edited |-> FALSE]
    BY DEF ObservedInit, Init
  <2>2. base # None
    BY InitInv, UpdaterAssumption DEF IInv, AwayInv, ObservedInit, Init
  <2>3. Running = [branch |-> target, rev |-> r] /\ Staged = None /\ target \in Branches
    BY <2>1, <2>2 DEF ObservedInit, Init, Running, Staged, Flagged
  <2> QED
    BY <2>3 DEF Install!Init
<1>2. IInv /\ IInv' /\ [ObservedNext]_allvars => [Install!Next]_(Install!vars)
  <2> SUFFICES ASSUME IInv, IInv', [ObservedNext]_allvars
               PROVE  [Install!Next]_(Install!vars)
    OBVIOUS
  <2>1. CASE RaiseFlag \/ SwapIn \/ \E b \in Branches : EditBase(b)
    BY <2>1, RaiseStep, SwapStep, EditStep
  <2>2. CASE UNCHANGED allvars
    BY <2>2 DEF allvars, vars, disk, Install!vars, Running, Staged, Flagged
  <2> QED
    BY <2>1, <2>2, QuietOthers, QuietStep
<1> QED
  BY <1>1, <1>2, Invariance, PTL DEF ObservedSpec, AtomicInstall, Install!Spec
=============================================================================
