SPECIFICATION FairSpec
CONSTANTS
  Branches = {"a", "b"}
  Moving = {"a"}
  Revs = {"r1", "r2"}
  Local = "local"
  Oses = {1, 2}
  None = None
  Needs <- NeedsOfRev
INVARIANTS
  TypeOK
  StagedIsSound
  NothingLost
  NoStaleBackup
PROPERTIES
  RequestServed
  AtomicInstall
  UpdateStaged
