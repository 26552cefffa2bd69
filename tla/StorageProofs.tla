---------------------------- MODULE StorageProofs ----------------------------
(***************************************************************************)
(* Theorems about the files of the device: what Segments and ParamStore    *)
(* leave at a server and on the disk, for every length of a drive and      *)
(* however often it is interrupted.                                        *)
(***************************************************************************)
EXTENDS ServiceChecks, TLAPS

(* A power cut leaves the version in place, or one since the last sync.    *)
ParamInv ==
  /\ returned \in Nat
  /\ version \in may
  /\ \A v \in may : v.number \in Nat
  /\ Durable

LEMMA ParamInitInv == ParamInit => ParamInv
<1> SUFFICES ASSUME ParamInit PROVE ParamInv
  OBVIOUS
<1>1. version = [number |-> 0, whole |-> TRUE] /\ may = {version} /\ returned = 0
  BY DEF ParamInit
<1> QED
  BY <1>1 DEF ParamInv, Durable

(* Nothing moves into place that was not synced, so the rename adds a      *)
(* whole version; the sync of the directory forgets the older ones.        *)
LEMMA ParamStep ==
  ASSUME ParamInv, ParamNext \/ UNCHANGED paramVars
  PROVE  ParamInv'
<1> USE DEF ParamInv, Durable
<1>1. CASE UNCHANGED stored
  BY <1>1 DEF stored
<1>2. ASSUME NEW t \in Threads, InPlace(t, TRUE)
      PROVE  ParamInv'
  <2>1. /\ version' = [number |-> version.number + 1, whole |-> TRUE]
        /\ may' = may \cup {version'} /\ returned' = returned
    BY <1>2 DEF InPlace
  <2>2. version'.whole /\ version'.number \in Nat /\ version'.number >= returned
    BY <2>1
  <2> QED
    BY <2>1, <2>2
<1>3. ASSUME NEW t \in Threads, SyncDir(t)
      PROVE  ParamInv'
  BY <1>3 DEF SyncDir
<1>4. CASE Blackout
  BY <1>4 DEF Blackout
<1>5. CASE Push \/ StartWriter \/ Pop \/ Leave \/ Destroy \/ Rerun
  BY <1>1, <1>5 DEF Push, StartWriter, Pop, Leave, Destroy, Rerun
<1>6. ASSUME NEW t \in Threads, WriteTemp(t) \/ SyncTemp(t) \/ FailTemp(t)
      PROVE  ParamInv'
  BY <1>1, <1>6 DEF WriteTemp, SyncTemp, FailTemp
<1> QED
  BY <1>1, <1>2, <1>3, <1>4, <1>5, <1>6 DEF ParamNext, Rename, Unlink, paramVars, stored

(* What a power cut leaves of a key is whole, and not older than the last  *)
(* write that returned, for every number of writes and every queue.        *)
THEOREM DurableSafe == ServiceSpec => []Durable
<1>1. ServiceInit => ParamInv
  BY ParamInitInv DEF ServiceInit
<1>2. ParamInv /\ [ServiceNext]_serviceVars => ParamInv'
  <2> SUFFICES ASSUME ParamInv, [ServiceNext]_serviceVars PROVE ParamInv'
    OBVIOUS
  <2>1. ParamNext \/ UNCHANGED paramVars
    BY DEF ServiceNext, serviceVars
  <2> QED
    BY <2>1, ParamStep
<1>3. ParamInv => Durable
  BY DEF ParamInv
<1> QED
  BY <1>1, <1>2, <1>3, PTL DEF ServiceSpec
-----------------------------------------------------------------------------
LoggerStages == {"off", "made", "locked", "logging", "unlocked", "closing"}
Making == logger \in {"made", "locked"}

FileTypes ==
  /\ logger \in LoggerStages
  /\ seg \in -1 .. Last /\ videoSeg \in -1 .. Last
  /\ content \in [Segs -> [Files -> {"no", "part", "whole", "cut"}]]
  /\ dir \subseteq Segs /\ sent \subseteq dir
  /\ pending \subseteq Segs \X SUBSET Files
  /\ dash \in {"idle", "next", "rsync", "tag"}
  /\ dash \in {"rsync", "tag"} => up \in Segs /\ todo \subseteq Files
  /\ open \in BOOLEAN

(* No directory is ahead of loggerd but the one it is making.              *)
DirInv ==
  /\ Making => seg < Last
  /\ \A s \in dir : s <= seg \/ (Making /\ s = seg + 1)

(* A file that is being written is of the segment loggerd has open.        *)
PartInv ==
  \A s \in Segs :
    /\ content[s]["qlog"] = "part" => s = seg /\ logger # "off"
    /\ content[s]["video"] = "part" => s = videoSeg /\ logger # "off"

(* loggerd will not write to segment s any more.                           *)
NoMore(s) ==
  /\ s <= seg
  /\ s = seg => logger # "logging"
  /\ \A f \in Files : content[s][f] # "part"

(* The whole ones among some files of s are at the server.                 *)
There(s, files) == \A f \in files : content[s][f] = "whole" => <<s, f>> \in remote

(* The list of a cycle that began when loggerd was done: it names all the  *)
(* files its segments have.                                                *)
ListInv ==
  dash # "idle" /\ ~open
    => \A p \in pending : NoMore(p[1]) /\ \A f \in Files \ p[2] : content[p[1]][f] = "no"

(* What the cycle has come to is at the server.                            *)
CopyInv ==
  /\ dash \in {"rsync", "tag"} /\ ~open => NoMore(up) /\ There(up, Files \ todo)
  /\ dash = "tag" => todo = {}

SentInv == \A s \in sent \ early : NoMore(s) /\ There(s, Files)

FileInv == FileTypes /\ DirInv /\ PartInv /\ ListInv /\ CopyInv /\ SentInv /\ StaleLocksGo
-----------------------------------------------------------------------------
LEMMA FileInitInv == SegInit /\ open = FALSE /\ early = {} => FileInv
<1> SUFFICES ASSUME SegInit, open = FALSE, early = {} PROVE FileInv
  OBVIOUS
<1> USE DEF SegInit, None
<1>1. FileTypes
  <2>1. content \in [Segs -> [Files -> {"no", "part", "whole", "cut"}]]
    OBVIOUS
  <2>2. -1 \in -1 .. Last
    BY SegmentsAssumption
  <2> QED
    BY <2>1, <2>2 DEF FileTypes, LoggerStages
<1>2. DirInv /\ ListInv /\ CopyInv /\ SentInv /\ StaleLocksGo
  BY DEF DirInv, Making, ListInv, CopyInv, SentInv, StaleLocksGo
<1>3. PartInv
  BY DEF PartInv, Files
<1> QED
  BY <1>1, <1>2, <1>3 DEF FileInv

(* The lock file, and who holds it.                                        *)
LEMMA LocksStep ==
  ASSUME StaleLocksGo, SegNext \/ UNCHANGED segVars
  PROVE  StaleLocksGo'
<1> USE DEF StaleLocksGo
<1>1. CASE UNCHANGED <<uploader, lock, logger, seg>>
  BY <1>1
<1>2. CASE LoggerStep
  BY <1>1, <1>2
  DEF LoggerStep, MakeDir, MakeLock, OpenLog, OpenVideo, Unlock, Close, delVars
<1>3. CASE PowerCut \/ ClearLocks
  BY <1>3 DEF PowerCut, ClearLocks
<1>4. CASE DashStep \/ DashFail
  BY <1>1, <1>4
  DEF DashStep, DashList, DashNext, Rsync, DashGone, DashFail, GiveUpCycle, MarkComplete, Tag,
      disk,
      logVars, delVars
<1>5. CASE DeleterStep \/ DeleterList
  BY <1>1, <1>5
  DEF DeleterStep, DeleterSkip, DeleterTake, Remove, RemoveDir, DeleterList, disk, logVars,
      delVars,
      cache
<1>6. CASE Drive \/ Park \/ Bookmark
  BY <1>1, <1>6 DEF Drive, Park, Bookmark, disk, logVars, delVars
<1> QED
  BY <1>1, <1>2, <1>3, <1>4, <1>5, <1>6 DEF SegNext, segVars

(* What loggerd is done with stays as it was closed, until it is removed.  *)
Frozen(s) ==
  NoMore(s) => /\ NoMore(s)'
               /\ \A f \in Files : content'[s][f] \in {content[s][f], "no"}

LEMMA FrozenStep ==
  ASSUME FileTypes, DirInv, PartInv, SegNext \/ UNCHANGED segVars, NEW s \in Segs
  PROVE  Frozen(s)
<1> USE DEF Frozen, NoMore, FileTypes, Segs
<1>1. CASE UNCHANGED <<content, logger, seg>>
  BY <1>1
<1>2. CASE MakeDir \/ MakeLock \/ Unlock
  BY <1>2 DEF MakeDir, MakeLock, Unlock
<1>3. CASE OpenLog
  <2>1. /\ seg' = seg + 1 /\ content'[s]["video"] = content[s]["video"]
        /\ s <= seg /\ content[s]["qlog"] # "part" => content'[s]["qlog"] = content[s]["qlog"]
    BY <1>3 DEF OpenLog, Files
  <2> QED
    BY <2>1 DEF Files
<1>4. CASE OpenVideo
  BY <1>4 DEF OpenVideo, Files
<1>5. CASE Close
  BY <1>5 DEF Close, Files
<1>6. CASE PowerCut
  <2>1. seg' \in {seg, seg + 1} /\ logger' = "off"
    BY <1>6 DEF PowerCut
  <2>2. \A f \in Files : content[s][f] # "part" => content'[s][f] = content[s][f]
    BY <1>6 DEF PowerCut
  <2> QED
    BY <2>1, <2>2
<1>7. CASE Remove
  BY <1>7 DEF Remove, logVars, Files
<1>8. CASE DashStep \/ DashFail
  BY <1>1, <1>8
  DEF DashStep, DashList, DashNext, Rsync, DashGone, DashFail, GiveUpCycle, MarkComplete, Tag,
      disk,
      logVars, delVars
<1>9. CASE DeleterSkip \/ DeleterTake \/ RemoveDir \/ DeleterList
  BY <1>1, <1>9 DEF DeleterSkip, DeleterTake, RemoveDir, DeleterList, disk, logVars, cache
<1>10. CASE Drive \/ Park \/ Bookmark \/ ClearLocks
  BY <1>1, <1>10 DEF Drive, Park, Bookmark, ClearLocks, disk, logVars, delVars
<1> QED
  BY <1>1, <1>2, <1>3, <1>4, <1>5, <1>6, <1>7, <1>8, <1>9, <1>10
  DEF SegNext, LoggerStep, DeleterStep, segVars

Others == Drive \/ Park \/ Bookmark \/ ClearLocks \/ DeleterList \/ DeleterSkip \/ DeleterTake

LEMMA OthersStep ==
  ASSUME Others
  PROVE  UNCHANGED <<logger, seg, videoSeg, dir, content, sent, dashVars>>
  BY DEF Others, Drive, Park, Bookmark, ClearLocks, DeleterList, DeleterSkip, DeleterTake,
      disk, logVars, delVars, cache

LEMMA TypesStep ==
  ASSUME FileTypes, DirInv, SegNext \/ UNCHANGED segVars, open' \in BOOLEAN
  PROVE  FileTypes' /\ DirInv'
<1> USE DEF FileTypes, DirInv, Making, LoggerStages, Segs
<1>1. CASE UNCHANGED <<logger, seg, videoSeg, dir, content, sent, dashVars>>
  BY <1>1 DEF dashVars
<1>2. CASE MakeDir \/ MakeLock \/ Unlock
  <2>1. CASE MakeDir
    BY <2>1, SegmentsAssumption DEF MakeDir, dashVars
  <2>2. CASE MakeLock
    BY <2>2 DEF MakeLock, dashVars
  <2>3. CASE Unlock
    BY <2>3 DEF Unlock, dashVars
  <2> QED
    BY <1>2, <2>1, <2>2, <2>3
<1>3. CASE OpenLog
  <2>1. content' \in [Segs -> [Files -> {"no", "part", "whole", "cut"}]]
    BY <1>3 DEF OpenLog, Files
  <2>2. DirInv' /\ seg' \in -1 .. Last
    BY <1>3, SegmentsAssumption DEF OpenLog
  <2> QED
    BY <1>3, <2>1, <2>2 DEF OpenLog, dashVars
<1>4. CASE OpenVideo
  <2>1. content' \in [Segs -> [Files -> {"no", "part", "whole", "cut"}]]
    BY <1>4 DEF OpenVideo, Files
  <2> QED
    BY <1>4, <2>1 DEF OpenVideo, dashVars
<1>5. CASE Close
  <2>1. content' \in [Segs -> [Files -> {"no", "part", "whole", "cut"}]]
    BY <1>5 DEF Close, Files
  <2> QED
    BY <1>5, <2>1, SegmentsAssumption DEF Close, dashVars, None
<1>6. CASE PowerCut
  <2>1. content' \in [Segs -> [Files -> {"no", "part", "whole", "cut"}]]
    BY <1>6 DEF PowerCut, Files
  <2> QED
    BY <1>6, <2>1, SegmentsAssumption DEF PowerCut, None
<1>7. CASE Remove
  <2>1. content' \in [Segs -> [Files -> {"no", "part", "whole", "cut"}]]
    <3>1. PICK f \in Files : content' = [content EXCEPT ![victim][f] = "no"]
      BY <1>7 DEF Remove
    <3>2. \A s \in Segs : content'[s] \in [Files -> {"no", "part", "whole", "cut"}]
      BY <3>1
    <3> QED
      BY <3>1, <3>2
  <2> QED
    BY <1>7, <2>1 DEF Remove, logVars, dashVars
<1>8. CASE RemoveDir
  BY <1>8 DEF RemoveDir, logVars, dashVars
<1>9. CASE DashList
  <2>1. UNCHANGED <<disk, logVars>> /\ dash' \in {"idle", "next"}
    BY <1>9 DEF DashList
  <2>2. pending' \subseteq Segs \X SUBSET Files
    BY <1>9 DEF DashList, Present
  <2>3. DirInv' /\ seg' = seg /\ videoSeg' = videoSeg /\ logger' = logger /\ content' = content
    BY <2>1 DEF disk, logVars
  <2>4. dir' = dir /\ sent' = sent
    BY <2>1 DEF disk
  <2> QED
    BY <2>1, <2>2, <2>3, <2>4
<1>10. CASE DashNext \/ DashGone \/ DashFail
  <2>1. UNCHANGED <<disk, logVars>>
    BY <1>10 DEF DashNext, DashGone, DashFail, GiveUpCycle
  <2>2. CASE dash' = "idle" /\ pending' = {}
    BY <2>1, <2>2 DEF disk, logVars
  <2>3. ASSUME NEW p \in pending, dash' = "rsync", up' = p[1], todo' = p[2], pending' = pending \ {p}
        PROVE  FileTypes' /\ DirInv'
    BY <2>1, <2>3 DEF disk, logVars
  <2> QED
    BY <1>10, <2>2, <2>3 DEF DashNext, DashGone, DashFail, GiveUpCycle
<1>11. CASE Rsync \/ MarkComplete \/ Tag
  BY <1>11 DEF Rsync, MarkComplete, RsyncDone, Tag, disk, logVars
<1>12. CASE Others
  BY <1>1, <1>12, OthersStep
<1> QED
  BY <1>1, <1>2, <1>3, <1>4, <1>5, <1>6, <1>7, <1>8, <1>9, <1>10, <1>11, <1>12
  DEF SegNext, LoggerStep, DeleterStep, DashStep, Others, segVars, dashVars

LEMMA PartStep ==
  ASSUME FileTypes, DirInv, PartInv, SegNext \/ UNCHANGED segVars
  PROVE  PartInv'
<1> USE DEF FileTypes, PartInv, Segs
<1>1. CASE UNCHANGED <<logger, seg, videoSeg, content>>
  BY <1>1
<1>2. CASE MakeDir \/ MakeLock \/ Unlock
  BY <1>2 DEF MakeDir, MakeLock, Unlock
<1>3. CASE OpenLog
  BY <1>3 DEF OpenLog, Files
<1>4. CASE OpenVideo
  BY <1>4 DEF OpenVideo, Files
<1>5. CASE Close \/ PowerCut
  <2>1. CASE Close
    BY <2>1 DEF Close, Files
  <2>2. CASE PowerCut
    BY <2>2 DEF PowerCut, Files
  <2> QED
    BY <1>5, <2>1, <2>2
<1>6. CASE Remove
  BY <1>6 DEF Remove, logVars, Files
<1>7. CASE DashStep \/ DashFail
  BY <1>1, <1>7
  DEF DashStep, DashList, DashNext, Rsync, DashGone, DashFail, GiveUpCycle, MarkComplete, Tag,
      disk,
      logVars
<1>8. CASE RemoveDir
  BY <1>1, <1>8 DEF RemoveDir, logVars
<1>9. CASE Others
  BY <1>1, <1>9, OthersStep
<1> QED
  BY <1>1, <1>2, <1>3, <1>4, <1>5, <1>6, <1>7, <1>8, <1>9
  DEF SegNext, LoggerStep, DeleterStep, Others, segVars

(* A file that is gone, or was never there, stays so in a frozen segment,  *)
(* and none becomes whole there.                                           *)
LEMMA FrozenFiles ==
  ASSUME FileTypes, NEW s \in Segs, Frozen(s), NoMore(s), NEW f \in Files
  PROVE  /\ NoMore(s)'
         /\ content[s][f] = "no" => content'[s][f] = "no"
         /\ content'[s][f] = "whole" => content[s][f] = "whole"
  BY DEF Frozen

(* The server keeps what it has of a whole file.                           *)
LEMMA ThereStep ==
  ASSUME FileTypes, SegNext \/ UNCHANGED segVars, NEW s \in Segs, Frozen(s), NoMore(s),
         NEW files \in SUBSET Files, There(s, files)
  PROVE  There(s, files)'
<1> SUFFICES ASSUME NEW f \in files, content'[s][f] = "whole" PROVE <<s, f>> \in remote'
  BY DEF There
<1>1. content[s][f] = "whole" /\ <<s, f>> \in remote
  BY FrozenFiles DEF There
<1>2. CASE Rsync
  <2>1. PICK g \in todo :
          remote' = IF content[up][g] = "whole" THEN remote \cup {<<up, g>>} ELSE remote \ {<<up, g>>}
    BY <1>2 DEF Rsync
  <2> QED
    BY <1>1, <2>1
<1>3. CASE remote' = remote
  BY <1>1, <1>3
<1> QED
  BY <1>2, <1>3
  DEF SegNext, LoggerStep, DeleterStep, DashStep, DashList, DashNext, DashGone, DashFail,
      GiveUpCycle, MarkComplete, Tag, Drive, Park, PowerCut, ClearLocks, Bookmark, DeleterList,
      MakeDir, MakeLock, OpenLog, OpenVideo, Unlock, Close, DeleterSkip, DeleterTake, Remove,
      RemoveDir, dashVars, segVars

(* The steps that are not of the dashcam uploader leave it alone, or end it. *)
LEMMA OtherDash ==
  ASSUME SegNext \/ UNCHANGED segVars, ~DashStep
  PROVE  dash' = "idle" \/ UNCHANGED <<dash, pending, up, todo, remote>>
  BY DEF SegNext, LoggerStep, DeleterStep, DashFail, GiveUpCycle, Drive, Park, PowerCut,
      ClearLocks, Bookmark, DeleterList, MakeDir, MakeLock, OpenLog, OpenVideo, Unlock, Close,
      DeleterSkip, DeleterTake, Remove, RemoveDir, dashVars, segVars

LEMMA ListStep ==
  ASSUME FileTypes, DirInv, PartInv, ListInv, \A s \in Segs : Frozen(s),
         FileObserved \/ UNCHANGED fileAll
  PROVE  ListInv'
<1>1. SegNext \/ UNCHANGED segVars
  BY DEF FileObserved, fileAll
<1>2. CASE DashList
  <2> SUFFICES ASSUME dash' # "idle", ~open', NEW p \in pending'
               PROVE  NoMore(p[1])' /\ \A f \in Files \ p[2] : content'[p[1]][f] = "no"
    BY DEF ListInv
  <2>1. dash = "idle" /\ dash' = "next" /\ UNCHANGED <<content, logger, seg>>
    BY <1>2 DEF DashList, disk, logVars
  <2>2. logger = "off"
    BY <2>1 DEF FileObserved, fileAll, segVars
  <2>3. PICK s \in dir : p = <<s, Present(s)>>
    BY <1>2 DEF DashList
  <2>4. s \in Segs /\ NoMore(s)
    BY <2>2 DEF FileTypes, DirInv, Making, PartInv, NoMore, Files
  <2> QED
    BY <2>1, <2>3, <2>4 DEF NoMore, Present
<1>3. CASE ~DashList
  <2>1. dash' = "idle" \/ (dash # "idle" /\ pending' \subseteq pending)
    BY <1>1, <1>3, OtherDash
    DEF DashStep, DashNext, DashGone, GiveUpCycle, Rsync, MarkComplete, RsyncDone, Tag, ListInv
  <2>2. dash # "idle" => (open' <=> open)
    BY DEF FileObserved, fileAll
  <2> SUFFICES ASSUME dash' # "idle", ~open', NEW p \in pending'
               PROVE  NoMore(p[1])' /\ \A f \in Files \ p[2] : content'[p[1]][f] = "no"
    BY DEF ListInv
  <2>3. p[1] \in Segs /\ NoMore(p[1]) /\ \A f \in Files \ p[2] : content[p[1]][f] = "no"
    BY <2>1, <2>2 DEF ListInv, FileTypes
  <2>4. PICK s \in Segs : s = p[1]
    BY <2>3
  <2>5. NoMore(s) /\ Frozen(s)
    BY <2>3, <2>4
  <2>6. NoMore(s)' /\ \A f \in Files \ p[2] : content'[s][f] = "no"
    BY <2>3, <2>4, <2>5, FrozenFiles DEF Frozen
  <2> QED
    BY <2>4, <2>6 DEF NoMore
<1> QED
  BY <1>2, <1>3

LEMMA CopyStep ==
  ASSUME FileTypes, ListInv, CopyInv, \A s \in Segs : Frozen(s), FileTypes',
         FileObserved \/ UNCHANGED fileAll
  PROVE  CopyInv'
<1>1. SegNext \/ UNCHANGED segVars
  BY DEF FileObserved, fileAll
<1>2. dash # "idle" => (open' <=> open)
  BY DEF FileObserved, fileAll
<1>3. dash' = "tag" => todo' = {}
  BY <1>1, OtherDash
  DEF DashStep, DashList, DashNext, DashGone, GiveUpCycle, Rsync, MarkComplete, RsyncDone, Tag,
      CopyInv
<1> SUFFICES ASSUME dash' \in {"rsync", "tag"}, ~open'
             PROVE  NoMore(up)' /\ There(up, Files \ todo)'
  BY <1>3 DEF CopyInv
<1>4. CASE DashNext
  <2>1. UNCHANGED <<content, logger, seg, remote>> /\ dash = "next"
    BY <1>4 DEF DashNext, disk, logVars
  <2>2. PICK p \in pending : up' = p[1] /\ todo' = p[2]
    BY <1>4 DEF DashNext
  <2>3. NoMore(p[1]) /\ \A f \in Files \ p[2] : content[p[1]][f] = "no"
    BY <1>2, <2>1 DEF ListInv
  <2> QED
    BY <2>1, <2>2, <2>3 DEF NoMore, There
<1>5. CASE ~DashNext
  <2>1. /\ dash \in {"rsync", "tag"} /\ up' = up /\ todo' \subseteq todo
        /\ \A f \in todo \ todo' : content[up][f] = "whole" => <<up, f>> \in remote'
    BY <1>1, <1>5, OtherDash
    DEF DashStep, DashList, DashGone, GiveUpCycle, Rsync, MarkComplete, RsyncDone, Tag
  <2>2. PICK s \in Segs : s = up
    BY <2>1 DEF FileTypes
  <2>3. NoMore(s) /\ Frozen(s) /\ There(s, Files \ todo)
    BY <1>2, <2>1, <2>2 DEF CopyInv
  <2>4. NoMore(s)' /\ \A f \in Files : content'[s][f] = "whole" => content[s][f] = "whole"
    BY <2>3, FrozenFiles DEF Frozen
  <2>5. \A f \in Files \ todo : content'[s][f] = "whole" => <<s, f>> \in remote'
    <3>1. PICK files \in SUBSET Files : files = Files \ todo
      OBVIOUS
    <3>2. There(s, files)'
      BY <1>1, <2>3, <3>1, ThereStep
    <3> QED
      BY <3>1, <3>2 DEF There
  <2>6. There(s, Files \ todo)'
    BY <2>1, <2>2, <2>4, <2>5 DEF There
  <2> QED
    BY <2>1, <2>2, <2>4, <2>6 DEF NoMore, There
<1> QED
  BY <1>4, <1>5

LEMMA SentStep ==
  ASSUME FileTypes, CopyInv, SentInv, \A s \in Segs : Frozen(s), FileTypes',
         FileObserved \/ UNCHANGED fileAll
  PROVE  SentInv'
<1>1. SegNext \/ UNCHANGED segVars
  BY DEF FileObserved, fileAll
<1> SUFFICES ASSUME NEW s \in sent' \ early' PROVE NoMore(s)' /\ There(s, Files)'
  BY DEF SentInv
<1>2. s \in Segs /\ s \in dir'
  BY DEF FileTypes
<1>3. NoMore(s) /\ There(s, Files)
  <2>1. CASE s \in sent
    <3>1. s \notin early
      BY <1>2 DEF FileObserved, fileAll
    <3> QED
      BY <2>1, <3>1 DEF SentInv
  <2>2. CASE s \notin sent
    <3>1. Tag /\ s = up
      BY <1>1, <2>2
      DEF SegNext, LoggerStep, DeleterStep, DashStep, DashList, DashNext, DashGone, DashFail,
          GiveUpCycle, Rsync, MarkComplete, Tag, Drive, Park, PowerCut, ClearLocks, Bookmark,
          DeleterList, MakeDir, MakeLock, OpenLog, OpenVideo, Unlock, Close, DeleterSkip,
          DeleterTake, Remove, RemoveDir, disk, segVars
    <3>2. ~open
      BY <1>2, <2>2 DEF FileObserved, fileAll, segVars
    <3> QED
      BY <3>1, <3>2 DEF CopyInv, Tag, There
  <2> QED
    BY <2>1, <2>2
<1>4. Frozen(s) /\ Files \in SUBSET Files
  BY <1>2
<1> QED
  BY <1>1, <1>2, <1>3, <1>4, FrozenFiles, ThereStep DEF Frozen

LEMMA FileStep == FileInv /\ [ServiceNext]_serviceVars => FileInv'
<1> SUFFICES ASSUME FileInv, [ServiceNext]_serviceVars PROVE FileInv'
  OBVIOUS
<1> USE DEF FileInv
<1>1. FileObserved \/ UNCHANGED fileAll
  BY DEF ServiceNext, serviceVars
<1>2. SegNext \/ UNCHANGED segVars
  BY <1>1 DEF FileObserved, fileAll
<1>3. open' \in BOOLEAN
  BY <1>1 DEF FileObserved, fileAll, FileTypes
<1>4. FileTypes' /\ DirInv'
  BY <1>2, <1>3, TypesStep
<1>5. \A s \in Segs : Frozen(s)
  BY <1>2, FrozenStep
<1>6. PartInv' /\ StaleLocksGo'
  BY <1>2, PartStep, LocksStep
<1>7. ListInv' /\ CopyInv' /\ SentInv'
  BY <1>1, <1>4, <1>5, ListStep, CopyStep, SentStep
<1> QED
  BY <1>4, <1>6, <1>7

LEMMA FileInvariance == ServiceSpec => []FileInv
<1>1. ServiceInit => FileInv
  BY FileInitInv DEF ServiceInit
<1> QED
  BY <1>1, FileStep, PTL DEF ServiceSpec

(* Whatever failed or was interrupted, a segment marked as sent by a cycle *)
(* that began when loggerd was done is at the server, file for file.       *)
THEOREM SentIsWholeSafe == ServiceSpec => []SentIsWhole
<1>1. FileInv => SentIsWhole
  BY DEF FileInv, SentInv, There, SentIsWhole
<1> QED
  BY <1>1, FileInvariance, PTL

(* Once the uploader runs, the only lock is of the segment loggerd opens   *)
(* or has open.                                                            *)
THEOREM StaleLocksGoSafe == ServiceSpec => []StaleLocksGo
<1>1. FileInv => StaleLocksGo
  BY DEF FileInv
<1> QED
  BY <1>1, FileInvariance, PTL
=============================================================================
