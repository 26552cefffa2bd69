------------------------------ MODULE Segments ------------------------------
(***************************************************************************)
(* The directories of a drive: loggerd opens and closes them, the deleter  *)
(* makes room, the dashcam uploader copies them to a server while parked,  *)
(* the other uploader, which sends nothing in this fork, clears the locks  *)
(* a power cut left.  They share the file system and its attributes and    *)
(* know nothing of each other but the lock file.  The manager runs loggerd *)
(* onroad and the dashcam uploader offroad, and does not wait for the one  *)
(* to end before it starts the other.  OnroadUploads has its default: the  *)
(* uploader runs from boot on.  What was written survives a power cut.     *)
(*                                                                         *)
(* Segments are numbered in the order of listdir_by_creation.              *)
(***************************************************************************)
EXTENDS Integers, FiniteSets

CONSTANTS
  Last,       \* the last segment, to bound the run
  Preserve,   \* PRESERVE_COUNT
  Bookmarkable \* the segments in which the driver may set a bookmark, to bound the run

ASSUME SegmentsAssumption == Last \in Nat /\ Preserve \in Nat /\ Bookmarkable \subseteq 0 .. Last

Segs == 0 .. Last
Files == {"video", "qlog"}   \* of the camera, of the logger
None == -1

VARIABLES
  onroad,      \* started, for the manager
  logger,      \* where loggerd is
  seg, videoSeg,  \* the segments whose log and whose video loggerd writes
  dir, lock,   \* the directories; those with a lock file
  content,     \* of each file: "no", "part", "whole" or "cut"
  marked,      \* user.preserve
  sent,        \* user.dashcam_upload
  deleter, view, keep, victim,  \* where the deleter is, the directories it still considers, those it
               \* would rather keep, the one it removes
  looked, seen, \* its _cached_attributes: the directories it asked for, those that were marked
  uploader,    \* "starting" or "on"
  dash, pending, up, todo, \* ... and the uploader: its list, the segment it sends, what it still copies
  remote, complete   \* the server's whole files, and the segments marked there

segVars == <<onroad, logger, seg, videoSeg, dir, lock, content, marked, sent, deleter, view,
             keep, victim, looked, seen, uploader, dash, pending, up, todo, remote, complete>>
disk == <<dir, lock, content, marked, sent>>
logVars == <<logger, seg, videoSeg>>
delVars == <<deleter, view, keep, victim, looked, seen, uploader>>
cache == <<looked, seen, uploader>>
dashVars == <<dash, pending, up, todo, remote, complete>>

SegInit ==
  /\ onroad = FALSE
  /\ logger = "off" /\ seg = None /\ videoSeg = None
  /\ dir = {} /\ lock = {} /\ marked = {} /\ sent = {}
  /\ content = [s \in Segs |-> [f \in Files |-> "no"]]
  /\ deleter = "idle" /\ view = {} /\ keep = {} /\ victim = None
  /\ looked = {} /\ seen = {} /\ uploader = "starting"
  /\ dash = "idle" /\ pending = {} /\ up = None /\ todo = {}
  /\ remote = {} /\ complete = {}

-----------------------------------------------------------------------------
(* The manager at the ends of a drive: loggerd is told to stop, the        *)
(* uploader started in the same round, and the other way round.            *)
Drive ==
  /\ ~onroad /\ onroad' = TRUE
  /\ UNCHANGED <<disk, logVars, delVars, dashVars>>

Park ==
  /\ onroad /\ onroad' = FALSE
  /\ UNCHANGED <<disk, logVars, delVars, dashVars>>

(* Everything ends, and boots again offroad; open files stay unfinished.   *)
PowerCut ==
  /\ onroad' = FALSE
  /\ logger' = "off" /\ videoSeg' = None
  /\ seg' = IF logger \in {"made", "locked"} THEN seg + 1 ELSE seg
  /\ deleter' = "idle" /\ view' = {} /\ keep' = {} /\ victim' = None
  /\ looked' = {} /\ seen' = {} /\ uploader' = "starting"
  /\ dash' = "idle" /\ pending' = {} /\ up' = None /\ todo' = {}
  /\ content' = [s \in Segs |-> [f \in Files |-> IF content[s][f] = "part" THEN "cut" ELSE content[s][f]]]
  /\ UNCHANGED <<dir, lock, marked, sent, remote, complete>>

-----------------------------------------------------------------------------
(* LoggerState::next makes the directory, then the lock, then the log,     *)
(* whose predecessor is closed by that; the video of the old segment is    *)
(* closed by the first frame of the new one.                               *)
MakeDir ==
  /\ \/ logger = "off" /\ onroad
     \/ logger = "unlocked"
  /\ seg < Last
  /\ dir' = dir \cup {seg + 1}
  /\ logger' = "made"
  /\ UNCHANGED <<onroad, seg, videoSeg, lock, content, marked, sent, delVars, dashVars>>

MakeLock ==
  /\ logger = "made"
  /\ lock' = IF seg + 1 \in dir THEN lock \cup {seg + 1} ELSE lock
  /\ logger' = "locked"
  /\ UNCHANGED <<onroad, seg, videoSeg, dir, content, marked, sent, delVars, dashVars>>

OpenLog ==
  /\ logger = "locked"
  /\ seg' = seg + 1
  /\ content' = [s \in Segs |-> [content[s] EXCEPT !["qlog"] =
                   IF s = seg /\ @ = "part" THEN "whole"
                   ELSE IF s = seg + 1 /\ s \in dir THEN "part" ELSE @]]
  /\ logger' = "logging"
  /\ UNCHANGED <<onroad, videoSeg, dir, lock, marked, sent, delVars, dashVars>>

(* The first frame of a segment.                                           *)
OpenVideo ==
  /\ logger = "logging" /\ videoSeg # seg
  /\ videoSeg' = seg
  /\ content' = [s \in Segs |-> [content[s] EXCEPT !["video"] =
                   IF s = videoSeg /\ @ = "part" THEN "whole"
                   ELSE IF s = seg /\ s \in dir THEN "part" ELSE @]]
  /\ UNCHANGED <<onroad, logger, seg, dir, lock, marked, sent, delVars, dashVars>>

(* Before the next segment and before the end the lock goes first.         *)
Unlock ==
  /\ logger = "logging"
  /\ \/ onroad /\ seg < Last /\ logger' = "unlocked"
     \/ ~onroad /\ logger' = "closing"
  /\ lock' = lock \ {seg}
  /\ UNCHANGED <<onroad, seg, videoSeg, dir, content, marked, sent, delVars, dashVars>>

(* The files are closed by the destructors, after ~LoggerState's body.     *)
Close ==
  /\ logger = "closing"
  /\ logger' = "off" /\ videoSeg' = None
  /\ content' = [s \in Segs |-> [f \in Files |->
                   IF s \in {seg, videoSeg} /\ content[s][f] = "part" THEN "whole" ELSE content[s][f]]]
  /\ UNCHANGED <<onroad, seg, dir, lock, marked, sent, delVars, dashVars>>

(* handle_preserve_segment, a bookmark.                                    *)
Bookmark ==
  /\ logger = "logging" /\ seg \in dir \cap Bookmarkable
  /\ marked' = marked \cup {seg}
  /\ UNCHANGED <<onroad, logVars, dir, lock, content, sent, delVars, dashVars>>

-----------------------------------------------------------------------------
(* Mutant: the last directory is taken for the one in use. *)
ClearLocksButLast ==
  /\ uploader = "starting" /\ uploader' = "on"
  /\ lock' = {s \in lock : \A r \in dir : r <= s}
  /\ UNCHANGED <<onroad, logVars, dir, content, marked, sent, deleter, view, keep, victim, looked,
                 seen, dashVars>>

(* clear_locks, when the uploader starts.                                  *)
ClearLocks ==
  /\ uploader = "starting" /\ uploader' = "on"
  /\ lock' = {}
  /\ UNCHANGED <<onroad, logVars, dir, content, marked, sent, deleter, view, keep, victim, looked,
                 seen, dashVars>>

-----------------------------------------------------------------------------
(* getxattr: what the deleter knows of a mark, asked for once; and what    *)
(* get_preserved_segments makes of it: the most recent marked directories  *)
(* and two before each.  It asks from the newest directory back, and stops *)
(* at the first marked one beyond their count.                             *)
Marked(s) == IF s \in looked THEN s \in seen ELSE s \in marked
Newer(dirs, s) == Cardinality({r \in dirs : r > s /\ Marked(r)})
Asked(dirs) == {s \in dirs : Newer(dirs, s) <= Preserve}
Preserved(dirs) ==
  {s \in Segs : \E r \in dirs : Marked(r) /\ Newer(dirs, r) < Preserve /\ s \in {r - 2, r - 1, r}}

(* The first of the directories in the order of deletion.                  *)
Choice(dirs) ==
  LET free == dirs \ keep
      pool == IF free = {} THEN dirs ELSE free
  IN {s \in pool : \A r \in pool : s <= r}

(* Too little space: the directories are listed.                           *)
DeleterList ==
  /\ deleter = "idle" /\ dir # {}
  /\ deleter' = "choosing" /\ view' = dir /\ keep' = Preserved(dir)
  /\ looked' = looked \cup Asked(dir) /\ seen' = seen \cup {s \in Asked(dir) : Marked(s)}
  /\ UNCHANGED <<onroad, logVars, disk, victim, uploader, dashVars>>

(* One directory after the other, until one could be removed.              *)
DeleterSkip ==
  /\ deleter = "choosing" /\ view # {}
  /\ \E s \in Choice(view) :
       /\ s \in lock
       /\ view' = view \ {s}
       /\ deleter' = (IF view' = {} THEN "idle" ELSE "choosing")
       /\ keep' = IF view' = {} THEN {} ELSE keep
  /\ UNCHANGED <<onroad, logVars, disk, victim, cache, dashVars>>

DeleterTake ==
  /\ deleter = "choosing"
  /\ \E s \in Choice(view) :
       /\ s \notin lock
       /\ view' = view \ {s} /\ victim' = s
  /\ deleter' = "removing"
  /\ UNCHANGED <<onroad, logVars, disk, keep, cache, dashVars>>

(* rmtree or a move to an external disk: the files go one by one.          *)
Remove ==
  /\ deleter = "removing"
  /\ \E f \in Files :
       /\ content[victim][f] # "no"
       /\ content' = [content EXCEPT ![victim][f] = "no"]
  /\ UNCHANGED <<onroad, logVars, dir, lock, marked, sent, delVars, dashVars>>

(* The directory goes last, or, with a lock since, not at all.             *)
RemoveDir ==
  /\ deleter = "removing" /\ \A f \in Files : content[victim][f] = "no"
  /\ victim' = None
  /\ IF victim \in lock
     THEN deleter' = (IF view = {} THEN "idle" ELSE "choosing") /\ UNCHANGED <<dir, marked, sent, view>>
     ELSE /\ dir' = dir \ {victim} /\ marked' = marked \ {victim} /\ sent' = sent \ {victim}
          /\ deleter' = "idle" /\ view' = {}
  /\ keep' = IF deleter' = "idle" THEN {} ELSE keep
  /\ UNCHANGED <<onroad, logVars, lock, content, cache, dashVars>>

-----------------------------------------------------------------------------
(* dashcam_uploader.run_cycle: the segments without its attribute that     *)
(* have any of the files, with the files they have now.                    *)
Present(s) == {f \in Files : content[s][f] # "no"}

DashList ==
  /\ dash = "idle" /\ ~onroad
  /\ pending' = {<<s, Present(s)>> : s \in {s \in dir \ sent : Present(s) # {}}}
  /\ dash' = IF pending' = {} THEN "idle" ELSE "next"
  /\ UNCHANGED <<onroad, disk, logVars, delVars, up, todo, remote, complete>>

(* The oldest first; none after a stop signal.                             *)
DashNext ==
  /\ dash = "next"
  /\ IF onroad \/ pending = {}
     THEN /\ dash' = "idle" /\ pending' = {} /\ up' = None /\ todo' = {}
     ELSE \E p \in pending :
            /\ \A q \in pending : p[1] <= q[1]
            /\ up' = p[1] /\ todo' = p[2] /\ pending' = pending \ {p}
            /\ dash' = "rsync"
  /\ UNCHANGED <<onroad, disk, logVars, delVars, remote, complete>>

(* rsync copies a file as it is.                                           *)
Rsync ==
  /\ dash = "rsync"
  /\ \E f \in todo :
       /\ content[up][f] # "no"
       /\ remote' = IF content[up][f] = "whole" THEN remote \cup {<<up, f>>} ELSE remote \ {<<up, f>>}
       /\ todo' = todo \ {f}
  /\ UNCHANGED <<onroad, disk, logVars, delVars, dash, pending, up, complete>>

(* Mutant: the result of rsync is not looked at. *)
RsyncAttempted == dash = "rsync"

RsyncDone == dash = "rsync" /\ todo = {}

(* The marker, by a second connection.                                     *)
MarkComplete ==
  /\ RsyncDone
  /\ complete' = complete \cup {up}
  /\ dash' = "tag"
  /\ UNCHANGED <<onroad, disk, logVars, delVars, pending, up, todo, remote>>

(* A failed or terminated command, a file that is gone: the cycle ends.    *)
GiveUpCycle ==
  /\ dash = "rsync"
  /\ dash' = "idle" /\ pending' = {} /\ up' = None /\ todo' = {}
  /\ UNCHANGED <<onroad, disk, logVars, delVars, remote, complete>>

(* Mutant: a file that is gone is tried again and again. *)
DashGoneInPlace ==
  /\ dash = "rsync" /\ \E f \in todo : content[up][f] = "no"
  /\ UNCHANGED segVars

DashGone == GiveUpCycle /\ \E f \in todo : content[up][f] = "no"
DashFail == GiveUpCycle

(* setxattr; a directory that was deleted meanwhile has none.              *)
Tag ==
  /\ dash = "tag"
  /\ sent' = IF up \in dir THEN sent \cup {up} ELSE sent
  /\ dash' = "next"
  /\ UNCHANGED <<onroad, dir, lock, content, marked, logVars, delVars, pending, up, todo, remote,
                 complete>>

LoggerStep == MakeDir \/ MakeLock \/ OpenLog \/ OpenVideo \/ Unlock \/ Close
DeleterStep == DeleterSkip \/ DeleterTake \/ Remove \/ RemoveDir
DashStep == DashList \/ DashNext \/ Rsync \/ DashGone \/ MarkComplete \/ Tag

SegNext ==
  \/ Drive \/ Park \/ PowerCut \/ ClearLocks \/ Bookmark \/ DeleterList \/ DashFail
  \/ LoggerStep \/ DeleterStep \/ DashStep
=============================================================================
