-------------------------- MODULE UploadQueueChecks --------------------------
(* Properties of the upload queue.  promised is an observer: the items of  *)
(* this process that cancelUpload found in the queue and marked there.     *)
EXTENDS UploadQueue

VARIABLES promised
checkVars == <<vars, promised>>

CancelledNow ==
  {arg[h] : h \in {h \in Handlers : pc[h] = "cancel" /\ pc'[h] = "idle"}} \cap queue

ObservedInit == Init /\ promised = {}

ObservedSpec ==
  /\ ObservedInit
  /\ [][\/ LiveNext /\ promised' = promised \cup CancelledNow
        \/ Restart /\ promised' = {}]_checkVars

TypeOK ==
  /\ pc \in [Threads -> {"idle", "loop", "ended", "listing", "enqueue", "put", "cancel",
                         "got", "taken", "sending", "retry", "retryMore", "retried",
                         "caching", "recaching", "writing", "rewriting"}]
  /\ arg \in [Threads -> Items \cup {NoItem}]
  /\ queue \subseteq Items
  /\ cur \in [Workers -> Items \cup {NoItem}]
  /\ cancelled \subseteq Items
  /\ retries \in [Items -> 0 .. MaxRetry]
  /\ picture \in [Threads -> SUBSET (Items \X (0 .. MaxRetry))]
  /\ cached \subseteq Items \X (0 .. MaxRetry)
  /\ fate \in [Items -> Fates]
  /\ metered \in BOOLEAN /\ ending \in BOOLEAN

(* A worker is responsible for the item it took off the queue until it     *)
(* puts it back or is done with it.                                        *)
InHand(w) == pc[w] \in {"got", "taken", "sending", "retry", "retryMore"}

(* upload_handler, retry_upload, listUploadQueue: an accepted item is in   *)
(* the queue or in the hands of one worker, never both and never neither,  *)
(* and is listed but for the one step between get and the table, although  *)
(* four workers take and put back, the table lags behind, and a restart    *)
(* fills the queue from a list that is as old as the last cache.           *)
OneHolder ==
  /\ \A v, w \in Workers : InHand(v) /\ InHand(w) /\ arg[v] = arg[w] => v = w
  /\ \A w \in Workers : InHand(w) => arg[w] \notin queue
  /\ \A w \in Workers : InHand(w) => fate[arg[w]] = "accepted"
  /\ \A i \in Items : fate[i] = "accepted" =>
       i \in queue \/ \E w \in Workers : cur[w] = i \/ (pc[w] = "got" /\ arg[w] = i)

(* cancelUpload: what was marked while it was in the queue is not sent by  *)
(* this process, however often it was tried before.                        *)
CancelHolds ==
  \A i \in promised :
    fate[i] # "sent" /\ \A w \in Workers : ~(pc[w] = "sending" /\ arg[w] = i)

(* The queue implements UploadJobs.                                        *)
IsSent(i) == \E w \in Workers : pc[w] = "sending" /\ arg[w] = i

JobOf(i) ==
  CASE fate[i] = "unknown" -> "none"
    [] fate[i] = "accepted" -> IF IsSent(i) THEN "sending" ELSE "waiting"
    [] OTHER -> fate[i]

Jobs == INSTANCE UploadJobs WITH job <- [i \in Items |-> JobOf(i)]
JobsKept == Jobs!JobSpec
=============================================================================
