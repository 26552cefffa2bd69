---------------------------- MODULE UploadQueue ----------------------------
(***************************************************************************)
(* athenad's uploads: jsonrpc handlers enqueue, list and cancel; upload    *)
(* workers take the most urgent item, send it, and put it back when it     *)
(* fails.  The threads share the queue, the table of current items and the *)
(* set of cancelled ids without a lock; the queue is cached in a parameter *)
(* for the next start.  A lost connection ends all threads and starts new  *)
(* ones; a crash leaves only the parameter.                                *)
(*                                                                         *)
(* A thread is at pc[t]; between two of its steps any other thread may     *)
(* run.  An id is a hash over the item and its time, so two requests for   *)
(* one file are two items of one url.                                      *)
(***************************************************************************)
EXTENDS Naturals, FiniteSets

CONSTANTS
  Workers,     \* upload_handler threads, four in the code
  Handlers,    \* jsonrpc_handler threads, HANDLER_THREADS
  Items,       \* the requests the owner may make, one item each
  Url,         \* Url[i]: the url of an item without its query
  Priority,    \* Priority[i]: lower is more urgent
  Cellular,    \* the items with allow_cellular
  MaxRetry,    \* MAX_RETRY_COUNT, 30
  NoItem       \* None

ASSUME UploadAssumption ==
  /\ Workers \cap Handlers = {}
  /\ MaxRetry \in Nat
  /\ Priority \in [Items -> Nat]
  /\ Url \in [Items -> Items]
  /\ Cellular \subseteq Items
  /\ NoItem \notin Items

Threads == Workers \cup Handlers

VARIABLES
  pc,         \* where a thread is
  arg,        \* the item a thread works on
  queue,      \* upload_queue
  cur,        \* cur_upload_items, by worker
  cancelled,  \* cancelled_uploads
  retries,    \* retry_count of an item
  picture,    \* what a thread read of the queue: the items, and their retry counts
  cached,     \* AthenadUploadQueue: the retry count of each item in it
  fate,       \* what became of an item
  metered,    \* deviceState.networkMetered
  ending      \* end_event

vars == <<pc, arg, queue, cur, cancelled, retries, picture, cached, fate, metered, ending>>
board == <<queue, cur, cancelled, cached, metered, ending>>
shared == <<board, retries>>

(* "gone": cancelled, expired, given up, broken or forgotten.              *)
Fates == {"unknown", "accepted", "sent", "gone"}

Init ==
  /\ pc = [t \in Threads |-> "idle"]
  /\ arg = [t \in Threads |-> NoItem]
  /\ queue = {}
  /\ cur = [w \in Workers |-> NoItem]
  /\ cancelled = {}
  /\ retries = [i \in Items |-> 0]
  /\ picture = [t \in Threads |-> {}]
  /\ cached = {}
  /\ fate = [i \in Items |-> "unknown"]
  /\ metered \in BOOLEAN
  /\ ending = FALSE

Goto(t, there) == pc' = [pc EXCEPT ![t] = there]
Finish(i, how) ==
  /\ fate' = [fate EXCEPT ![i] = how]
  /\ retries' = [retries EXCEPT ![i] = 0]

(* A copy of some items, with the retry count of now. *)
Copy(items) == {<<i, retries[i]>> : i \in items}
Copied(entries) == {e[1] : e \in entries}

-----------------------------------------------------------------------------
(* UploadQueueCache.cache, called by handlers and workers: the queue is    *)
(* read, then written with a blocking put.  "put" and "caching" end a call *)
(* and an upload, "recaching" is in retry_upload.                          *)
CacheRead(t) ==
  /\ pc[t] \in {"put", "caching", "recaching"}
  /\ picture' = [picture EXCEPT ![t] = Copy(queue \ cancelled)]
  /\ Goto(t, IF pc[t] = "recaching" THEN "rewriting" ELSE "writing")
  /\ UNCHANGED <<arg, shared, fate>>

CacheWrite(t) ==
  /\ pc[t] \in {"writing", "rewriting"}
  /\ cached' = picture[t]
  /\ picture' = [picture EXCEPT ![t] = {}]
  /\ IF t \in Handlers
     THEN Goto(t, "idle") /\ arg' = [arg EXCEPT ![t] = NoItem]
     ELSE Goto(t, IF pc[t] = "writing" THEN "loop" ELSE "retried") /\ UNCHANGED arg
  /\ UNCHANGED <<queue, cur, cancelled, retries, fate, metered, ending>>

-----------------------------------------------------------------------------
(* upload_handler starts a round: end_event is looked at, and not again    *)
(* while it waits for work.  A worker has a current item until its next    *)
(* round, or for good if it ends.                                          *)
Round(w) ==
  /\ pc[w] = "loop"
  /\ arg' = [arg EXCEPT ![w] = NoItem]
  /\ IF ending
     THEN Goto(w, "ended") /\ UNCHANGED cur
     ELSE Goto(w, "idle") /\ cur' = [cur EXCEPT ![w] = NoItem]
  /\ UNCHANGED <<queue, cancelled, retries, picture, cached, fate, metered, ending>>

(* Either loop: after a second without work, end_event is looked at.       *)
Wake(t) ==
  /\ pc[t] = "idle" /\ ending
  /\ Goto(t, "ended")
  /\ UNCHANGED <<arg, shared, picture, fate>>

-----------------------------------------------------------------------------
(* uploadFilesToUrls for one more file: listUploadQueue copies the queue,  *)
(* then the current items, and leaves out what is cancelled; a file whose  *)
(* url is listed is skipped.                                               *)
ListQueue(h, i) ==
  /\ pc[h] \in {"idle", "put"}
  /\ fate[i] = "unknown" /\ \A t \in Handlers : arg[t] # i
  /\ arg' = [arg EXCEPT ![h] = i]
  /\ picture' = [picture EXCEPT ![h] = Copy(queue)]
  /\ Goto(h, "listing")
  /\ UNCHANGED <<shared, fate>>

ListCurrent(h) ==
  /\ pc[h] = "listing"
  /\ LET listed == (Copied(picture[h]) \cup {cur[w] : w \in Workers}) \ ({NoItem} \cup cancelled)
         known == \E i \in listed : Url[i] = Url[arg[h]]
     IN IF known
        THEN Goto(h, "put") /\ arg' = [arg EXCEPT ![h] = NoItem]
        ELSE Goto(h, "enqueue") /\ UNCHANGED arg
  /\ picture' = [picture EXCEPT ![h] = {}]
  /\ UNCHANGED <<shared, fate>>

Enqueue(h) ==
  /\ pc[h] = "enqueue"
  /\ queue' = queue \cup {arg[h]}
  /\ Finish(arg[h], "accepted")
  /\ Goto(h, "put") /\ arg' = [arg EXCEPT ![h] = NoItem]
  /\ UNCHANGED <<cur, cancelled, picture, cached, metered, ending>>

(* cancelUpload: the ids in the queue are read, the set is updated later.  *)
FindToCancel(h, i) ==
  /\ pc[h] = "idle"
  /\ i \in queue
  /\ arg' = [arg EXCEPT ![h] = i]
  /\ Goto(h, "cancel")
  /\ UNCHANGED <<shared, picture, fate>>

Cancel(h) ==
  /\ pc[h] = "cancel"
  /\ cancelled' = cancelled \cup {arg[h]}
  /\ Goto(h, "idle") /\ arg' = [arg EXCEPT ![h] = NoItem]
  /\ UNCHANGED <<queue, cur, retries, picture, cached, fate, metered, ending>>

-----------------------------------------------------------------------------
(* upload_handler.  PriorityQueue.get: the smallest priority, any of equal *)
(* ones.  The item is on no list until Take.                               *)
MostUrgent == {i \in queue : \A j \in queue : Priority[i] <= Priority[j]}

(* Mutant: the head is looked at and taken off later, by the table's update. *)
GetPeek(w, i) ==
  /\ pc[w] = "idle"
  /\ i \in MostUrgent
  /\ arg' = [arg EXCEPT ![w] = i]
  /\ Goto(w, "got")
  /\ UNCHANGED <<queue, cur, cancelled, retries, picture, cached, fate, metered, ending>>

Get(w, i) ==
  /\ pc[w] = "idle"
  /\ i \in MostUrgent
  /\ queue' = queue \ {i}
  /\ arg' = [arg EXCEPT ![w] = i]
  /\ Goto(w, "got")
  /\ UNCHANGED <<cur, cancelled, retries, picture, cached, fate, metered, ending>>

Take(w) ==
  /\ pc[w] = "got"
  /\ cur' = [cur EXCEPT ![w] = arg[w]]
  /\ Goto(w, "taken")
  /\ UNCHANGED <<arg, queue, cancelled, retries, picture, cached, fate, metered, ending>>

DropCancelled(w) ==
  /\ pc[w] = "taken" /\ arg[w] \in cancelled
  /\ cancelled' = cancelled \ {arg[w]}
  /\ Finish(arg[w], "gone")
  /\ Goto(w, "loop")
  /\ UNCHANGED <<arg, queue, cur, picture, cached, metered, ending>>

(* Older than MAX_AGE; time is the environment's. *)
DropExpired(w) ==
  /\ pc[w] = "taken" /\ arg[w] \notin cancelled
  /\ Finish(arg[w], "gone")
  /\ Goto(w, "loop")
  /\ UNCHANGED <<arg, board, picture>>

MayUse(i) == ~metered \/ i \in Cellular

(* Mutant: cancelled items are looked at when the item is dropped only. *)
StartAnyway(w) ==
  /\ pc[w] = "taken"
  /\ Goto(w, IF MayUse(arg[w]) THEN "sending" ELSE "retry")
  /\ UNCHANGED <<arg, shared, picture, fate>>

Start(w) ==
  /\ pc[w] = "taken" /\ arg[w] \notin cancelled
  /\ Goto(w, IF MayUse(arg[w]) THEN "sending" ELSE "retry")
  /\ UNCHANGED <<arg, shared, picture, fate>>

(* Mutant: a success is put back like a failure. *)
SentAndKept(w) ==
  /\ pc[w] = "sending"
  /\ Finish(arg[w], "sent")
  /\ Goto(w, "retry")
  /\ UNCHANGED <<arg, board, picture>>

(* A status of success, or of a file that need not be sent again. *)
Sent(w) ==
  /\ pc[w] = "sending"
  /\ Finish(arg[w], "sent")
  /\ Goto(w, "caching")
  /\ UNCHANGED <<arg, board, picture>>

(* Any other status, or a timeout: to be put back with one more retry. *)
Fail(w) ==
  /\ pc[w] = "sending"
  /\ Goto(w, "retryMore")
  /\ UNCHANGED <<arg, shared, picture, fate>>

(* AbortTransferException of the callback. *)
Abort(w) ==
  /\ pc[w] = "sending"
  /\ ending \/ ~MayUse(arg[w])
  /\ Goto(w, "retry")
  /\ UNCHANGED <<arg, shared, picture, fate>>

(* Any other exception, as of a file that was deleted meanwhile. *)
Break(w) ==
  /\ pc[w] = "sending"
  /\ Finish(arg[w], "gone")
  /\ Goto(w, "loop")
  /\ UNCHANGED <<arg, board, picture>>

(* Mutant: one retry more than MAX_RETRY_COUNT. *)
PutBackTooOften(w) ==
  /\ pc[w] \in {"retry", "retryMore"}
  /\ retries[arg[w]] <= MaxRetry
  /\ retries' = [retries EXCEPT ![arg[w]] = IF pc[w] = "retryMore" THEN @ + 1 ELSE @]
  /\ queue' = queue \cup {arg[w]}
  /\ Goto(w, "recaching")
  /\ UNCHANGED <<arg, cur, cancelled, picture, cached, fate, metered, ending>>

(* retry_upload: the item returns to the queue, the queue is cached, and   *)
(* only then the item is no longer current.                                *)
PutBack(w) ==
  /\ pc[w] \in {"retry", "retryMore"}
  /\ retries[arg[w]] < MaxRetry
  /\ retries' = [retries EXCEPT ![arg[w]] = IF pc[w] = "retryMore" THEN @ + 1 ELSE @]
  /\ queue' = queue \cup {arg[w]}
  /\ Goto(w, "recaching")
  /\ UNCHANGED <<arg, cur, cancelled, picture, cached, fate, metered, ending>>

(* After a status the queue is cached once more, after an exception not.   *)
GiveUp(w) ==
  /\ pc[w] \in {"retry", "retryMore"}
  /\ retries[arg[w]] >= MaxRetry
  /\ Finish(arg[w], "gone")
  /\ Goto(w, "loop") \/ (pc[w] = "retryMore" /\ Goto(w, "caching"))
  /\ UNCHANGED <<arg, board, picture>>

ClearCurrent(w) ==
  /\ pc[w] = "retried"
  /\ cur' = [cur EXCEPT ![w] = NoItem]
  /\ Goto(w, "loop") \/ Goto(w, "caching")
  /\ UNCHANGED <<arg, queue, cancelled, retries, picture, cached, fate, metered, ending>>

-----------------------------------------------------------------------------
(* The network, and the connection: ws_recv or ws_send set end_event, main *)
(* joins all threads, forgets the current items and connects again.        *)
Meter ==
  /\ metered' = ~metered
  /\ UNCHANGED <<pc, arg, queue, cur, cancelled, retries, picture, cached, fate, ending>>

Disconnect ==
  /\ ~ending /\ ending' = TRUE
  /\ UNCHANGED <<pc, arg, queue, cur, cancelled, retries, picture, cached, fate, metered>>

Reconnect ==
  /\ ending /\ \A t \in Threads : pc[t] = "ended"
  /\ ending' = FALSE
  /\ cur' = [w \in Workers |-> NoItem]
  /\ pc' = [t \in Threads |-> "idle"]
  /\ UNCHANGED <<arg, queue, cancelled, retries, picture, cached, fate, metered>>

(* The process dies and manage_athenad starts it again: the queue is what  *)
(* was cached.                                                             *)
Restart ==
  LET kept == Copied(cached)
  IN /\ queue' = kept
     /\ retries' = [i \in Items |-> IF i \in kept THEN (CHOOSE e \in cached : e[1] = i)[2] ELSE 0]
     /\ fate' = [i \in Items |-> IF i \in kept THEN "accepted"
                                 ELSE IF fate[i] = "accepted" THEN "gone" ELSE fate[i]]
     /\ pc' = [t \in Threads |-> "idle"]
     /\ arg' = [t \in Threads |-> NoItem]
     /\ cur' = [w \in Workers |-> NoItem]
     /\ picture' = [t \in Threads |-> {}]
     /\ cancelled' = {} /\ ending' = FALSE
     /\ UNCHANGED <<cached, metered>>

HandlerStep(h) ==
  \/ \E i \in Items : ListQueue(h, i) \/ FindToCancel(h, i)
  \/ ListCurrent(h) \/ Enqueue(h) \/ Cancel(h)

WorkerStep(w) ==
  \/ \E i \in Items : Get(w, i)
  \/ Take(w) \/ DropCancelled(w) \/ DropExpired(w) \/ Start(w)
  \/ Sent(w) \/ Fail(w) \/ Abort(w) \/ Break(w)
  \/ PutBack(w) \/ GiveUp(w) \/ ClearCurrent(w) \/ Round(w)

ThreadStep(t) == CacheRead(t) \/ CacheWrite(t) \/ Wake(t)

LiveNext ==
  \/ \E h \in Handlers : HandlerStep(h)
  \/ \E w \in Workers : WorkerStep(w)
  \/ \E t \in Threads : ThreadStep(t)
  \/ Meter \/ Disconnect \/ Reconnect

Next == LiveNext \/ Restart

Spec == Init /\ [][Next]_vars
=============================================================================
