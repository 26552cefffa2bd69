---------------------------- MODULE UploadProofs ----------------------------
(***************************************************************************)
(* Theorems about UploadQueue and UploadQueueChecks, for every number of   *)
(* workers and handlers, every set of requests with their urls and         *)
(* priorities, and every limit of retries.                                 *)
(***************************************************************************)
EXTENDS UploadQueueChecks, TLAPS

HandlerSteps == {"idle", "ended", "listing", "enqueue", "put", "cancel", "writing"}

WorkerSteps == {"idle", "loop", "ended", "got", "taken", "sending", "retry", "retryMore",
                "retried", "caching", "recaching", "writing", "rewriting"}

(* Handlers and workers run their own code. *)
RoleInv ==
  /\ \A h \in Handlers : pc[h] \in HandlerSteps
  /\ \A w \in Workers : pc[w] \in WorkerSteps

Asking(h) == pc[h] \in {"listing", "enqueue"}

(* A handler that is to enqueue an item is the only one, and the item is   *)
(* not known to anyone else.                                               *)
AskInv ==
  /\ \A h \in Handlers : Asking(h) \/ pc[h] = "cancel" => arg[h] \in Items
  /\ \A h \in Handlers : Asking(h) => fate[arg[h]] = "unknown"
  /\ \A g, h \in Handlers : Asking(g) /\ Asking(h) /\ arg[g] = arg[h] => g = h

(* What is in hand is in no other place, and the table has it after Take.  *)
HandInv ==
  /\ \A w \in Workers : InHand(w) => arg[w] \in Items /\ arg[w] \notin queue
  /\ \A v, w \in Workers : InHand(v) /\ InHand(w) /\ arg[v] = arg[w] => v = w
  /\ \A w \in Workers : InHand(w) /\ pc[w] # "got" => cur[w] = arg[w]

(* The accepted items are those in the queue and those in hand.            *)
HeldInv ==
  /\ \A i \in queue : fate[i] = "accepted"
  /\ \A w \in Workers : InHand(w) => fate[arg[w]] = "accepted"
  /\ \A i \in Items : fate[i] = "accepted" =>
       i \in queue \/ \E w \in Workers : InHand(w) /\ arg[w] = i

(* What is written down, or about to be, was accepted once.                *)
KnownInv ==
  /\ \A e \in cached : fate[e[1]] # "unknown"
  /\ \A t \in Threads : pc[t] \in {"writing", "rewriting"} =>
       \A e \in picture[t] : fate[e[1]] # "unknown"

(* What was cancelled in the queue is marked until a worker drops it, and  *)
(* does not get beyond the look at the mark.                               *)
PromiseInv ==
  \A i \in promised :
    \/ fate[i] = "gone"
    \/ /\ i \in cancelled /\ fate[i] = "accepted"
       /\ \A w \in Workers : InHand(w) /\ arg[w] = i => pc[w] \in {"got", "taken"}

IInv ==
  /\ TypeOK /\ promised \subseteq Items
  /\ RoleInv /\ AskInv /\ HandInv /\ HeldInv /\ KnownInv /\ PromiseInv
-----------------------------------------------------------------------------
LEMMA InitInv == ObservedInit => IInv
<1> SUFFICES ASSUME ObservedInit PROVE IInv
  OBVIOUS
<1> USE UploadAssumption DEF ObservedInit, Init
<1>1. TypeOK
  <2>1. 0 \in 0 .. MaxRetry /\ \A S : {} \in SUBSET S
    OBVIOUS
  <2> QED
    BY <2>1, Zenon DEF TypeOK, Fates
<1>2. RoleInv /\ AskInv /\ HandInv
  BY DEF RoleInv, AskInv, HandInv, Asking, InHand, Threads, HandlerSteps, WorkerSteps
<1>3. HeldInv /\ KnownInv /\ PromiseInv
  BY DEF HeldInv, KnownInv, PromiseInv, InHand, Threads
<1> QED
  BY <1>1, <1>2, <1>3 DEF IInv

(* A copy of the queue holds items that were accepted, with their counts. *)
LEMMA CopyType ==
  ASSUME TypeOK, NEW S \in SUBSET Items
  PROVE  Copy(S) \in SUBSET (Items \X (0 .. MaxRetry)) /\ Copied(Copy(S)) = S
<1>1. \A e \in Copy(S) : e \in Items \X (0 .. MaxRetry) /\ e[1] \in S
  BY DEF Copy, TypeOK
<1>2. \A i \in S : <<i, retries[i]>> \in Copy(S) /\ <<i, retries[i]>>[1] = i
  BY DEF Copy
<1> QED
  BY <1>1, <1>2 DEF Copied

(* Only Cancel keeps a promise. *)
LEMMA NoPromise ==
  ASSUME IInv, NEW t \in Threads, NEW s, pc' = [pc EXCEPT ![t] = s],
         pc[t] # "cancel"
  PROVE  CancelledNow = {}
BY DEF CancelledNow, IInv, TypeOK, Threads
-----------------------------------------------------------------------------
(* The steps by what they do to the item of the thread.                    *)

(* A worker keeps its item in hand. *)
LEMMA HoldStep ==
  ASSUME IInv, NEW w \in Workers, InHand(w),
         NEW s \in {"taken", "sending", "retry", "retryMore"}, pc' = [pc EXCEPT ![w] = s],
         UNCHANGED <<arg, queue, cancelled, picture, cached, fate, promised>>,
         cur' = [cur EXCEPT ![w] = arg[w]] \/ (cur' = cur /\ pc[w] # "got"),
         s = "taken" \/ pc[w] \in {"sending", "retry", "retryMore"} \/ arg[w] \notin cancelled
  PROVE  (RoleInv /\ AskInv /\ HandInv /\ HeldInv /\ KnownInv /\ PromiseInv)'
<1> USE UploadAssumption DEF IInv, InHand
<1>1. (RoleInv /\ AskInv)'
  BY DEF TypeOK, RoleInv, AskInv, Asking, Threads, HandlerSteps, WorkerSteps
<1>2. (HandInv /\ HeldInv)'
  BY DEF TypeOK, HandInv, HeldInv, Threads
<1>3. (KnownInv /\ PromiseInv)'
  BY DEF TypeOK, KnownInv, PromiseInv, Threads
<1> QED
  BY <1>1, <1>2, <1>3

(* A worker is done with its item. *)
LEMMA FinishStep ==
  ASSUME IInv, NEW w \in Workers, InHand(w),
         NEW s \in {"loop", "caching"}, pc' = [pc EXCEPT ![w] = s],
         NEW how \in {"sent", "gone"}, fate' = [fate EXCEPT ![arg[w]] = how],
         UNCHANGED <<arg, queue, cur, picture, cached, promised>>,
         \/ cancelled' = cancelled /\ (how = "sent" => pc[w] = "sending")
         \/ cancelled' = cancelled \ {arg[w]} /\ how = "gone"
  PROVE  (RoleInv /\ AskInv /\ HandInv /\ HeldInv /\ KnownInv /\ PromiseInv)'
<1> USE UploadAssumption DEF IInv, InHand
<1>0. arg[w] \in Items /\ fate[arg[w]] = "accepted" /\ arg[w] \notin queue
  BY DEF HandInv, HeldInv
<1>1. (RoleInv /\ AskInv)'
  BY <1>0 DEF TypeOK, RoleInv, AskInv, Asking, Threads, HandlerSteps, WorkerSteps
<1>2. (HandInv /\ HeldInv)'
  BY <1>0 DEF TypeOK, HandInv, HeldInv, Threads
<1>3. (KnownInv /\ PromiseInv)'
  BY <1>0 DEF TypeOK, KnownInv, PromiseInv, Threads
<1> QED
  BY <1>1, <1>2, <1>3

(* A thread that neither holds an item nor is to enqueue one goes on. *)
LEMMA FreeStep ==
  ASSUME IInv, NEW t \in Threads, ~InHand(t), ~Asking(t),
         NEW s \in {"idle", "loop", "ended", "caching", "retried", "writing", "rewriting"},
         pc' = [pc EXCEPT ![t] = s],
         t \in Handlers => s \in HandlerSteps,
         UNCHANGED <<queue, cancelled, fate, promised>>,
         arg' = arg \/ arg' = [arg EXCEPT ![t] = NoItem],
         cur' = cur \/ (t \in Workers /\ cur' = [cur EXCEPT ![t] = NoItem]),
         KnownInv'
  PROVE  (RoleInv /\ AskInv /\ HandInv /\ HeldInv /\ PromiseInv)'
<1> USE UploadAssumption DEF IInv, InHand
<1>1. (RoleInv /\ AskInv)'
  BY DEF TypeOK, RoleInv, AskInv, Asking, Threads, HandlerSteps, WorkerSteps
<1>2. (HandInv /\ HeldInv)'
  BY DEF TypeOK, HandInv, HeldInv, Threads
<1>3. PromiseInv'
  BY DEF TypeOK, PromiseInv, Threads
<1> QED
  BY <1>1, <1>2, <1>3
-----------------------------------------------------------------------------
(* The cache. *)
LEMMA CacheReadInv ==
  ASSUME IInv, NEW t \in Threads, CacheRead(t), promised' = promised
  PROVE  IInv'
<1> USE UploadAssumption DEF IInv, CacheRead, Goto, shared, board
<1> DEFINE s == IF pc[t] = "recaching" THEN "rewriting" ELSE "writing"
<1>1. Copy(queue \ cancelled) \in SUBSET (Items \X (0 .. MaxRetry))
      /\ Copied(Copy(queue \ cancelled)) = queue \ cancelled
  BY CopyType DEF TypeOK
<1>2. TypeOK'
  BY <1>1 DEF TypeOK
<1>3. \A e \in Copy(queue \ cancelled) : fate[e[1]] # "unknown"
  BY <1>1 DEF Copied, HeldInv
<1>4. KnownInv'
  BY <1>3 DEF KnownInv, TypeOK
<1>5. t \in Handlers => s = "writing"
  BY DEF RoleInv, HandlerSteps
<1>6. (RoleInv /\ AskInv /\ HandInv /\ HeldInv /\ PromiseInv)'
  <2>1. ~InHand(t) /\ ~Asking(t) /\ s \in {"writing", "rewriting"}
        /\ (t \in Handlers => s \in HandlerSteps)
    BY <1>5 DEF InHand, Asking, HandlerSteps
  <2> QED
    BY <1>4, <2>1, FreeStep
<1> QED
  BY <1>2, <1>4, <1>6

LEMMA CacheWriteInv ==
  ASSUME IInv, NEW t \in Threads, CacheWrite(t), promised' = promised
  PROVE  IInv'
<1> USE UploadAssumption DEF IInv, CacheWrite, Goto
<1>1. PICK s \in {"idle", "loop", "retried"} :
        pc' = [pc EXCEPT ![t] = s] /\ (t \in Handlers => s = "idle")
  OBVIOUS
<1>2. TypeOK'
  BY <1>1 DEF TypeOK
<1>3. KnownInv'
  BY <1>1 DEF KnownInv, TypeOK
<1>4. (RoleInv /\ AskInv /\ HandInv /\ HeldInv /\ PromiseInv)'
  <2>1. ~InHand(t) /\ ~Asking(t) /\ (t \in Handlers => s \in HandlerSteps)
    BY <1>1 DEF InHand, Asking, HandlerSteps
  <2> QED
    BY <1>1, <1>3, <2>1, FreeStep
<1> QED
  BY <1>2, <1>3, <1>4

LEMMA WakeInv ==
  ASSUME IInv, NEW t \in Threads, Wake(t), promised' = promised
  PROVE  IInv'
<1> USE UploadAssumption DEF IInv, Wake, Goto, shared, board
<1>1. TypeOK'
  BY DEF TypeOK
<1>2. KnownInv'
  BY DEF KnownInv, TypeOK
<1>3. (RoleInv /\ AskInv /\ HandInv /\ HeldInv /\ PromiseInv)'
  BY <1>2, FreeStep DEF InHand, Asking, HandlerSteps
<1> QED
  BY <1>1, <1>2, <1>3
-----------------------------------------------------------------------------
(* The workers. *)
LEMMA GetInv ==
  ASSUME IInv, NEW w \in Workers, NEW i \in Items, Get(w, i), promised' = promised
  PROVE  IInv'
<1> USE UploadAssumption DEF IInv, Get, Goto, MostUrgent
<1>0. i \in queue /\ fate[i] = "accepted" /\ ~InHand(w)
      /\ \A v \in Workers : InHand(v) => arg[v] # i
  BY DEF HeldInv, HandInv, InHand
<1>1. TypeOK'
  BY DEF TypeOK, Threads
<1>2. (RoleInv /\ AskInv)'
  BY DEF TypeOK, RoleInv, AskInv, Asking, Threads, HandlerSteps, WorkerSteps
<1>3. (HandInv /\ HeldInv)'
  BY <1>0 DEF TypeOK, HandInv, HeldInv, InHand, Threads
<1>4. (KnownInv /\ PromiseInv)'
  BY <1>0 DEF TypeOK, KnownInv, PromiseInv, InHand, Threads
<1> QED
  BY <1>1, <1>2, <1>3, <1>4

LEMMA HeldWorkInv ==
  ASSUME IInv, NEW w \in Workers, Take(w) \/ Start(w) \/ Fail(w) \/ Abort(w),
         promised' = promised
  PROVE  IInv'
<1> USE UploadAssumption DEF IInv, Goto, shared, board
<1>1. InHand(w)
  BY DEF InHand, Take, Start, Fail, Abort
<1>2. PICK s \in {"taken", "sending", "retry", "retryMore"} :
        /\ pc' = [pc EXCEPT ![w] = s]
        /\ s = "taken" \/ pc[w] \in {"sending", "retry", "retryMore"} \/ arg[w] \notin cancelled
  BY DEF Take, Start, Fail, Abort
<1>3. cur' = [cur EXCEPT ![w] = arg[w]] \/ (cur' = cur /\ pc[w] # "got")
  BY DEF Take, Start, Fail, Abort
<1>4. UNCHANGED <<arg, queue, cancelled, retries, picture, cached, fate, metered, ending>>
  BY DEF Take, Start, Fail, Abort
<1>5. TypeOK'
  BY <1>2, <1>3, <1>4 DEF TypeOK, Threads
<1> QED
  BY <1>1, <1>2, <1>3, <1>4, <1>5, HoldStep

LEMMA DoneWorkInv ==
  ASSUME IInv, NEW w \in Workers, promised' = promised,
         DropCancelled(w) \/ DropExpired(w) \/ Sent(w) \/ Break(w) \/ GiveUp(w)
  PROVE  IInv'
<1> USE UploadAssumption DEF IInv, Goto, board, Finish
<1>1. InHand(w)
  BY DEF InHand, DropCancelled, DropExpired, Sent, Break, GiveUp
<1>2. PICK s \in {"loop", "caching"} : pc' = [pc EXCEPT ![w] = s]
  BY DEF DropCancelled, DropExpired, Sent, Break, GiveUp
<1>3. PICK how \in {"sent", "gone"} :
        /\ fate' = [fate EXCEPT ![arg[w]] = how]
        /\ \/ cancelled' = cancelled /\ (how = "sent" => pc[w] = "sending")
           \/ cancelled' = cancelled \ {arg[w]} /\ how = "gone"
  BY DEF DropCancelled, DropExpired, Sent, Break, GiveUp
<1>4. UNCHANGED <<arg, queue, cur, picture, cached, metered, ending>>
      /\ retries' = [retries EXCEPT ![arg[w]] = 0]
  BY DEF DropCancelled, DropExpired, Sent, Break, GiveUp
<1>5. TypeOK'
  <2>1. arg[w] \in Items /\ 0 \in 0 .. MaxRetry
    BY <1>1 DEF HandInv
  <2>2. retries' \in [Items -> 0 .. MaxRetry] /\ fate' \in [Items -> Fates]
    BY <1>3, <1>4, <2>1 DEF TypeOK, Fates
  <2>3. cancelled' \subseteq Items /\ pc' \in [Threads -> {"idle", "loop", "ended", "listing",
           "enqueue", "put", "cancel", "got", "taken", "sending", "retry", "retryMore", "retried",
           "caching", "recaching", "writing", "rewriting"}]
    BY <1>2, <1>3 DEF TypeOK
  <2> QED
    BY <1>4, <2>2, <2>3 DEF TypeOK
<1> QED
  BY <1>1, <1>2, <1>3, <1>4, <1>5, FinishStep

LEMMA PutBackInv ==
  ASSUME IInv, NEW w \in Workers, PutBack(w), promised' = promised
  PROVE  IInv'
<1> USE UploadAssumption DEF IInv, PutBack, Goto
<1>0. InHand(w) /\ arg[w] \in Items /\ fate[arg[w]] = "accepted"
      /\ \A v \in Workers : InHand(v) /\ arg[v] = arg[w] => v = w
  BY DEF HeldInv, HandInv, InHand
<1>1. TypeOK'
  <2>1. retries[arg[w]] \in 0 .. MaxRetry /\ retries[arg[w]] + 1 \in 0 .. MaxRetry
    BY <1>0 DEF TypeOK
  <2>2. retries' \in [Items -> 0 .. MaxRetry]
    BY <1>0, <2>1 DEF TypeOK
  <2> QED
    BY <1>0, <2>2 DEF TypeOK, Threads
<1>2. (RoleInv /\ AskInv)'
  BY DEF TypeOK, RoleInv, AskInv, Asking, Threads, HandlerSteps, WorkerSteps
<1>3. (HandInv /\ HeldInv)'
  BY <1>0 DEF TypeOK, HandInv, HeldInv, InHand, Threads
<1>4. (KnownInv /\ PromiseInv)'
  BY <1>0 DEF TypeOK, KnownInv, PromiseInv, InHand, Threads
<1> QED
  BY <1>1, <1>2, <1>3, <1>4

LEMMA RoundInv ==
  ASSUME IInv, NEW w \in Workers, Round(w) \/ ClearCurrent(w), promised' = promised
  PROVE  IInv'
<1> USE UploadAssumption DEF IInv, Round, ClearCurrent, Goto
<1>1. PICK s \in {"idle", "loop", "ended", "caching"} : pc' = [pc EXCEPT ![w] = s]
  OBVIOUS
<1>2. ~InHand(w) /\ ~Asking(w) /\ w \in Threads /\ w \notin Handlers
  BY DEF InHand, Asking, Threads
<1>3. UNCHANGED <<queue, cancelled, retries, picture, cached, fate, metered, ending>>
      /\ (arg' = arg \/ arg' = [arg EXCEPT ![w] = NoItem])
      /\ (cur' = cur \/ cur' = [cur EXCEPT ![w] = NoItem])
  OBVIOUS
<1>4. TypeOK'
  BY <1>1, <1>2, <1>3 DEF TypeOK
<1>5. KnownInv'
  BY <1>1, <1>2, <1>3 DEF KnownInv, TypeOK
<1> QED
  BY <1>1, <1>2, <1>3, <1>4, <1>5, FreeStep
-----------------------------------------------------------------------------
(* The handlers. *)
LEMMA ListQueueInv ==
  ASSUME IInv, NEW h \in Handlers, NEW i \in Items, ListQueue(h, i), promised' = promised
  PROVE  IInv'
<1> USE UploadAssumption DEF IInv, ListQueue, Goto, shared, board
<1>1. TypeOK'
  <2>1. Copy(queue) \in SUBSET (Items \X (0 .. MaxRetry))
    BY CopyType DEF TypeOK
  <2> QED
    BY <2>1 DEF TypeOK, Threads
<1>2. (RoleInv /\ AskInv)'
  BY DEF TypeOK, RoleInv, AskInv, Asking, Threads, HandlerSteps, WorkerSteps
<1>3. (HandInv /\ HeldInv)'
  BY DEF TypeOK, HandInv, HeldInv, InHand, Threads
<1>4. (KnownInv /\ PromiseInv)'
  BY DEF TypeOK, KnownInv, PromiseInv, InHand, Threads
<1> QED
  BY <1>1, <1>2, <1>3, <1>4

LEMMA ListCurrentInv ==
  ASSUME IInv, NEW h \in Handlers, ListCurrent(h), promised' = promised
  PROVE  IInv'
<1> USE UploadAssumption DEF IInv, Goto, shared, board
<1>1. /\ pc[h] = "listing" /\ picture' = [picture EXCEPT ![h] = {}]
      /\ UNCHANGED <<shared, fate>>
      /\ \/ pc' = [pc EXCEPT ![h] = "put"] /\ arg' = [arg EXCEPT ![h] = NoItem]
         \/ pc' = [pc EXCEPT ![h] = "enqueue"] /\ arg' = arg
  BY DEF ListCurrent
<1>2. TypeOK'
  BY <1>1 DEF TypeOK, Threads
<1>3. (RoleInv /\ AskInv)'
  BY <1>1 DEF TypeOK, RoleInv, AskInv, Asking, Threads, HandlerSteps, WorkerSteps
<1>4. (HandInv /\ HeldInv)'
  BY <1>1 DEF TypeOK, HandInv, HeldInv, InHand, Threads
<1>5. (KnownInv /\ PromiseInv)'
  BY <1>1 DEF TypeOK, KnownInv, PromiseInv, InHand, Threads
<1> QED
  BY <1>2, <1>3, <1>4, <1>5

LEMMA EnqueueInv ==
  ASSUME IInv, NEW h \in Handlers, Enqueue(h), promised' = promised
  PROVE  IInv'
<1> USE UploadAssumption DEF IInv, Enqueue, Goto, Finish
<1>0. arg[h] \in Items /\ fate[arg[h]] = "unknown"
      /\ \A g \in Handlers : Asking(g) /\ arg[g] = arg[h] => g = h
  BY DEF AskInv, Asking
<1>1. TypeOK'
  <2>1. 0 \in 0 .. MaxRetry
    OBVIOUS
  <2> QED
    BY <1>0, <2>1 DEF TypeOK, Threads, Fates
<1>2. (RoleInv /\ AskInv)'
  BY <1>0 DEF TypeOK, RoleInv, AskInv, Asking, Threads, HandlerSteps, WorkerSteps
<1>3. (HandInv /\ HeldInv)'
  BY <1>0 DEF TypeOK, HandInv, HeldInv, InHand, Threads
<1>4. (KnownInv /\ PromiseInv)'
  BY <1>0 DEF TypeOK, KnownInv, PromiseInv, InHand, Threads, Fates
<1> QED
  BY <1>1, <1>2, <1>3, <1>4

LEMMA FindToCancelInv ==
  ASSUME IInv, NEW h \in Handlers, NEW i \in Items, FindToCancel(h, i), promised' = promised
  PROVE  IInv'
<1> USE UploadAssumption DEF IInv, FindToCancel, Goto, shared, board
<1>1. TypeOK'
  BY DEF TypeOK, Threads
<1>2. (RoleInv /\ AskInv)'
  BY DEF TypeOK, RoleInv, AskInv, Asking, Threads, HandlerSteps, WorkerSteps
<1>3. (HandInv /\ HeldInv)'
  BY DEF TypeOK, HandInv, HeldInv, InHand, Threads
<1>4. (KnownInv /\ PromiseInv)'
  BY DEF TypeOK, KnownInv, PromiseInv, InHand, Threads
<1> QED
  BY <1>1, <1>2, <1>3, <1>4

(* An item that is marked in the queue is accepted and in nobody's hands. *)
LEMMA CancelInv ==
  ASSUME IInv, NEW h \in Handlers, Cancel(h), promised' = promised \cup CancelledNow
  PROVE  IInv'
<1> USE UploadAssumption DEF IInv, Cancel, Goto
<1>0. arg[h] \in Items
  BY DEF AskInv
<1>1. TypeOK'
  BY <1>0 DEF TypeOK, Threads
<1>2. (RoleInv /\ AskInv)'
  BY <1>0 DEF TypeOK, RoleInv, AskInv, Asking, Threads, HandlerSteps, WorkerSteps
<1>3. (HandInv /\ HeldInv)'
  BY <1>0 DEF TypeOK, HandInv, HeldInv, InHand, Threads
<1>4. KnownInv'
  BY <1>0 DEF TypeOK, KnownInv, Threads
<1>5. \A i \in CancelledNow : i = arg[h] /\ i \in queue
  BY DEF CancelledNow, TypeOK, Threads
<1>6. promised' \subseteq Items
  BY <1>0, <1>5
<1>7. PromiseInv'
  <2>1. ASSUME NEW i \in promised
        PROVE  \/ fate'[i] = "gone"
               \/ /\ i \in cancelled' /\ fate'[i] = "accepted"
                  /\ \A w \in Workers : InHand(w)' /\ arg'[w] = i => pc'[w] \in {"got", "taken"}
    BY <2>1 DEF PromiseInv, TypeOK, InHand, Threads
  <2>2. ASSUME NEW i \in CancelledNow
        PROVE  /\ i \in cancelled' /\ fate'[i] = "accepted"
               /\ \A w \in Workers : InHand(w)' /\ arg'[w] = i => pc'[w] \in {"got", "taken"}
    BY <1>5, <2>2 DEF HeldInv, HandInv, TypeOK, InHand, Threads
  <2> QED
    BY <2>1, <2>2 DEF PromiseInv
<1> QED
  BY <1>1, <1>2, <1>3, <1>4, <1>6, <1>7
-----------------------------------------------------------------------------
(* The network, the connection and the process. *)
LEMMA WorldInv ==
  ASSUME IInv, Meter \/ Disconnect \/ Reconnect, promised' = promised
  PROVE  IInv'
<1> USE UploadAssumption DEF IInv
<1>1. CASE Meter \/ Disconnect
  <2>1. UNCHANGED <<pc, arg, queue, cur, cancelled, retries, picture, cached, fate, promised>>
        /\ metered' \in BOOLEAN /\ ending' \in BOOLEAN
    BY <1>1, Zenon DEF Meter, Disconnect, TypeOK
  <2>2. TypeOK' /\ promised' \subseteq Items
    BY <2>1, Zenon DEF TypeOK
  <2>3. (RoleInv /\ AskInv)'
    BY <2>1 DEF RoleInv, AskInv, Asking
  <2>4. (HandInv /\ HeldInv /\ KnownInv /\ PromiseInv)'
    BY <2>1 DEF HandInv, HeldInv, InHand, KnownInv, PromiseInv
  <2> QED
    BY <2>2, <2>3, <2>4
<1>2. CASE Reconnect
  <2>1. \A w \in Workers : ~InHand(w) /\ ~InHand(w)'
    BY <1>2 DEF Reconnect, InHand, Threads
  <2>2. TypeOK'
    BY <1>2 DEF Reconnect, TypeOK
  <2>3. (RoleInv /\ AskInv)'
    BY <1>2 DEF Reconnect, RoleInv, AskInv, Asking, Threads, HandlerSteps, WorkerSteps
  <2>4. (HandInv /\ HeldInv)'
    BY <1>2, <2>1 DEF Reconnect, HandInv, HeldInv
  <2>5. (KnownInv /\ PromiseInv)'
    BY <1>2, <2>1 DEF Reconnect, KnownInv, PromiseInv
  <2> QED
    BY <1>2, <2>2, <2>3, <2>4, <2>5
<1> QED
  BY <1>1, <1>2

LEMMA RestartInv ==
  ASSUME IInv, Restart, promised' = {}
  PROVE  IInv'
<1> USE UploadAssumption DEF IInv, Restart
<1> DEFINE kept == Copied(cached)
<1>1. kept \subseteq Items /\ \A i \in kept : fate[i] # "unknown"
  BY DEF Copied, TypeOK, KnownInv
<1>2. \A i \in kept : (CHOOSE e \in cached : e[1] = i)[2] \in 0 .. MaxRetry
  <2>1. ASSUME NEW i \in kept
        PROVE  (CHOOSE e \in cached : e[1] = i) \in cached
    BY DEF Copied
  <2> QED
    BY <2>1 DEF TypeOK
<1>3. retries' \in [Items -> 0 .. MaxRetry]
  <2>1. 0 \in 0 .. MaxRetry
    OBVIOUS
  <2> QED
    BY <1>2, <2>1
<1>4. fate' \in [Items -> Fates]
      /\ \A i \in Items : fate'[i] = "accepted" <=> i \in kept
  BY DEF TypeOK, Fates
<1>5. TypeOK'
  BY <1>1, <1>3, <1>4, Zenon DEF TypeOK
<1>6. (RoleInv /\ AskInv)'
  BY DEF RoleInv, AskInv, Asking, Threads, HandlerSteps, WorkerSteps
<1>7. (HandInv /\ HeldInv)'
  BY <1>1, <1>4 DEF HandInv, HeldInv, InHand, Threads
<1>8. KnownInv'
  <2>1. \A e \in cached : e[1] \in kept
    BY DEF Copied
  <2> QED
    BY <1>1, <1>4, <2>1 DEF KnownInv, Threads
<1>9. PromiseInv'
  BY DEF PromiseInv
<1> QED
  BY <1>5, <1>6, <1>7, <1>8, <1>9
-----------------------------------------------------------------------------
LiveStep == LiveNext /\ promised' = promised \cup CancelledNow
RestartStep == Restart /\ promised' = {}

LEMMA ThreadStepQuiet ==
  ASSUME IInv,
         \/ \E h \in Handlers : HandlerStep(h) /\ ~Cancel(h)
         \/ \E w \in Workers : WorkerStep(w)
         \/ \E t \in Threads : ThreadStep(t)
         \/ Meter \/ Disconnect \/ Reconnect
  PROVE  CancelledNow = {}
<1> USE DEF IInv, Goto
<1>1. ASSUME NEW h \in Handlers, HandlerStep(h), ~Cancel(h)
      PROVE  CancelledNow = {}
  <2>1. \E s : pc' = [pc EXCEPT ![h] = s]
    BY <1>1 DEF HandlerStep, ListQueue, ListCurrent, Enqueue, FindToCancel
  <2>2. pc[h] # "cancel"
    BY <1>1 DEF HandlerStep, ListQueue, ListCurrent, Enqueue, FindToCancel
  <2> QED
    BY <2>1, <2>2, NoPromise DEF Threads
<1>2. ASSUME NEW w \in Workers, WorkerStep(w)
      PROVE  CancelledNow = {}
  <2>1. \E s : pc' = [pc EXCEPT ![w] = s]
    BY <1>2 DEF WorkerStep, Get, Take, DropCancelled, DropExpired, Start, Sent, Fail, Abort,
        Break, PutBack, GiveUp, ClearCurrent, Round
  <2>2. pc[w] # "cancel"
    BY DEF RoleInv, WorkerSteps
  <2> QED
    BY <2>1, <2>2, NoPromise DEF Threads
<1>3. ASSUME NEW t \in Threads, ThreadStep(t)
      PROVE  CancelledNow = {}
  <2>1. \E s : pc' = [pc EXCEPT ![t] = s]
    BY <1>3 DEF ThreadStep, CacheRead, CacheWrite, Wake
  <2>2. pc[t] # "cancel"
    BY <1>3 DEF ThreadStep, CacheRead, CacheWrite, Wake
  <2> QED
    BY <2>1, <2>2, NoPromise
<1>4. ASSUME Meter \/ Disconnect \/ Reconnect
      PROVE  CancelledNow = {}
  BY <1>4 DEF Meter, Disconnect, Reconnect, CancelledNow, Threads
<1> QED
  BY <1>1, <1>2, <1>3, <1>4

LEMMA StepInv == IInv /\ [LiveStep \/ RestartStep]_checkVars => IInv'
<1> SUFFICES ASSUME IInv, [LiveStep \/ RestartStep]_checkVars
             PROVE  IInv'
  OBVIOUS
<1>1. CASE RestartStep
  BY <1>1, RestartInv DEF RestartStep
<1>2. CASE LiveStep
  <2>1. CASE \E h \in Handlers : Cancel(h)
    BY <1>2, <2>1, CancelInv DEF LiveStep
  <2>2. CASE ~ \E h \in Handlers : Cancel(h)
    <3>1. promised' = promised
      BY <1>2, <2>2, ThreadStepQuiet DEF LiveStep, LiveNext
    <3>2. ASSUME NEW h \in Handlers, HandlerStep(h)
          PROVE  IInv'
      BY <2>2, <3>1, <3>2, ListQueueInv, ListCurrentInv, EnqueueInv,
          FindToCancelInv DEF HandlerStep
    <3>3. ASSUME NEW w \in Workers, WorkerStep(w)
          PROVE  IInv'
      BY <3>1, <3>3, GetInv, HeldWorkInv, DoneWorkInv, PutBackInv, RoundInv DEF WorkerStep
    <3>4. ASSUME NEW t \in Threads, ThreadStep(t)
          PROVE  IInv'
      BY <3>1, <3>4, CacheReadInv, CacheWriteInv, WakeInv DEF ThreadStep
    <3> QED
      BY <1>2, <3>1, <3>2, <3>3, <3>4, WorldInv DEF LiveStep, LiveNext
  <2> QED
    BY <2>1, <2>2
<1>3. CASE UNCHANGED checkVars
  <2>1. TypeOK' /\ promised' \subseteq Items
    BY <1>3, Zenon DEF checkVars, vars, IInv, TypeOK
  <2>2. (RoleInv /\ AskInv /\ HandInv /\ HeldInv /\ KnownInv /\ PromiseInv)'
    BY <1>3 DEF checkVars, vars, IInv, RoleInv, AskInv, Asking, HandInv, HeldInv, InHand,
        KnownInv, PromiseInv
  <2> QED
    BY <2>1, <2>2 DEF IInv
<1> QED
  BY <1>1, <1>2, <1>3

LEMMA Invariance == ObservedSpec => []IInv
  BY InitInv, StepInv, PTL DEF ObservedSpec, LiveStep, RestartStep

(* Every variable of the upload queue keeps its type, the retry counts     *)
(* their limit.                                                            *)
THEOREM TypeCorrect == ObservedSpec => []TypeOK
<1>1. IInv => TypeOK
  BY DEF IInv
<1> QED
  BY <1>1, Invariance, PTL

(* An accepted item is in the queue or in the hands of one worker, never   *)
(* in both and never lost, whatever the threads and restarts do.           *)
THEOREM OneHolderSafe == ObservedSpec => []OneHolder
<1>1. IInv => OneHolder
  BY DEF IInv, OneHolder, HandInv, HeldInv, InHand
<1> QED
  BY <1>1, Invariance, PTL

(* What cancelUpload marked in the queue is not sent by this process.      *)
THEOREM CancelHoldsSafe == ObservedSpec => []CancelHolds
<1>1. IInv => CancelHolds
  <2> SUFFICES ASSUME IInv, NEW i \in promised
               PROVE  fate[i] # "sent" /\ \A w \in Workers : ~(pc[w] = "sending" /\ arg[w] = i)
    BY DEF CancelHolds
  <2> QED
    BY DEF IInv, PromiseInv, HeldInv, InHand
<1> QED
  BY <1>1, Invariance, PTL
-----------------------------------------------------------------------------
(* The refinement of UploadJobs. *)
Job == [i \in Items |-> JobOf(i)]

(* The queue as UploadJobs sees it is a function of the fates and of what  *)
(* is being sent.                                                          *)
LEMMA JobValue ==
  ASSUME NEW i
  PROVE  /\ fate[i] = "unknown" => JobOf(i) = "none"
         /\ fate[i] = "accepted" /\ IsSent(i) => JobOf(i) = "sending"
         /\ fate[i] = "accepted" /\ ~IsSent(i) => JobOf(i) = "waiting"
         /\ fate[i] \in {"sent", "gone"} => JobOf(i) = fate[i]
BY DEF JobOf

LEMMA MoveStep ==
  ASSUME NEW i \in Items, NEW from, NEW to, <<from, to>> \in Jobs!Moves,
         JobOf(i) = from, JobOf(i)' = to,
         \A j \in Items : j # i => JobOf(j)' = JobOf(j)
  PROVE  Jobs!JobNext
<1>1. Job' = [Job EXCEPT ![i] = to]
  BY DEF Job
<1>2. Job[i] = from
  BY DEF Job
<1>3. Jobs!Move(i)
  <2>1. <<from, to>>[1] = from /\ <<from, to>>[2] = to
    OBVIOUS
  <2> QED
    BY <1>1, <1>2, <2>1 DEF Jobs!Move, Job
<1> QED
  BY <1>3 DEF Jobs!JobNext

(* A step after which the same items are sent and have the same fates.     *)
LEMMA StillStep ==
  ASSUME fate' = fate,
         \A w \in Workers : pc'[w] = "sending" <=> pc[w] = "sending",
         \A w \in Workers : pc[w] = "sending" => arg'[w] = arg[w]
  PROVE  Job' = Job
<1>1. \A i \in Items : IsSent(i)' <=> IsSent(i)
  BY DEF IsSent
<1>2. \A i \in Items : JobOf(i)' = JobOf(i)
  BY <1>1 DEF JobOf
<1> QED
  BY <1>2 DEF Job

(* Steps of handlers, of the cache, of workers that do not send, and of    *)
(* the connection.                                                         *)
LEMMA StillThreads ==
  ASSUME IInv, NEW t \in Threads, NEW s, pc' = [pc EXCEPT ![t] = s],
         s # "sending", pc[t] # "sending", fate' = fate,
         \A u \in Threads : u # t => arg'[u] = arg[u]
  PROVE  Job' = Job
<1>1. \A w \in Workers : pc'[w] = "sending" <=> pc[w] = "sending"
  BY DEF IInv, TypeOK, Threads
<1>2. \A w \in Workers : pc[w] = "sending" => arg'[w] = arg[w]
  BY DEF Threads
<1> QED
  BY <1>1, <1>2, StillStep

LEMMA StillJobs ==
  ASSUME IInv,
         \/ \E h \in Handlers : HandlerStep(h) /\ ~Enqueue(h)
         \/ \E t \in Threads : ThreadStep(t)
         \/ \E w \in Workers :
              \/ \E i \in Items : Get(w, i)
              \/ Take(w) \/ PutBack(w) \/ ClearCurrent(w) \/ Round(w)
         \/ Meter \/ Disconnect \/ Reconnect
  PROVE  Job' = Job
<1> USE DEF Goto
<1>1. ASSUME NEW h \in Handlers, HandlerStep(h), ~Enqueue(h)
      PROVE  Job' = Job
  <2>1. PICK s \in {"idle", "listing", "put", "enqueue", "cancel"} : pc' = [pc EXCEPT ![h] = s]
    BY <1>1 DEF HandlerStep, ListQueue, ListCurrent, FindToCancel, Cancel
  <2>2. fate' = fate /\ (arg' = arg \/ \E a : arg' = [arg EXCEPT ![h] = a])
    BY <1>1 DEF HandlerStep, ListQueue, ListCurrent, FindToCancel, Cancel
  <2>3. pc[h] # "sending"
    BY DEF IInv, RoleInv, HandlerSteps
  <2>4. \A u \in Threads : u # h => arg'[u] = arg[u]
    BY <2>2 DEF IInv, TypeOK
  <2> QED
    BY <2>1, <2>2, <2>3, <2>4, StillThreads DEF Threads
<1>2. ASSUME NEW t \in Threads, ThreadStep(t)
      PROVE  Job' = Job
  <2>1. PICK s \in {"idle", "loop", "retried", "writing", "rewriting", "ended"} :
          pc' = [pc EXCEPT ![t] = s]
    BY <1>2 DEF ThreadStep, CacheRead, CacheWrite, Wake
  <2>2. /\ fate' = fate /\ pc[t] # "sending"
        /\ arg' = arg \/ arg' = [arg EXCEPT ![t] = NoItem]
    BY <1>2 DEF ThreadStep, CacheRead, CacheWrite, Wake
  <2>3. \A u \in Threads : u # t => arg'[u] = arg[u]
    BY <2>2 DEF IInv, TypeOK
  <2> QED
    BY <2>1, <2>2, <2>3, StillThreads
<1>3. ASSUME NEW w \in Workers,
             \/ \E i \in Items : Get(w, i)
             \/ Take(w) \/ PutBack(w) \/ ClearCurrent(w) \/ Round(w)
      PROVE  Job' = Job
  <2>1. PICK s \in {"got", "taken", "recaching", "caching", "loop", "idle", "ended"} :
          pc' = [pc EXCEPT ![w] = s]
    BY <1>3 DEF Get, Take, PutBack, ClearCurrent, Round
  <2>2. fate' = fate /\ pc[w] # "sending" /\ (arg' = arg \/ \E a : arg' = [arg EXCEPT ![w] = a])
    BY <1>3 DEF Get, Take, PutBack, ClearCurrent, Round
  <2>3. \A u \in Threads : u # w => arg'[u] = arg[u]
    BY <2>2 DEF IInv, TypeOK
  <2> QED
    BY <2>1, <2>2, <2>3, StillThreads DEF Threads
<1>4. CASE Meter \/ Disconnect
  BY <1>4, StillStep DEF Meter, Disconnect
<1>5. CASE Reconnect
  BY <1>5, StillStep DEF Reconnect, Threads
<1> QED
  BY <1>1, <1>2, <1>3, <1>4, <1>5

(* The item in hand is sent by its own worker only. *)
LEMMA SentByHolder ==
  ASSUME IInv, NEW w \in Workers, InHand(w), NEW i, i = arg[w]
  PROVE  /\ i \in Items /\ fate[i] = "accepted"
         /\ IsSent(i) <=> pc[w] = "sending"
         /\ JobOf(i) = IF pc[w] = "sending" THEN "sending" ELSE "waiting"
<1>1. i \in Items /\ fate[i] = "accepted" /\ (IsSent(i) <=> pc[w] = "sending")
  BY DEF IInv, HandInv, HeldInv, IsSent, InHand
<1> QED
  BY <1>1, JobValue

(* A worker starts to send, stops, or is done: one move of one item.       *)
LEMMA WorkerMove ==
  ASSUME IInv, NEW w \in Workers, InHand(w), NEW i, i = arg[w],
         NEW s, pc' = [pc EXCEPT ![w] = s], arg' = arg,
         \A j \in Items : j # i => fate'[j] = fate[j]
  PROVE  /\ \A j \in Items : j # i => JobOf(j)' = JobOf(j)
         /\ fate'[i] = fate[i] => JobOf(i)' = IF s = "sending" THEN "sending" ELSE "waiting"
         /\ fate'[i] \in {"sent", "gone"} => JobOf(i)' = fate'[i]
<1>1. i \in Items /\ fate[i] = "accepted"
      /\ \A v \in Workers : v # w /\ pc[v] = "sending" => arg[v] # i
  BY DEF IInv, HandInv, HeldInv, InHand
<1>2. ASSUME NEW j \in Items, j # i
      PROVE  JobOf(j)' = JobOf(j)
  <2>1. fate'[j] = fate[j]
    BY <1>2 DEF IInv, TypeOK
  <2>2. IsSent(j)' <=> IsSent(j)
    BY <1>2 DEF IsSent, IInv, TypeOK, Threads
  <2> QED
    BY <2>1, <2>2 DEF JobOf
<1>3. IsSent(i)' <=> s = "sending"
  BY <1>1 DEF IsSent, IInv, TypeOK, Threads
<1>4. fate'[i] = fate[i] => JobOf(i)' = IF s = "sending" THEN "sending" ELSE "waiting"
  BY <1>1, <1>3 DEF JobOf
<1>5. fate'[i] \in {"sent", "gone"} => JobOf(i)' = fate'[i]
  BY DEF JobOf
<1> QED
  BY <1>2, <1>4, <1>5

(* A worker ends a job, stops sending it, or starts to.                    *)
LEMMA EndMove ==
  ASSUME IInv, NEW w \in Workers, arg' = arg,
         NEW s \in {"loop", "caching"}, pc' = [pc EXCEPT ![w] = s],
         NEW how \in {"sent", "gone"}, fate' = [fate EXCEPT ![arg[w]] = how],
         InHand(w), how = "sent" => pc[w] = "sending"
  PROVE  Jobs!JobNext
<1>1. PICK i : i = arg[w]
  OBVIOUS
<1>2. i \in Items /\ JobOf(i) = IF pc[w] = "sending" THEN "sending" ELSE "waiting"
  BY <1>1, SentByHolder
<1>3. fate'[i] = how /\ \A j \in Items : j # i => fate'[j] = fate[j]
  BY <1>1, <1>2 DEF IInv, TypeOK
<1>4. JobOf(i)' = how /\ \A j \in Items : j # i => JobOf(j)' = JobOf(j)
  <2>1. \A j \in Items : j # i => fate'[j] = fate[j]
    BY <1>3
  <2>2. /\ \A j \in Items : j # i => JobOf(j)' = JobOf(j)
        /\ fate'[i] \in {"sent", "gone"} => JobOf(i)' = fate'[i]
    BY <1>1, <2>1, WorkerMove
  <2> QED
    BY <1>3, <2>2
<1>5. PICK from \in {"sending", "waiting"} : from = JobOf(i) /\ <<from, how>> \in Jobs!Moves
  BY <1>2 DEF Jobs!Moves
<1> QED
  BY <1>2, <1>4, <1>5, MoveStep

LEMMA SendMove ==
  ASSUME IInv, NEW w \in Workers, InHand(w), arg' = arg, fate' = fate,
         NEW s \in {"sending", "retry", "retryMore"}, pc' = [pc EXCEPT ![w] = s],
         ~(s = "sending" <=> pc[w] = "sending")
  PROVE  Jobs!JobNext
<1>1. PICK i : i = arg[w]
  OBVIOUS
<1>2. i \in Items /\ JobOf(i) = IF pc[w] = "sending" THEN "sending" ELSE "waiting"
  BY <1>1, SentByHolder
<1>3. /\ \A j \in Items : j # i => JobOf(j)' = JobOf(j)
      /\ JobOf(i)' = IF s = "sending" THEN "sending" ELSE "waiting"
  BY <1>1, WorkerMove
<1>4. CASE s = "sending"
  <2>1. <<"waiting", "sending">> \in Jobs!Moves
    BY DEF Jobs!Moves
  <2>2. JobOf(i) = "waiting" /\ JobOf(i)' = "sending"
    BY <1>2, <1>3, <1>4
  <2> QED
    BY <1>2, <1>3, <2>1, <2>2, MoveStep
<1>5. CASE s # "sending"
  <2>1. <<"sending", "waiting">> \in Jobs!Moves
    BY DEF Jobs!Moves
  <2>2. JobOf(i) = "sending" /\ JobOf(i)' = "waiting"
    BY <1>2, <1>3, <1>5
  <2> QED
    BY <1>2, <1>3, <2>1, <2>2, MoveStep
<1> QED
  BY <1>4, <1>5

LEMMA MovesOfWorker ==
  ASSUME IInv, NEW w \in Workers,
         \/ DropCancelled(w) \/ DropExpired(w) \/ Start(w) \/ Sent(w) \/ Fail(w)
         \/ Abort(w) \/ Break(w) \/ GiveUp(w)
  PROVE  Jobs!JobNext \/ Job' = Job
<1> USE DEF Goto, Finish
<1>1. InHand(w)
  BY DEF InHand, DropCancelled, DropExpired, Start, Sent, Fail, Abort, Break, GiveUp
<1>2. CASE DropCancelled(w) \/ DropExpired(w) \/ Sent(w) \/ Break(w) \/ GiveUp(w)
  <2>1. PICK s \in {"loop", "caching"} : pc' = [pc EXCEPT ![w] = s]
    BY <1>2 DEF DropCancelled, DropExpired, Sent, Break, GiveUp
  <2>2. PICK how \in {"sent", "gone"} :
          fate' = [fate EXCEPT ![arg[w]] = how] /\ (how = "sent" => pc[w] = "sending")
    BY <1>2 DEF DropCancelled, DropExpired, Sent, Break, GiveUp
  <2>3. arg' = arg
    BY <1>2 DEF DropCancelled, DropExpired, Sent, Break, GiveUp
  <2> QED
    BY <1>1, <2>1, <2>2, <2>3, EndMove
<1>3. CASE Fail(w) \/ Abort(w)
  <2>1. PICK s \in {"retry", "retryMore"} : pc' = [pc EXCEPT ![w] = s]
    BY <1>3 DEF Fail, Abort
  <2>2. fate' = fate /\ arg' = arg /\ pc[w] = "sending"
    BY <1>3 DEF Fail, Abort
  <2>3. ~(s = "sending" <=> pc[w] = "sending")
    BY <2>2
  <2> QED
    BY <1>1, <2>1, <2>2, <2>3, SendMove
<1>4. CASE Start(w)
  <2>1. fate' = fate /\ arg' = arg /\ pc[w] = "taken"
    BY <1>4 DEF Start
  <2>2. CASE pc' = [pc EXCEPT ![w] = "retry"]
    BY <2>1, <2>2, StillThreads DEF Threads
  <2>3. CASE pc' = [pc EXCEPT ![w] = "sending"]
    BY <1>1, <2>1, <2>3, SendMove
  <2> QED
    BY <1>4, <2>2, <2>3 DEF Start
<1> QED
  BY <1>2, <1>3, <1>4

(* The item of a handler that enqueues was unknown, and now waits.         *)
LEMMA EnqueueMove ==
  ASSUME IInv, NEW h \in Handlers, Enqueue(h)
  PROVE  Jobs!JobNext
<1> USE DEF Enqueue, Goto, Finish
<1>1. PICK i : i = arg[h]
  OBVIOUS
<1>2. i \in Items /\ fate[i] = "unknown"
  BY <1>1 DEF IInv, AskInv, Asking
<1>3. \A w \in Workers : (pc'[w] = "sending" <=> pc[w] = "sending") /\ arg'[w] = arg[w]
  BY UploadAssumption DEF IInv, TypeOK, Threads
<1>4. \A j \in Items : IsSent(j)' <=> IsSent(j)
  BY <1>3 DEF IsSent
<1>5. \A j \in Items : j # i => JobOf(j)' = JobOf(j)
  BY <1>1, <1>4 DEF JobOf, IInv, TypeOK
<1>6. ~IsSent(i)
  BY <1>2 DEF IInv, HeldInv, IsSent, InHand
<1>7. fate'[i] = "accepted"
  BY <1>1, <1>2 DEF IInv, TypeOK
<1>8. JobOf(i) = "none" /\ JobOf(i)' = "waiting"
  BY <1>2, <1>4, <1>6, <1>7 DEF JobOf
<1>9. <<"none", "waiting">> \in Jobs!Moves
  BY DEF Jobs!Moves
<1> QED
  BY <1>2, <1>5, <1>8, <1>9, MoveStep

(* A restart has what was written down wait, and forgets the rest.         *)
LEMMA RestartMove ==
  ASSUME IInv, Restart
  PROVE  Jobs!JobNext
<1> DEFINE kept == Copied(cached)
<1>1. kept \in SUBSET {i \in Items : Job[i] # "none"}
  <2>1. \A i \in kept : i \in Items /\ fate[i] # "unknown"
    BY DEF IInv, Copied, TypeOK, KnownInv
  <2>2. \A i \in Items : fate[i] # "unknown" => JobOf(i) # "none"
    BY DEF JobOf, IInv, TypeOK, Fates
  <2> QED
    BY <2>1, <2>2 DEF Job
<1>2. \A i \in Items : ~IsSent(i)'
  BY DEF IsSent, Restart, Threads
<1>3. ASSUME NEW i \in Items
      PROVE  JobOf(i)' = IF i \in kept THEN "waiting"
                         ELSE IF Job[i] \in {"waiting", "sending"} THEN "gone" ELSE Job[i]
  <2>1. fate'[i] = IF i \in kept THEN "accepted"
                   ELSE IF fate[i] = "accepted" THEN "gone" ELSE fate[i]
    BY DEF Restart
  <2>2. fate[i] \in Fates
    BY DEF IInv, TypeOK
  <2> QED
    BY <1>2, <2>1, <2>2 DEF JobOf, Job, Fates
<1>4. Job' = [i \in Items |-> IF i \in kept THEN "waiting"
                              ELSE IF Job[i] \in {"waiting", "sending"} THEN "gone" ELSE Job[i]]
  BY <1>3 DEF Job
<1>5. Jobs!Recover
  BY <1>1, <1>4 DEF Jobs!Recover, Job
<1> QED
  BY <1>5 DEF Jobs!JobNext

(* The threads and the cache implement UploadJobs: a request that was      *)
(* accepted waits, is sent by one worker at a time and ends once, and only *)
(* a restart forgets it or has it wait again.                              *)
THEOREM JobsKeptSafe == ObservedSpec => JobsKept
<1>1. ObservedInit => Jobs!JobInit
  BY DEF ObservedInit, Init, Jobs!JobInit, JobOf
<1>2. IInv /\ [LiveStep \/ RestartStep]_checkVars => [Jobs!JobNext]_Job
  <2> SUFFICES ASSUME IInv, [LiveStep \/ RestartStep]_checkVars
               PROVE  Jobs!JobNext \/ Job' = Job
    OBVIOUS
  <2>1. CASE RestartStep
    BY <2>1, RestartMove DEF RestartStep
  <2>2. CASE LiveStep
    <3>1. CASE \E h \in Handlers : Enqueue(h)
      BY <3>1, EnqueueMove
    <3>2. CASE ~ \E h \in Handlers : Enqueue(h)
      BY <2>2, <3>2, StillJobs, MovesOfWorker DEF LiveStep, LiveNext, WorkerStep
    <3> QED
      BY <3>1, <3>2
  <2>3. CASE UNCHANGED checkVars
    BY <2>3, StillStep DEF checkVars, vars
  <2> QED
    BY <2>1, <2>2, <2>3
<1> QED
  BY <1>1, <1>2, Invariance, PTL DEF ObservedSpec, LiveStep, RestartStep, JobsKept,
      Jobs!JobSpec, Job
=============================================================================
