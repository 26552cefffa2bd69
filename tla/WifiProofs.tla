----------------------------- MODULE WifiProofs -----------------------------
(***************************************************************************)
(* Theorems about WifiManager: that its picture of the Wi-Fi comes true    *)
(* whenever the monitor has caught up, for every number of networks, of    *)
(* connections to them and of threads, and however often NetworkManager    *)
(* begins or ends something by itself.                                     *)
(***************************************************************************)
EXTENDS ServiceChecks, FiniteSetTheorems, SequenceTheorems, TLAPS

States == {"DISCONNECTED", "PREPARE", "CONFIG", "ACTIVATED", "NEED_AUTH", "FAILED", "DEACTIVATING"}
Reasons == {"NONE", "SUPPLICANT_DISCONNECT", "NO_SECRETS", "NEW_ACTIVATION", "CONNECTION_REMOVED",
            "USER_REQUESTED"}
Reports == States \X States \X Reasons
Messages == [kind : {"state"}, body : Reports] \cup [kind : {"removed", "new"}, body : Paths]

(* What the monitor has not handled, received or not. *)
Ahead == stateQ \o OfKind("state", wire)
Leaving == removedQ \o OfKind("removed", wire)
Coming == newQ \o OfKind("new", wire)

(* What it shows, or is about to. *)
Picture == IF mon.at \in {"ask", "store"} THEN mon.next ELSE wifi

(* A report that the monitor answers by showing nothing, whatever it shows.*)
Resets(r) == r[1] = "DISCONNECTED" /\ r[3] \notin {"NEW_ACTIVATION", "CONNECTION_REMOVED"}

(* What is shown, and what a thread is at.                                 *)
Pictures == [ssid : Ssids \cup {NoSsid}, status : {"DISCONNECTED", "CONNECTING", "CONNECTED"}]
Tasks == {"idle", "activate", "connect", "clear", "add", "forget", "deactivate", "resync", "find", "store"}
Jobs == [do : Tasks, ssid : Ssids \cup {NoSsid}, next : Pictures]

(* The types, part by part: NetworkManager, what is on the way, the        *)
(* monitor, and the threads with what the user did.                        *)
DeviceTypes ==
  /\ dev \in {"DISCONNECTED", "PREPARE", "CONFIG", "ACTIVATED"}
  /\ active \in Paths \cup {NoSsid} /\ (active = NoSsid <=> dev = "DISCONNECTED")
  /\ saved \subseteq Paths /\ volatile \subseteq saved
  /\ active # NoSsid => active \in saved

Queued == /\ wire \in Seq(Messages) /\ stateQ \in Seq(Reports)
          /\ removedQ \in Seq(Paths) /\ newQ \in Seq(Paths)

PictureTypes ==
  /\ mon \in [at : {"recv", "new", "state", "ask", "store", "save"}, next : Pictures,
              path : Paths \cup {NoSsid}]
  /\ mon.at = "ask" => mon.next.ssid = NoSsid \/ mon.next.status = "CONNECTED"
  /\ connections \in [Ssids -> Paths \cup {NoSsid}]
  /\ \A s \in Ssids : connections[s] # NoSsid => connections[s].ssid = s
  /\ wifi \in Pictures

ThreadTypes ==
  /\ taps \in Nat /\ reread \in BOOLEAN
  /\ ui \in Jobs /\ (ui # Idle => ui.ssid \in Ssids)
  /\ job \in [Callers -> Jobs]
  /\ \A t \in Callers : job[t].do \in {"activate", "clear", "add", "forget", "deactivate"}
                        => job[t].ssid \in Ssids

WifiTypes == DeviceTypes /\ Queued /\ PictureTypes /\ ThreadTypes

(* NetworkManager has told of the state it is in. *)
Told ==
  Ahead # <<>> => Ahead[Len(Ahead)][1] = dev /\ Ahead[Len(Ahead)][3] # "NEW_ACTIVATION"

(* The connections whose end the monitor has not dealt with: a name it has *)
(* is of a connection that is saved, or of one of these.                   *)
Departed == {Leaving[i] : i \in DOMAIN Leaving}

NoGhosts ==
  \A s \in Ssids : connections[s] = NoSsid \/ connections[s] \in saved \cup Departed

(* A step that gives up a connection sends that it is gone.                *)
Announced == saved \cup Departed \subseteq saved' \cup Departed'

(* The user asked to leave a network, or chose one, and it is not done.    *)
Requested == \E t \in Callers : job[t].do \in {"forget", "deactivate"}
Busy == ui # Idle \/ \E t \in Callers : job[t].do \in {"activate", "clear", "add"}

(* The user has not changed anything. *)
Untouched == taps = 0 \/ (taps = 1 /\ Requested)

(* A thread is at what the user did, and reread tells of the others.       *)
UserInv ==
  /\ taps = 0 => ui = Idle /\ ~reread /\ \A t \in Callers : job[t].do = "idle"
  /\ taps = 1 => \A t \in Callers : job[t].do \in {"forget", "deactivate"}
                   => ui = Idle /\ \A u \in Callers \ {t} : job[u].do = "idle"
  /\ \A t \in Callers : job[t].do \in {"resync", "find", "store"} => reread

(* The monitor looks up a name only while it would see the user choose,    *)
(* and keeps a connection only when it shows the device on a network.      *)
Watchful ==
  /\ mon.at = "ask" => Monitor \in epochs
  /\ mon.at = "save" => wifi.status = "CONNECTED"

(* No report of a network being set up follows one of a network it is on,  *)
(* or finds the picture connected, unless a report between them resets it. *)
InOrder(a, status) ==
  /\ \A i, j \in DOMAIN a :
       i < j /\ a[i][1] = "ACTIVATED" /\ a[j][1] \in {"PREPARE", "CONFIG"}
       => \E k \in DOMAIN a : i < k /\ k < j /\ Resets(a[k])
  /\ \A j \in DOMAIN a : status = "CONNECTED" /\ a[j][1] \in {"PREPARE", "CONFIG"}
       => \E k \in DOMAIN a : k < j /\ Resets(a[k])

Ordered == InOrder(Ahead, Picture.status)

(* Nothing is new, volatile or gone, and every connection has its name.    *)
Plain ==
  /\ volatile = {} /\ Leaving = <<>> /\ Coming = <<>>
  /\ \A p \in saved : connections[p.ssid] = p

(* No report is of something the user made happen.                         *)
Unforced == \A i \in DOMAIN Ahead : Ahead[i][3] \notin {"NEW_ACTIVATION", "CONNECTION_REMOVED"}

(* With no report ahead that resets it, the picture names the right        *)
(* network, or none; with one, it is reset before the monitor catches up.  *)
Foreseen ==
  (\A i \in DOMAIN Ahead : ~Resets(Ahead[i]))
    => IF dev = "DISCONNECTED" THEN Picture = Nowhere /\ mon.at # "ask"
       ELSE Picture.ssid \in {NoSsid, active.ssid}

(* With no report ahead, the picture is right.                             *)
Shown ==
  Ahead = <<>> /\ dev # "DISCONNECTED" =>
    /\ Picture.status = IF dev = "ACTIVATED" THEN "CONNECTED" ELSE "CONNECTING"
    /\ mon.at = "ask" \/ Picture.ssid = active.ssid

(* What holds until the user changes something, ...                        *)
UntouchedInv == Plain /\ Unforced /\ Foreseen /\ Shown /\ Watchful /\ Ordered

(* ... and what is good again after the one thing he did: when no report   *)
(* is ahead, the picture is right, but perhaps for a name.                 *)
Once == taps <= 1 /\ ~Busy /\ ~reread

Settled ==
  Ahead = <<>> =>
    /\ dev = "DISCONNECTED" => Picture = Nowhere /\ mon.at # "ask"
    /\ dev = "ACTIVATED" => /\ Picture.status = "CONNECTED"
                            /\ mon.at = "ask" => Monitor \in epochs
                            /\ mon.at # "ask" => Picture.ssid \in {NoSsid, active.ssid}

(* The reports of a connection that is removed while the device is on it.  *)
(* The picture was of it: one of five things yet clears that, or has.      *)
Leaves(r) == r[1] = "DEACTIVATING" /\ r[3] = "CONNECTION_REMOVED"

Forgotten == dev = "DISCONNECTED" /\ Ahead # <<>> /\ Ahead[Len(Ahead)][3] = "CONNECTION_REMOVED"

(* Its name is taken off before the two reports on the way are handled.    *)
Warned ==
  \E i, j, k \in DOMAIN wire :
    /\ i < j /\ j < k /\ wire[i] = Removed(connections[Picture.ssid])
    /\ wire[j].kind = "state" /\ Leaves(wire[j].body) /\ wire[k].kind = "state"

ForgottenInv ==
  /\ Coming = <<>> /\ Watchful /\ Ordered
  /\ \/ \E i \in DOMAIN Ahead : Resets(Ahead[i])
     \/ Picture.ssid = NoSsid
     \/ connections[Picture.ssid] = NoSsid
     \/ Picture.status = "CONNECTED" /\ \E i \in DOMAIN Ahead : i < Len(Ahead) /\ Leaves(Ahead[i])
     \/ Warned

(* The inductive invariant.                                                *)
WifiInv ==
  /\ WifiTypes /\ Told /\ NoGhosts /\ UserInv
  /\ Untouched => UntouchedInv
  /\ Once => Settled /\ (Forgotten => ForgottenInv)
-----------------------------------------------------------------------------
(* The queues.  Of a sequence of messages, those of a kind up to some      *)
(* place are counted: as many as before it, and one more when it is one.   *)
LEMMA UpToFinite ==
  ASSUME NEW k, NEW msgs, NEW i \in Int
  PROVE  /\ IsFiniteSet(UpTo(k, msgs, i)) /\ Cardinality(UpTo(k, msgs, i)) \in Nat
         /\ UpTo(k, msgs, i) \subseteq Int
<1>1. IsFiniteSet(1 .. i)
  BY FS_Interval
<1>2. UpTo(k, msgs, i) \in SUBSET (1 .. i)
  BY DEF UpTo
<1> QED
  BY <1>1, <1>2, FS_Subset, FS_CardinalityType

(* A place of the kind is counted by every later count.                    *)
LEMMA RankGrows ==
  ASSUME NEW k, NEW msgs, NEW i \in Int, NEW j \in Int, i < j, j \in UpTo(k, msgs, j)
  PROVE  Cardinality(UpTo(k, msgs, i)) < Cardinality(UpTo(k, msgs, j))
<1>1. UpTo(k, msgs, i) \in SUBSET UpTo(k, msgs, j) /\ UpTo(k, msgs, i) # UpTo(k, msgs, j)
  BY DEF UpTo
<1>2. /\ IsFiniteSet(UpTo(k, msgs, i)) /\ Cardinality(UpTo(k, msgs, i)) \in Nat
      /\ IsFiniteSet(UpTo(k, msgs, j)) /\ Cardinality(UpTo(k, msgs, j)) \in Nat
  BY UpToFinite
<1>3. /\ Cardinality(UpTo(k, msgs, i)) <= Cardinality(UpTo(k, msgs, j))
      /\ Cardinality(UpTo(k, msgs, j)) = Cardinality(UpTo(k, msgs, i)) => UpTo(k, msgs, j) = UpTo(k, msgs, i)
  BY <1>1, <1>2, FS_Subset
<1> QED
  BY <1>1, <1>2, <1>3

(* So the places of a kind have ranks of their own, and every number up to *)
(* their number is the rank of one.                                        *)
LEMMA NthHasRank ==
  ASSUME NEW k, NEW msgs, NEW m \in Int,
         NEW n \in 1 .. Cardinality(UpTo(k, msgs, m))
  PROVE  \E i \in UpTo(k, msgs, m) : Cardinality(UpTo(k, msgs, i)) = n
<1> DEFINE P == UpTo(k, msgs, m)
           c == Cardinality(P)
           rank == [i \in P |-> Cardinality(UpTo(k, msgs, i))]
<1>1. IsFiniteSet(P) /\ c \in Nat /\ P \subseteq Int
  BY UpToFinite
<1>2. \A i \in P : rank[i] \in 1 .. c
  <2> SUFFICES ASSUME NEW i \in P PROVE Cardinality(UpTo(k, msgs, i)) \in 1 .. c
    OBVIOUS
  <2>1. i \in Int /\ i \in UpTo(k, msgs, i) /\ UpTo(k, msgs, i) \in SUBSET P
    BY DEF UpTo
  <2>2. IsFiniteSet(UpTo(k, msgs, i)) /\ Cardinality(UpTo(k, msgs, i)) \in Nat
    BY <2>1, UpToFinite
  <2>3. Cardinality(UpTo(k, msgs, i)) <= c
    BY <1>1, <2>1, FS_Subset
  <2>4. Cardinality(UpTo(k, msgs, i)) # 0
    BY <2>1, <2>2, FS_EmptySet
  <2> QED
    BY <1>1, <2>2, <2>3, <2>4
<1>3. \A i, j \in P : i # j => rank[i] # rank[j]
  <2> SUFFICES ASSUME NEW i \in P, NEW j \in P, i < j PROVE rank[i] < rank[j]
    BY <1>1, <1>2
  <2>1. i \in Int /\ j \in Int /\ j \in UpTo(k, msgs, j)
    BY DEF UpTo
  <2> QED
    BY <2>1, RankGrows
<1>4. rank \in [P -> 1 .. c]
  BY <1>2
<1>5. rank \in Injection(P, 1 .. c)
  BY <1>3, <1>4, Zenon DEF Injection, IsInjective
<1>6. IsFiniteSet(1 .. c) /\ Cardinality(1 .. c) = c
  BY <1>1, FS_Interval
<1>7. rank \in Surjection(P, 1 .. c)
  BY <1>1, <1>5, <1>6, FS_Injection
<1>8. n \in 1 .. c
  OBVIOUS
<1>9. PICK i \in P : rank[i] = n
  BY <1>7, <1>8 DEF Surjection
<1> QED
  BY <1>9

(* So the place of a rank is the one that Nth chooses.                     *)
LEMMA NthIs ==
  ASSUME NEW k, NEW msgs, Len(msgs) \in Nat, NEW i \in UpTo(k, msgs, Len(msgs))
  PROVE  Nth(k, msgs, Cardinality(UpTo(k, msgs, i))) = i
<1> DEFINE n == Cardinality(UpTo(k, msgs, i))
           j == Nth(k, msgs, n)
<1>1. j \in UpTo(k, msgs, Len(msgs)) /\ Cardinality(UpTo(k, msgs, j)) = n
  BY DEF Nth
<1>2. /\ i \in Int /\ i \in UpTo(k, msgs, i) /\ n \in Nat
      /\ j \in Int /\ j \in UpTo(k, msgs, j)
  <2>1. i \in Int /\ i \in UpTo(k, msgs, i) /\ j \in Int /\ j \in UpTo(k, msgs, j)
    BY <1>1 DEF UpTo
  <2> QED
    BY <2>1, UpToFinite
<1> HIDE DEF j
<1>3. ~ (i < j) /\ ~ (j < i)
  <2>1. i < j => n < n
    BY <1>1, <1>2, RankGrows
  <2>2. j < i => n < n
    <3> SUFFICES ASSUME j < i PROVE n < n
      OBVIOUS
    <3>1. Cardinality(UpTo(k, msgs, j)) < Cardinality(UpTo(k, msgs, i))
      BY <1>2, RankGrows
    <3> QED
      BY <1>1, <3>1
  <2> QED
    BY <1>2, <2>1, <2>2
<1>4. j = i
  BY <1>2, <1>3
<1> QED
  BY <1>4 DEF j

(* Of two sequences one after the other, those of the first come before    *)
(* those of the second.                                                    *)
LEMMA CountConcat ==
  ASSUME NEW k, NEW M, NEW a \in Seq(M), NEW b \in Seq(M), NEW i \in 0 .. Len(b)
  PROVE  Cardinality(UpTo(k, a \o b, Len(a) + i)) =
           Cardinality(UpTo(k, a, Len(a))) + Cardinality(UpTo(k, b, i))
<1> DEFINE n == Len(a)
           A == UpTo(k, a, n)
           B == UpTo(k, b, i)
           S == {n + h : h \in B}
           shift == [h \in B |-> n + h]
<1>1. n \in Nat /\ Len(b) \in Nat /\ n \in Int /\ i \in Int
  OBVIOUS
<1>2. /\ IsFiniteSet(A) /\ Cardinality(A) \in Nat /\ A \subseteq Int
      /\ IsFiniteSet(B) /\ Cardinality(B) \in Nat /\ B \subseteq Int
  BY <1>1, UpToFinite
<1>3. shift \in Bijection(B, S)
  <2>1. shift \in [B -> S] /\ \A t \in S : \E h \in B : shift[h] = t
    OBVIOUS
  <2>2. \A g, h \in B : shift[g] = shift[h] => g = h
    BY <1>1, <1>2
  <2> QED
    BY <2>1, <2>2 DEF Bijection, Injection, Surjection, IsInjective
<1>4. IsFiniteSet(S) /\ Cardinality(S) = Cardinality(B)
  <2>1. ExistsBijection(B, S)
    BY <1>3 DEF ExistsBijection
  <2> QED
    BY <1>2, <2>1, FS_Bijection
<1>5. A \cap S = {} /\ UpTo(k, a \o b, n + i) = A \cup S
  <2>1. \A h \in A : h \in 1 .. n
    BY DEF UpTo
  <2>2. \A h \in B : h \in 1 .. i
    BY DEF UpTo
  <2>3. A \cap S = {}
    BY <1>1, <2>1, <2>2
  <2>4. ASSUME NEW h \in UpTo(k, a \o b, n + i) PROVE h \in A \cup S
    <3>1. h \in 1 .. n + i /\ (a \o b)[h].kind = k
      BY DEF UpTo
    <3>2. CASE h <= n
      BY <1>1, <3>1, <3>2 DEF UpTo
    <3>3. CASE h > n
      <4>1. (a \o b)[h] = b[h - n] /\ h - n \in 1 .. i /\ h = n + (h - n)
        BY <1>1, <3>1, <3>3
      <4>2. h - n \in B
        BY <3>1, <4>1 DEF UpTo
      <4> QED
        BY <4>1, <4>2
    <3> QED
      BY <1>1, <3>1, <3>2, <3>3
  <2>5. ASSUME NEW h \in A PROVE h \in UpTo(k, a \o b, n + i)
    <3>1. h \in 1 .. n /\ a[h].kind = k
      BY DEF UpTo
    <3>2. h \in 1 .. n + i /\ (a \o b)[h] = a[h]
      BY <1>1, <3>1
    <3> QED
      BY <3>1, <3>2 DEF UpTo
  <2>6. ASSUME NEW h \in B PROVE n + h \in UpTo(k, a \o b, n + i)
    <3>1. h \in 1 .. i /\ b[h].kind = k
      BY DEF UpTo
    <3>2. n + h \in 1 .. n + i /\ (a \o b)[n + h] = b[h]
      BY <1>1, <3>1
    <3> QED
      BY <3>1, <3>2 DEF UpTo
  <2> QED
    BY <2>3, <2>4, <2>5, <2>6
<1>6. Cardinality(A \cup S) = Cardinality(A) + Cardinality(S)
  <2>1. Cardinality(A \cap S) = 0
    BY <1>5, FS_EmptySet
  <2>2. Cardinality(A \cup S) = Cardinality(A) + Cardinality(S) - Cardinality(A \cap S)
    BY <1>2, <1>4, FS_Union
  <2> HIDE DEF A, S, B
  <2> QED
    BY <1>2, <1>4, <2>1, <2>2
<1> QED
  BY <1>4, <1>5, <1>6

(* A message of the kind is in the queue, at its rank, ...                 *)
LEMMA OfKindAt ==
  ASSUME NEW k, NEW msgs, Len(msgs) \in Nat, NEW i \in 1 .. Len(msgs), msgs[i].kind = k
  PROVE  /\ Cardinality(UpTo(k, msgs, i)) \in 1 .. Cardinality(UpTo(k, msgs, Len(msgs)))
         /\ OfKind(k, msgs)[Cardinality(UpTo(k, msgs, i))] = msgs[i].body
<1> DEFINE n == Cardinality(UpTo(k, msgs, i))
           c == Cardinality(UpTo(k, msgs, Len(msgs)))
<1>1. Len(msgs) \in Nat /\ i \in Int /\ Len(msgs) \in Int
  OBVIOUS
<1>2. i \in UpTo(k, msgs, i) /\ UpTo(k, msgs, i) \in SUBSET UpTo(k, msgs, Len(msgs))
  BY DEF UpTo
<1>3. IsFiniteSet(UpTo(k, msgs, i)) /\ n \in Nat /\ IsFiniteSet(UpTo(k, msgs, Len(msgs))) /\ c \in Nat
  BY <1>1, UpToFinite
<1>4. n # 0 /\ n <= c
  BY <1>2, <1>3, FS_EmptySet, FS_Subset
<1>5. Nth(k, msgs, n) = i
  BY <1>1, <1>2, NthIs
<1> QED
  BY <1>3, <1>4, <1>5 DEF OfKind

(* ... and what is in the queue is of a message with that rank.            *)
LEMMA OfKindFrom ==
  ASSUME NEW k, NEW msgs, Len(msgs) \in Nat,
         NEW n \in 1 .. Cardinality(UpTo(k, msgs, Len(msgs)))
  PROVE  \E i \in 1 .. Len(msgs) :
           /\ Cardinality(UpTo(k, msgs, i)) = n /\ msgs[i].kind = k
           /\ OfKind(k, msgs)[n] = msgs[i].body
<1>1. Len(msgs) \in Int
  OBVIOUS
<1>2. PICK i \in UpTo(k, msgs, Len(msgs)) : Cardinality(UpTo(k, msgs, i)) = n
  BY <1>1, NthHasRank
<1>3. i \in 1 .. Len(msgs) /\ msgs[i].kind = k
  BY DEF UpTo
<1>4. OfKind(k, msgs)[n] = msgs[i].body
  BY <1>2, <1>3, OfKindAt
<1> QED
  BY <1>2, <1>3, <1>4

(* The queue is as long as there are messages of its kind.                 *)
LEMMA OfKindSize ==
  ASSUME NEW k, NEW msgs, Len(msgs) \in Nat
  PROVE  /\ Cardinality(UpTo(k, msgs, Len(msgs))) \in Nat
         /\ Len(OfKind(k, msgs)) = Cardinality(UpTo(k, msgs, Len(msgs)))
         /\ DOMAIN OfKind(k, msgs) = 1 .. Cardinality(UpTo(k, msgs, Len(msgs)))
<1> DEFINE c == Cardinality(UpTo(k, msgs, Len(msgs)))
<1>1. Len(msgs) \in Int
  OBVIOUS
<1>2. c \in Nat
  BY <1>1, UpToFinite
<1> QED
  BY <1>2 DEF OfKind

(* What is in a queue, when every message of its kind has a body in B.     *)
LEMMA OfKindType ==
  ASSUME NEW k, NEW msgs, NEW B, Len(msgs) \in Nat,
         \A i \in 1 .. Len(msgs) : msgs[i].kind = k => msgs[i].body \in B
  PROVE  OfKind(k, msgs) \in Seq(B)
<1> DEFINE q == OfKind(k, msgs)
           c == Cardinality(UpTo(k, msgs, Len(msgs)))
<1>1. c \in Nat /\ Len(q) = c /\ DOMAIN q = 1 .. c
  BY OfKindSize
<1>2. \A n \in 1 .. c : q[n] \in B
  BY OfKindFrom
<1>3. q = [n \in 1 .. c |-> q[n]]
  BY DEF OfKind
<1> HIDE DEF q, c
<1>4. q \in [1 .. c -> B]
  BY <1>2, <1>3
<1>5. q \in Seq(B)
  BY <1>1, <1>4
<1> QED
  BY <1>5 DEF q

(* The queue of two sequences is that of the first, then that of the       *)
(* second.                                                                 *)
LEMMA OfKindConcat ==
  ASSUME NEW k, NEW M, NEW a \in Seq(M), NEW b \in Seq(M)
  PROVE  OfKind(k, a \o b) = OfKind(k, a) \o OfKind(k, b)
<1> DEFINE c == a \o b
           ca == Cardinality(UpTo(k, a, Len(a)))
           cb == Cardinality(UpTo(k, b, Len(b)))
           cc == Cardinality(UpTo(k, c, Len(c)))
           qa == OfKind(k, a)
           qb == OfKind(k, b)
           qc == OfKind(k, c)
<1>1. /\ Len(a) \in Nat /\ Len(b) \in Nat /\ Len(c) \in Nat /\ Len(c) = Len(a) + Len(b)
      /\ \A i \in 1 .. Len(a) : c[i] = a[i] /\ i \in 1 .. Len(c)
      /\ \A i \in 1 .. Len(b) : c[Len(a) + i] = b[i] /\ Len(a) + i \in 1 .. Len(c)
  OBVIOUS
<1>2. \A i \in 0 .. Len(b) : Cardinality(UpTo(k, c, Len(a) + i)) = ca + Cardinality(UpTo(k, b, i))
  BY CountConcat
<1> HIDE DEF c
<1>3. cc = ca + cb
  <2>1. Len(b) \in 0 .. Len(b)
    BY <1>1
  <2> QED
    BY <1>1, <1>2, <2>1
<1>4. /\ ca \in Nat /\ Len(qa) = ca /\ DOMAIN qa = 1 .. ca
      /\ cb \in Nat /\ Len(qb) = cb /\ DOMAIN qb = 1 .. cb
      /\ cc \in Nat /\ Len(qc) = cc /\ DOMAIN qc = 1 .. cc
  BY <1>1, OfKindSize
<1>5. /\ qa = [n \in 1 .. ca |-> qa[n]] /\ qb = [n \in 1 .. cb |-> qb[n]]
      /\ qc = [n \in 1 .. cc |-> qc[n]]
  BY DEF OfKind
<1>6. ASSUME NEW n \in 1 .. ca PROVE qc[n] = qa[n]
  <2>1. PICK i \in 1 .. Len(a) : Cardinality(UpTo(k, a, i)) = n /\ a[i].kind = k /\ qa[n] = a[i].body
    BY <1>1, OfKindFrom
  <2>2. UpTo(k, c, i) = UpTo(k, a, i)
    BY <1>1 DEF UpTo
  <2>3. i \in 1 .. Len(c) /\ c[i].kind = k /\ c[i] = a[i]
    BY <1>1, <2>1
  <2>4. qc[Cardinality(UpTo(k, c, i))] = c[i].body
    BY <1>1, <2>3, OfKindAt
  <2> QED
    BY <2>1, <2>2, <2>3, <2>4
<1>7. ASSUME NEW n \in 1 .. cb PROVE qc[ca + n] = qb[n]
  <2>1. PICK i \in 1 .. Len(b) : Cardinality(UpTo(k, b, i)) = n /\ b[i].kind = k /\ qb[n] = b[i].body
    BY <1>1, OfKindFrom
  <2>2. i \in 0 .. Len(b) /\ Len(a) + i \in 1 .. Len(c) /\ c[Len(a) + i] = b[i]
    BY <1>1
  <2>3. Cardinality(UpTo(k, c, Len(a) + i)) = ca + n
    BY <1>2, <2>1, <2>2
  <2>4. qc[Cardinality(UpTo(k, c, Len(a) + i))] = c[Len(a) + i].body
    <3> DEFINE j == Len(a) + i
    <3>1. Len(c) \in Nat /\ j \in 1 .. Len(c) /\ c[j].kind = k
      BY <1>1, <2>1, <2>2
    <3> HIDE DEF j
    <3>2. qc[Cardinality(UpTo(k, c, j))] = c[j].body
      BY <3>1, OfKindAt
    <3> QED
      BY <3>2 DEF j
  <2> QED
    BY <2>1, <2>2, <2>3, <2>4
<1> HIDE DEF qa, qb, qc, ca, cb, cc
<1>8. /\ qa \o qb = [n \in 1 .. ca + cb |-> (qa \o qb)[n]]
      /\ \A n \in 1 .. ca + cb : (qa \o qb)[n] = IF n <= ca THEN qa[n] ELSE qb[n - ca]
  <2> DEFINE Q == {qa[n] : n \in 1 .. ca} \cup {qb[n] : n \in 1 .. cb}
  <2>1. qa \in [1 .. ca -> Q] /\ qb \in [1 .. cb -> Q]
    BY <1>5
  <2>2. qa \in Seq(Q) /\ qb \in Seq(Q)
    <3> HIDE DEF Q
    <3>1. \A n \in Nat : \A f \in [1 .. n -> Q] : f \in Seq(Q)
      BY SeqDef
    <3> QED
      BY <1>4, <2>1, <3>1
  <2> HIDE DEF Q
  <2>3. /\ qa \o qb \in Seq(Q) /\ Len(qa \o qb) = ca + cb
        /\ \A n \in 1 .. ca + cb : (qa \o qb)[n] = IF n <= ca THEN qa[n] ELSE qb[n - ca]
    BY <1>4, <2>2, ConcatProperties
  <2>4. qa \o qb \in [1 .. ca + cb -> Q]
    BY <2>3, LenProperties
  <2> QED
    BY <2>3, <2>4
<1>9. ASSUME NEW n \in 1 .. ca + cb PROVE qc[n] = (qa \o qb)[n]
  <2>1. CASE n <= ca
    BY <1>4, <1>6, <1>8, <2>1
  <2>2. CASE n > ca
    <3>1. n - ca \in 1 .. cb /\ n = ca + (n - ca)
      BY <1>4, <2>2
    <3>2. qc[n] = qb[n - ca]
      BY <1>7, <3>1
    <3> QED
      BY <1>4, <1>8, <2>2, <3>2
  <2> QED
    BY <1>4, <2>1, <2>2
<1>10. qc = qa \o qb
  <2>1. qc = [n \in 1 .. ca + cb |-> qc[n]]
    BY <1>3, <1>5
  <2> QED
    BY <1>8, <1>9, <2>1
<1> QED
  BY <1>10 DEF qa, qb, qc, c

(* The queue of one message, and of none.                                  *)
LEMMA OfKindOne ==
  ASSUME NEW k, NEW m
  PROVE  /\ OfKind(k, <<m>>) = IF m.kind = k THEN <<m.body>> ELSE <<>>
         /\ OfKind(k, <<>>) = <<>>
<1> DEFINE e == <<>>
           one == <<m>>
<1>1. Len(e) = 0 /\ Len(one) = 1 /\ one[1] = m
  OBVIOUS
<1> HIDE DEF e, one
<1>2. OfKind(k, e) = <<>>
  <2>1. UpTo(k, e, Len(e)) = {} /\ Cardinality({}) = 0
    BY <1>1, FS_EmptySet DEF UpTo
  <2>2. Len(OfKind(k, e)) = 0 /\ OfKind(k, e) \in Seq({})
    <3>1. Len(e) \in Nat /\ \A i \in 1 .. Len(e) : e[i].kind = k => e[i].body \in {}
      BY <1>1
    <3>2. OfKind(k, e) \in Seq({})
      BY <3>1, OfKindType
    <3> QED
      BY <2>1, <3>1, <3>2, OfKindSize
  <2> QED
    BY <2>2, EmptySeq
<1>3. CASE m.kind # k
  <2>1. UpTo(k, one, Len(one)) = {} /\ Cardinality({}) = 0
    BY <1>1, <1>3, FS_EmptySet DEF UpTo
  <2>2. OfKind(k, one) = <<>>
    BY <1>1, <2>1 DEF OfKind
  <2> QED
    BY <1>2, <1>3, <2>2 DEF e, one
<1>4. CASE m.kind = k
  <2>1. UpTo(k, one, 1) = {1} /\ Cardinality({1}) = 1
    <3>1. UpTo(k, one, 1) = {1}
      BY <1>1, <1>4 DEF UpTo
    <3>2. Cardinality({1}) = 1
      BY FS_Singleton
    <3> QED
      BY <3>1, <3>2
  <2>2. OfKind(k, one)[1] = m.body
    <3>1. Len(one) \in Nat /\ 1 \in 1 .. Len(one) /\ one[1].kind = k
      BY <1>1, <1>4
    <3>2. OfKind(k, one)[Cardinality(UpTo(k, one, 1))] = one[1].body
      BY <3>1, OfKindAt
    <3> QED
      BY <1>1, <2>1, <3>2
  <2>3. OfKind(k, one) = [n \in 1 .. 1 |-> OfKind(k, one)[n]]
    BY <1>1, <2>1 DEF OfKind
  <2>4. OfKind(k, one) = <<m.body>>
    BY <2>2, <2>3
  <2> QED
    BY <1>2, <1>4, <2>4 DEF e, one
<1> QED
  BY <1>3, <1>4
-----------------------------------------------------------------------------
(* What is on the way.  Messages that are sent join what the monitor has   *)
(* not handled; receiving them leaves it as it is.                         *)
LEMMA QueueTypes ==
  ASSUME NEW msgs \in Seq(Messages)
  PROVE  /\ OfKind("state", msgs) \in Seq(Reports)
         /\ OfKind("removed", msgs) \in Seq(Paths)
         /\ OfKind("new", msgs) \in Seq(Paths)
<1>1. Len(msgs) \in Nat /\ \A i \in 1 .. Len(msgs) : msgs[i] \in Messages
  OBVIOUS
<1>2. \A m \in Messages : /\ m.kind = "state" => m.body \in Reports
                          /\ m.kind \in {"removed", "new"} => m.body \in Paths
  BY DEF Messages
<1>3. /\ \A i \in 1 .. Len(msgs) : msgs[i].kind = "state" => msgs[i].body \in Reports
      /\ \A i \in 1 .. Len(msgs) : msgs[i].kind = "removed" => msgs[i].body \in Paths
      /\ \A i \in 1 .. Len(msgs) : msgs[i].kind = "new" => msgs[i].body \in Paths
  BY <1>1, <1>2
<1>4. OfKind("state", msgs) \in Seq(Reports)
  BY <1>1, <1>3, OfKindType
<1>5. OfKind("removed", msgs) \in Seq(Paths)
  BY <1>1, <1>3, OfKindType
<1>6. OfKind("new", msgs) \in Seq(Paths)
  BY <1>1, <1>3, OfKindType
<1> QED
  BY <1>4, <1>5, <1>6

(* What is not handled yet is of the kind the queues hold.                 *)
LEMMA AheadTypes == Queued => Ahead \in Seq(Reports) /\ Leaving \in Seq(Paths) /\ Coming \in Seq(Paths)
<1> SUFFICES ASSUME Queued
             PROVE  Ahead \in Seq(Reports) /\ Leaving \in Seq(Paths) /\ Coming \in Seq(Paths)
  OBVIOUS
<1>1. /\ OfKind("state", wire) \in Seq(Reports) /\ OfKind("removed", wire) \in Seq(Paths)
      /\ OfKind("new", wire) \in Seq(Paths)
  BY QueueTypes DEF Queued
<1>2. Ahead \in Seq(Reports)
  BY <1>1, ConcatProperties DEF Ahead, Queued
<1>3. Leaving \in Seq(Paths)
  BY <1>1, ConcatProperties DEF Leaving, Queued
<1>4. Coming \in Seq(Paths)
  BY <1>1, ConcatProperties DEF Coming, Queued
<1> QED
  BY <1>2, <1>3, <1>4

(* Queues can be joined in either order of joining.                        *)
LEMMA Reassociate ==
  /\ \A s, t, u \in Seq(Reports) : s \o (t \o u) = (s \o t) \o u
  /\ \A s, t, u \in Seq(Paths) : s \o (t \o u) = (s \o t) \o u
<1>1. \A s, t, u \in Seq(Reports) : s \o (t \o u) = (s \o t) \o u
  BY ConcatAssociative
<1>2. \A s, t, u \in Seq(Paths) : s \o (t \o u) = (s \o t) \o u
  BY ConcatAssociative
<1> QED
  BY <1>1, <1>2

(* What is sent joins what is not handled, kind by kind.                   *)
LEMMA Says ==
  ASSUME Queued, NEW sig \in Seq(Messages), wire' = wire \o sig, UNCHANGED <<stateQ, removedQ, newQ>>
  PROVE  /\ wire' \in Seq(Messages)
         /\ Ahead' = Ahead \o OfKind("state", sig)
         /\ Leaving' = Leaving \o OfKind("removed", sig)
         /\ Coming' = Coming \o OfKind("new", sig)
<1>1. wire' \in Seq(Messages)
  BY ConcatProperties DEF Queued
<1>2. /\ OfKind("state", wire') = OfKind("state", wire) \o OfKind("state", sig)
      /\ OfKind("removed", wire') = OfKind("removed", wire) \o OfKind("removed", sig)
      /\ OfKind("new", wire') = OfKind("new", wire) \o OfKind("new", sig)
  BY OfKindConcat DEF Queued
<1>3. /\ OfKind("state", wire) \in Seq(Reports) /\ OfKind("state", sig) \in Seq(Reports)
      /\ OfKind("removed", wire) \in Seq(Paths) /\ OfKind("removed", sig) \in Seq(Paths)
      /\ OfKind("new", wire) \in Seq(Paths) /\ OfKind("new", sig) \in Seq(Paths)
  BY QueueTypes DEF Queued
<1>4. stateQ \o (OfKind("state", wire) \o OfKind("state", sig)) = (stateQ \o OfKind("state", wire)) \o OfKind("state", sig)
  <2>1. stateQ \in Seq(Reports) /\ OfKind("state", wire) \in Seq(Reports) /\ OfKind("state", sig) \in Seq(Reports)
    BY <1>3 DEF Queued
  <2> QED
    BY <2>1, Reassociate
<1>5. removedQ \o (OfKind("removed", wire) \o OfKind("removed", sig)) = (removedQ \o OfKind("removed", wire)) \o OfKind("removed", sig)
  <2>1. removedQ \in Seq(Paths) /\ OfKind("removed", wire) \in Seq(Paths) /\ OfKind("removed", sig) \in Seq(Paths)
    BY <1>3 DEF Queued
  <2> QED
    BY <2>1, Reassociate
<1>6. newQ \o (OfKind("new", wire) \o OfKind("new", sig)) = (newQ \o OfKind("new", wire)) \o OfKind("new", sig)
  <2>1. newQ \in Seq(Paths) /\ OfKind("new", wire) \in Seq(Paths) /\ OfKind("new", sig) \in Seq(Paths)
    BY <1>3 DEF Queued
  <2> QED
    BY <2>1, Reassociate
<1> QED
  BY <1>1, <1>2, <1>4, <1>5, <1>6 DEF Ahead, Leaving, Coming

(* A reply brings in all that was sent, and nothing is handled.            *)
LEMMA Replied ==
  ASSUME Queued, Reply
  PROVE  Queued' /\ Ahead' = Ahead /\ Leaving' = Leaving /\ Coming' = Coming
<1>1. Ahead \in Seq(Reports) /\ Leaving \in Seq(Paths) /\ Coming \in Seq(Paths)
  BY AheadTypes
<1>2. /\ stateQ' = Ahead /\ removedQ' = Leaving /\ newQ' = Coming /\ wire' = <<>>
  BY DEF Reply, Ahead, Leaving, Coming
<1>3. OfKind("state", <<>>) = <<>> /\ OfKind("removed", <<>>) = <<>> /\ OfKind("new", <<>>) = <<>>
  BY OfKindOne
<1>4. Queued'
  BY <1>1, <1>2, EmptySeq DEF Queued
<1>5. Ahead' = Ahead \o <<>> /\ Leaving' = Leaving \o <<>> /\ Coming' = Coming \o <<>>
  BY <1>2, <1>3 DEF Ahead, Leaving, Coming
<1> QED
  BY <1>1, <1>4, <1>5, ConcatEmptySeq

(* One message is received: the reports stay in order, and what is removed *)
(* is told now or is still on the way.                                     *)
LEMMA Received ==
  ASSUME Queued, connections \in [Ssids -> Paths \cup {NoSsid}], Receive
  PROVE  /\ Queued' /\ Ahead' = Ahead /\ Coming' = Coming
         /\ wire # <<>> => wire' = Tail(wire)
         /\ connections' \in [Ssids -> Paths \cup {NoSsid}]
         /\ \A s \in Ssids : connections'[s] \in {NoSsid, connections[s]}
         /\ \A s \in Ssids : wire # <<>> /\ Head(wire) = Removed(connections[s]) => connections'[s] = NoSsid
         /\ \A s \in Ssids : connections[s] \in Departed => connections'[s] = NoSsid \/ connections[s] \in Departed'
         /\ Leaving = <<>> => Leaving' = <<>> /\ connections' = connections
<1> DEFINE one == IF wire = <<>> THEN <<>> ELSE <<Head(wire)>>
           rest == IF wire = <<>> THEN <<>> ELSE Tail(wire)
           told == OfKind("removed", one)
           late == OfKind("removed", rest)
           gone == removedQ \o told
<1>1. one \in Seq(Messages) /\ rest \in Seq(Messages) /\ wire = one \o rest
  <2>1. CASE wire = <<>>
    BY <2>1
  <2>2. CASE wire # <<>>
    <3>1. /\ Head(wire) \in Messages /\ Tail(wire) \in Seq(Messages)
          /\ Len(Tail(wire)) = Len(wire) - 1 /\ Len(wire) \in Nat
          /\ \A i \in 1 .. Len(Tail(wire)) : Tail(wire)[i] = wire[i + 1]
      BY <2>2, HeadTailProperties DEF Queued
    <3>2. wire = <<Head(wire)>> \o Tail(wire)
      BY <2>2 DEF Queued
    <3> QED
      BY <2>2, <3>1, <3>2
  <2> QED
    BY <2>1, <2>2
<1>2. /\ stateQ' = stateQ \o OfKind("state", one) /\ newQ' = newQ \o OfKind("new", one)
      /\ wire' = rest /\ removedQ' = <<>>
      /\ connections' = [s \in Ssids |-> IF \E i \in DOMAIN gone : gone[i] = connections[s]
                                         THEN NoSsid ELSE connections[s]]
  BY DEF Receive
<1>3. \A s \in Ssids : wire # <<>> /\ Head(wire) = Removed(connections[s]) => told = <<connections[s]>>
  <2> SUFFICES ASSUME NEW s \in Ssids, wire # <<>>, Head(wire) = Removed(connections[s])
               PROVE  told = <<connections[s]>>
    OBVIOUS
  <2>1. one = <<Removed(connections[s])>>
    OBVIOUS
  <2>2. Removed(connections[s]).kind = "removed" /\ Removed(connections[s]).body = connections[s]
    BY DEF Removed
  <2> QED
    BY <2>1, <2>2, OfKindOne
<1> HIDE DEF one, rest
<1>4. /\ OfKind("state", one) \in Seq(Reports) /\ OfKind("state", rest) \in Seq(Reports)
      /\ told \in Seq(Paths) /\ late \in Seq(Paths)
      /\ OfKind("new", one) \in Seq(Paths) /\ OfKind("new", rest) \in Seq(Paths)
  BY <1>1, QueueTypes
<1>5. /\ OfKind("state", wire) = OfKind("state", one) \o OfKind("state", rest)
      /\ OfKind("removed", wire) = told \o late
      /\ OfKind("new", wire) = OfKind("new", one) \o OfKind("new", rest)
  BY <1>1, OfKindConcat
<1>6. Queued'
  <2>1. stateQ' \in Seq(Reports)
    BY <1>2, <1>4, ConcatProperties DEF Queued
  <2>2. newQ' \in Seq(Paths)
    BY <1>2, <1>4, ConcatProperties DEF Queued
  <2> QED
    BY <1>1, <1>2, <2>1, <2>2, EmptySeq DEF Queued
<1>7. Ahead' = Ahead
  <2>1. stateQ \o (OfKind("state", one) \o OfKind("state", rest))
          = (stateQ \o OfKind("state", one)) \o OfKind("state", rest)
    <3>1. stateQ \in Seq(Reports) /\ OfKind("state", one) \in Seq(Reports) /\ OfKind("state", rest) \in Seq(Reports)
      BY <1>4 DEF Queued
    <3> QED
      BY <3>1, Reassociate
  <2> QED
    BY <1>2, <1>5, <2>1 DEF Ahead
<1>8. Coming' = Coming
  <2>1. newQ \o (OfKind("new", one) \o OfKind("new", rest))
          = (newQ \o OfKind("new", one)) \o OfKind("new", rest)
    <3>1. newQ \in Seq(Paths) /\ OfKind("new", one) \in Seq(Paths) /\ OfKind("new", rest) \in Seq(Paths)
      BY <1>4 DEF Queued
    <3> QED
      BY <3>1, Reassociate
  <2> QED
    BY <1>2, <1>5, <2>1 DEF Coming
<1> HIDE DEF told, late
<1>9. Leaving = gone \o late /\ gone \in Seq(Paths)
  <2>1. removedQ \in Seq(Paths) /\ told \in Seq(Paths) /\ late \in Seq(Paths)
    BY <1>4 DEF Queued
  <2>2. removedQ \o (told \o late) = (removedQ \o told) \o late
    BY <2>1, Reassociate
  <2>3. gone \in Seq(Paths)
    BY <2>1, ConcatProperties
  <2> QED
    BY <1>5, <2>2, <2>3 DEF Leaving
<1>10. Leaving' = late
  <2>1. Leaving' = <<>> \o late
    BY <1>2 DEF Leaving, late
  <2> QED
    BY <1>4, <2>1, ConcatEmptySeq
<1>11. \A s \in Ssids : wire # <<>> /\ Head(wire) = Removed(connections[s]) =>
         \E i \in DOMAIN gone : gone[i] = connections[s]
  <2> SUFFICES ASSUME NEW s \in Ssids, told = <<connections[s]>>
               PROVE  \E i \in DOMAIN gone : gone[i] = connections[s]
    BY <1>3
  <2>1. removedQ \in Seq(Paths) /\ told \in Seq(Paths) /\ Len(told) = 1 /\ told[1] = connections[s]
    BY <1>4 DEF Queued
  <2>2. /\ Len(removedQ) \in Nat /\ Len(gone) = Len(removedQ) + Len(told)
        /\ \A i \in 1 .. Len(removedQ) + Len(told) :
             gone[i] = IF i <= Len(removedQ) THEN removedQ[i] ELSE told[i - Len(removedQ)]
    <3>1. removedQ \in Seq(Paths) /\ told \in Seq(Paths)
      BY <2>1
    <3> QED
      BY <3>1, ConcatProperties
  <2> DEFINE n == Len(removedQ) + 1
  <2>3. n \in 1 .. Len(removedQ) + Len(told) /\ ~ (n <= Len(removedQ)) /\ n - Len(removedQ) = 1
    BY <2>1, <2>2
  <2> HIDE DEF n
  <2>4. gone[n] = connections[s]
    BY <2>1, <2>2, <2>3
  <2>5. n \in DOMAIN gone
    BY <1>9, <2>2, <2>3
  <2> QED
    BY <2>4, <2>5
<1> HIDE DEF gone
<1>12. ASSUME NEW s \in Ssids, connections[s] \in Departed
       PROVE  connections'[s] = NoSsid \/ connections[s] \in Departed'
  <2>1. /\ Len(gone) \in Nat /\ DOMAIN gone = 1 .. Len(gone)
        /\ Len(late) \in Nat /\ DOMAIN late = 1 .. Len(late)
    BY <1>4, <1>9
  <2>2. PICK i \in DOMAIN Leaving : Leaving[i] = connections[s]
    BY <1>12 DEF Departed
  <2>3. /\ i \in 1 .. Len(gone) + Len(late)
        /\ Leaving[i] = IF i <= Len(gone) THEN gone[i] ELSE late[i - Len(gone)]
    BY <1>9, <2>1
  <2>4. CASE i <= Len(gone)
    <3>1. i \in DOMAIN gone /\ gone[i] = connections[s]
      BY <2>1, <2>2, <2>3, <2>4
    <3> QED
      BY <1>2, <3>1
  <2>5. CASE i > Len(gone)
    <3>1. i - Len(gone) \in DOMAIN late /\ late[i - Len(gone)] = connections[s]
      BY <2>1, <2>2, <2>3, <2>5
    <3> QED
      BY <1>10, <3>1 DEF Departed
  <2> QED
    BY <2>1, <2>3, <2>4, <2>5
<1>13. Leaving = <<>> => Leaving' = <<>> /\ connections' = connections
  <2> SUFFICES ASSUME Leaving = <<>> PROVE Leaving' = <<>> /\ connections' = connections
    OBVIOUS
  <2>1. gone \o late = <<>> /\ gone \in Seq(Paths) /\ late \in Seq(Paths)
    BY <1>4, <1>9
  <2>2. gone = <<>> /\ late = <<>>
    BY <2>1, ConcatEmptySeq
  <2>3. DOMAIN gone = {}
    BY <2>2
  <2>4. connections' = [s \in Ssids |-> connections[s]]
    BY <1>2, <2>3
  <2> QED
    BY <1>10, <2>2, <2>4
<1>14. /\ connections' \in [Ssids -> Paths \cup {NoSsid}]
       /\ \A s \in Ssids : connections'[s] \in {NoSsid, connections[s]}
       /\ \A s \in Ssids : wire # <<>> /\ Head(wire) = Removed(connections[s]) => connections'[s] = NoSsid
  BY <1>2, <1>11
<1>15. wire # <<>> => wire' = Tail(wire)
  BY DEF Receive
<1> QED
  BY <1>6, <1>7, <1>8, <1>12, <1>13, <1>14, <1>15

(* The first report is handled. *)
LEMMA Handled ==
  ASSUME Queued, stateQ # <<>>, stateQ' = Tail(stateQ), UNCHANGED <<wire, removedQ, newQ>>
  PROVE  /\ Queued' /\ Leaving' = Leaving /\ Head(stateQ) \in Reports
         /\ Len(Ahead) \in Nat \ {0} /\ Ahead[1] = Head(stateQ)
         /\ Ahead' \in Seq(Reports) /\ Len(Ahead') = Len(Ahead) - 1
         /\ \A i \in 1 .. Len(Ahead) - 1 : Ahead'[i] = Ahead[i + 1]
         /\ Coming' = Coming
<1> DEFINE rest == OfKind("state", wire)
<1>1. rest \in Seq(Reports)
  BY QueueTypes DEF Queued
<1>2. /\ Head(stateQ) \in Reports /\ Tail(stateQ) \in Seq(Reports) /\ Len(stateQ) \in Nat \ {0}
      /\ Len(Tail(stateQ)) = Len(stateQ) - 1 /\ Head(stateQ) = stateQ[1]
      /\ \A i \in 1 .. Len(stateQ) - 1 : Tail(stateQ)[i] = stateQ[i + 1]
  BY HeadTailProperties, EmptySeq DEF Queued
<1>3. /\ Ahead \in Seq(Reports) /\ Len(Ahead) = Len(stateQ) + Len(rest) /\ Len(rest) \in Nat
      /\ \A i \in 1 .. Len(stateQ) + Len(rest) :
           Ahead[i] = IF i <= Len(stateQ) THEN stateQ[i] ELSE rest[i - Len(stateQ)]
  BY <1>1, ConcatProperties, LenProperties DEF Ahead, Queued
<1>4. Ahead' = Tail(stateQ) \o rest
  BY DEF Ahead
<1> HIDE DEF rest
<1>5. /\ Ahead' \in Seq(Reports) /\ Len(Ahead') = Len(stateQ) - 1 + Len(rest)
      /\ \A i \in 1 .. Len(stateQ) - 1 + Len(rest) :
           Ahead'[i] = IF i <= Len(stateQ) - 1 THEN Tail(stateQ)[i] ELSE rest[i - (Len(stateQ) - 1)]
  BY <1>1, <1>2, <1>4, ConcatProperties
<1>6. ASSUME NEW i \in 1 .. Len(Ahead) - 1 PROVE Ahead'[i] = Ahead[i + 1]
  <2>1. CASE i <= Len(stateQ) - 1
    BY <1>2, <1>3, <1>5, <2>1
  <2>2. CASE i > Len(stateQ) - 1
    <3>1. i \in 1 .. Len(stateQ) - 1 + Len(rest) /\ i + 1 \in 1 .. Len(stateQ) + Len(rest)
      BY <1>2, <1>3
    <3>2. ~ (i + 1 <= Len(stateQ)) /\ ~ (i <= Len(stateQ) - 1)
      BY <1>2, <2>2
    <3>3. Ahead'[i] = rest[i - (Len(stateQ) - 1)]
      BY <1>5, <3>1, <3>2
    <3>4. Ahead[i + 1] = rest[i + 1 - Len(stateQ)]
      BY <1>3, <3>1, <3>2
    <3>5. i - (Len(stateQ) - 1) = i + 1 - Len(stateQ)
      BY <1>2
    <3> QED
      BY <3>3, <3>4, <3>5
  <2> QED
    BY <1>2, <2>1, <2>2
<1>7. Queued'
  BY <1>2 DEF Queued
<1>8. Leaving' = Leaving /\ Coming' = Coming
  BY DEF Leaving, Coming
<1> QED
  BY <1>2, <1>3, <1>5, <1>6, <1>7, <1>8

(* OfKindConcat for messages, in the form the next ones cite.              *)
LEMMA OfKindJoin ==
  \A k : \A a, b \in Seq(Messages) : OfKind(k, a \o b) = OfKind(k, a) \o OfKind(k, b)
BY OfKindConcat

(* Two messages are two queues of one, ...                                 *)
LEMMA OfKindTwo ==
  ASSUME NEW k, NEW x \in Messages, NEW y \in Messages
  PROVE  /\ <<x>> \in Seq(Messages) /\ <<x, y>> \in Seq(Messages)
         /\ OfKind(k, <<x, y>>) = OfKind(k, <<x>>) \o OfKind(k, <<y>>)
<1> DEFINE M == Messages
<1> HIDE DEF M
<1>1. x \in M /\ y \in M
  BY DEF M
<1>2. <<x>> \in Seq(M)
  BY <1>1
<1>3. <<y>> \in Seq(M)
  BY <1>1
<1>4. <<x, y>> \in Seq(M)
  BY <1>1
<1>5. <<x, y>> = <<x>> \o <<y>>
  <2> DEFINE s == <<x, y>>
             a == <<x>>
             b == <<y>>
  <2>1. /\ s \in Seq(M) /\ a \in Seq(M) /\ b \in Seq(M)
        /\ Len(s) = 2 /\ Len(a) = 1 /\ Len(b) = 1
        /\ s[1] = x /\ s[2] = y /\ a[1] = x /\ b[1] = y
    BY <1>2, <1>3, <1>4
  <2> HIDE DEF s, a, b
  <2>2. a \o b \in Seq(M) /\ Len(a \o b) = 2 /\ (a \o b)[1] = x /\ (a \o b)[2] = y
    <3>1. /\ a \o b \in Seq(M) /\ Len(a \o b) = Len(a) + Len(b)
          /\ \A i \in 1 .. Len(a) + Len(b) : (a \o b)[i] = IF i <= Len(a) THEN a[i] ELSE b[i - Len(a)]
      <4>1. a \in Seq(M) /\ b \in Seq(M)
        BY <2>1
      <4> QED
        BY <4>1, ConcatProperties
    <3>2. 2 \in 1 .. 2 /\ 1 \in 1 .. 2 /\ 2 - 1 = 1 /\ 1 + 1 = 2
      OBVIOUS
    <3> QED
      BY <2>1, <3>1, <3>2
  <2>3. \A i \in 1 .. 2 : i = 1 \/ i = 2
    OBVIOUS
  <2>4. s = a \o b
    BY <2>1, <2>2, <2>3, SeqEqual
  <2> QED
    BY <2>4 DEF s, a, b
<1> QED
  BY <1>2, <1>3, <1>4, <1>5, OfKindJoin DEF M

(* ... and three are one of one and one of two.                            *)
LEMMA OfKindThree ==
  ASSUME NEW k, NEW x \in Messages, NEW y \in Messages, NEW z \in Messages
  PROVE  /\ <<x, y, z>> \in Seq(Messages)
         /\ OfKind(k, <<x, y, z>>) = OfKind(k, <<x>>) \o OfKind(k, <<y, z>>)
<1> DEFINE M == Messages
<1> HIDE DEF M
<1>1. x \in M /\ y \in M /\ z \in M
  BY DEF M
<1>2. <<x>> \in Seq(M)
  BY <1>1
<1>3. <<y, z>> \in Seq(M)
  BY <1>1
<1>4. <<x, y, z>> \in Seq(M)
  BY <1>1
<1>5. <<x, y, z>> = <<x>> \o <<y, z>>
  <2> DEFINE s == <<x, y, z>>
             a == <<x>>
             b == <<y, z>>
  <2>1. /\ s \in Seq(M) /\ a \in Seq(M) /\ b \in Seq(M)
        /\ Len(s) = 3 /\ Len(a) = 1 /\ Len(b) = 2
        /\ s[1] = x /\ s[2] = y /\ s[3] = z /\ a[1] = x /\ b[1] = y /\ b[2] = z
    BY <1>2, <1>3, <1>4
  <2> HIDE DEF s, a, b
  <2>2. /\ a \o b \in Seq(M) /\ Len(a \o b) = 3
        /\ (a \o b)[1] = x /\ (a \o b)[2] = y /\ (a \o b)[3] = z
    <3>1. /\ a \o b \in Seq(M) /\ Len(a \o b) = Len(a) + Len(b)
          /\ \A i \in 1 .. Len(a) + Len(b) : (a \o b)[i] = IF i <= Len(a) THEN a[i] ELSE b[i - Len(a)]
      <4>1. a \in Seq(M) /\ b \in Seq(M)
        BY <2>1
      <4> QED
        BY <4>1, ConcatProperties
    <3>2. 3 \in 1 .. 3 /\ 2 \in 1 .. 3 /\ 1 \in 1 .. 3 /\ 3 - 1 = 2 /\ 2 - 1 = 1 /\ 1 + 2 = 3
      OBVIOUS
    <3> QED
      BY <2>1, <3>1, <3>2
  <2>3. \A i \in 1 .. 3 : i = 1 \/ i = 2 \/ i = 3
    OBVIOUS
  <2>4. s = a \o b
    BY <2>1, <2>2, <2>3, SeqEqual
  <2> QED
    BY <2>4 DEF s, a, b
<1> QED
  BY <1>2, <1>3, <1>4, <1>5, OfKindJoin DEF M
-----------------------------------------------------------------------------
(* What NetworkManager says.                                               *)
LEMMA StateMessage ==
  ASSUME NEW new \in States, NEW prev \in States, NEW why \in Reasons
  PROVE  /\ State(new, prev, why) \in Messages
         /\ State(new, prev, why).kind = "state" /\ State(new, prev, why).body = <<new, prev, why>>
         /\ OfKind("state", <<State(new, prev, why)>>) = <<<<new, prev, why>>>>
         /\ <<new, prev, why>> \in Reports
<1> DEFINE m == State(new, prev, why)
           b == <<new, prev, why>>
<1>1. b \in Reports /\ m = [kind |-> "state", body |-> b]
  BY DEF Reports, State
<1> HIDE DEF b, m
<1>2. m \in Messages /\ m.kind = "state" /\ m.body = b
  BY <1>1 DEF Messages
<1>3. OfKind("state", <<m>>) = <<b>>
  BY <1>2, OfKindOne
<1> QED
  BY <1>1, <1>2, <1>3 DEF b, m

(* A message of a connection: it adds nothing to the reports.              *)
LEMMA PathMessage ==
  ASSUME NEW p \in Paths
  PROVE  /\ Removed(p) \in Messages /\ Removed(p).kind = "removed" /\ Removed(p).body = p
         /\ New(p) \in Messages /\ New(p).kind = "new" /\ New(p).body = p
         /\ OfKind("state", <<Removed(p)>>) = <<>> /\ OfKind("state", <<New(p)>>) = <<>>
<1>1. /\ Removed(p) \in Messages /\ Removed(p).kind = "removed" /\ Removed(p).body = p
      /\ New(p) \in Messages /\ New(p).kind = "new" /\ New(p).body = p
  BY DEF Removed, New, Messages
<1> QED
  BY <1>1, OfKindOne

(* What is removed is on the way from then on. *)
LEMMA SaysRemoved ==
  ASSUME Queued, NEW sig \in Seq(Messages), NEW p, NEW i \in 1 .. Len(sig), sig[i] = Removed(p)
  PROVE  \E j \in DOMAIN (Leaving \o OfKind("removed", sig)) :
           (Leaving \o OfKind("removed", sig))[j] = p
<1> DEFINE q == OfKind("removed", sig)
           n == Cardinality(UpTo("removed", sig, i))
<1>1. Len(sig) \in Nat /\ sig[i].kind = "removed" /\ sig[i].body = p
  BY DEF Removed
<1>2. n \in 1 .. Cardinality(UpTo("removed", sig, Len(sig))) /\ q[n] = p
  BY <1>1, OfKindAt
<1>3. Len(q) = Cardinality(UpTo("removed", sig, Len(sig)))
  BY <1>1, OfKindSize
<1>4. q \in Seq(Paths) /\ Leaving \in Seq(Paths)
  BY QueueTypes, AheadTypes
<1> HIDE DEF q, n
<1>5. n \in 1 .. Len(q) /\ Len(q) \in Nat /\ Len(Leaving) \in Nat
  BY <1>2, <1>3, <1>4
<1>6. /\ Len(Leaving \o q) = Len(Leaving) + Len(q) /\ Leaving \o q \in Seq(Paths)
      /\ \A j \in 1 .. Len(Leaving) + Len(q) :
           (Leaving \o q)[j] = IF j <= Len(Leaving) THEN Leaving[j] ELSE q[j - Len(Leaving)]
  BY <1>4, ConcatProperties
<1> DEFINE j == Len(Leaving) + n
<1>7. j \in 1 .. Len(Leaving) + Len(q) /\ ~ (j <= Len(Leaving)) /\ j - Len(Leaving) = n
  BY <1>5
<1> HIDE DEF j
<1>8. (Leaving \o q)[j] = p
  BY <1>2, <1>6, <1>7
<1>9. DOMAIN (Leaving \o q) = 1 .. Len(Leaving) + Len(q)
  BY <1>6
<1> QED
  BY <1>7, <1>8, <1>9 DEF q

(* Messages that only report states. *)
Reporting(sig) == sig \in Seq(Messages) /\ \A i \in 1 .. Len(sig) : sig[i].kind = "state"

(* They add nothing to the other queues.                                   *)
LEMMA ReportingOnly ==
  ASSUME NEW sig, Reporting(sig)
  PROVE  OfKind("removed", sig) = <<>> /\ OfKind("new", sig) = <<>>
<1>1. Len(sig) \in Nat
  BY DEF Reporting
<1>2. /\ \A i \in 1 .. Len(sig) : sig[i].kind = "removed" => sig[i].body \in {}
      /\ \A i \in 1 .. Len(sig) : sig[i].kind = "new" => sig[i].body \in {}
  BY DEF Reporting
<1>3. \A q \in Seq({}) : q = <<>>
  <2> SUFFICES ASSUME NEW q \in Seq({}) PROVE q = <<>>
    OBVIOUS
  <2>1. Len(q) \in Nat /\ \A i \in 1 .. Len(q) : q[i] \in {}
    OBVIOUS
  <2>2. Len(q) = 0
    BY <2>1
  <2> QED
    BY <2>2, EmptySeq
<1>4. OfKind("removed", sig) \in Seq({})
  BY <1>1, <1>2, OfKindType
<1>5. OfKind("new", sig) \in Seq({})
  BY <1>1, <1>2, OfKindType
<1> QED
  BY <1>3, <1>4, <1>5

(* The device goes down for a reason of its own, or because the user wants *)
(* it to: the last report tells so.                                        *)
Downfall(s) ==
  /\ s \in Seq(Reports) /\ s # <<>> /\ Resets(s[Len(s)])
  /\ \A i \in DOMAIN s : /\ s[i][1] \notin {"PREPARE", "CONFIG", "ACTIVATED"}
                         /\ s[i][3] \notin {"NEW_ACTIVATION", "CONNECTION_REMOVED"}

Refusal == <<State("NEED_AUTH", "CONFIG", "SUPPLICANT_DISCONNECT"), State("FAILED", "NEED_AUTH", "NO_SECRETS"),
             State("DISCONNECTED", "FAILED", "NONE")>>
Failure == <<State("FAILED", "NEED_AUTH", "NO_SECRETS"), State("DISCONNECTED", "FAILED", "NONE")>>
Loss == <<State("DISCONNECTED", "FAILED", "NONE")>>
Wish == <<State("DISCONNECTED", "DEACTIVATING", "USER_REQUESTED")>>

(* A report that neither begins nor forces anything may come first.        *)
LEMMA DownfallLater ==
  ASSUME NEW r \in Reports, NEW s, Downfall(s), r[1] \notin {"PREPARE", "CONFIG", "ACTIVATED"},
         r[3] \notin {"NEW_ACTIVATION", "CONNECTION_REMOVED"}
  PROVE  Downfall(<<r>> \o s)
<1> DEFINE a == <<r>>
           b == a \o s
           R == Reports
<1> HIDE DEF R
<1>1. a \in Seq(R) /\ Len(a) = 1 /\ a[1] = r
  BY DEF R
<1>2. s \in Seq(R) /\ Len(s) \in Nat \ {0}
  BY DEF Downfall, R
<1> HIDE DEF a
<1>3. /\ b \in Seq(R) /\ Len(b) = Len(a) + Len(s)
      /\ \A i \in 1 .. Len(a) + Len(s) : b[i] = IF i <= Len(a) THEN a[i] ELSE s[i - Len(a)]
  BY <1>1, <1>2, ConcatProperties
<1> HIDE DEF b
<1>4. /\ b[1] = r /\ Len(b) = Len(s) + 1 /\ b # <<>> /\ DOMAIN b = 1 .. Len(s) + 1
      /\ \A i \in 1 .. Len(s) : b[i + 1] = s[i]
  BY <1>1, <1>2, <1>3
<1>5. b[Len(b)] = s[Len(s)]
  BY <1>2, <1>4
<1>6. \A i \in 1 .. Len(s) + 1 : i = 1 \/ (i - 1 \in 1 .. Len(s) /\ i = (i - 1) + 1)
  BY <1>2
<1>7. ASSUME NEW i \in DOMAIN b
      PROVE  /\ b[i][1] \notin {"PREPARE", "CONFIG", "ACTIVATED"}
             /\ b[i][3] \notin {"NEW_ACTIVATION", "CONNECTION_REMOVED"}
  <2>1. CASE i = 1
    BY <1>4, <2>1
  <2>2. CASE i # 1
    <3>1. i - 1 \in DOMAIN s /\ b[i] = s[i - 1]
      BY <1>2, <1>4, <1>6, <2>2
    <3> QED
      BY <3>1 DEF Downfall
  <2> QED
    BY <2>1, <2>2
<1>8. Downfall(b)
  BY <1>3, <1>4, <1>5, <1>7 DEF Downfall, R
<1> QED
  BY <1>8 DEF a, b

(* One report that resets the picture is a downfall.                       *)
LEMMA DownfallNow ==
  ASSUME NEW r \in Reports, Resets(r) PROVE Downfall(<<r>>)
<1> DEFINE s == <<r>>
<1>1. s \in Seq(Reports) /\ Len(s) = 1 /\ s[1] = r
  BY DEF Reports
<1> HIDE DEF s
<1>2. Downfall(s)
  BY <1>1 DEF Downfall, Resets
<1> QED
  BY <1>2 DEF s

(* Reports alone are messages that only report states.                     *)
LEMMA ReportingThree ==
  ASSUME NEW x \in Messages, NEW y \in Messages, NEW z \in Messages,
         x.kind = "state", y.kind = "state", z.kind = "state"
  PROVE  Reporting(<<x>>) /\ Reporting(<<y, z>>) /\ Reporting(<<x, y, z>>)
<1>1. <<x>> \in Seq(Messages) /\ <<y, z>> \in Seq(Messages) /\ <<x, y, z>> \in Seq(Messages)
  BY OfKindTwo, OfKindThree
<1>2. \A i \in 1 .. Len(<<x>>) : <<x>>[i].kind = "state"
  BY \A i \in 1 .. 1 : i = 1
<1>3. \A i \in 1 .. Len(<<y, z>>) : <<y, z>>[i].kind = "state"
  BY \A i \in 1 .. 2 : i = 1 \/ i = 2
<1>4. \A i \in 1 .. Len(<<x, y, z>>) : <<x, y, z>>[i].kind = "state"
  BY \A i \in 1 .. 3 : i = 1 \/ i = 2 \/ i = 3
<1> QED
  BY <1>1, <1>2, <1>3, <1>4 DEF Reporting

(* Each of the four sequences a device leaves its connection with is a     *)
(* downfall.                                                               *)
LEMMA SignalsEnd ==
  ASSUME NEW sig \in {Refusal, Failure, Loss, Wish}
  PROVE  Reporting(sig) /\ Downfall(OfKind("state", sig))
<1> DEFINE na == State("NEED_AUTH", "CONFIG", "SUPPLICANT_DISCONNECT")
           fa == State("FAILED", "NEED_AUTH", "NO_SECRETS")
           di == State("DISCONNECTED", "FAILED", "NONE")
           us == State("DISCONNECTED", "DEACTIVATING", "USER_REQUESTED")
           nb == <<"NEED_AUTH", "CONFIG", "SUPPLICANT_DISCONNECT">>
           fb == <<"FAILED", "NEED_AUTH", "NO_SECRETS">>
           db == <<"DISCONNECTED", "FAILED", "NONE">>
           ub == <<"DISCONNECTED", "DEACTIVATING", "USER_REQUESTED">>
<1>1. na \in Messages /\ na.kind = "state" /\ OfKind("state", <<na>>) = <<nb>> /\ nb \in Reports
  BY StateMessage DEF States, Reasons
<1>2. fa \in Messages /\ fa.kind = "state" /\ OfKind("state", <<fa>>) = <<fb>> /\ fb \in Reports
  BY StateMessage DEF States, Reasons
<1>3. di \in Messages /\ di.kind = "state" /\ OfKind("state", <<di>>) = <<db>> /\ db \in Reports
  BY StateMessage DEF States, Reasons
<1>4. us \in Messages /\ us.kind = "state" /\ OfKind("state", <<us>>) = <<ub>> /\ ub \in Reports
  BY StateMessage DEF States, Reasons
<1>5. Resets(db) /\ Resets(ub)
  BY DEF Resets
<1>6. Downfall(<<db>>) /\ Downfall(<<ub>>)
  BY <1>3, <1>4, <1>5, DownfallNow
<1>7. Downfall(<<fb>> \o <<db>>)
  BY <1>2, <1>6, DownfallLater
<1>8. Downfall(<<nb>> \o (<<fb>> \o <<db>>))
  BY <1>1, <1>7, DownfallLater
<1> HIDE DEF na, fa, di, us, nb, fb, db, ub
<1>9. Reporting(<<us>>) /\ Reporting(<<di>>) /\ Reporting(<<fa, di>>) /\ Reporting(<<na, fa, di>>)
  BY <1>1, <1>2, <1>3, <1>4, ReportingThree
<1>10. OfKind("state", <<fa, di>>) = <<fb>> \o <<db>>
  BY <1>2, <1>3, OfKindTwo
<1>11. OfKind("state", <<na, fa, di>>) = <<nb>> \o (<<fb>> \o <<db>>)
  <2>1. OfKind("state", <<na, fa, di>>) = OfKind("state", <<na>>) \o OfKind("state", <<fa, di>>)
    BY <1>1, <1>2, <1>3, OfKindThree
  <2> QED
    BY <1>1, <1>10, <2>1
<1>12. sig \in {<<na, fa, di>>, <<fa, di>>, <<di>>, <<us>>}
  BY DEF na, fa, di, us, Refusal, Failure, Loss, Wish
<1>13. CASE sig = <<na, fa, di>>
  BY <1>8, <1>9, <1>11, <1>13
<1>14. CASE sig = <<fa, di>>
  BY <1>7, <1>9, <1>10, <1>14
<1>15. CASE sig = <<di>>
  BY <1>3, <1>6, <1>9, <1>15
<1>16. CASE sig = <<us>>
  BY <1>4, <1>6, <1>9, <1>16
<1> QED
  BY <1>12, <1>13, <1>14, <1>15, <1>16

(* Messages can be joined in either order of joining.                      *)
LEMMA WireAssociative ==
  /\ \A a, b \in Seq(Messages) : a \o b \in Seq(Messages)
  /\ \A a, b, c \in Seq(Messages) : (a \o b) \o c = a \o (b \o c)
<1>1. \A a, b \in Seq(Messages) : a \o b \in Seq(Messages)
  BY ConcatProperties
<1>2. \A a, b, c \in Seq(Messages) : (a \o b) \o c = a \o (b \o c)
  BY ConcatAssociative
<1> QED
  BY <1>1, <1>2

(* A message is still there when others are sent after it ...              *)
LEMMA WithinFirst ==
  ASSUME NEW a \in Seq(Messages), NEW b \in Seq(Messages), NEW i \in 1 .. Len(a)
  PROVE  \E j \in 1 .. Len(a \o b) : (a \o b)[j] = a[i]
<1>1. /\ Len(a) \in Nat /\ Len(b) \in Nat /\ Len(a \o b) = Len(a) + Len(b)
      /\ \A j \in 1 .. Len(a) + Len(b) : (a \o b)[j] = IF j <= Len(a) THEN a[j] ELSE b[j - Len(a)]
  BY ConcatProperties
<1>2. i \in 1 .. Len(a) + Len(b) /\ i <= Len(a)
  BY <1>1
<1> QED
  BY <1>1, <1>2

(* ... or before it.                                                       *)
LEMMA WithinSecond ==
  ASSUME NEW a \in Seq(Messages), NEW b \in Seq(Messages), NEW i \in 1 .. Len(b)
  PROVE  \E j \in 1 .. Len(a \o b) : (a \o b)[j] = b[i]
<1>1. /\ Len(a) \in Nat /\ Len(b) \in Nat /\ Len(a \o b) = Len(a) + Len(b)
      /\ \A j \in 1 .. Len(a) + Len(b) : (a \o b)[j] = IF j <= Len(a) THEN a[j] ELSE b[j - Len(a)]
  BY ConcatProperties
<1> DEFINE h == Len(a) + i
<1>2. h \in 1 .. Len(a) + Len(b) /\ ~ (h <= Len(a)) /\ h - Len(a) = i
  BY <1>1
<1> HIDE DEF h
<1> QED
  BY <1>1, <1>2

(* Messages are sent: no connection is given up without one that says so.  *)
LEMMA Sent ==
  ASSUME Queued, NEW sig \in Seq(Messages), wire' = wire \o sig, UNCHANGED <<stateQ, removedQ, newQ>>,
         \A p \in saved : p \in saved' \/ \E i \in 1 .. Len(sig) : sig[i] = Removed(p)
  PROVE  /\ Queued' /\ Ahead' = Ahead \o OfKind("state", sig) /\ Announced
         /\ Leaving' = Leaving \o OfKind("removed", sig)
         /\ Coming' = Coming \o OfKind("new", sig)
<1>1. /\ wire' \in Seq(Messages) /\ Ahead' = Ahead \o OfKind("state", sig)
      /\ Leaving' = Leaving \o OfKind("removed", sig)
      /\ Coming' = Coming \o OfKind("new", sig)
  BY Says
<1>2. Queued'
  BY <1>1 DEF Queued
<1>3. ASSUME NEW p \in saved PROVE p \in saved' \cup Departed'
  <2>1. ASSUME NEW i \in 1 .. Len(sig), sig[i] = Removed(p) PROVE p \in Departed'
    <3>1. \E j \in DOMAIN (Leaving \o OfKind("removed", sig)) : (Leaving \o OfKind("removed", sig))[j] = p
      BY <2>1, SaysRemoved
    <3> QED
      BY <1>1, <3>1 DEF Departed
  <2> QED
    BY <2>1
<1>4. ASSUME NEW p \in Departed PROVE p \in Departed'
  <2> DEFINE q == OfKind("removed", sig)
  <2>1. PICK i \in DOMAIN Leaving : Leaving[i] = p
    BY DEF Departed
  <2>2. Leaving \in Seq(Paths) /\ q \in Seq(Paths)
    BY AheadTypes, QueueTypes
  <2> HIDE DEF q
  <2>3. i \in 1 .. Len(Leaving) /\ Len(Leaving) \in Nat /\ Len(q) \in Nat
    BY <2>2
  <2>4. /\ DOMAIN (Leaving \o q) = 1 .. Len(Leaving) + Len(q)
        /\ \A h \in 1 .. Len(Leaving) + Len(q) :
             (Leaving \o q)[h] = IF h <= Len(Leaving) THEN Leaving[h] ELSE q[h - Len(Leaving)]
    BY <2>2, ConcatProperties
  <2>5. i \in 1 .. Len(Leaving) + Len(q) /\ i <= Len(Leaving)
    BY <2>3
  <2>6. i \in DOMAIN Leaving' /\ Leaving'[i] = p
    BY <1>1, <2>1, <2>4, <2>5 DEF q
  <2> QED
    BY <2>6 DEF Departed
<1> QED
  BY <1>1, <1>2, <1>3, <1>4 DEF Announced

(* A connection that is deleted on leaving is told of, and no state with   *)
(* it.                                                                     *)
LEMMA DeletionSays ==
  ASSUME DeviceTypes
  PROVE  /\ Deletion \in Seq(Messages) /\ OfKind("state", Deletion) = <<>>
         /\ \A p \in Deleted : p = active /\ \E i \in 1 .. Len(Deletion) : Deletion[i] = Removed(p)
<1>1. CASE Deleted = {}
  <2>1. Deletion = <<>>
    BY <1>1 DEF Deletion
  <2>2. Deletion \in Seq(Messages) /\ OfKind("state", Deletion) = <<>>
    BY <2>1, OfKindOne, EmptySeq
  <2> QED
    BY <1>1, <2>2
<1>2. CASE Deleted # {}
  <2>1. Deleted = {active} /\ active \in Paths
    BY <1>2 DEF Deleted, DeviceTypes
  <2> DEFINE m == Removed(active)
  <2>2. Deletion = <<m>> /\ m \in Messages /\ OfKind("state", <<m>>) = <<>>
    BY <1>2, <2>1, PathMessage DEF Deletion
  <2> HIDE DEF m
  <2>3. Deletion \in Seq(Messages)
    BY <2>2, OfKindTwo
  <2>4. 1 \in 1 .. Len(Deletion) /\ Deletion[1] = m
    BY <2>2
  <2> QED
    BY <2>1, <2>2, <2>3, <2>4 DEF m
<1> QED
  BY <1>1, <1>2

(* GoDown: what is ahead of the monitor ends in a downfall.                *)
LEMMA GoesDown ==
  ASSUME DeviceTypes, Queued, NEW sig \in {Refusal, Failure, Loss, Wish}, GoDown(sig),
         UNCHANGED <<stateQ, removedQ, newQ>>
  PROVE  /\ DeviceTypes' /\ Queued' /\ Announced /\ dev' = "DISCONNECTED"
         /\ \E s : Downfall(s) /\ Ahead' = Ahead \o s
         /\ volatile = {} => UNCHANGED <<saved, volatile, Leaving, Coming>>
<1> DEFINE all == sig \o Deletion
           s == OfKind("state", sig)
<1>1. sig \in Seq(Messages) /\ Reporting(sig) /\ Downfall(s)
  BY SignalsEnd DEF Reporting
<1>2. Deletion \in Seq(Messages) /\ OfKind("state", Deletion) = <<>>
  BY DeletionSays
<1>3. wire' = (wire \o sig) \o Deletion /\ wire \in Seq(Messages)
  BY DEF GoDown, Queued
<1>4. wire' = wire \o all /\ all \in Seq(Messages)
  <2>1. (wire \o sig) \o Deletion = wire \o (sig \o Deletion)
    BY <1>1, <1>2, <1>3, WireAssociative
  <2>2. sig \o Deletion \in Seq(Messages)
    BY <1>1, <1>2, WireAssociative
  <2> QED
    BY <1>3, <2>1, <2>2
<1>5. OfKind("state", all) = s
  <2>1. OfKind("state", all) = s \o <<>>
    BY <1>1, <1>2, OfKindJoin
  <2>2. s \in Seq(Reports)
    BY <1>1 DEF Downfall
  <2> HIDE DEF all, s
  <2> QED
    BY <2>1, <2>2, ConcatEmptySeq
<1>6. \A p \in saved : p \in saved' \/ \E i \in 1 .. Len(all) : all[i] = Removed(p)
  <2> SUFFICES ASSUME NEW p \in Deleted PROVE \E i \in 1 .. Len(all) : all[i] = Removed(p)
    BY DEF GoDown
  <2>1. \E i \in 1 .. Len(Deletion) : Deletion[i] = Removed(p)
    BY DeletionSays
  <2>2. PICK i \in 1 .. Len(Deletion) : Deletion[i] = Removed(p)
    BY <2>1
  <2>3. sig \in Seq(Messages) /\ Deletion \in Seq(Messages)
    BY <1>1, <1>2
  <2>4. \E j \in 1 .. Len(sig \o Deletion) : (sig \o Deletion)[j] = Deletion[i]
    BY <2>3, WithinSecond
  <2> QED
    BY <2>2, <2>4
<1> HIDE DEF all, s
<1>7. Queued' /\ Ahead' = Ahead \o s /\ Announced
  BY <1>4, <1>5, <1>6, Sent
<1>8. DeviceTypes' /\ dev' = "DISCONNECTED"
  BY DEF DeviceTypes, GoDown, Deleted
<1>9. volatile = {} => UNCHANGED <<saved, volatile, Leaving, Coming>>
  <2> SUFFICES ASSUME volatile = {} PROVE UNCHANGED <<saved, volatile, Leaving, Coming>>
    OBVIOUS
  <2>1. Deleted = {} /\ Deletion = <<>>
    BY DEF Deleted, Deletion
  <2>2. wire \o sig \in Seq(Messages)
    BY <1>1, <1>3, WireAssociative
  <2>3. wire' = wire \o sig
    BY <1>3, <2>1, <2>2, ConcatEmptySeq
  <2>4. saved' = saved /\ volatile' = volatile
    BY <2>1 DEF GoDown
  <2>5. Leaving' = Leaving \o OfKind("removed", sig) /\ Coming' = Coming \o OfKind("new", sig)
    BY <1>1, <2>3, Says
  <2>6. Leaving' = Leaving \o <<>> /\ Coming' = Coming \o <<>>
    BY <1>1, <2>5, ReportingOnly
  <2>7. Leaving' = Leaving /\ Coming' = Coming
    BY <2>6, AheadTypes, ConcatEmptySeq
  <2> QED
    BY <2>4, <2>7
<1> QED
  BY <1>1, <1>7, <1>8, <1>9

(* One report is sent. *)
LEMMA Reported ==
  ASSUME Queued, NEW new \in States, NEW prev \in States, NEW why \in Reasons,
         wire' = Append(wire, State(new, prev, why)), UNCHANGED <<stateQ, removedQ, newQ>>,
         saved \subseteq saved'
  PROVE  /\ Queued' /\ Announced /\ UNCHANGED <<Leaving, Coming>>
         /\ Ahead' = Ahead \o <<<<new, prev, why>>>>
<1> DEFINE m == State(new, prev, why)
           r == <<new, prev, why>>
<1>1. m \in Messages /\ m.kind = "state" /\ OfKind("state", <<m>>) = <<r>>
  BY StateMessage
<1> HIDE DEF m, r
<1>2. <<m>> \in Seq(Messages)
  BY <1>1, OfKindTwo
<1>3. wire' = wire \o <<m>>
  <2> DEFINE M == Messages
  <2> HIDE DEF M
  <2>1. wire \in Seq(M) /\ m \in M
    BY <1>1 DEF Queued, M
  <2>2. Append(wire, m) = wire \o <<m>>
    BY <2>1
  <2> QED
    BY <2>2 DEF m
<1>4. /\ Queued' /\ Ahead' = Ahead \o OfKind("state", <<m>>) /\ Announced
      /\ Leaving' = Leaving \o OfKind("removed", <<m>>) /\ Coming' = Coming \o OfKind("new", <<m>>)
  BY <1>2, <1>3, Sent
<1>5. Leaving' = Leaving \o <<>> /\ Coming' = Coming \o <<>>
  BY <1>1, <1>4, ReportingOnly, ReportingThree
<1>6. Leaving' = Leaving /\ Coming' = Coming
  BY <1>5, AheadTypes, ConcatEmptySeq
<1> QED
  BY <1>1, <1>4, <1>6 DEF r

(* AutoConnect: the report of a network being set up comes last.           *)
LEMMA Begins ==
  ASSUME DeviceTypes, Queued, NEW p \in saved, AutoConnect(p), UNCHANGED <<stateQ, removedQ, newQ>>
  PROVE  /\ DeviceTypes' /\ Queued' /\ Announced /\ UNCHANGED <<saved, volatile, Leaving, Coming>>
         /\ dev = "DISCONNECTED" /\ dev' = "PREPARE"
         /\ Ahead' = Ahead \o <<<<"PREPARE", "DISCONNECTED", "NONE">>>>
<1>1. /\ "PREPARE" \in States /\ "DISCONNECTED" \in States /\ "NONE" \in Reasons
      /\ wire' = Append(wire, State("PREPARE", "DISCONNECTED", "NONE"))
      /\ saved' = saved /\ volatile' = volatile /\ dev = "DISCONNECTED" /\ dev' = "PREPARE" /\ active' = p
  BY DEF States, Reasons, AutoConnect
<1>2. /\ Queued' /\ Announced /\ UNCHANGED <<Leaving, Coming>>
      /\ Ahead' = Ahead \o <<<<"PREPARE", "DISCONNECTED", "NONE">>>>
  BY <1>1, Reported
<1>3. DeviceTypes'
  <2>1. p \in Paths /\ p # NoSsid
    BY WifiAssumption DEF DeviceTypes
  <2> QED
    BY <1>1, <2>1 DEF DeviceTypes
<1> QED
  BY <1>1, <1>2, <1>3

(* Advance: one report of the state it has come to.                        *)
LEMMA Advances ==
  ASSUME DeviceTypes, Queued, NEW from \in {"PREPARE", "CONFIG"}, NEW to \in {"CONFIG", "ACTIVATED"},
         Advance(from, to), UNCHANGED <<stateQ, removedQ, newQ>>
  PROVE  /\ DeviceTypes' /\ Queued' /\ Announced /\ UNCHANGED <<active, saved, volatile, Leaving, Coming>>
         /\ dev = from /\ dev' = to
         /\ Ahead' = Ahead \o <<<<to, from, "NONE">>>>
<1>1. /\ from \in States /\ to \in States /\ "NONE" \in Reasons
      /\ wire' = Append(wire, State(to, from, "NONE"))
      /\ active' = active /\ saved' = saved /\ volatile' = volatile /\ dev = from /\ dev' = to
  BY DEF States, Reasons, Advance
<1>2. /\ Queued' /\ Announced /\ UNCHANGED <<Leaving, Coming>>
      /\ Ahead' = Ahead \o <<<<to, from, "NONE">>>>
  BY <1>1, Reported
<1>3. DeviceTypes'
  BY <1>1 DEF DeviceTypes
<1> QED
  BY <1>1, <1>2, <1>3

(* Switch: whatever is told on the way, the last report is of the new      *)
(* network.                                                                *)
LEMMA Switches ==
  ASSUME DeviceTypes, Queued, NEW p \in Paths, NEW first \in {<<>>, <<New(p)>>}, Switch(p, first),
         UNCHANGED <<stateQ, removedQ, newQ>>
  PROVE  /\ DeviceTypes' /\ Queued' /\ Announced /\ dev' = "PREPARE"
         /\ \E s \in Seq(Reports) : Ahead' = (Ahead \o s) \o <<<<"PREPARE", "DISCONNECTED", "NONE">>>>
<1> DEFINE end == State("PREPARE", "DISCONNECTED", "NONE")
           down == State("DISCONNECTED", "DEACTIVATING", "NEW_ACTIVATION")
           auth == State("NEED_AUTH", "DISCONNECTED", "SUPPLICANT_DISCONNECT")
           r == <<"PREPARE", "DISCONNECTED", "NONE">>
<1>1. PICK late \in {<<>>, <<auth>>} :
        wire' = wire \o first
                  \o (IF dev = "DISCONNECTED" THEN <<>> ELSE <<down>> \o late)
                  \o (IF active = p THEN <<>> ELSE Deletion)
                  \o <<end>>
  BY DEF Switch
<1> DEFINE leave == IF dev = "DISCONNECTED" THEN <<>> ELSE <<down>> \o late
           gone == IF active = p THEN <<>> ELSE Deletion
<1>2. /\ end \in Messages /\ OfKind("state", <<end>>) = <<r>> /\ r \in Reports
      /\ down \in Messages /\ auth \in Messages
  BY StateMessage DEF States, Reasons
<1>3. wire' = (((wire \o first) \o leave) \o gone) \o <<end>>
  BY <1>1
<1>4. first \in Seq(Messages)
  <2>1. New(p) \in Messages
    BY PathMessage
  <2> DEFINE m == New(p)
  <2> HIDE DEF m
  <2>2. <<m>> \in Seq(Messages)
    BY <2>1, OfKindTwo DEF m
  <2> QED
    BY <2>2, EmptySeq DEF m
<1> HIDE DEF end, down, auth, r
<1>5. <<end>> \in Seq(Messages) /\ <<down>> \in Seq(Messages) /\ <<auth>> \in Seq(Messages)
  BY <1>2, OfKindTwo
<1>6. late \in Seq(Messages)
  BY <1>5, EmptySeq
<1>7. <<down>> \o late \in Seq(Messages)
  BY <1>5, <1>6, WireAssociative
<1>8. leave \in Seq(Messages)
  BY <1>7, EmptySeq
<1>9. gone \in Seq(Messages)
  BY DeletionSays, EmptySeq
<1> DEFINE fl == first \o leave
           flg == fl \o gone
           sig == flg \o <<end>>
           s == OfKind("state", flg)
<1> HIDE DEF leave, gone
<1>10. fl \in Seq(Messages)
  BY <1>4, <1>8, WireAssociative
<1> HIDE DEF fl
<1>11. flg \in Seq(Messages)
  BY <1>9, <1>10, WireAssociative
<1>12. wire \in Seq(Messages)
  BY DEF Queued
<1>13. wire' = wire \o sig
  <2> DEFINE e == <<end>>
  <2>1. /\ wire \in Seq(Messages) /\ first \in Seq(Messages) /\ leave \in Seq(Messages)
        /\ gone \in Seq(Messages) /\ e \in Seq(Messages)
    BY <1>4, <1>5, <1>8, <1>9, <1>12
  <2> HIDE DEF e
  <2>2. (wire \o first) \o leave = wire \o (first \o leave)
    BY <2>1, WireAssociative
  <2>3. (wire \o (first \o leave)) \o gone = wire \o ((first \o leave) \o gone)
    BY <1>10, <2>1, WireAssociative DEF fl
  <2>4. (wire \o ((first \o leave) \o gone)) \o e = wire \o (((first \o leave) \o gone) \o e)
    BY <1>11, <2>1, WireAssociative DEF fl
  <2> QED
    BY <1>3, <2>2, <2>3, <2>4 DEF fl, e
<1>14. \A q \in saved : q \in saved' \/ \E i \in 1 .. Len(sig) : sig[i] = Removed(q)
  <2> SUFFICES ASSUME NEW q \in saved, q \notin saved' PROVE \E i \in 1 .. Len(sig) : sig[i] = Removed(q)
    OBVIOUS
  <2>1. q \in Deleted /\ q # p
    BY DEF Switch
  <2>2. q = active /\ \E i \in 1 .. Len(Deletion) : Deletion[i] = Removed(q)
    BY <2>1, DeletionSays
  <2>3. \E i \in 1 .. Len(gone) : gone[i] = Removed(q)
    BY <2>1, <2>2 DEF gone
  <2>4. PICK i \in 1 .. Len(gone) : gone[i] = Removed(q)
    BY <2>3
  <2>5. PICK j \in 1 .. Len(flg) : flg[j] = gone[i]
    BY <1>9, <1>10, WithinSecond
  <2> HIDE DEF flg
  <2>6. \E h \in 1 .. Len(sig) : sig[h] = flg[j]
    BY <1>5, <1>11, WithinFirst
  <2> QED
    BY <2>4, <2>5, <2>6
<1> HIDE DEF flg
<1>15. sig \in Seq(Messages)
  BY <1>5, <1>11, WireAssociative
<1>16. OfKind("state", sig) = s \o <<r>>
  <2>1. OfKind("state", sig) = OfKind("state", flg) \o OfKind("state", <<end>>)
    BY <1>5, <1>11, OfKindJoin
  <2> QED
    BY <1>2, <2>1
<1> HIDE DEF sig, s
<1>17. Queued' /\ Ahead' = Ahead \o (s \o <<r>>) /\ Announced
  BY <1>13, <1>14, <1>15, <1>16, Sent
<1>18. s \in Seq(Reports)
  BY <1>11, QueueTypes DEF s
<1>19. Ahead \o (s \o <<r>>) = (Ahead \o s) \o <<r>>
  <2>1. <<r>> \in Seq(Reports)
    <3> DEFINE R == Reports
    <3> HIDE DEF R
    <3>1. r \in R
      BY <1>2 DEF R
    <3>2. <<r>> \in Seq(R)
      BY <3>1
    <3> QED
      BY <3>2 DEF R
  <2> QED
    BY <1>18, <2>1, AheadTypes, Reassociate
<1>20. DeviceTypes' /\ dev' = "PREPARE"
  <2>1. p # NoSsid
    BY WifiAssumption
  <2> QED
    BY <2>1 DEF DeviceTypes, Switch
<1> QED
  BY <1>17, <1>18, <1>19, <1>20 DEF r

(* Reports after reports, place by place.                                  *)
LEMMA Joined ==
  ASSUME NEW a \in Seq(Reports), NEW s \in Seq(Reports)
  PROVE  /\ a \o s \in Seq(Reports) /\ Len(a) \in Nat /\ Len(s) \in Nat /\ Len(a \o s) = Len(a) + Len(s)
         /\ \A i \in 1 .. Len(a) : (a \o s)[i] = a[i]
         /\ \A i \in 1 .. Len(s) : (a \o s)[Len(a) + i] = s[i]
         /\ \A i \in 1 .. Len(a) + Len(s) : i \in 1 .. Len(a) \/ (i - Len(a) \in 1 .. Len(s) /\ i = Len(a) + (i - Len(a)))
<1>1. /\ a \o s \in Seq(Reports) /\ Len(a) \in Nat /\ Len(s) \in Nat /\ Len(a \o s) = Len(a) + Len(s)
      /\ \A i \in 1 .. Len(a) + Len(s) : (a \o s)[i] = IF i <= Len(a) THEN a[i] ELSE s[i - Len(a)]
  BY ConcatProperties
<1>2. ASSUME NEW i \in 1 .. Len(s) PROVE (a \o s)[Len(a) + i] = s[i]
  <2> DEFINE h == Len(a) + i
  <2>1. h \in 1 .. Len(a) + Len(s) /\ ~ (h <= Len(a)) /\ h - Len(a) = i
    BY <1>1
  <2> HIDE DEF h
  <2>2. (a \o s)[h] = s[i]
    BY <1>1, <2>1
  <2> QED
    BY <2>2 DEF h
<1>3. ASSUME NEW i \in 1 .. Len(a) PROVE (a \o s)[i] = a[i]
  BY <1>1
<1>4. \A i \in 1 .. Len(a) + Len(s) : i \in 1 .. Len(a) \/ (i - Len(a) \in 1 .. Len(s) /\ i = Len(a) + (i - Len(a)))
  BY <1>1
<1> QED
  BY <1>1, <1>2, <1>3, <1>4

(* Delete: a connection the device is on is told of before its two         *)
(* reports.                                                                *)
LEMMA Deletes ==
  ASSUME DeviceTypes, Queued, NEW p \in saved, Delete(p), UNCHANGED <<stateQ, removedQ, newQ>>
  PROVE  /\ DeviceTypes' /\ Queued' /\ Announced
         /\ active # p => UNCHANGED <<dev, active, Ahead>>
         /\ active = p =>
              /\ dev # "DISCONNECTED" /\ dev' = "DISCONNECTED" /\ Coming' = Coming
              /\ wire' = wire \o <<Removed(p), State("DEACTIVATING", dev, "CONNECTION_REMOVED"),
                                   State("DISCONNECTED", "DEACTIVATING", "CONNECTION_REMOVED")>>
              /\ \E t \in Seq(Reports) :
                   /\ Ahead' = Ahead \o t /\ Len(t) = 2
                   /\ t[1] = <<"DEACTIVATING", dev, "CONNECTION_REMOVED">>
                   /\ t[2] = <<"DISCONNECTED", "DEACTIVATING", "CONNECTION_REMOVED">>
<1> DEFINE m == Removed(p)
           l == State("DEACTIVATING", dev, "CONNECTION_REMOVED")
           d == State("DISCONNECTED", "DEACTIVATING", "CONNECTION_REMOVED")
           lb == <<"DEACTIVATING", dev, "CONNECTION_REMOVED">>
           db == <<"DISCONNECTED", "DEACTIVATING", "CONNECTION_REMOVED">>
<1>1. p \in Paths /\ p # NoSsid /\ dev \in States
  BY WifiAssumption DEF DeviceTypes, States
<1>2. /\ m \in Messages /\ m.kind = "removed" /\ OfKind("state", <<m>>) = <<>>
      /\ l \in Messages /\ l.kind = "state" /\ OfKind("state", <<l>>) = <<lb>> /\ lb \in Reports
      /\ d \in Messages /\ d.kind = "state" /\ OfKind("state", <<d>>) = <<db>> /\ db \in Reports
  <2>1. m \in Messages /\ m.kind = "removed" /\ OfKind("state", <<m>>) = <<>>
    BY <1>1, PathMessage
  <2>2. l \in Messages /\ l.kind = "state" /\ OfKind("state", <<l>>) = <<lb>> /\ lb \in Reports
    <3>1. "DEACTIVATING" \in States /\ dev \in States /\ "CONNECTION_REMOVED" \in Reasons
      BY <1>1 DEF States, Reasons
    <3> QED
      BY <3>1, StateMessage
  <2>3. d \in Messages /\ d.kind = "state" /\ OfKind("state", <<d>>) = <<db>> /\ db \in Reports
    BY StateMessage DEF States, Reasons
  <2> QED
    BY <2>1, <2>2, <2>3
<1>3. DeviceTypes'
  BY <1>1 DEF DeviceTypes, Delete
<1>4. active # p => wire' = Append(wire, m) /\ UNCHANGED <<dev, active>>
  BY DEF Delete
<1>5. active = p => wire' = wire \o <<m, l, d>> /\ dev # "DISCONNECTED" /\ dev' = "DISCONNECTED"
  BY <1>1 DEF Delete, DeviceTypes
<1>6. saved' = saved \ {p}
  BY DEF Delete
<1> HIDE DEF m, l, d, lb, db
<1>7. CASE active # p
  <2>1. <<m>> \in Seq(Messages)
    BY <1>2, OfKindTwo
  <2>2. wire' = wire \o <<m>>
    <3> DEFINE M == Messages
    <3> HIDE DEF M
    <3>1. wire \in Seq(M) /\ m \in M
      BY <1>2 DEF Queued, M
    <3>2. Append(wire, m) = wire \o <<m>>
      BY <3>1
    <3> QED
      BY <1>4, <1>7, <3>2
  <2>3. 1 \in 1 .. Len(<<m>>) /\ <<m>>[1] = Removed(p)
    BY DEF m
  <2>4. Queued' /\ Ahead' = Ahead \o OfKind("state", <<m>>) /\ Announced
    BY <1>6, <2>1, <2>2, <2>3, Sent
  <2>5. Ahead' = Ahead
    BY <1>2, <2>4, AheadTypes, ConcatEmptySeq
  <2> QED
    BY <1>3, <1>4, <1>7, <2>4, <2>5
<1>8. CASE active = p
  <2> DEFINE sig == <<m, l, d>>
             t == <<lb>> \o <<db>>
  <2>1. sig \in Seq(Messages)
    BY <1>2, OfKindThree
  <2>2. Len(sig) = 3 /\ 1 \in 1 .. 3 /\ sig[1] = Removed(p)
    BY DEF m
  <2>3. OfKind("state", sig) = <<>> \o t
    <3>1. OfKind("state", sig) = OfKind("state", <<m>>) \o OfKind("state", <<l, d>>)
      BY <1>2, OfKindThree
    <3>2. OfKind("state", <<l, d>>) = OfKind("state", <<l>>) \o OfKind("state", <<d>>)
      BY <1>2, OfKindTwo
    <3> QED
      BY <1>2, <3>1, <3>2
  <2>4. OfKind("new", sig) = <<>>
    <3>1. OfKind("new", sig) = OfKind("new", <<m>>) \o OfKind("new", <<l, d>>)
      BY <1>2, OfKindThree
    <3>2. OfKind("new", <<l, d>>) = OfKind("new", <<l>>) \o OfKind("new", <<d>>)
      BY <1>2, OfKindTwo
    <3>3. OfKind("new", <<m>>) = <<>> /\ OfKind("new", <<l>>) = <<>> /\ OfKind("new", <<d>>) = <<>>
      BY <1>2, OfKindOne
    <3> QED
      BY <3>1, <3>2, <3>3
  <2>5. t \in Seq(Reports) /\ Len(t) = 2 /\ t[1] = lb /\ t[2] = db
    <3> DEFINE x == <<lb>>
               y == <<db>>
               R == Reports
    <3> HIDE DEF R
    <3>1. x \in Seq(R) /\ Len(x) = 1 /\ x[1] = lb /\ y \in Seq(R) /\ Len(y) = 1 /\ y[1] = db
      BY <1>2 DEF R
    <3> HIDE DEF x, y
    <3>2. /\ x \o y \in Seq(Reports) /\ Len(x \o y) = Len(x) + Len(y)
          /\ \A i \in 1 .. Len(x) : (x \o y)[i] = x[i]
          /\ \A i \in 1 .. Len(y) : (x \o y)[Len(x) + i] = y[i]
      BY <3>1, Joined DEF R
    <3>3. (x \o y)[1] = lb /\ (x \o y)[1 + 1] = db /\ Len(x \o y) = 2
      BY <3>1, <3>2
    <3> QED
      BY <3>2, <3>3 DEF x, y
  <2> HIDE DEF t
  <2>6. OfKind("state", sig) = t
    BY <2>3, <2>5, ConcatEmptySeq
  <2> HIDE DEF sig
  <2>7. /\ Queued' /\ Ahead' = Ahead \o OfKind("state", sig) /\ Announced
        /\ Coming' = Coming \o OfKind("new", sig)
    BY <1>5, <1>6, <1>8, <2>1, <2>2, Sent DEF sig
  <2>8. Coming' = Coming
    BY <2>4, <2>7, AheadTypes, ConcatEmptySeq
  <2>9. Ahead' = Ahead \o t
    BY <2>6, <2>7
  <2> QED
    BY <1>3, <1>5, <1>8, <2>5, <2>7, <2>8, <2>9 DEF m, l, d, lb, db
<1> QED
  BY <1>7, <1>8

(* What NetworkManager does of itself. *)
LEMMA Itself ==
  ASSUME DeviceTypes, Queued, OfItself
  PROVE  /\ DeviceTypes' /\ Queued' /\ Announced
         /\ volatile = {} => UNCHANGED <<saved, volatile, Leaving, Coming>>
         /\ \/ dev' = "DISCONNECTED" /\ \E s : Downfall(s) /\ Ahead' = Ahead \o s
            \/ /\ dev = "DISCONNECTED" /\ dev' = "PREPARE"
               /\ Ahead' = Ahead \o <<<<"PREPARE", "DISCONNECTED", "NONE">>>>
            \/ /\ dev = "PREPARE" /\ dev' = "CONFIG" /\ active' = active
               /\ Ahead' = Ahead \o <<<<"CONFIG", "PREPARE", "NONE">>>>
            \/ /\ dev = "CONFIG" /\ dev' = "ACTIVATED" /\ active' = active
               /\ Ahead' = Ahead \o <<<<"ACTIVATED", "CONFIG", "NONE">>>>
<1>1. UNCHANGED <<stateQ, removedQ, newQ>>
  BY DEF OfItself, monitor
<1>2. CASE \E sig \in {Refusal, Failure, Loss, Wish} : GoDown(sig)
  <2>1. PICK sig \in {Refusal, Failure, Loss, Wish} : GoDown(sig)
    BY <1>2
  <2> QED
    BY <1>1, <2>1, GoesDown
<1>3. CASE \E p \in saved : AutoConnect(p)
  <2>1. PICK p \in saved : AutoConnect(p)
    BY <1>3
  <2> QED
    BY <1>1, <2>1, Begins
<1>4. CASE Advance("PREPARE", "CONFIG")
  BY <1>1, <1>4, Advances
<1>5. CASE Advance("CONFIG", "ACTIVATED")
  BY <1>1, <1>5, Advances
<1>6. Refuse \/ Vanish => \E sig \in {Refusal, Failure, Loss, Wish} : GoDown(sig)
  BY DEF Refuse, Vanish, Refusal, Failure, Loss
<1> QED
  BY <1>2, <1>3, <1>4, <1>5, <1>6 DEF OfItself

(* The last of what is sent tells the state of the device, ...             *)
LEMMA Tells ==
  ASSUME Queued, NEW s \in Seq(Reports), s # <<>>, Ahead' = Ahead \o s,
         s[Len(s)][1] = dev', s[Len(s)][3] # "NEW_ACTIVATION"
  PROVE  Told' /\ Ahead' # <<>> /\ Ahead'[Len(Ahead')] = s[Len(s)]
<1>1. Ahead \in Seq(Reports)
  BY AheadTypes
<1>2. /\ Len(Ahead) \in Nat /\ Len(s) \in Nat /\ Len(Ahead') = Len(Ahead) + Len(s)
      /\ \A i \in 1 .. Len(s) : Ahead'[Len(Ahead) + i] = s[i]
  BY <1>1, Joined
<1>3. Len(s) \in 1 .. Len(s)
  <2>1. Len(s) # 0
    BY EmptySeq
  <2> QED
    BY <1>2, <2>1
<1>4. Ahead'[Len(Ahead')] = s[Len(s)] /\ Len(Ahead') # 0
  BY <1>2, <1>3
<1> QED
  BY <1>4 DEF Told

(* ... as one report does.                                                 *)
LEMMA TellsOne ==
  ASSUME Queued, NEW r \in Reports, Ahead' = Ahead \o <<r>>, r[1] = dev', r[3] # "NEW_ACTIVATION"
  PROVE  Told' /\ Ahead' # <<>> /\ Ahead'[Len(Ahead')] = r
<1> DEFINE s == <<r>>
<1>1. s \in Seq(Reports) /\ s # <<>> /\ Len(s) = 1 /\ s[1] = r
  BY DEF Reports
<1>2. Ahead' = Ahead \o s
  OBVIOUS
<1> HIDE DEF s
<1>3. s[Len(s)] = r
  BY <1>1
<1> QED
  BY <1>1, <1>2, <1>3, Tells
-----------------------------------------------------------------------------
(* Reports in order.                                                       *)
LEMMA InOrderJoined ==
  ASSUME NEW a \in Seq(Reports), NEW s \in Seq(Reports), NEW status, InOrder(a, status),
         \A i \in 1 .. Len(s) : s[i][1] \notin {"PREPARE", "CONFIG"}
  PROVE  InOrder(a \o s, status)
<1> DEFINE b == a \o s
<1>1. /\ Len(a) \in Nat /\ Len(s) \in Nat /\ Len(b) = Len(a) + Len(s) /\ b \in Seq(Reports)
      /\ \A i \in 1 .. Len(a) : b[i] = a[i]
      /\ \A i \in 1 .. Len(s) : b[Len(a) + i] = s[i]
      /\ \A i \in 1 .. Len(a) + Len(s) : i \in 1 .. Len(a) \/ (i - Len(a) \in 1 .. Len(s) /\ i = Len(a) + (i - Len(a)))
  BY Joined
<1> HIDE DEF b
<1>2. DOMAIN a = 1 .. Len(a) /\ DOMAIN b = 1 .. Len(a) + Len(s)
  BY <1>1
<1>3. ASSUME NEW j \in DOMAIN b, b[j][1] \in {"PREPARE", "CONFIG"}
      PROVE  j \in DOMAIN a /\ a[j] = b[j]
  <2>1. CASE j \in 1 .. Len(a)
    BY <1>1, <1>2, <2>1
  <2>2. CASE j - Len(a) \in 1 .. Len(s) /\ j = Len(a) + (j - Len(a))
    <3>1. b[j] = s[j - Len(a)]
      BY <1>1, <2>2
    <3> QED
      BY <1>3, <2>2, <3>1
  <2> QED
    BY <1>1, <1>2, <2>1, <2>2
<1>4. ASSUME NEW j \in DOMAIN a, NEW i \in DOMAIN b, i < j PROVE i \in DOMAIN a /\ b[i] = a[i] /\ i \in DOMAIN b
  BY <1>1, <1>2, <1>4
<1>5. ASSUME NEW k \in DOMAIN a PROVE k \in DOMAIN b /\ b[k] = a[k]
  BY <1>1, <1>2
<1>6. ASSUME NEW i \in DOMAIN b, NEW j \in DOMAIN b, i < j, b[i][1] = "ACTIVATED", b[j][1] \in {"PREPARE", "CONFIG"}
      PROVE  \E k \in DOMAIN b : i < k /\ k < j /\ Resets(b[k])
  <2>1. j \in DOMAIN a /\ a[j] = b[j]
    BY <1>3, <1>6
  <2>2. i \in DOMAIN a /\ a[i] = b[i]
    BY <1>4, <1>6, <2>1
  <2>3. PICK k \in DOMAIN a : i < k /\ k < j /\ Resets(a[k])
    BY <1>6, <2>1, <2>2 DEF InOrder
  <2> QED
    BY <1>5, <2>3
<1>7. ASSUME NEW j \in DOMAIN b, status = "CONNECTED", b[j][1] \in {"PREPARE", "CONFIG"}
      PROVE  \E k \in DOMAIN b : k < j /\ Resets(b[k])
  <2>1. j \in DOMAIN a /\ a[j] = b[j]
    BY <1>3, <1>7
  <2>2. PICK k \in DOMAIN a : k < j /\ Resets(a[k])
    BY <1>7, <2>1 DEF InOrder
  <2> QED
    BY <1>5, <2>2
<1>8. InOrder(b, status)
  BY <1>6, <1>7 DEF InOrder
<1> QED
  BY <1>8 DEF b

(* The next report of a network being set up follows one of the same, or   *)
(* one that resets the picture.                                            *)
LEMMA InOrderNext ==
  ASSUME NEW a \in Seq(Reports), NEW r \in Reports, NEW status, InOrder(a, status),
         a = <<>> => status # "CONNECTED",
         a # <<>> => Resets(a[Len(a)]) \/ a[Len(a)][1] \in {"PREPARE", "CONFIG"}
  PROVE  InOrder(a \o <<r>>, status)
<1> DEFINE s == <<r>>
           b == a \o s
           n == Len(a)
<1>1. s \in Seq(Reports) /\ Len(s) = 1
  BY DEF Reports
<1> HIDE DEF s
<1>2. /\ n \in Nat /\ Len(b) = n + 1 /\ b \in Seq(Reports)
      /\ \A i \in 1 .. n : b[i] = a[i]
  <2>1. /\ Len(a) \in Nat /\ Len(b) = Len(a) + Len(s) /\ b \in Seq(Reports)
        /\ \A i \in 1 .. Len(a) : b[i] = a[i]
    BY <1>1, Joined
  <2> QED
    BY <1>1, <2>1
<1> HIDE DEF b
<1>3. DOMAIN a = 1 .. n /\ DOMAIN b = 1 .. n + 1
  BY <1>2
<1>4. n = 0 => a = <<>>
  BY EmptySeq
<1>5. ASSUME NEW k \in DOMAIN a PROVE k \in DOMAIN b /\ b[k] = a[k]
  BY <1>2, <1>3
<1>6. n # 0 => n \in DOMAIN a
  BY <1>2, <1>3
<1> HIDE DEF n
<1>7. ASSUME NEW i \in DOMAIN b, NEW j \in DOMAIN b, i < j, b[i][1] = "ACTIVATED", b[j][1] \in {"PREPARE", "CONFIG"}
      PROVE  \E k \in DOMAIN b : i < k /\ k < j /\ Resets(b[k])
  <2>1. i \in DOMAIN a /\ a[i] = b[i] /\ n \in DOMAIN a /\ i <= n
    BY <1>2, <1>3, <1>6, <1>7
  <2>2. CASE j \in DOMAIN a
    <3>1. b[j] = a[j]
      BY <1>5, <2>2
    <3>2. PICK k \in DOMAIN a : i < k /\ k < j /\ Resets(a[k])
      BY <1>7, <2>1, <2>2, <3>1 DEF InOrder
    <3> QED
      BY <1>5, <3>2
  <2>3. CASE j \notin DOMAIN a
    <3>1. j = n + 1
      BY <1>2, <1>3, <2>3
    <3>2. a[n][1] # "ACTIVATED" /\ (Resets(a[n]) \/ a[n][1] \in {"PREPARE", "CONFIG"})
      BY <1>3, <2>1 DEF n, Resets
    <3>3. i < n
      BY <1>2, <1>3, <1>7, <2>1, <3>2
    <3>4. CASE Resets(a[n])
      BY <1>2, <1>5, <2>1, <3>1, <3>3, <3>4
    <3>5. CASE a[n][1] \in {"PREPARE", "CONFIG"}
      <4>1. PICK k \in DOMAIN a : i < k /\ k < n /\ Resets(a[k])
        BY <1>7, <2>1, <3>3, <3>5 DEF InOrder
      <4> QED
        BY <1>2, <1>3, <1>5, <3>1, <4>1
    <3> QED
      BY <3>2, <3>4, <3>5
  <2> QED
    BY <2>2, <2>3
<1>8. ASSUME NEW j \in DOMAIN b, status = "CONNECTED", b[j][1] \in {"PREPARE", "CONFIG"}
      PROVE  \E k \in DOMAIN b : k < j /\ Resets(b[k])
  <2>1. n \in DOMAIN a
    BY <1>4, <1>6, <1>8
  <2>2. CASE j \in DOMAIN a
    <3>1. b[j] = a[j]
      BY <1>5, <2>2
    <3>2. PICK k \in DOMAIN a : k < j /\ Resets(a[k])
      BY <1>8, <2>2, <3>1 DEF InOrder
    <3> QED
      BY <1>5, <3>2
  <2>3. CASE j \notin DOMAIN a
    <3>1. j = n + 1
      BY <1>2, <1>3, <2>3
    <3>2. Resets(a[n]) \/ a[n][1] \in {"PREPARE", "CONFIG"}
      BY <2>1, <1>3 DEF n
    <3>3. CASE Resets(a[n])
      BY <1>2, <1>5, <2>1, <3>1, <3>3
    <3>4. CASE a[n][1] \in {"PREPARE", "CONFIG"}
      <4>1. PICK k \in DOMAIN a : k < n /\ Resets(a[k])
        BY <1>8, <2>1, <3>4 DEF InOrder
      <4> QED
        BY <1>2, <1>3, <1>5, <3>1, <4>1
    <3> QED
      BY <3>2, <3>3, <3>4
  <2> QED
    BY <2>2, <2>3
<1>9. InOrder(b, status)
  BY <1>7, <1>8 DEF InOrder
<1> QED
  BY <1>9 DEF b, s

(* The first report is handled, and does not leave a picture of a network  *)
(* being set up for one of a network it is on.                             *)
LEMMA InOrderRest ==
  ASSUME NEW a \in Seq(Reports), NEW b \in Seq(Reports), NEW was, NEW status, InOrder(a, was),
         Len(a) # 0, Len(b) = Len(a) - 1, \A i \in 1 .. Len(a) - 1 : b[i] = a[i + 1],
         status = "CONNECTED" => (was = "CONNECTED" /\ ~Resets(a[1])) \/ a[1][1] = "ACTIVATED"
  PROVE  InOrder(b, status)
<1>1. Len(a) \in Nat \ {0} /\ DOMAIN a = 1 .. Len(a) /\ DOMAIN b = 1 .. Len(a) - 1
  OBVIOUS
<1>2. ASSUME NEW i \in DOMAIN b PROVE i \in Int /\ i >= 1 /\ i + 1 \in DOMAIN a /\ a[i + 1] = b[i]
  BY <1>1
<1>3. ASSUME NEW k \in DOMAIN a, k > 1 PROVE k \in Int /\ k - 1 \in DOMAIN b /\ b[k - 1] = a[k]
  <2>1. k \in 2 .. Len(a)
    BY <1>1, <1>3
  <2>2. k - 1 \in 1 .. Len(a) - 1 /\ (k - 1) + 1 = k
    BY <1>1, <2>1
  <2> QED
    BY <1>1, <2>1, <2>2
<1>4. ASSUME NEW i \in DOMAIN b, NEW j \in DOMAIN b, i < j, b[i][1] = "ACTIVATED", b[j][1] \in {"PREPARE", "CONFIG"}
      PROVE  \E k \in DOMAIN b : i < k /\ k < j /\ Resets(b[k])
  <2>1. PICK k \in DOMAIN a : i + 1 < k /\ k < j + 1 /\ Resets(a[k])
    <3>1. i + 1 \in DOMAIN a /\ j + 1 \in DOMAIN a /\ a[i + 1] = b[i] /\ a[j + 1] = b[j] /\ i + 1 < j + 1
      BY <1>2, <1>4
    <3> QED
      BY <1>4, <3>1 DEF InOrder
  <2>2. k > 1 /\ i < k - 1 /\ k - 1 < j
    BY <1>1, <1>2, <2>1
  <2>3. k - 1 \in DOMAIN b /\ b[k - 1] = a[k]
    BY <1>3, <2>2
  <2> QED
    BY <2>1, <2>2, <2>3
<1>5. ASSUME NEW j \in DOMAIN b, status = "CONNECTED", b[j][1] \in {"PREPARE", "CONFIG"}
      PROVE  \E k \in DOMAIN b : k < j /\ Resets(b[k])
  <2>1. j + 1 \in DOMAIN a /\ a[j + 1] = b[j] /\ 1 \in DOMAIN a /\ 1 < j + 1 /\ j \in Int
    BY <1>1, <1>2
  <2>2. PICK k \in DOMAIN a : 1 < k /\ k < j + 1 /\ Resets(a[k])
    <3>1. CASE was = "CONNECTED" /\ ~Resets(a[1])
      <4>1. PICK k \in DOMAIN a : k < j + 1 /\ Resets(a[k])
        BY <1>5, <2>1, <3>1 DEF InOrder
      <4>2. k # 1
        BY <3>1, <4>1
      <4> QED
        BY <1>1, <4>1, <4>2
    <3>2. CASE a[1][1] = "ACTIVATED"
      BY <1>5, <2>1, <3>2 DEF InOrder
    <3> QED
      BY <1>5, <3>1, <3>2
  <2>3. k - 1 \in DOMAIN b /\ b[k - 1] = a[k] /\ k \in Int
    BY <1>3, <2>2
  <2>4. k - 1 < j
    BY <2>1, <2>2, <2>3
  <2> QED
    BY <2>2, <2>3, <2>4
<1> QED
  BY <1>4, <1>5 DEF InOrder
-----------------------------------------------------------------------------
(* NetworkManager keeps the invariant.                                     *)
LEMMA LastAhead ==
  Queued /\ Ahead # <<>> => /\ Len(Ahead) \in DOMAIN Ahead /\ Ahead[Len(Ahead)] \in Reports
                            /\ DOMAIN Ahead = 1 .. Len(Ahead) /\ Len(Ahead) \in Nat \ {0}
<1> SUFFICES ASSUME Queued, Ahead # <<>>
             PROVE  /\ Len(Ahead) \in DOMAIN Ahead /\ Ahead[Len(Ahead)] \in Reports
                    /\ DOMAIN Ahead = 1 .. Len(Ahead) /\ Len(Ahead) \in Nat \ {0}
  OBVIOUS
<1> DEFINE a == Ahead
<1>1. a \in Seq(Reports) /\ a # <<>>
  BY AheadTypes
<1> HIDE DEF a
<1>2. Len(a) \in Nat /\ Len(a) # 0 /\ DOMAIN a = 1 .. Len(a)
  BY <1>1, EmptySeq
<1>3. Len(a) \in DOMAIN a /\ a[Len(a)] \in Reports
  BY <1>1, <1>2
<1> QED
  BY <1>2, <1>3 DEF a

(* While nothing is forced, a device that is off has sent a report that    *)
(* resets.                                                                 *)
LEMMA LastResets ==
  Queued /\ Told /\ Unforced /\ dev = "DISCONNECTED" /\ Ahead # <<>> => Resets(Ahead[Len(Ahead)])
BY LastAhead DEF Told, Unforced, Resets

(* While the user has not changed anything.                                *)
LEMMA UntouchedDown ==
  ASSUME Queued, Queued', UntouchedInv, dev' = "DISCONNECTED", NEW s, Downfall(s), Ahead' = Ahead \o s,
         UNCHANGED <<saved, volatile, Leaving, Coming, connections, mon, wifi, epochs>>
  PROVE  UntouchedInv'
<1> DEFINE a == Ahead
           b == Ahead'
           n == Len(s)
<1>1. a \in Seq(Reports) /\ s \in Seq(Reports)
  BY AheadTypes DEF Downfall
<1>2. b = a \o s
  OBVIOUS
<1> HIDE DEF a, b
<1>3. /\ Len(a) \in Nat /\ n \in Nat /\ Len(b) = Len(a) + n /\ b \in Seq(Reports)
      /\ \A i \in 1 .. Len(a) : b[i] = a[i]
      /\ \A i \in 1 .. n : b[Len(a) + i] = s[i]
      /\ \A i \in 1 .. Len(a) + n : i \in 1 .. Len(a) \/ (i - Len(a) \in 1 .. n /\ i = Len(a) + (i - Len(a)))
  BY <1>1, <1>2, Joined
<1>4. DOMAIN a = 1 .. Len(a) /\ DOMAIN b = 1 .. Len(a) + n /\ DOMAIN s = 1 .. n
  BY <1>1, <1>3
<1>5. n # 0 /\ n \in 1 .. n
  BY <1>1, <1>3, EmptySeq DEF Downfall
<1>6. Plain'
  BY DEF UntouchedInv, Plain
<1>7. Unforced'
  <2>1. ASSUME NEW i \in DOMAIN b PROVE b[i][3] \notin {"NEW_ACTIVATION", "CONNECTION_REMOVED"}
    <3>1. CASE i \in 1 .. Len(a)
      BY <1>3, <1>4, <3>1 DEF UntouchedInv, Unforced, a
    <3>2. CASE i - Len(a) \in 1 .. n /\ i = Len(a) + (i - Len(a))
      BY <1>3, <1>4, <3>2 DEF Downfall
    <3> QED
      BY <1>3, <1>4, <3>1, <3>2
  <2> QED
    BY <2>1 DEF Unforced, b
<1>8. b[Len(a) + n] = s[n] /\ Len(a) + n \in DOMAIN b /\ Resets(s[n])
  <2>1. b[Len(a) + n] = s[n]
    BY <1>3, <1>5
  <2>2. Len(a) + n \in DOMAIN b
    BY <1>3, <1>4, <1>5
  <2> QED
    BY <2>1, <2>2 DEF Downfall
<1>9. Foreseen' /\ Shown'
  <2>1. Foreseen'
    BY <1>8 DEF Foreseen, b
  <2>2. Shown'
    BY DEF Shown
  <2> QED
    BY <2>1, <2>2
<1>10. Watchful'
  BY DEF UntouchedInv, Watchful
<1>11. Ordered'
  <2>1. \A i \in 1 .. n : s[i][1] \notin {"PREPARE", "CONFIG"}
    BY <1>4 DEF Downfall
  <2>2. Picture' = Picture /\ InOrder(a, Picture.status)
    BY DEF Picture, UntouchedInv, Ordered, a
  <2>3. InOrder(b, Picture.status)
    BY <1>1, <1>2, <2>1, <2>2, InOrderJoined
  <2> QED
    BY <2>2, <2>3 DEF Ordered, b
<1> QED
  BY <1>6, <1>7, <1>9, <1>10, <1>11 DEF UntouchedInv

(* ... it begins a network, or comes further with it.                      *)
LEMMA UntouchedUp ==
  ASSUME DeviceTypes, Queued, Queued', Told, UntouchedInv, NEW r \in Reports, Ahead' = Ahead \o <<r>>,
         r[3] = "NONE", dev' # "DISCONNECTED",
         dev = "DISCONNECTED" \/ active' = active,
         r[1] = "ACTIVATED" \/ dev \in {"DISCONNECTED", "PREPARE"},
         r[1] # "DISCONNECTED",
         UNCHANGED <<saved, volatile, Leaving, Coming, connections, mon, wifi, epochs>>
  PROVE  UntouchedInv'
<1> DEFINE a == Ahead
           b == Ahead'
           s == <<r>>
<1>1. a \in Seq(Reports) /\ s \in Seq(Reports) /\ Len(s) = 1 /\ s[1] = r
  BY AheadTypes DEF Reports
<1>2. b = a \o s
  OBVIOUS
<1> HIDE DEF a, b, s
<1>3. /\ Len(a) \in Nat /\ Len(b) = Len(a) + 1 /\ b \in Seq(Reports)
      /\ \A i \in 1 .. Len(a) : b[i] = a[i]
      /\ b[Len(a) + 1] = r
      /\ \A i \in 1 .. Len(a) + 1 : i \in 1 .. Len(a) \/ i = Len(a) + 1
  <2>1. /\ Len(a) \in Nat /\ Len(b) = Len(a) + Len(s) /\ b \in Seq(Reports)
        /\ \A i \in 1 .. Len(a) : b[i] = a[i]
        /\ \A i \in 1 .. Len(s) : b[Len(a) + i] = s[i]
    BY <1>1, <1>2, Joined
  <2> QED
    BY <1>1, <2>1
<1>4. DOMAIN a = 1 .. Len(a) /\ DOMAIN b = 1 .. Len(a) + 1
  BY <1>1, <1>3
<1>5. Plain'
  BY DEF UntouchedInv, Plain
<1>6. Unforced'
  <2>1. ASSUME NEW i \in DOMAIN b PROVE b[i][3] \notin {"NEW_ACTIVATION", "CONNECTION_REMOVED"}
    <3>1. CASE i \in 1 .. Len(a)
      BY <1>3, <1>4, <3>1 DEF UntouchedInv, Unforced, a
    <3>2. CASE i = Len(a) + 1
      BY <1>3, <3>2
    <3> QED
      BY <1>3, <1>4, <3>1, <3>2
  <2> QED
    BY <2>1 DEF Unforced, b
<1>7. Picture' = Picture
  BY DEF Picture
<1>8. Foreseen'
  <2> SUFFICES ASSUME \A i \in DOMAIN b : ~Resets(b[i])
               PROVE  Picture.ssid \in {NoSsid, active'.ssid}
    BY <1>7 DEF Foreseen, b
  <2>1. \A i \in DOMAIN a : ~Resets(a[i])
    BY <1>3, <1>4
  <2>2. IF dev = "DISCONNECTED" THEN Picture = Nowhere ELSE Picture.ssid \in {NoSsid, active.ssid}
    BY <2>1 DEF UntouchedInv, Foreseen, a
  <2> QED
    BY <2>2 DEF Nowhere
<1>9. Shown'
  <2>1. b # <<>>
    BY <1>3
  <2> QED
    BY <2>1 DEF Shown, b
<1>10. Watchful'
  BY DEF UntouchedInv, Watchful
<1>11. Ordered'
  <2>1. InOrder(a, Picture.status)
    BY DEF UntouchedInv, Ordered, a
  <2>2. CASE r[1] = "ACTIVATED"
    <3>1. \A i \in 1 .. Len(s) : s[i][1] \notin {"PREPARE", "CONFIG"}
      BY <1>1, <2>2
    <3>2. InOrder(b, Picture.status)
      BY <1>1, <1>2, <2>1, <3>1, InOrderJoined
    <3> QED
      BY <1>7, <3>2 DEF Ordered, b
  <2>3. CASE dev \in {"DISCONNECTED", "PREPARE"}
    <3>1. a = <<>> => Picture.status # "CONNECTED"
      <4>1. CASE dev = "DISCONNECTED"
        <5>1. a = <<>> => \A i \in DOMAIN a : ~Resets(a[i])
          BY <1>3, <1>4
        <5>2. a = <<>> => Picture = Nowhere
          BY <4>1, <5>1 DEF UntouchedInv, Foreseen, a
        <5> QED
          BY <5>2 DEF Nowhere
      <4>2. CASE dev = "PREPARE"
        BY <4>2 DEF UntouchedInv, Shown, a
      <4> QED
        BY <2>3, <4>1, <4>2
    <3>2. a # <<>> => Resets(a[Len(a)]) \/ a[Len(a)][1] \in {"PREPARE", "CONFIG"}
      <4>1. CASE dev = "DISCONNECTED"
        BY <4>1, LastResets DEF UntouchedInv, a
      <4>2. CASE dev = "PREPARE"
        BY <4>2 DEF Told, a
      <4> QED
        BY <2>3, <4>1, <4>2
    <3>3. InOrder(b, Picture.status)
      BY <1>1, <1>2, <2>1, <3>1, <3>2, InOrderNext DEF s
    <3> QED
      BY <1>7, <3>3 DEF Ordered, b
  <2> QED
    BY <2>2, <2>3
<1> QED
  BY <1>5, <1>6, <1>8, <1>9, <1>10, <1>11 DEF UntouchedInv

(* A connection that is given up is told of, so no name is of one that is  *)
(* not.                                                                    *)
LEMMA GhostsKept == NoGhosts /\ Announced /\ UNCHANGED connections => NoGhosts'
<1> SUFFICES ASSUME NoGhosts, Announced, UNCHANGED connections, NEW s \in Ssids, connections'[s] # NoSsid
             PROVE  connections'[s] \in saved' \cup Departed'
  BY DEF NoGhosts
<1>1. connections[s] \in saved \cup Departed
  BY DEF NoGhosts
<1> QED
  BY <1>1 DEF Announced

(* A step of no thread and not of the user leaves what he has done as it   *)
(* is.                                                                     *)
LEMMA ThreadsKept ==
  ASSUME ThreadTypes, UserInv, UNCHANGED <<taps, ui, job>>,
         reread' = (reread \/ \E t \in Callers : job'[t].do = "resync")
  PROVE  reread' = reread /\ ThreadTypes' /\ UserInv' /\ (Untouched' <=> Untouched) /\ (Once' <=> Once)
<1>1. \A t \in Callers : job[t].do = "resync" => reread
  BY DEF UserInv
<1>2. reread' = reread
  BY <1>1, Zenon DEF ThreadTypes
<1>3. ThreadTypes'
  BY <1>2 DEF ThreadTypes
<1>4. UserInv'
  BY <1>2 DEF UserInv
<1>5. Requested' = Requested /\ Busy' = Busy
  BY DEF Requested, Busy
<1> QED
  BY <1>2, <1>3, <1>4, <1>5 DEF Untouched, Once

(* A step that leaves the monitor alone keeps its types.                   *)
LEMMA PictureKept ==
  ASSUME PictureTypes, UNCHANGED <<mon, connections, wifi>> PROVE PictureTypes'
BY DEF PictureTypes

(* NetworkManager begins or ends something by itself.                      *)
LEMMA ItselfKeeps ==
  ASSUME WifiInv, OfItself, reread' = (reread \/ \E t \in Callers : job'[t].do = "resync")
  PROVE  WifiInv'
<1>1. /\ DeviceTypes /\ Queued /\ PictureTypes /\ ThreadTypes /\ Told /\ NoGhosts /\ UserInv
      /\ UNCHANGED <<mon, connections, wifi, epochs, taps, ui, job>>
  BY DEF WifiInv, WifiTypes, OfItself, monitor, user
<1>2. DeviceTypes' /\ Queued' /\ Announced /\ (volatile = {} => UNCHANGED <<saved, volatile, Leaving, Coming>>)
  BY <1>1, Itself
<1>3. ThreadTypes' /\ UserInv' /\ (Untouched' <=> Untouched) /\ (Once' <=> Once)
  BY <1>1, ThreadsKept
<1>4. NoGhosts' /\ PictureTypes'
  BY <1>1, <1>2, GhostsKept, PictureKept
<1>5. SUFFICES Told' /\ Ahead' # <<>> /\ ~Forgotten' /\ (Untouched => UntouchedInv')
  BY <1>2, <1>3, <1>4 DEF WifiInv, WifiTypes, Settled
<1>6. Untouched => UntouchedInv /\ UNCHANGED <<saved, volatile, Leaving, Coming>>
  BY <1>2 DEF WifiInv, UntouchedInv, Plain
<1>7. ASSUME NEW s, Downfall(s), Ahead' = Ahead \o s, dev' = "DISCONNECTED"
      PROVE  Told' /\ Ahead' # <<>> /\ ~Forgotten' /\ (Untouched => UntouchedInv')
  <2>1. s \in Seq(Reports) /\ s # <<>> /\ Resets(s[Len(s)])
    BY <1>7 DEF Downfall
  <2>2. s[Len(s)][1] = dev' /\ s[Len(s)][3] \notin {"NEW_ACTIVATION", "CONNECTION_REMOVED"}
    BY <1>7, <2>1 DEF Resets
  <2>3. Told' /\ Ahead' # <<>> /\ Ahead'[Len(Ahead')] = s[Len(s)]
    BY <1>1, <1>7, <2>1, <2>2, Tells
  <2>4. ~Forgotten'
    BY <2>2, <2>3 DEF Forgotten
  <2>5. Untouched => UntouchedInv'
    BY <1>1, <1>2, <1>6, <1>7, UntouchedDown
  <2> QED
    BY <2>3, <2>4, <2>5
<1>8. ASSUME NEW r \in Reports, Ahead' = Ahead \o <<r>>, r[1] = dev', r[3] = "NONE",
             dev' # "DISCONNECTED", dev = "DISCONNECTED" \/ active' = active,
             r[1] = "ACTIVATED" \/ dev \in {"DISCONNECTED", "PREPARE"}
      PROVE  Told' /\ Ahead' # <<>> /\ ~Forgotten' /\ (Untouched => UntouchedInv')
  <2>1. Told' /\ Ahead' # <<>>
    BY <1>1, <1>8, TellsOne
  <2>2. ~Forgotten'
    BY <1>8 DEF Forgotten
  <2>3. Untouched => UntouchedInv'
    <3> SUFFICES ASSUME Untouched PROVE UntouchedInv'
      OBVIOUS
    <3>1. UntouchedInv /\ UNCHANGED <<saved, volatile, Leaving, Coming>>
      BY <1>6
    <3>2. r[1] # "DISCONNECTED"
      BY <1>8
    <3> QED
      BY <1>1, <1>2, <1>8, <3>1, <3>2, UntouchedUp
  <2> QED
    BY <2>1, <2>2, <2>3
<1>9. /\ <<"PREPARE", "DISCONNECTED", "NONE">> \in Reports /\ <<"CONFIG", "PREPARE", "NONE">> \in Reports
      /\ <<"ACTIVATED", "CONFIG", "NONE">> \in Reports
  BY DEF Reports, States, Reasons
<1> QED
  <2>1. CASE dev' = "DISCONNECTED" /\ \E s : Downfall(s) /\ Ahead' = Ahead \o s
    BY <1>7, <2>1
  <2>2. CASE /\ dev = "DISCONNECTED" /\ dev' = "PREPARE"
             /\ Ahead' = Ahead \o <<<<"PREPARE", "DISCONNECTED", "NONE">>>>
    <3> DEFINE r == <<"PREPARE", "DISCONNECTED", "NONE">>
    <3>1. r \in Reports /\ r[1] = dev' /\ r[3] = "NONE" /\ Ahead' = Ahead \o <<r>> /\ dev' # "DISCONNECTED"
      BY <1>9, <2>2
    <3> HIDE DEF r
    <3> QED
      BY <1>8, <2>2, <3>1
  <2>3. CASE /\ dev = "PREPARE" /\ dev' = "CONFIG" /\ active' = active
             /\ Ahead' = Ahead \o <<<<"CONFIG", "PREPARE", "NONE">>>>
    <3> DEFINE r == <<"CONFIG", "PREPARE", "NONE">>
    <3>1. r \in Reports /\ r[1] = dev' /\ r[3] = "NONE" /\ Ahead' = Ahead \o <<r>> /\ dev' # "DISCONNECTED"
      BY <1>9, <2>3
    <3> HIDE DEF r
    <3> QED
      BY <1>8, <2>3, <3>1
  <2>4. CASE /\ dev = "CONFIG" /\ dev' = "ACTIVATED" /\ active' = active
             /\ Ahead' = Ahead \o <<<<"ACTIVATED", "CONFIG", "NONE">>>>
    <3> DEFINE r == <<"ACTIVATED", "CONFIG", "NONE">>
    <3>1. /\ r \in Reports /\ r[1] = dev' /\ r[3] = "NONE" /\ Ahead' = Ahead \o <<r>> /\ dev' # "DISCONNECTED"
          /\ r[1] = "ACTIVATED"
      BY <1>9, <2>4
    <3> HIDE DEF r
    <3> QED
      BY <1>8, <2>4, <3>1
  <2> QED
    BY <1>1, <2>1, <2>2, <2>3, <2>4, Itself
-----------------------------------------------------------------------------
(* The user keeps the invariant.                                           *)
LEMMA QueuesKept ==
  ASSUME UNCHANGED <<dev, active, saved, volatile, wire, removedQ, newQ, stateQ>>
  PROVE  /\ Ahead' = Ahead /\ Leaving' = Leaving /\ Coming' = Coming /\ Departed' = Departed
         /\ DeviceTypes' = DeviceTypes /\ Queued' = Queued /\ Told' = Told
<1>1. Ahead' = Ahead /\ Leaving' = Leaving /\ Coming' = Coming
  BY DEF Ahead, Leaving, Coming
<1> QED
  BY <1>1 DEF Departed, DeviceTypes, Queued, Told

(* ... nor what is said of the monitor.                                    *)
LEMMA MonitorKept ==
  ASSUME UNCHANGED <<dev, active, saved, volatile, wire, removedQ, newQ, stateQ, mon, connections, wifi, epochs>>
  PROVE  /\ UntouchedInv' = UntouchedInv /\ Settled' = Settled
         /\ Forgotten' = Forgotten /\ ForgottenInv' = ForgottenInv
<1>1. /\ Ahead' = Ahead /\ Leaving' = Leaving /\ Coming' = Coming /\ Departed' = Departed
      /\ Picture' = Picture
  BY QueuesKept DEF Picture
<1>2. UntouchedInv' = UntouchedInv
  BY <1>1 DEF UntouchedInv, Plain, Unforced, Foreseen, Shown, Watchful, Ordered
<1>3. Settled' = Settled
  BY <1>1 DEF Settled
<1>4. Forgotten' = Forgotten /\ ForgottenInv' = ForgottenInv
  BY <1>1 DEF Forgotten, ForgottenInv, Warned, Watchful, Ordered
<1> QED
  BY <1>2, <1>3, <1>4

(* A thread that is given something to do, and the others.                 *)
LEMMA JobTypes ==
  ASSUME ThreadTypes, NEW t \in Callers, NEW j \in Jobs, Goes(t, j),
         j.do \in {"activate", "clear", "add", "forget", "deactivate"} => j.ssid \in Ssids
  PROVE  /\ job' \in [Callers -> Jobs] /\ job'[t] = j
         /\ \A u \in Callers : u # t => job'[u] = job[u]
         /\ \A u \in Callers : job'[u].do \in {"activate", "clear", "add", "forget", "deactivate"}
                               => job'[u].ssid \in Ssids
<1>1. job \in [Callers -> Jobs] /\ job' = [job EXCEPT ![t] = j]
  BY DEF ThreadTypes, Goes
<1>2. job' \in [Callers -> Jobs] /\ job'[t] = j /\ \A u \in Callers : u # t => job'[u] = job[u]
  BY <1>1
<1> QED
  BY <1>2 DEF ThreadTypes

(* The things there are to do.                                             *)
LEMMA DoTypes ==
  /\ \A what \in Tasks, s \in Ssids \cup {NoSsid} : Do(what, s) \in Jobs
  /\ \A what, s : Do(what, s).do = what /\ Do(what, s).ssid = s
  /\ Idle \in Jobs /\ Idle.do = "idle" /\ Nowhere \in Pictures
BY DEF Do, Idle, Nowhere, Jobs, Tasks, Pictures

(* The user does something.                                                *)
LEMMA UserKeeps ==
  ASSUME WifiInv, UserStep, reread' = (reread \/ \E t \in Callers : job'[t].do = "resync")
  PROVE  WifiInv'
<1>1. /\ DeviceTypes /\ Queued /\ PictureTypes /\ ThreadTypes /\ Told /\ NoGhosts /\ UserInv
      /\ UNCHANGED <<dev, active, saved, volatile, wire, removedQ, newQ, stateQ, mon, connections>>
  BY DEF WifiInv, WifiTypes, UserStep, Tap, Choose, Ask, SetActive, manager, monitor, user
<1>2. Settings \in Callers /\ Workers \subseteq Callers /\ taps \in Nat
  BY <1>1 DEF Callers, ThreadTypes
<1>3. DeviceTypes' /\ Queued' /\ Told' /\ NoGhosts'
  BY <1>1, QueuesKept DEF NoGhosts
<1>4. reread' \in BOOLEAN /\ (reread => reread')
  BY <1>1, Zenon DEF ThreadTypes
<1>5. CASE \E s \in Ssids, do \in {"activate", "connect"} : Tap(do, s)
  <2>1. PICK s \in Ssids, do \in {"activate", "connect"} : Tap(do, s)
    BY <1>5
  <2>2. /\ taps' = taps + 1 /\ ui' = Do(do, s) /\ UNCHANGED <<wifi, job>>
    BY <2>1 DEF Tap
  <2>3. ui' \in Jobs /\ ui'.ssid = s /\ ui' # Idle
    BY <2>2, DoTypes DEF Tasks
  <2>4. PictureTypes' /\ ThreadTypes'
    BY <1>1, <1>2, <1>4, <2>2, <2>3 DEF PictureTypes, ThreadTypes
  <2>5. UserInv'
    <3>1. taps' # 0 /\ (taps' = 1 => taps = 0)
      BY <1>2, <2>2
    <3>2. taps = 0 => \A t \in Callers : job[t].do = "idle"
      BY <1>1 DEF UserInv
    <3>3. \A t \in Callers : job[t].do \in {"resync", "find", "store"} => reread'
      BY <1>1, <1>4 DEF UserInv
    <3> QED
      BY <2>2, <3>1, <3>2, <3>3 DEF UserInv
  <2>6. ~Untouched' /\ ~Once'
    <3>1. taps' # 0 /\ (taps' = 1 => taps = 0)
      BY <1>2, <2>2
    <3>2. taps = 0 => ~Requested'
      BY <1>1, <2>2 DEF UserInv, Requested
    <3> QED
      BY <2>3, <3>1, <3>2 DEF Untouched, Once, Busy
  <2> QED
    BY <1>3, <2>4, <2>5, <2>6 DEF WifiInv, WifiTypes
<1>6. CASE \E t \in Workers : Choose(t)
  <2>1. PICK t \in Workers : Choose(t)
    BY <1>6
  <2> DEFINE j == Do(IF ui.do = "connect" THEN "clear" ELSE "activate", ui.ssid)
  <2>2. /\ t \in Callers /\ ui # Idle /\ wifi' = Connecting(ui.ssid) /\ ui' = Idle /\ Goes(t, j)
        /\ taps' = taps
    BY <1>2, <2>1 DEF Choose
  <2>3. ui.ssid \in Ssids
    BY <1>1, <2>2 DEF ThreadTypes
  <2>4. j \in Jobs /\ j.do \in {"clear", "activate"} /\ j.ssid \in Ssids
    BY <2>3, DoTypes DEF Tasks
  <2> HIDE DEF j
  <2>5. /\ job' \in [Callers -> Jobs] /\ job'[t] = j
        /\ \A u \in Callers : u # t => job'[u] = job[u]
        /\ \A u \in Callers : job'[u].do \in {"activate", "clear", "add", "forget", "deactivate"}
                               => job'[u].ssid \in Ssids
    BY <1>1, <2>2, <2>4, JobTypes
  <2>6. PictureTypes'
    <3>1. wifi' \in Pictures
      BY <2>2, <2>3 DEF Pictures, Connecting
    <3> QED
      BY <1>1, <3>1 DEF PictureTypes
  <2>7. ThreadTypes'
    BY <1>1, <1>4, <2>2, <2>5, DoTypes DEF ThreadTypes
  <2>8. taps # 0 /\ (taps = 1 => \A u \in Callers : job'[u].do \notin {"forget", "deactivate"})
    <3>1. taps # 0
      BY <1>1, <2>2 DEF UserInv
    <3>2. taps = 1 => \A u \in Callers : job[u].do \notin {"forget", "deactivate"}
      BY <1>1, <2>2 DEF UserInv
    <3> QED
      BY <2>4, <2>5, <3>1, <3>2
  <2>9. UserInv'
    <3>1. \A u \in Callers : job'[u].do \in {"resync", "find", "store"} => reread'
      BY <1>1, <1>4, <2>4, <2>5 DEF UserInv
    <3> QED
      BY <2>2, <2>8, <3>1 DEF UserInv
  <2>10. ~Untouched' /\ ~Once'
    BY <2>2, <2>4, <2>5, <2>8 DEF Untouched, Requested, Once, Busy
  <2> QED
    BY <1>3, <2>6, <2>7, <2>9, <2>10 DEF WifiInv, WifiTypes
<1>7. CASE \E s \in Ssids, do \in {"forget", "deactivate"}, t \in Workers : Ask(do, s, t)
  <2>1. PICK s \in Ssids, do \in {"forget", "deactivate"}, t \in Workers : Ask(do, s, t)
    BY <1>7
  <2> DEFINE j == Do(do, s)
  <2>2. /\ t \in Callers /\ taps' = taps + 1 /\ Goes(t, j) /\ UNCHANGED <<wifi, epochs, ui>>
    BY <1>2, <2>1 DEF Ask
  <2>3. j \in Jobs /\ j.do \in {"forget", "deactivate"} /\ j.ssid \in Ssids
    BY DoTypes DEF Tasks
  <2> HIDE DEF j
  <2>4. /\ job' \in [Callers -> Jobs] /\ job'[t] = j
        /\ \A u \in Callers : u # t => job'[u] = job[u]
        /\ \A u \in Callers : job'[u].do \in {"activate", "clear", "add", "forget", "deactivate"}
                               => job'[u].ssid \in Ssids
    BY <1>1, <2>2, <2>3, JobTypes
  <2>5. PictureTypes'
    BY <1>1, <2>2 DEF PictureTypes
  <2>6. ThreadTypes'
    BY <1>1, <1>2, <1>4, <2>2, <2>4 DEF ThreadTypes
  <2>7. taps' # 0 /\ (taps' = 1 => taps = 0)
    BY <1>2, <2>2
  <2>8. taps = 0 => ui = Idle /\ ~reread /\ \A u \in Callers : job[u].do = "idle"
    BY <1>1 DEF UserInv
  <2>9. UserInv'
    <3>1. \A u \in Callers : job'[u].do \in {"resync", "find", "store"} => reread'
      BY <1>1, <1>4, <2>3, <2>4 DEF UserInv
    <3>2. taps = 0 => ui' = Idle /\ \A u \in Callers \ {t} : job'[u].do = "idle"
      BY <2>2, <2>4, <2>8
    <3>3. taps = 0 => \A v \in Callers : job'[v].do \in {"forget", "deactivate"}
                         => ui' = Idle /\ \A u \in Callers \ {v} : job'[u].do = "idle"
      BY <3>2
    <3> QED
      BY <2>7, <3>1, <3>3 DEF UserInv
  <2>10. /\ Untouched' => Untouched
         /\ Once' => Once
    <3>1. Untouched' => taps = 0
      BY <2>7 DEF Untouched
    <3>2. Once' => taps = 0
      BY <1>2, <2>2 DEF Once
    <3>3. taps = 0 => Untouched /\ Once
      BY <2>8 DEF Untouched, Once, Busy
    <3> QED
      BY <3>1, <3>2, <3>3
  <2>11. /\ UntouchedInv' = UntouchedInv /\ Settled' = Settled
         /\ Forgotten' = Forgotten /\ ForgottenInv' = ForgottenInv
    BY <1>1, <2>2, MonitorKept
  <2> QED
    BY <1>3, <2>5, <2>6, <2>9, <2>10, <2>11 DEF WifiInv, WifiTypes
<1>8. CASE SetActive
  <2> DEFINE j == Do("resync", NoSsid)
  <2>1. taps' = taps + 1 /\ Goes(Settings, j) /\ UNCHANGED <<wifi, ui>>
    BY <1>8 DEF SetActive
  <2>2. j \in Jobs /\ j.do = "resync"
    BY DoTypes DEF Tasks
  <2> HIDE DEF j
  <2>3. /\ job' \in [Callers -> Jobs] /\ job'[Settings] = j
        /\ \A u \in Callers : u # Settings => job'[u] = job[u]
        /\ \A u \in Callers : job'[u].do \in {"activate", "clear", "add", "forget", "deactivate"}
                               => job'[u].ssid \in Ssids
    BY <1>1, <1>2, <2>1, <2>2, JobTypes
  <2>4. PictureTypes'
    BY <1>1, <2>1 DEF PictureTypes
  <2>5. ThreadTypes'
    BY <1>1, <1>2, <1>4, <2>1, <2>3 DEF ThreadTypes
  <2>6. reread'
    BY <1>2, <2>2, <2>3
  <2>7. taps' # 0 /\ (taps' = 1 => \A u \in Callers : job'[u].do \notin {"forget", "deactivate"})
    <3>1. taps' # 0 /\ (taps' = 1 => taps = 0)
      BY <1>2, <2>1
    <3>2. taps = 0 => \A u \in Callers : job[u].do = "idle"
      BY <1>1 DEF UserInv
    <3>3. taps = 0 => \A u \in Callers : job'[u].do \in {"idle", "resync"}
      BY <2>2, <2>3, <3>2
    <3> QED
      BY <3>1, <3>3
  <2>8. UserInv'
    BY <2>6, <2>7 DEF UserInv
  <2>9. ~Untouched' /\ ~Once'
    BY <2>6, <2>7 DEF Untouched, Requested, Once
  <2> QED
    BY <1>3, <2>4, <2>5, <2>8, <2>9 DEF WifiInv, WifiTypes
<1> QED
  BY <1>5, <1>6, <1>7, <1>8 DEF UserStep
-----------------------------------------------------------------------------
(* The threads keep the invariant.                                         *)
LEMMA ThreadGoes ==
  ASSUME ThreadTypes, UserInv, NEW t \in Callers, NEW j \in Jobs, Goes(t, j), UNCHANGED <<ui, taps>>,
         job[t].do # "idle", j.do \notin {"forget", "deactivate"},
         j.do \in {"activate", "clear", "add"} => j.ssid \in Ssids,
         j.do \in {"find", "store"} => reread,
         reread' = (reread \/ \E u \in Callers : job'[u].do = "resync")
  PROVE  /\ ThreadTypes' /\ UserInv' /\ ~Untouched' /\ (reread => reread')
         /\ job'[t] = j /\ \A u \in Callers : u # t => job'[u] = job[u]
         /\ job[t].do \in {"forget", "deactivate"} /\ Once' => Untouched /\ Once
<1>1. /\ job' \in [Callers -> Jobs] /\ job'[t] = j
      /\ \A u \in Callers : u # t => job'[u] = job[u]
      /\ \A u \in Callers : job'[u].do \in {"activate", "clear", "add", "forget", "deactivate"}
                            => job'[u].ssid \in Ssids
  BY JobTypes
<1>2. reread' \in BOOLEAN /\ (reread => reread')
  BY Zenon DEF ThreadTypes
<1>3. ThreadTypes'
  BY <1>1, <1>2 DEF ThreadTypes
<1>4. taps # 0
  BY DEF UserInv
<1>5. taps = 1 => \A u \in Callers : job'[u].do \notin {"forget", "deactivate"}
  BY <1>1 DEF UserInv
<1>6. \A u \in Callers : job'[u].do \in {"resync", "find", "store"} => reread'
  <2>1. j.do = "resync" => reread'
    BY <1>1
  <2> QED
    BY <1>1, <1>2, <2>1 DEF UserInv
<1>7. UserInv'
  BY <1>4, <1>5, <1>6 DEF UserInv
<1>8. ~Untouched'
  BY <1>4, <1>5 DEF Untouched, Requested
<1>9. ASSUME job[t].do \in {"forget", "deactivate"}, Once' PROVE Untouched /\ Once
  <2>1. taps = 1
    BY <1>4, <1>9 DEF Once, ThreadTypes
  <2>2. Untouched
    BY <1>9, <2>1 DEF Untouched, Requested
  <2>3. ui = Idle /\ \A u \in Callers \ {t} : job[u].do = "idle"
    BY <1>9, <2>1 DEF UserInv
  <2>4. ~Busy
    BY <1>9, <2>3 DEF Busy
  <2>5. ~reread
    BY <1>2, <1>9 DEF Once
  <2> QED
    BY <2>1, <2>2, <2>4, <2>5 DEF Once
<1> QED
  BY <1>1, <1>2, <1>3, <1>7, <1>8, <1>9

(* A network that the device was on is forgotten: what NetworkManager says *)
(* of it makes the picture good.                                           *)
LEMMA Forgets ==
  ASSUME DeviceTypes, Queued, PictureTypes, UntouchedInv, active \in saved, Delete(active),
         UNCHANGED <<removedQ, newQ, stateQ, mon, connections, wifi, epochs>>
  PROVE  ForgottenInv'
<1> DEFINE a == Ahead
           b == Ahead'
           l == State("DEACTIVATING", dev, "CONNECTION_REMOVED")
           d == State("DISCONNECTED", "DEACTIVATING", "CONNECTION_REMOVED")
<1>1. /\ dev # "DISCONNECTED" /\ Coming' = Coming /\ Queued'
      /\ wire' = wire \o <<Removed(active), l, d>>
      /\ \E s \in Seq(Reports) : /\ b = a \o s /\ Len(s) = 2
                                 /\ s[1] = <<"DEACTIVATING", dev, "CONNECTION_REMOVED">>
                                 /\ s[2] = <<"DISCONNECTED", "DEACTIVATING", "CONNECTION_REMOVED">>
  BY Deletes
<1>2. a \in Seq(Reports)
  BY AheadTypes
<1> HIDE DEF a, b
<1>3. PICK s \in Seq(Reports) : /\ b = a \o s /\ Len(s) = 2
                                /\ s[1] = <<"DEACTIVATING", dev, "CONNECTION_REMOVED">>
                                /\ s[2] = <<"DISCONNECTED", "DEACTIVATING", "CONNECTION_REMOVED">>
  BY <1>1
<1>4. Picture' = Picture
  BY DEF Picture
<1>5. Coming' = <<>> /\ Watchful'
  BY <1>1 DEF UntouchedInv, Plain, Watchful
<1>6. Ordered'
  <2>1. \A i \in 1 .. Len(s) : s[i][1] \notin {"PREPARE", "CONFIG"}
    BY <1>3, \A i \in 1 .. 2 : i = 1 \/ i = 2
  <2>2. InOrder(a, Picture.status)
    BY DEF UntouchedInv, Ordered, a
  <2>3. InOrder(b, Picture.status)
    BY <1>2, <1>3, <2>1, <2>2, InOrderJoined
  <2> QED
    BY <1>4, <2>3 DEF Ordered, b
<1>7. CASE \E i \in DOMAIN a : Resets(a[i])
  <2>1. PICK i \in DOMAIN a : Resets(a[i])
    BY <1>7
  <2>2. /\ Len(a) \in Nat /\ Len(s) \in Nat /\ Len(b) = Len(a) + Len(s) /\ b \in Seq(Reports)
        /\ \A h \in 1 .. Len(a) : b[h] = a[h]
    BY <1>2, <1>3, Joined
  <2>3. i \in DOMAIN b /\ b[i] = a[i]
    BY <1>2, <2>1, <2>2
  <2> QED
    BY <1>5, <1>6, <2>1, <2>3 DEF ForgottenInv, b
<1>8. CASE ~ \E i \in DOMAIN a : Resets(a[i])
  <2>1. Picture.ssid \in {NoSsid, active.ssid}
    BY <1>1, <1>8 DEF UntouchedInv, Foreseen, a
  <2>2. CASE Picture.ssid = NoSsid
    BY <1>4, <1>5, <1>6, <2>2 DEF ForgottenInv
  <2>3. CASE Picture.ssid = active.ssid
    <3>1. connections'[Picture'.ssid] = active
      BY <1>4, <2>3 DEF UntouchedInv, Plain
    <3> DEFINE m == Removed(active)
               n == Len(wire)
               sig == <<m, l, d>>
    <3>2. active \in Paths /\ dev \in States
      BY DEF DeviceTypes, States
    <3>3. m \in Messages
      BY <3>2, PathMessage
    <3>4. l \in Messages /\ l.kind = "state" /\ Leaves(l.body)
      <4>1. "DEACTIVATING" \in States /\ dev \in States /\ "CONNECTION_REMOVED" \in Reasons
        BY <3>2 DEF States, Reasons
      <4>2. l \in Messages /\ l.kind = "state" /\ l.body = <<"DEACTIVATING", dev, "CONNECTION_REMOVED">>
        BY <4>1, StateMessage
      <4> QED
        BY <4>2 DEF Leaves
    <3>5. d \in Messages /\ d.kind = "state"
      BY StateMessage DEF States, Reasons
    <3> HIDE DEF m, l, d
    <3>6. sig \in Seq(Messages)
      BY <3>3, <3>4, <3>5, OfKindThree
    <3>7. Len(sig) = 3 /\ sig[1] = m /\ sig[2] = l /\ sig[3] = d
      OBVIOUS
    <3>8. wire' = wire \o sig /\ wire \in Seq(Messages)
      BY <1>1 DEF Queued, m
    <3> HIDE DEF sig, n
    <3>9. /\ n \in Nat /\ wire' \in Seq(Messages) /\ Len(wire') = n + 3
          /\ \A i \in 1 .. n + 3 : wire'[i] = IF i <= n THEN wire[i] ELSE sig[i - n]
      <4>1. /\ wire \o sig \in Seq(Messages) /\ Len(wire \o sig) = Len(wire) + Len(sig)
            /\ \A i \in 1 .. Len(wire) + Len(sig) :
                 (wire \o sig)[i] = IF i <= Len(wire) THEN wire[i] ELSE sig[i - Len(wire)]
        BY <3>6, <3>8, ConcatProperties
      <4>2. Len(wire) \in Nat
        BY <3>8
      <4> QED
        BY <3>7, <3>8, <4>1, <4>2 DEF n
    <3>10. /\ n + 1 \in 1 .. n + 3 /\ ~ (n + 1 <= n) /\ (n + 1) - n = 1
           /\ n + 2 \in 1 .. n + 3 /\ ~ (n + 2 <= n) /\ (n + 2) - n = 2
           /\ n + 3 \in 1 .. n + 3 /\ ~ (n + 3 <= n) /\ (n + 3) - n = 3
           /\ n + 1 < n + 2 /\ n + 2 < n + 3
      BY <3>9
    <3>11. wire'[n + 1] = m /\ wire'[n + 2] = l /\ wire'[n + 3] = d
      BY <3>7, <3>9, <3>10
    <3>12. DOMAIN wire' = 1 .. n + 3
      BY <3>9
    <3>13. /\ n + 1 \in DOMAIN wire' /\ n + 2 \in DOMAIN wire' /\ n + 3 \in DOMAIN wire'
           /\ n + 1 < n + 2 /\ n + 2 < n + 3 /\ wire'[n + 1] = Removed(connections'[Picture'.ssid])
           /\ wire'[n + 2].kind = "state" /\ Leaves(wire'[n + 2].body) /\ wire'[n + 3].kind = "state"
      BY <3>1, <3>4, <3>5, <3>10, <3>11, <3>12 DEF m
    <3>14. \E i, j, k \in DOMAIN wire' :
             /\ i < j /\ j < k /\ wire'[i] = Removed(connections'[Picture'.ssid])
             /\ wire'[j].kind = "state" /\ Leaves(wire'[j].body) /\ wire'[k].kind = "state"
      BY <3>13
    <3> QED
      BY <1>5, <1>6, <3>14 DEF ForgottenInv, Warned
  <2> QED
    BY <2>1, <2>2, <2>3
<1> QED
  BY <1>7, <1>8

(* The name of the active connection.                                      *)
LEMMA NameTypes ==
  DeviceTypes /\ PictureTypes => NameOf(active) \in Ssids \cup {NoSsid}
BY DEF DeviceTypes, PictureTypes, NameOf, Paths

(* A request is carried out. *)
LEMMA ForgetKeeps ==
  ASSUME WifiInv, NEW t \in Callers, ForgetConnection(t),
         reread' = (reread \/ \E u \in Callers : job'[u].do = "resync")
  PROVE  WifiInv'
<1> DEFINE p == connections[job[t].ssid]
           j == IF job[t].do = "clear" THEN Do("add", job[t].ssid) ELSE Idle
<1>1. /\ DeviceTypes /\ Queued /\ PictureTypes /\ ThreadTypes /\ Told /\ NoGhosts /\ UserInv
      /\ UNCHANGED <<removedQ, newQ, stateQ, mon, connections, wifi, epochs, ui, taps>>
      /\ job[t].do \in {"forget", "clear"} /\ Goes(t, j)
      /\ IF p \in saved THEN Delete(p) ELSE UNCHANGED <<dev, active, saved, volatile, wire>>
  BY DEF WifiInv, WifiTypes, ForgetConnection, Request, manager, monitor, user
<1>2. job[t].ssid \in Ssids
  BY <1>1 DEF ThreadTypes
<1>3. j \in Jobs /\ j.do = (IF job[t].do = "clear" THEN "add" ELSE "idle") /\ (j.do = "add" => j.ssid \in Ssids)
  BY <1>2, DoTypes DEF Tasks
<1> HIDE DEF j, p
<1>4. /\ ThreadTypes' /\ UserInv' /\ ~Untouched' /\ (reread => reread')
      /\ job'[t] = j
      /\ job[t].do \in {"forget", "deactivate"} /\ Once' => Untouched /\ Once
  <2>1. /\ job[t].do # "idle" /\ j.do \notin {"forget", "deactivate", "find", "store"}
        /\ j.do \in {"activate", "clear", "add"} => j.ssid \in Ssids
    BY <1>1, <1>3
  <2> QED
    BY <1>1, <1>3, <2>1, ThreadGoes
<1>5. Once' => Untouched /\ Once
  <2>1. job[t].do = "clear" => Busy'
    BY <1>3, <1>4 DEF Busy
  <2> QED
    BY <1>1, <1>4, <2>1 DEF Once
<1>6. PictureTypes'
  BY <1>1, PictureKept
<1>7. CASE p \in saved /\ active # p
  <2>1. DeviceTypes' /\ Queued' /\ Announced /\ UNCHANGED <<dev, active, Ahead>>
    BY <1>1, <1>7, Deletes
  <2>2. Told' /\ NoGhosts'
    BY <1>1, <2>1, GhostsKept DEF Told
  <2>3. Once' => Settled' /\ ~Forgotten'
    <3>1. Picture' = Picture
      BY <1>1 DEF Picture
    <3>2. Once' => Settled /\ Unforced
      BY <1>5 DEF WifiInv, UntouchedInv
    <3>3. Settled => Settled'
      BY <1>1, <2>1, <3>1 DEF Settled
    <3>4. Unforced => ~Forgotten'
      BY <1>1, <2>1, LastAhead DEF Unforced, Forgotten
    <3> QED
      BY <3>2, <3>3, <3>4
  <2> QED
    BY <1>4, <1>6, <2>1, <2>2, <2>3 DEF WifiInv, WifiTypes
<1>8. CASE p \in saved /\ active = p
  <2>1. /\ DeviceTypes' /\ Queued' /\ Announced /\ dev' = "DISCONNECTED"
        /\ \E s \in Seq(Reports) :
             /\ Ahead' = Ahead \o s /\ Len(s) = 2
             /\ s[1] = <<"DEACTIVATING", dev, "CONNECTION_REMOVED">>
             /\ s[2] = <<"DISCONNECTED", "DEACTIVATING", "CONNECTION_REMOVED">>
    BY <1>1, <1>8, Deletes
  <2>2. PICK s \in Seq(Reports) :
             /\ Ahead' = Ahead \o s /\ Len(s) = 2
             /\ s[2] = <<"DISCONNECTED", "DEACTIVATING", "CONNECTION_REMOVED">>
    BY <2>1
  <2>3. s # <<>> /\ s[Len(s)][1] = dev' /\ s[Len(s)][3] # "NEW_ACTIVATION"
    <3>1. Len(s) = 2
      BY <2>2
    <3>2. s # <<>>
      BY <3>1
    <3>3. s[2][1] = "DISCONNECTED" /\ s[2][3] = "CONNECTION_REMOVED"
      BY <2>2
    <3>4. s[Len(s)] = s[2] /\ dev' = "DISCONNECTED"
      BY <2>1, <3>1
    <3> QED
      BY <3>2, <3>3, <3>4
  <2>4. Told' /\ Ahead' # <<>>
    BY <1>1, <2>2, <2>3, Tells
  <2>5. NoGhosts'
    BY <1>1, <2>1, GhostsKept
  <2>6. Once' => ForgottenInv'
    <3>1. Once' => UntouchedInv
      BY <1>5 DEF WifiInv
    <3>2. active \in saved /\ Delete(active)
      BY <1>1, <1>8
    <3>3. UntouchedInv => ForgottenInv'
      BY <1>1, <3>2, Forgets
    <3> QED
      BY <3>1, <3>3
  <2> QED
    BY <1>4, <1>6, <2>1, <2>4, <2>5, <2>6 DEF WifiInv, WifiTypes, Settled
<1>9. CASE p \notin saved
  <2>1. UNCHANGED <<dev, active, saved, volatile, wire>>
    BY <1>1, <1>9
  <2>2. /\ Settled' = Settled /\ Forgotten' = Forgotten
        /\ DeviceTypes' /\ Queued' /\ Told' /\ Departed' = Departed
    BY <1>1, <2>1, QueuesKept, MonitorKept
  <2>3. NoGhosts'
    BY <1>1, <2>1, <2>2 DEF NoGhosts
  <2>4. Once' => Settled /\ (Forgotten => ForgottenInv)
    BY <1>5 DEF WifiInv
  <2>5. ForgottenInv' = ForgottenInv
    BY <1>1, <2>1, MonitorKept
  <2> QED
    BY <1>4, <1>6, <2>2, <2>3, <2>4, <2>5 DEF WifiInv, WifiTypes
<1> QED
  BY <1>7, <1>8, <1>9

(* The connection is left for the user.                                    *)
LEMMA DeactivateKeeps ==
  ASSUME WifiInv, NEW t \in Callers, DeactivateConnection(t),
         reread' = (reread \/ \E u \in Callers : job'[u].do = "resync")
  PROVE  WifiInv'
<1>1. /\ DeviceTypes /\ Queued /\ PictureTypes /\ ThreadTypes /\ Told /\ NoGhosts /\ UserInv
      /\ UNCHANGED <<removedQ, newQ, stateQ, mon, connections, wifi, epochs, ui, taps>>
      /\ job[t].do = "deactivate" /\ Goes(t, Idle)
      /\ GoDown(Wish) \/ UNCHANGED <<dev, active, saved, volatile, wire>>
  BY DEF WifiInv, WifiTypes, DeactivateConnection, Request, manager, monitor, user, Wish
<1>2. ThreadTypes' /\ UserInv' /\ ~Untouched' /\ (Once' => Untouched /\ Once)
  BY <1>1, DoTypes, ThreadGoes
<1>3. PictureTypes'
  BY <1>1, PictureKept
<1>4. CASE GoDown(Wish)
  <2>1. /\ DeviceTypes' /\ Queued' /\ Announced /\ dev' = "DISCONNECTED"
        /\ \E s : Downfall(s) /\ Ahead' = Ahead \o s
    BY <1>1, <1>4, GoesDown
  <2>2. PICK s : Downfall(s) /\ Ahead' = Ahead \o s
    BY <2>1
  <2>3. s \in Seq(Reports) /\ s # <<>> /\ Resets(s[Len(s)])
    BY <2>2 DEF Downfall
  <2>4. s[Len(s)][1] = dev' /\ s[Len(s)][3] \notin {"NEW_ACTIVATION", "CONNECTION_REMOVED"}
    BY <2>1, <2>3 DEF Resets
  <2>5. Told' /\ Ahead' # <<>> /\ Ahead'[Len(Ahead')] = s[Len(s)]
    BY <1>1, <2>2, <2>3, <2>4, Tells
  <2>6. ~Forgotten'
    BY <2>4, <2>5 DEF Forgotten
  <2>7. NoGhosts'
    BY <1>1, <2>1, GhostsKept
  <2> QED
    BY <1>2, <1>3, <2>1, <2>5, <2>6, <2>7 DEF WifiInv, WifiTypes, Settled
<1>5. CASE UNCHANGED <<dev, active, saved, volatile, wire>>
  <2>1. /\ Settled' = Settled /\ Forgotten' = Forgotten
        /\ DeviceTypes' /\ Queued' /\ Told' /\ Departed' = Departed
    BY <1>1, <1>5, QueuesKept, MonitorKept
  <2>2. NoGhosts'
    BY <1>1, <1>5, <2>1 DEF NoGhosts
  <2>3. Once' => Settled /\ (Forgotten => ForgottenInv)
    BY <1>2 DEF WifiInv
  <2>4. ForgottenInv' = ForgottenInv
    BY <1>1, <1>5, MonitorKept
  <2> QED
    BY <1>2, <1>3, <2>1, <2>2, <2>3, <2>4 DEF WifiInv, WifiTypes
<1> QED
  BY <1>1, <1>4, <1>5

(* A choice is carried out. *)
LEMMA SwitchKeeps ==
  ASSUME WifiInv, NEW t \in Callers, AddAndActivate(t) \/ ActivateConnection(t),
         reread' = (reread \/ \E u \in Callers : job'[u].do = "resync")
  PROVE  WifiInv'
<1>1. /\ DeviceTypes /\ Queued /\ PictureTypes /\ ThreadTypes /\ Told /\ NoGhosts /\ UserInv
      /\ UNCHANGED <<removedQ, newQ, stateQ, mon, connections, wifi, epochs, ui, taps>>
      /\ job[t].do \in {"add", "activate"} /\ Goes(t, Idle)
  BY DEF WifiInv, WifiTypes, AddAndActivate, ActivateConnection, Request, monitor, user
<1>2. \E p \in Paths : \E first \in {<<>>, <<New(p)>>} : Switch(p, first)
  <2>1. CASE AddAndActivate(t)
    BY <2>1 DEF AddAndActivate
  <2>2. CASE ActivateConnection(t)
    BY <1>1, <2>2 DEF ActivateConnection, DeviceTypes
  <2> QED
    BY <2>1, <2>2
<1>3. PICK p \in Paths : \E first \in {<<>>, <<New(p)>>} : Switch(p, first)
  BY <1>2
<1>4. /\ DeviceTypes' /\ Queued' /\ Announced /\ dev' = "PREPARE"
      /\ \E s \in Seq(Reports) : Ahead' = (Ahead \o s) \o <<<<"PREPARE", "DISCONNECTED", "NONE">>>>
  BY <1>1, <1>3, Switches
<1>5. ThreadTypes' /\ UserInv' /\ ~Untouched'
  BY <1>1, DoTypes, ThreadGoes
<1>6. PictureTypes' /\ NoGhosts'
  BY <1>1, <1>4, PictureKept, GhostsKept
<1>7. Told' /\ Ahead' # <<>>
  <2> DEFINE r == <<"PREPARE", "DISCONNECTED", "NONE">>
             b == Ahead'
  <2>1. r \in Reports /\ r[1] = dev' /\ r[3] # "NEW_ACTIVATION"
    BY <1>4 DEF Reports, States, Reasons
  <2>2. PICK s \in Seq(Reports) : b = (Ahead \o s) \o <<r>>
    BY <1>4
  <2> HIDE DEF r, b
  <2> DEFINE e == <<r>>
             c == Ahead \o s
  <2>3. e \in Seq(Reports) /\ Len(e) = 1 /\ e[1] = r
    BY <2>1 DEF Reports
  <2>4. c \in Seq(Reports)
    BY AheadTypes, Joined, <1>1
  <2>5. b = c \o e
    BY <2>2
  <2> HIDE DEF e, c
  <2>6. Len(c) \in Nat /\ Len(b) = Len(c) + Len(e) /\ \A i \in 1 .. Len(e) : b[Len(c) + i] = e[i]
    BY <2>3, <2>4, <2>5, Joined
  <2>7. b[Len(b)] = r /\ Len(b) # 0
    BY <2>3, <2>6
  <2> QED
    BY <2>1, <2>7 DEF Told, b
<1> QED
  BY <1>4, <1>5, <1>6, <1>7 DEF WifiInv, WifiTypes, Settled, Forgotten

(* A thread that reads the state of the device back, or is about to. *)
LEMMA RereadKeeps ==
  ASSUME WifiInv, NEW t \in Callers, RequestFails(t) \/ ReadDevice(t) \/ FindConnection(t) \/ StoreState(t),
         reread' = (reread \/ \E u \in Callers : job'[u].do = "resync")
  PROVE  WifiInv'
<1>1. /\ DeviceTypes /\ Queued /\ PictureTypes /\ ThreadTypes /\ Told /\ NoGhosts /\ UserInv
      /\ UNCHANGED <<dev, active, saved, volatile, wire, removedQ, newQ, stateQ, mon, connections, ui, taps>>
  BY DEF WifiInv, WifiTypes, RequestFails, ReadDevice, FindConnection, StoreState, Request, manager, monitor, user
<1>2. DeviceTypes' /\ Queued' /\ Told' /\ NoGhosts'
  BY <1>1, QueuesKept DEF NoGhosts
<1>3. job[t] \in Jobs
  BY <1>1 DEF ThreadTypes
<1>4. wifi' \in Pictures
  <2>1. CASE StoreState(t)
    BY <1>3, <2>1 DEF StoreState, Jobs
  <2>2. CASE ~StoreState(t)
    BY <1>1, <2>2 DEF RequestFails, ReadDevice, FindConnection, Request, PictureTypes
  <2> QED
    BY <2>1, <2>2
<1>5. PictureTypes'
  BY <1>1, <1>4 DEF PictureTypes
<1>6. \E j \in Jobs : /\ Goes(t, j) /\ j.do \in {"idle", "resync", "find", "store"} /\ job[t].do # "idle"
                      /\ j.do # "resync" => job[t].do \in {"resync", "find", "store"}
  <2>1. CASE RequestFails(t)
    <3>1. Do("resync", NoSsid) \in Jobs /\ Do("resync", NoSsid).do = "resync"
      BY DoTypes DEF Tasks
    <3> QED
      BY <2>1, <3>1 DEF RequestFails
  <2>2. CASE ReadDevice(t)
    <3>1. PICK status \in {"DISCONNECTED", "CONNECTING", "CONNECTED"} :
            Goes(t, [do |-> "find", ssid |-> NoSsid, next |-> [ssid |-> NoSsid, status |-> status]])
      BY <2>2 DEF ReadDevice
    <3> DEFINE j == [do |-> "find", ssid |-> NoSsid, next |-> [ssid |-> NoSsid, status |-> status]]
    <3>2. j \in Jobs /\ j.do = "find"
      BY DEF Jobs, Tasks, Pictures
    <3>3. job[t].do = "resync"
      BY <2>2 DEF ReadDevice
    <3> QED
      BY <3>1, <3>2, <3>3
  <2>3. CASE FindConnection(t)
    <3> DEFINE n == [job[t] EXCEPT !.do = "store", !.next.ssid = NameOf(active)]
    <3>1. n \in Jobs /\ n.do = "store"
      BY <1>1, <1>3, NameTypes DEF Jobs, Tasks, Pictures
    <3>2. job[t].do = "find" /\ (Goes(t, n) \/ Goes(t, Idle))
      BY <2>3 DEF FindConnection
    <3> QED
      BY <3>1, <3>2, DoTypes
  <2>4. CASE StoreState(t)
    BY <2>4, DoTypes DEF StoreState
  <2> QED
    BY <2>1, <2>2, <2>3, <2>4
<1>7. PICK j \in Jobs : /\ Goes(t, j) /\ j.do \in {"idle", "resync", "find", "store"} /\ job[t].do # "idle"
                        /\ j.do # "resync" => job[t].do \in {"resync", "find", "store"}
  BY <1>6
<1>8. j.do # "resync" => reread
  BY <1>1, <1>7 DEF UserInv
<1>9. ThreadTypes' /\ UserInv' /\ ~Untouched' /\ (reread => reread') /\ job'[t] = j
  BY <1>1, <1>7, <1>8, ThreadGoes
<1>10. ~Once'
  BY <1>8, <1>9 DEF Once
<1> QED
  BY <1>2, <1>5, <1>9, <1>10 DEF WifiInv, WifiTypes
-----------------------------------------------------------------------------
(* The monitor keeps the invariant.                                        *)
LEMMA ElsewhereKept ==
  ASSUME WifiInv, Elsewhere, reread' = (reread \/ \E u \in Callers : job'[u].do = "resync")
  PROVE  /\ DeviceTypes /\ Queued /\ PictureTypes /\ ThreadTypes /\ Told /\ NoGhosts /\ UserInv
         /\ UNCHANGED <<dev, active, saved, ui, taps, job>>
         /\ ThreadTypes' /\ UserInv' /\ (Untouched' <=> Untouched) /\ (Once' <=> Once)
<1>1. /\ DeviceTypes /\ Queued /\ PictureTypes /\ ThreadTypes /\ Told /\ NoGhosts /\ UserInv
      /\ UNCHANGED <<dev, active, saved, ui, taps, job>>
  BY DEF WifiInv, WifiTypes, Elsewhere, user
<1> QED
  BY <1>1, ThreadsKept

(* What is shown, or about to be, is a picture.                            *)
LEMMA PictureType == PictureTypes => Picture \in Pictures
BY DEF PictureTypes, Picture

(* A step that neither handles a report nor changes the picture. *)
LEMMA SamePicture ==
  ASSUME UNCHANGED <<dev, active>>, Ahead' = Ahead, Picture' = Picture, mon.at # "ask", mon'.at # "ask"
  PROVE  /\ Unforced' = Unforced /\ Foreseen' = Foreseen /\ Shown' = Shown /\ Ordered' = Ordered
         /\ Settled' = Settled /\ Forgotten' = Forgotten /\ Told' = Told
<1>1. Unforced' = Unforced /\ Ordered' = Ordered /\ Forgotten' = Forgotten /\ Told' = Told
  BY DEF Unforced, Ordered, Forgotten, Told
<1>2. Foreseen' = Foreseen
  BY DEF Foreseen
<1>3. Shown' = Shown
  BY DEF Shown
<1>4. Settled' = Settled
  BY DEF Settled
<1> QED
  BY <1>1, <1>2, <1>3, <1>4

(* The two reports of a connection that is removed are ahead, behind the   *)
(* queue.                                                                  *)
LEMMA WarnedAhead ==
  ASSUME Queued, Warned
  PROVE  /\ \E i \in DOMAIN Ahead : i < Len(Ahead) /\ Leaves(Ahead[i])
         /\ Len(Ahead) >= Len(stateQ) + 2
<1> DEFINE c == Cardinality(UpTo("state", wire, Len(wire)))
           q == OfKind("state", wire)
           n == Len(stateQ)
<1>1. Len(wire) \in Nat /\ DOMAIN wire = 1 .. Len(wire) /\ stateQ \in Seq(Reports) /\ n \in Nat
  BY DEF Queued
<1>2. PICK j \in 1 .. Len(wire), k \in 1 .. Len(wire) :
        j < k /\ wire[j].kind = "state" /\ Leaves(wire[j].body) /\ wire[k].kind = "state"
  BY <1>1 DEF Warned
<1> DEFINE x == Cardinality(UpTo("state", wire, j))
           y == Cardinality(UpTo("state", wire, k))
<1>3. x \in 1 .. c /\ q[x] = wire[j].body
  BY <1>1, <1>2, OfKindAt
<1>4. y \in 1 .. c
  BY <1>1, <1>2, OfKindAt
<1>5. x < y
  <2>1. j \in Int /\ k \in Int /\ k \in UpTo("state", wire, k)
    BY <1>1, <1>2 DEF UpTo
  <2> QED
    BY <1>2, <2>1, RankGrows
<1>6. q \in Seq(Reports) /\ Len(q) = c /\ c \in Nat
  BY <1>1, QueueTypes, OfKindSize DEF Queued
<1> HIDE DEF c, q, n, x, y
<1>7. /\ Ahead \in Seq(Reports) /\ Len(Ahead) = n + c
      /\ \A i \in 1 .. c : Ahead[n + i] = q[i]
  BY <1>1, <1>6, Joined DEF Ahead, q, n
<1>8. n + x \in DOMAIN Ahead /\ n + x < Len(Ahead) /\ Len(Ahead) >= n + 2
  BY <1>1, <1>3, <1>4, <1>5, <1>6, <1>7
<1>9. Leaves(Ahead[n + x])
  BY <1>2, <1>3, <1>7
<1> QED
  BY <1>8, <1>9 DEF n

(* A message is received, and the names of what is gone are taken off.     *)
LEMMA ReceiveKeeps ==
  ASSUME WifiInv, Receive, reread' = (reread \/ \E u \in Callers : job'[u].do = "resync")
  PROVE  WifiInv'
<1>1. /\ DeviceTypes /\ Queued /\ PictureTypes /\ ThreadTypes /\ Told /\ NoGhosts /\ UserInv
      /\ UNCHANGED <<dev, active, saved, volatile, wifi, epochs>>
      /\ ThreadTypes' /\ UserInv' /\ (Untouched' <=> Untouched) /\ (Once' <=> Once)
      /\ mon.at = "recv" /\ mon' = [mon EXCEPT !.at = "new"]
  BY ElsewhereKept DEF Receive
<1>2. /\ Queued' /\ Ahead' = Ahead /\ Coming' = Coming
      /\ wire # <<>> => wire' = Tail(wire)
      /\ connections' \in [Ssids -> Paths \cup {NoSsid}]
      /\ \A s \in Ssids : connections'[s] \in {NoSsid, connections[s]}
      /\ \A s \in Ssids : wire # <<>> /\ Head(wire) = Removed(connections[s]) => connections'[s] = NoSsid
      /\ \A s \in Ssids : connections[s] \in Departed => connections'[s] = NoSsid \/ connections[s] \in Departed'
      /\ Leaving = <<>> => Leaving' = <<>> /\ connections' = connections
  BY <1>1, Received DEF PictureTypes
<1>3. DeviceTypes'
  BY <1>1 DEF DeviceTypes
<1>4. mon' \in [at : {"recv", "new", "state", "ask", "store", "save"}, next : Pictures, path : Paths \cup {NoSsid}]
      /\ mon'.at = "new" /\ mon'.next = mon.next
  BY <1>1 DEF PictureTypes
<1>5. PictureTypes'
  BY <1>1, <1>2, <1>4 DEF PictureTypes
<1>6. NoGhosts'
  <2> SUFFICES ASSUME NEW s \in Ssids, connections'[s] # NoSsid
               PROVE  connections'[s] \in saved' \cup Departed'
    BY DEF NoGhosts
  <2>1. connections'[s] = connections[s] /\ connections[s] # NoSsid
    BY <1>2
  <2>2. connections[s] \in saved \/ connections[s] \in Departed
    BY <1>1, <2>1 DEF NoGhosts
  <2> QED
    BY <1>1, <1>2, <2>1, <2>2
<1>7. Picture' = Picture
  BY <1>1, <1>4 DEF Picture
<1>8. /\ Unforced' = Unforced /\ Foreseen' = Foreseen /\ Shown' = Shown /\ Ordered' = Ordered
      /\ Settled' = Settled /\ Forgotten' = Forgotten /\ Told' = Told
  BY <1>1, <1>2, <1>4, <1>7, SamePicture
<1>9. Watchful'
  BY <1>4 DEF Watchful
<1>10. Untouched => UntouchedInv'
  <2>1. UntouchedInv => Plain'
    BY <1>1, <1>2 DEF UntouchedInv, Plain
  <2> QED
    BY <1>8, <1>9, <2>1 DEF WifiInv, UntouchedInv
<1>11. ForgottenInv => ForgottenInv'
  <2> SUFFICES ASSUME ForgottenInv PROVE ForgottenInv'
    OBVIOUS
  <2>1. Coming' = <<>> /\ Watchful' /\ Ordered'
    BY <1>2, <1>8, <1>9 DEF ForgottenInv
  <2>2. CASE \E i \in DOMAIN Ahead : Resets(Ahead[i])
    BY <1>2, <2>1, <2>2 DEF ForgottenInv
  <2>3. CASE Picture.ssid = NoSsid
    BY <1>7, <2>1, <2>3 DEF ForgottenInv
  <2>4. CASE Picture.ssid # NoSsid /\ connections'[Picture.ssid] = NoSsid
    BY <1>7, <2>1, <2>4 DEF ForgottenInv
  <2>5. CASE Picture.status = "CONNECTED" /\ \E i \in DOMAIN Ahead : i < Len(Ahead) /\ Leaves(Ahead[i])
    BY <1>2, <1>7, <2>1, <2>5 DEF ForgottenInv
  <2>6. CASE Warned /\ Picture.ssid # NoSsid /\ connections'[Picture.ssid] # NoSsid
    <3>1. Picture.ssid \in Ssids
      BY <1>1, <2>6, PictureType DEF Pictures
    <3>2. connections'[Picture.ssid] = connections[Picture.ssid]
      BY <1>2, <2>6, <3>1
    <3>3. PICK i \in DOMAIN wire, j \in DOMAIN wire, k \in DOMAIN wire :
            /\ i < j /\ j < k /\ wire[i] = Removed(connections[Picture.ssid])
            /\ wire[j].kind = "state" /\ Leaves(wire[j].body) /\ wire[k].kind = "state"
      BY <2>6 DEF Warned
    <3>4. wire \in Seq(Messages) /\ wire # <<>>
      BY <1>1, <3>3 DEF Queued
    <3>5. /\ Len(wire) \in Nat /\ DOMAIN wire = 1 .. Len(wire) /\ Head(wire) = wire[1]
          /\ Tail(wire) \in Seq(Messages) /\ Len(Tail(wire)) = Len(wire) - 1
          /\ \A h \in 1 .. Len(Tail(wire)) : Tail(wire)[h] = wire[h + 1]
      BY <3>4, HeadTailProperties
    <3>6. i # 1
      BY <1>2, <2>6, <3>1, <3>3, <3>4, <3>5
    <3>7. DOMAIN Tail(wire) = 1 .. Len(wire) - 1
      BY <3>5
    <3> DEFINE v == Tail(wire)
    <3>8. v = wire' /\ DOMAIN v = 1 .. Len(wire) - 1 /\ \A h \in 1 .. Len(wire) - 1 : v[h] = wire[h + 1]
      BY <1>2, <3>4, <3>5, <3>7
    <3> HIDE DEF v
    <3>9. /\ i - 1 \in DOMAIN v /\ j - 1 \in DOMAIN v /\ k - 1 \in DOMAIN v
          /\ i - 1 < j - 1 /\ j - 1 < k - 1
          /\ (i - 1) + 1 = i /\ (j - 1) + 1 = j /\ (k - 1) + 1 = k
      BY <3>3, <3>5, <3>6, <3>8
    <3>10. v[i - 1] = wire[i] /\ v[j - 1] = wire[j] /\ v[k - 1] = wire[k]
      BY <3>8, <3>9
    <3>11. Warned'
      BY <1>7, <3>2, <3>3, <3>8, <3>9, <3>10 DEF Warned
    <3> QED
      BY <2>1, <3>11 DEF ForgottenInv
  <2>7. connections[Picture.ssid] = NoSsid => Picture.ssid = NoSsid \/ connections'[Picture.ssid] = NoSsid
    BY <1>1, <1>2, PictureType DEF Pictures
  <2> QED
    BY <2>2, <2>3, <2>4, <2>5, <2>6, <2>7 DEF ForgottenInv
<1> QED
  BY <1>1, <1>2, <1>3, <1>5, <1>6, <1>8, <1>10, <1>11 DEF WifiInv, WifiTypes

(* A step that touches neither the names nor the messages.                 *)
LEMMA SameForgotten ==
  ASSUME ForgottenInv, Ahead' = Ahead, Picture' = Picture, Coming' = Coming, Watchful', Ordered',
         UNCHANGED <<wire, connections>>
  PROVE  ForgottenInv'
<1>1. Warned' = Warned
  BY DEF Warned
<1> QED
  BY <1>1 DEF ForgottenInv

(* A new connection is named; none is new before the user asks for one.    *)
LEMMA NewConnectionKeeps ==
  ASSUME WifiInv, NewConnection, reread' = (reread \/ \E u \in Callers : job'[u].do = "resync")
  PROVE  WifiInv'
<1> DEFINE p == Head(newQ)
<1>1. /\ DeviceTypes /\ Queued /\ PictureTypes /\ ThreadTypes /\ Told /\ NoGhosts /\ UserInv
      /\ UNCHANGED <<dev, active, saved, volatile, wire, removedQ, stateQ, mon, wifi, epochs>>
      /\ ThreadTypes' /\ UserInv' /\ (Untouched' <=> Untouched) /\ (Once' <=> Once)
      /\ mon.at = "new" /\ newQ # <<>> /\ newQ' = Tail(newQ)
      /\ connections' = IF p \in saved THEN [connections EXCEPT ![p.ssid] = p] ELSE connections
  BY ElsewhereKept DEF NewConnection
<1> HIDE DEF p
<1>2. Ahead' = Ahead /\ Departed' = Departed /\ Picture' = Picture
  BY <1>1 DEF Ahead, Departed, Leaving, Picture
<1>3. Queued'
  <2>1. Tail(newQ) \in Seq(Paths)
    BY <1>1, HeadTailProperties DEF Queued
  <2> QED
    BY <1>1, <2>1 DEF Queued
<1>4. DeviceTypes' /\ Told'
  BY <1>1, <1>2 DEF DeviceTypes, Told
<1>5. PictureTypes' /\ NoGhosts'
  <2>1. CASE p \in saved
    <3>1. p \in Paths /\ p.ssid \in Ssids
      BY <1>1, <2>1 DEF DeviceTypes, Paths
    <3>2. connections \in [Ssids -> Paths \cup {NoSsid}]
      BY <1>1 DEF PictureTypes
    <3>3. connections' = [connections EXCEPT ![p.ssid] = p]
      BY <1>1, <2>1
    <3>4. /\ connections' \in [Ssids -> Paths \cup {NoSsid}] /\ connections'[p.ssid] = p
          /\ \A s \in Ssids : s # p.ssid => connections'[s] = connections[s]
      BY <3>1, <3>2, <3>3
    <3>5. PictureTypes'
      BY <1>1, <3>4 DEF PictureTypes
    <3>6. NoGhosts'
      BY <1>1, <1>2, <2>1, <3>4 DEF NoGhosts
    <3> QED
      BY <3>5, <3>6
  <2>2. CASE p \notin saved
    BY <1>1, <1>2, <2>2 DEF PictureTypes, NoGhosts
  <2> QED
    BY <2>1, <2>2
<1>6. Coming # <<>>
  <2> DEFINE q == OfKind("new", wire)
  <2>1. newQ \in Seq(Paths) /\ q \in Seq(Paths)
    BY <1>1, QueueTypes DEF Queued
  <2> HIDE DEF q
  <2>2. newQ \o q # <<>>
    BY <1>1, <2>1, ConcatEmptySeq
  <2> QED
    BY <2>2 DEF Coming, q
<1>7. ~Untouched /\ ~ (Once /\ Forgotten)
  BY <1>6 DEF WifiInv, UntouchedInv, Plain, ForgottenInv
<1>8. Settled' = Settled /\ Forgotten' = Forgotten
  BY <1>1, <1>2, SamePicture
<1> QED
  BY <1>1, <1>3, <1>4, <1>5, <1>7, <1>8 DEF WifiInv, WifiTypes

(* The monitor goes on, or shows what it is about to show. *)
LEMMA MoveKeeps ==
  ASSUME WifiInv, Turn \/ Store, reread' = (reread \/ \E u \in Callers : job'[u].do = "resync")
  PROVE  WifiInv'
<1>1. /\ DeviceTypes /\ Queued /\ PictureTypes /\ ThreadTypes /\ Told /\ NoGhosts /\ UserInv
      /\ UNCHANGED <<dev, active, saved, volatile, wire, removedQ, newQ, stateQ, connections, epochs>>
      /\ ThreadTypes' /\ UserInv' /\ (Untouched' <=> Untouched) /\ (Once' <=> Once)
  BY ElsewhereKept DEF Turn, Store
<1>2. /\ mon' \in [at : {"recv", "new", "state", "ask", "store", "save"}, next : Pictures, path : Paths \cup {NoSsid}]
      /\ wifi' \in Pictures /\ mon.at # "ask" /\ mon'.at # "ask" /\ Picture' = Picture /\ Watchful'
  <2>1. CASE Turn
    <3>1. CASE mon.at = "new" /\ mon' = [mon EXCEPT !.at = "state"]
      BY <1>1, <2>1, <3>1 DEF Turn, PictureTypes, Picture, Watchful
    <3>2. CASE mon.at = "state" /\ mon' = Listening
      BY <1>1, <2>1, <3>2, DoTypes DEF Turn, PictureTypes, Picture, Watchful, Listening
    <3> QED
      BY <2>1, <3>1, <3>2 DEF Turn
  <2>2. CASE Store
    <3>1. /\ mon.at = "store" /\ wifi' = mon.next /\ mon.next \in Pictures /\ mon.path \in Paths \cup {NoSsid}
      BY <1>1, <2>2 DEF Store, PictureTypes
    <3>2. mon' \in [at : {"recv", "new", "state", "ask", "store", "save"}, next : Pictures, path : Paths \cup {NoSsid}]
      BY <2>2, <3>1, DoTypes DEF Store, Listening
    <3>3. mon'.at \in {"save", "state"} /\ (mon'.at = "save" => wifi'.status = "CONNECTED")
      BY <2>2 DEF Store, Listening
    <3> QED
      BY <3>1, <3>2, <3>3 DEF Picture, Watchful
  <2> QED
    BY <2>1, <2>2
<1>3. DeviceTypes' /\ Queued' /\ Told' /\ Ahead' = Ahead /\ Leaving' = Leaving /\ Coming' = Coming /\ Departed' = Departed
  BY <1>1, QueuesKept
<1>4. PictureTypes' /\ NoGhosts'
  BY <1>1, <1>2, <1>3 DEF PictureTypes, NoGhosts
<1>5. /\ Unforced' = Unforced /\ Foreseen' = Foreseen /\ Shown' = Shown /\ Ordered' = Ordered
      /\ Settled' = Settled /\ Forgotten' = Forgotten
  BY <1>1, <1>2, <1>3, SamePicture
<1>6. Plain' = Plain
  BY <1>1, <1>3 DEF Plain
<1>7. UntouchedInv => UntouchedInv'
  BY <1>2, <1>5, <1>6 DEF UntouchedInv
<1>8. ForgottenInv => ForgottenInv'
  BY <1>1, <1>2, <1>3, <1>5, SameForgotten DEF ForgottenInv
<1> QED
  BY <1>1, <1>3, <1>4, <1>5, <1>7, <1>8 DEF WifiInv, WifiTypes

(* What was looked up is kept: its reply brings in all that was sent.      *)
LEMMA SaveKeeps ==
  ASSUME WifiInv, Save, reread' = (reread \/ \E u \in Callers : job'[u].do = "resync")
  PROVE  WifiInv'
<1>1. /\ DeviceTypes /\ Queued /\ PictureTypes /\ ThreadTypes /\ Told /\ NoGhosts /\ UserInv
      /\ UNCHANGED <<dev, active, saved, connections, wifi, epochs>>
      /\ ThreadTypes' /\ UserInv' /\ (Untouched' <=> Untouched) /\ (Once' <=> Once)
      /\ Reply /\ mon.at = "save" /\ volatile' = volatile \ {mon.path} /\ mon' = [Listening EXCEPT !.at = "state"]
  BY ElsewhereKept DEF Save
<1>2. Queued' /\ Ahead' = Ahead /\ Leaving' = Leaving /\ Coming' = Coming /\ Departed' = Departed
  BY <1>1, Replied DEF Departed
<1>3. /\ mon' \in [at : {"recv", "new", "state", "ask", "store", "save"}, next : Pictures, path : Paths \cup {NoSsid}]
      /\ mon'.at = "state"
  BY <1>1, DoTypes DEF Listening
<1>4. Picture' = Picture /\ Picture = wifi /\ Watchful'
  BY <1>1, <1>3 DEF Picture, Watchful
<1>5. DeviceTypes' /\ PictureTypes' /\ NoGhosts'
  BY <1>1, <1>2, <1>3 DEF DeviceTypes, PictureTypes, NoGhosts
<1>6. /\ Unforced' = Unforced /\ Foreseen' = Foreseen /\ Shown' = Shown /\ Ordered' = Ordered
      /\ Settled' = Settled /\ Forgotten' = Forgotten /\ Told' = Told
  BY <1>1, <1>2, <1>3, <1>4, SamePicture
<1>7. UntouchedInv => UntouchedInv'
  <2>1. Plain => Plain'
    BY <1>1, <1>2 DEF Plain
  <2> QED
    BY <1>4, <1>6, <2>1 DEF UntouchedInv
<1>8. ForgottenInv => ForgottenInv'
  <2> SUFFICES ASSUME ForgottenInv PROVE ForgottenInv'
    OBVIOUS
  <2>1. Warned => Picture.status = "CONNECTED" /\ \E i \in DOMAIN Ahead : i < Len(Ahead) /\ Leaves(Ahead[i])
    BY <1>1, <1>4, WarnedAhead DEF ForgottenInv, Watchful
  <2> QED
    BY <1>1, <1>2, <1>4, <1>6, <2>1 DEF ForgottenInv
<1> QED
  BY <1>1, <1>2, <1>5, <1>6, <1>7, <1>8 DEF WifiInv, WifiTypes

(* The active connection is looked up, unless the user chose meanwhile.    *)
LEMMA LookUpKeeps ==
  ASSUME WifiInv, LookUp, reread' = (reread \/ \E u \in Callers : job'[u].do = "resync")
  PROVE  WifiInv'
<1> DEFINE next == IF active = NoSsid THEN mon.next ELSE [mon.next EXCEPT !.ssid = NameOf(active)]
<1>1. /\ DeviceTypes /\ Queued /\ PictureTypes /\ ThreadTypes /\ Told /\ NoGhosts /\ UserInv
      /\ UNCHANGED <<dev, active, saved, volatile, connections, wifi>>
      /\ ThreadTypes' /\ UserInv' /\ (Untouched' <=> Untouched) /\ (Once' <=> Once)
      /\ Reply /\ mon.at = "ask"
      /\ mon' = IF Monitor \notin epochs THEN [Listening EXCEPT !.at = "state"]
                ELSE [at |-> "store", path |-> active, next |-> next]
  BY ElsewhereKept DEF LookUp
<1>2. Queued' /\ Ahead' = Ahead /\ Leaving' = Leaving /\ Coming' = Coming /\ Departed' = Departed
  BY <1>1, Replied DEF Departed
<1>3. /\ mon.next \in Pictures /\ active \in Paths \cup {NoSsid} /\ (active = NoSsid <=> dev = "DISCONNECTED")
      /\ NameOf(active) \in Ssids \cup {NoSsid}
  BY <1>1, NameTypes DEF DeviceTypes, PictureTypes
<1>4. /\ next \in Pictures /\ next.status = mon.next.status
      /\ active = NoSsid => next = mon.next
      /\ active # NoSsid => next.ssid = NameOf(active)
  BY <1>3 DEF Pictures
<1> HIDE DEF next
<1>5. /\ mon' \in [at : {"recv", "new", "state", "ask", "store", "save"}, next : Pictures, path : Paths \cup {NoSsid}]
      /\ mon'.at \in {"state", "store"}
      /\ Monitor \in epochs => mon'.at = "store" /\ mon'.next = next
  BY <1>1, <1>3, <1>4, DoTypes DEF Listening
<1>6. DeviceTypes' /\ PictureTypes' /\ NoGhosts' /\ Told' /\ Watchful'
  <2>1. DeviceTypes' /\ Told' /\ NoGhosts'
    BY <1>1, <1>2 DEF DeviceTypes, NoGhosts, Told
  <2>2. PictureTypes' /\ Watchful'
    BY <1>1, <1>5 DEF PictureTypes, Watchful
  <2> QED
    BY <2>1, <2>2
<1>7. Picture = mon.next /\ (Monitor \in epochs => Picture' = next)
  BY <1>1, <1>5 DEF Picture
<1>8. UntouchedInv => UntouchedInv'
  <2> SUFFICES ASSUME UntouchedInv PROVE UntouchedInv'
    OBVIOUS
  <2>1. Picture' = next
    BY <1>1, <1>7 DEF UntouchedInv, Watchful
  <2>2. dev # "DISCONNECTED" => next.ssid = active.ssid
    <3>1. dev # "DISCONNECTED" => active \in saved /\ connections[active.ssid] = active /\ active # NoSsid
      BY <1>1 DEF UntouchedInv, Plain, DeviceTypes
    <3> QED
      BY <1>4, <3>1 DEF NameOf
  <2>3. Plain' /\ Unforced'
    BY <1>1, <1>2 DEF UntouchedInv, Plain, Unforced
  <2>4. Foreseen'
    BY <1>1, <1>2, <2>1, <2>2 DEF UntouchedInv, Foreseen
  <2>5. Shown'
    BY <1>1, <1>2, <1>4, <1>7, <2>1, <2>2 DEF UntouchedInv, Shown
  <2>6. Ordered'
    BY <1>2, <1>4, <1>7, <2>1 DEF UntouchedInv, Ordered
  <2> QED
    BY <1>6, <2>3, <2>4, <2>5, <2>6 DEF UntouchedInv
<1>9. Settled => Settled'
  <2> SUFFICES ASSUME Settled, Ahead = <<>>
               PROVE  /\ dev # "DISCONNECTED"
                      /\ dev = "ACTIVATED" => /\ Picture'.status = "CONNECTED"
                                              /\ Picture'.ssid \in {NoSsid, active.ssid}
    BY <1>1, <1>2, <1>5 DEF Settled
  <2>1. dev # "DISCONNECTED"
    BY <1>1 DEF Settled
  <2>2. ASSUME dev = "ACTIVATED" PROVE Picture'.status = "CONNECTED" /\ Picture'.ssid \in {NoSsid, active.ssid}
    <3>1. Monitor \in epochs /\ Picture.status = "CONNECTED"
      BY <1>1, <2>2 DEF Settled
    <3>2. active # NoSsid
      BY <1>3, <2>2
    <3> QED
      BY <1>4, <1>7, <3>1, <3>2 DEF NameOf
  <2> QED
    BY <2>1, <2>2
<1>10. Forgotten' = Forgotten
  BY <1>1, <1>2 DEF Forgotten
<1>11. Forgotten /\ ForgottenInv => ForgottenInv'
  <2> SUFFICES ASSUME Forgotten, ForgottenInv PROVE ForgottenInv'
    OBVIOUS
  <2>1. Picture' = Picture
    BY <1>1, <1>3, <1>4, <1>7 DEF Forgotten, ForgottenInv, Watchful
  <2>2. Picture.ssid = NoSsid \/ Picture.status = "CONNECTED"
    BY <1>1, <1>7 DEF PictureTypes
  <2>3. Ordered'
    BY <1>2, <2>1 DEF ForgottenInv, Ordered
  <2>4. Warned => \E i \in DOMAIN Ahead : i < Len(Ahead) /\ Leaves(Ahead[i])
    BY <1>1, WarnedAhead
  <2> QED
    BY <1>1, <1>2, <1>6, <2>1, <2>2, <2>3, <2>4 DEF ForgottenInv
<1> QED
  BY <1>1, <1>2, <1>6, <1>8, <1>9, <1>10, <1>11 DEF WifiInv, WifiTypes

(* The monitor handles the first of the reports that are ahead of it.      *)
FirstGone ==
  /\ Ahead \in Seq(Reports) /\ Ahead' \in Seq(Reports) /\ Len(Ahead) \in Nat \ {0}
  /\ Len(Ahead') = Len(Ahead) - 1
  /\ \A i \in 1 .. Len(Ahead) - 1 : Ahead'[i] = Ahead[i + 1]

(* What is the same whichever report it is.                                *)
LEMMA Handling ==
  ASSUME WifiInv, NEW states, Handles(states), reread' = (reread \/ \E u \in Callers : job'[u].do = "resync")
  PROVE  /\ DeviceTypes /\ Queued /\ PictureTypes /\ Told /\ ThreadTypes' /\ UserInv'
         /\ (Untouched' <=> Untouched) /\ (Once' <=> Once)
         /\ UNCHANGED <<dev, active, saved, volatile, wire, removedQ, newQ, connections, wifi>>
         /\ DeviceTypes' /\ Queued' /\ NoGhosts' /\ Coming' = Coming /\ Plain' = Plain
         /\ FirstGone /\ Ahead[1] = Head(stateQ) /\ Ahead[1] \in Reports /\ Ahead[1][1] \in states
         /\ mon.at = "state" /\ Picture = wifi /\ Len(stateQ) \in Nat \ {0}
<1>1. /\ DeviceTypes /\ Queued /\ PictureTypes /\ ThreadTypes /\ Told /\ NoGhosts /\ UserInv
      /\ UNCHANGED <<dev, active, saved, volatile, wire, removedQ, newQ, connections, wifi>>
      /\ ThreadTypes' /\ UserInv' /\ (Untouched' <=> Untouched) /\ (Once' <=> Once)
      /\ mon.at = "state" /\ stateQ # <<>> /\ Head(stateQ)[1] \in states /\ stateQ' = Tail(stateQ)
  BY ElsewhereKept DEF Handles
<1>2. /\ Queued' /\ Leaving' = Leaving /\ Head(stateQ) \in Reports
      /\ Len(Ahead) \in Nat \ {0} /\ Ahead[1] = Head(stateQ)
      /\ Ahead' \in Seq(Reports) /\ Len(Ahead') = Len(Ahead) - 1
      /\ \A i \in 1 .. Len(Ahead) - 1 : Ahead'[i] = Ahead[i + 1]
      /\ Coming' = Coming
  BY <1>1, Handled
<1>3. FirstGone
  BY <1>1, <1>2, AheadTypes DEF FirstGone
<1>4. DeviceTypes' /\ NoGhosts' /\ Plain' = Plain
  BY <1>1, <1>2 DEF DeviceTypes, NoGhosts, Departed, Plain
<1>5. Picture = wifi
  BY <1>1 DEF Picture
<1>6. Len(stateQ) \in Nat \ {0}
  BY <1>1, EmptySeq DEF Queued
<1> QED
  BY <1>1, <1>2, <1>3, <1>4, <1>5, <1>6

(* The others stay where they are, and the last stays the last.            *)
LEMMA OthersStay ==
  ASSUME FirstGone, Told, Ahead[1] \in Reports, UNCHANGED dev
  PROVE  /\ Ahead' = <<>> => /\ Len(Ahead) = 1 /\ Ahead # <<>> /\ Ahead[Len(Ahead)] = Ahead[1]
                             /\ dev = Ahead[1][1] /\ Ahead[1][3] # "NEW_ACTIVATION"
         /\ Ahead' # <<>> => Ahead # <<>> /\ Ahead'[Len(Ahead')] = Ahead[Len(Ahead)]
         /\ Told' /\ (Forgotten' => Forgotten) /\ (Unforced => Unforced')
         /\ \A i \in DOMAIN Ahead : i = 1 \/ (i - 1 \in DOMAIN Ahead' /\ Ahead'[i - 1] = Ahead[i])
         /\ DOMAIN Ahead = 1 .. Len(Ahead) /\ DOMAIN Ahead' = 1 .. Len(Ahead) - 1
         /\ Len(Ahead) \in Nat \ {0} /\ Len(Ahead') = Len(Ahead) - 1
<1> DEFINE a == Ahead
           b == Ahead'
<1>1. /\ a \in Seq(Reports) /\ b \in Seq(Reports) /\ Len(a) \in Nat \ {0} /\ Len(b) = Len(a) - 1
      /\ \A i \in 1 .. Len(a) - 1 : b[i] = a[i + 1]
  BY DEF FirstGone
<1>2. a # <<>> => a[Len(a)][1] = dev /\ a[Len(a)][3] # "NEW_ACTIVATION"
  BY DEF Told
<1> HIDE DEF a, b
<1>3. a # <<>> /\ DOMAIN a = 1 .. Len(a) /\ DOMAIN b = 1 .. Len(a) - 1 /\ (b = <<>> <=> Len(a) = 1)
  BY <1>1, EmptySeq
<1>4. b # <<>> => b[Len(b)] = a[Len(a)]
  <2> SUFFICES ASSUME b # <<>> PROVE b[Len(b)] = a[Len(a)]
    OBVIOUS
  <2>1. Len(b) \in 1 .. Len(a) - 1 /\ Len(b) + 1 = Len(a)
    BY <1>1, <1>3
  <2> QED
    BY <1>1, <2>1
<1>5. ASSUME NEW i \in DOMAIN a, i # 1 PROVE i - 1 \in DOMAIN b /\ b[i - 1] = a[i]
  <2>1. i - 1 \in 1 .. Len(a) - 1 /\ (i - 1) + 1 = i
    BY <1>1, <1>3, <1>5
  <2> QED
    BY <1>1, <1>3, <2>1
<1>6. ASSUME NEW i \in DOMAIN b PROVE i + 1 \in DOMAIN a /\ b[i] = a[i + 1]
  BY <1>1, <1>3
<1>7. Told' /\ (Forgotten' => Forgotten)
  BY <1>2, <1>3, <1>4 DEF Told, Forgotten, a, b
<1>8. Unforced => Unforced'
  BY <1>6 DEF Unforced, a, b
<1> QED
  BY <1>1, <1>2, <1>3, <1>4, <1>5, <1>7, <1>8 DEF a, b

(* They stay in order, if the picture is connected only where it may be.   *)
LEMMA OrderStays ==
  ASSUME FirstGone, Ordered,
         Picture'.status = "CONNECTED" =>
           (Picture.status = "CONNECTED" /\ ~Resets(Ahead[1])) \/ Ahead[1][1] = "ACTIVATED"
  PROVE  Ordered'
<1>1. Ahead \in Seq(Reports) /\ Ahead' \in Seq(Reports) /\ Len(Ahead) # 0 /\ Len(Ahead') = Len(Ahead) - 1
  BY DEF FirstGone
<1>2. \A i \in 1 .. Len(Ahead) - 1 : Ahead'[i] = Ahead[i + 1]
  BY DEF FirstGone
<1>3. InOrder(Ahead, Picture.status)
  BY DEF Ordered
<1>4. InOrder(Ahead', Picture'.status)
  BY <1>1, <1>2, <1>3, InOrderRest
<1> QED
  BY <1>4 DEF Ordered

(* A report that is answered by showing nothing, or is passed over, ...    *)
LEMMA ClearedKeeps ==
  ASSUME WifiInv, reread' = (reread \/ \E u \in Callers : job'[u].do = "resync"),
         Handles({"DISCONNECTED", "NEED_AUTH", "FAILED", "DEACTIVATING"}), Clears
  PROVE  WifiInv'
<1> DEFINE r == Ahead[1]
<1>1. /\ DeviceTypes /\ Queued /\ PictureTypes /\ Told /\ ThreadTypes' /\ UserInv'
      /\ (Untouched' <=> Untouched) /\ (Once' <=> Once)
      /\ UNCHANGED <<dev, active, saved, volatile, wire, removedQ, newQ, connections, wifi>>
      /\ DeviceTypes' /\ Queued' /\ NoGhosts' /\ Coming' = Coming /\ Plain' = Plain
      /\ FirstGone /\ r \in Reports /\ r[1] \in {"DISCONNECTED", "NEED_AUTH", "FAILED", "DEACTIVATING"}
  BY Handling
<1>2. /\ Ahead' = <<>> => dev = r[1]
      /\ Told' /\ (Forgotten' => Forgotten) /\ (Unforced => Unforced')
  BY <1>1, OthersStay
<1> HIDE DEF r
<1>3. mon' = [mon EXCEPT !.at = "store", !.next = Nowhere]
  BY DEF Clears
<1>4. PictureTypes' /\ Watchful' /\ Picture' = Nowhere /\ mon'.at = "store"
  BY <1>1, <1>3, DoTypes DEF PictureTypes, Watchful, Picture
<1>5. Ordered => Ordered'
  BY <1>1, <1>4, OrderStays DEF Nowhere
<1>6. UntouchedInv => UntouchedInv'
  <2> SUFFICES ASSUME UntouchedInv PROVE UntouchedInv'
    OBVIOUS
  <2>1. Foreseen'
    BY <1>4 DEF Foreseen, Nowhere
  <2>2. Shown'
    BY <1>1, <1>2 DEF Shown, DeviceTypes
  <2> QED
    BY <1>1, <1>2, <1>4, <1>5, <2>1, <2>2 DEF UntouchedInv
<1>7. Settled'
  BY <1>1, <1>2, <1>4 DEF Settled
<1>8. ForgottenInv => ForgottenInv'
  BY <1>1, <1>4, <1>5 DEF ForgottenInv, Nowhere
<1> QED
  BY <1>1, <1>2, <1>4, <1>6, <1>7, <1>8 DEF WifiInv, WifiTypes

(* ... for a network that is being set up is kept.                         *)
LEMMA PassedOverKeeps ==
  ASSUME WifiInv, reread' = (reread \/ \E u \in Callers : job'[u].do = "resync"),
         Handles({"DISCONNECTED", "NEED_AUTH", "FAILED", "DEACTIVATING"}), UNCHANGED <<mon, epochs>>,
         Head(stateQ)[1] = "DISCONNECTED" => Kept,
         Leaves(Head(stateQ)) => wifi.status # "CONNECTED"
  PROVE  WifiInv'
<1> DEFINE r == Ahead[1]
<1>1. /\ DeviceTypes /\ Queued /\ PictureTypes /\ Told /\ ThreadTypes' /\ UserInv'
      /\ (Untouched' <=> Untouched) /\ (Once' <=> Once)
      /\ UNCHANGED <<dev, active, saved, volatile, wire, removedQ, newQ, connections, wifi>>
      /\ DeviceTypes' /\ Queued' /\ NoGhosts' /\ Coming' = Coming /\ Plain' = Plain
      /\ FirstGone /\ r = Head(stateQ) /\ r \in Reports
      /\ r[1] \in {"DISCONNECTED", "NEED_AUTH", "FAILED", "DEACTIVATING"}
      /\ mon.at = "state" /\ Picture = wifi /\ Len(stateQ) \in Nat \ {0}
  BY Handling
<1>2. /\ Ahead' = <<>> => /\ Len(Ahead) = 1 /\ Ahead # <<>> /\ Ahead[Len(Ahead)] = r
                          /\ dev = r[1] /\ r[3] # "NEW_ACTIVATION"
      /\ Told' /\ (Forgotten' => Forgotten) /\ (Unforced => Unforced')
  BY <1>1, OthersStay
<1>3. /\ \A i \in DOMAIN Ahead : i = 1 \/ (i - 1 \in DOMAIN Ahead' /\ Ahead'[i - 1] = Ahead[i])
      /\ DOMAIN Ahead = 1 .. Len(Ahead) /\ DOMAIN Ahead' = 1 .. Len(Ahead) - 1
      /\ Len(Ahead) \in Nat \ {0} /\ Len(Ahead') = Len(Ahead) - 1
  BY <1>1, OthersStay
<1>4. PictureTypes' /\ Picture' = Picture /\ mon'.at = "state" /\ Watchful'
  BY <1>1 DEF PictureTypes, Picture, Watchful
<1>5. ~Resets(r)
  BY <1>1 DEF Resets, Kept, Why
<1>6. r[1] = "DISCONNECTED" /\ r[3] # "NEW_ACTIVATION" =>
        r[3] = "CONNECTION_REMOVED" /\ Picture.ssid # NoSsid /\ connections[Picture.ssid] # NoSsid
  BY <1>1 DEF Kept, Why
<1>7. Leaves(r) => Picture.status # "CONNECTED"
  BY <1>1
<1>8. Ordered => Ordered'
  BY <1>1, <1>4, <1>5, OrderStays
<1>9. (\A i \in DOMAIN Ahead' : ~Resets(Ahead'[i])) => \A i \in DOMAIN Ahead : ~Resets(Ahead[i])
  BY <1>3, <1>5
<1>10. UntouchedInv => UntouchedInv'
  <2> SUFFICES ASSUME UntouchedInv PROVE UntouchedInv'
    OBVIOUS
  <2>1. Foreseen'
    BY <1>1, <1>4, <1>9 DEF UntouchedInv, Foreseen
  <2>2. Shown'
    BY <1>1, <1>2 DEF Shown, DeviceTypes
  <2> QED
    BY <1>1, <1>2, <1>4, <1>8, <2>1, <2>2 DEF UntouchedInv
<1>11. Forgotten /\ ForgottenInv => Ahead' # <<>>
  <2> SUFFICES ASSUME Forgotten, ForgottenInv, Ahead' = <<>> PROVE FALSE
    OBVIOUS
  <2>1. r[1] = "DISCONNECTED" /\ r[3] # "NEW_ACTIVATION"
    BY <1>2 DEF Forgotten
  <2>2. ASSUME Warned PROVE FALSE
    <3>1. Len(Ahead) >= Len(stateQ) + 2
      BY <1>1, <2>2, WarnedAhead
    <3>2. Len(Ahead) = 1 /\ Len(stateQ) \in Nat
      BY <1>1, <1>2
    <3> QED
      BY <3>1, <3>2
  <2>3. \A i \in DOMAIN Ahead : i = 1
    BY <1>2, <1>3
  <2>4. ~ \E i \in DOMAIN Ahead : Resets(Ahead[i])
    BY <1>5, <2>3
  <2>5. ASSUME NEW i \in DOMAIN Ahead, i < Len(Ahead) PROVE FALSE
    <3>1. i = 1 /\ Len(Ahead) = 1
      BY <1>2, <2>3
    <3> QED
      BY <2>5, <3>1
  <2> QED
    BY <1>6, <2>1, <2>2, <2>4, <2>5 DEF ForgottenInv
<1>12. (Forgotten => ForgottenInv) => Settled'
  <2> SUFFICES ASSUME Ahead' = <<>>, Forgotten => ForgottenInv PROVE FALSE
    BY DEF Settled
  <2>1. dev = "DISCONNECTED"
    BY <1>1, <1>2 DEF DeviceTypes
  <2>2. r[3] = "CONNECTION_REMOVED"
    BY <1>2, <1>6, <2>1
  <2>3. Forgotten
    BY <1>2, <2>1, <2>2 DEF Forgotten
  <2> QED
    BY <1>11, <2>3
<1>13. ForgottenInv => ForgottenInv'
  <2> SUFFICES ASSUME ForgottenInv PROVE ForgottenInv'
    OBVIOUS
  <2>1. ASSUME NEW i \in DOMAIN Ahead, Resets(Ahead[i])
        PROVE  \E j \in DOMAIN Ahead' : Resets(Ahead'[j])
    BY <1>3, <1>5, <2>1
  <2>2. ASSUME NEW i \in DOMAIN Ahead, i < Len(Ahead), Leaves(Ahead[i]), Picture.status = "CONNECTED"
        PROVE  \E j \in DOMAIN Ahead' : j < Len(Ahead') /\ Leaves(Ahead'[j])
    <3>1. i # 1 /\ i - 1 \in DOMAIN Ahead' /\ Ahead'[i - 1] = Ahead[i]
      BY <1>3, <1>7, <2>2
    <3>2. i - 1 < Len(Ahead')
      BY <1>3, <2>2
    <3> QED
      BY <2>2, <3>1, <3>2
  <2>3. Warned' = Warned
    BY <1>1, <1>4 DEF Warned
  <2> QED
    BY <1>1, <1>4, <1>8, <2>1, <2>2, <2>3 DEF ForgottenInv
<1> QED
  BY <1>1, <1>2, <1>4, <1>10, <1>12, <1>13 DEF WifiInv, WifiTypes

(* A network that is being set up, or that the device is on.               *)
LEMMA PreparingKeeps ==
  ASSUME WifiInv, Preparing, reread' = (reread \/ \E u \in Callers : job'[u].do = "resync")
  PROVE  WifiInv'
<1> DEFINE r == Ahead[1]
<1>1. /\ DeviceTypes /\ Queued /\ PictureTypes /\ Told /\ ThreadTypes' /\ UserInv'
      /\ (Untouched' <=> Untouched) /\ (Once' <=> Once)
      /\ UNCHANGED <<dev, active, saved, volatile, wire, removedQ, newQ, connections, wifi>>
      /\ DeviceTypes' /\ Queued' /\ NoGhosts' /\ Coming' = Coming /\ Plain' = Plain
      /\ FirstGone /\ r \in Reports /\ r[1] \in {"PREPARE", "CONFIG"}
      /\ mon.at = "state" /\ Picture = wifi
  BY Handling DEF Preparing
<1>2. /\ Ahead' = <<>> => dev = r[1]
      /\ Ahead # <<>> /\ Told' /\ (Forgotten' => Forgotten) /\ (Unforced => Unforced')
  BY <1>1, OthersStay
<1>3. /\ \A i \in DOMAIN Ahead : i = 1 \/ (i - 1 \in DOMAIN Ahead' /\ Ahead'[i - 1] = Ahead[i])
      /\ DOMAIN Ahead = 1 .. Len(Ahead) /\ DOMAIN Ahead' = 1 .. Len(Ahead) - 1
      /\ Len(Ahead) \in Nat \ {0} /\ Len(Ahead') = Len(Ahead) - 1
  BY <1>1, OthersStay
<1>4. /\ mon' = [mon EXCEPT !.next = [wifi EXCEPT !.status = "CONNECTING"],
                            !.at = IF wifi.ssid # NoSsid THEN "store" ELSE "ask"]
      /\ wifi.ssid = NoSsid => Monitor \in epochs'
  BY DEF Preparing
<1>5. /\ mon' \in [at : {"recv", "new", "state", "ask", "store", "save"}, next : Pictures, path : Paths \cup {NoSsid}]
      /\ mon'.at = IF wifi.ssid # NoSsid THEN "store" ELSE "ask"
      /\ mon'.next = [wifi EXCEPT !.status = "CONNECTING"]
      /\ mon'.next.ssid = wifi.ssid /\ mon'.next.status = "CONNECTING"
  BY <1>1, <1>4 DEF PictureTypes, Pictures
<1>6. /\ Picture' = mon'.next /\ Picture'.ssid = Picture.ssid /\ Picture'.status = "CONNECTING"
      /\ mon'.at = "ask" <=> Picture.ssid = NoSsid
  BY <1>1, <1>5 DEF Picture
<1>7. PictureTypes' /\ Watchful'
  BY <1>1, <1>4, <1>5 DEF PictureTypes, Watchful
<1>8. ~Resets(r) /\ ~Leaves(r)
  BY <1>1 DEF Resets, Leaves
<1>9. Ordered => Ordered'
  BY <1>1, <1>6, OrderStays
<1>10. (\A i \in DOMAIN Ahead' : ~Resets(Ahead'[i])) => \A i \in DOMAIN Ahead : ~Resets(Ahead[i])
  BY <1>3, <1>8
<1>11. UntouchedInv => UntouchedInv'
  <2> SUFFICES ASSUME UntouchedInv PROVE UntouchedInv'
    OBVIOUS
  <2>1. Len(Ahead) \in DOMAIN Ahead
    BY <1>3
  <2>2. (\A i \in DOMAIN Ahead : ~Resets(Ahead[i]))
          => dev # "DISCONNECTED" /\ Picture.ssid \in {NoSsid, active.ssid}
    BY <1>1, <1>2, <2>1, LastResets DEF UntouchedInv, Foreseen
  <2>3. Foreseen'
    BY <1>1, <1>6, <1>10, <2>2 DEF Foreseen
  <2>4. Ahead' = <<>> => \A i \in DOMAIN Ahead' : ~Resets(Ahead'[i])
    OBVIOUS
  <2>5. Shown'
    BY <1>1, <1>2, <1>6, <1>10, <2>2, <2>4 DEF Shown
  <2> QED
    BY <1>1, <1>2, <1>7, <1>9, <2>3, <2>5 DEF UntouchedInv
<1>12. Settled'
  BY <1>1, <1>2 DEF Settled
<1>13. ForgottenInv => ForgottenInv'
  <2> SUFFICES ASSUME ForgottenInv PROVE ForgottenInv'
    OBVIOUS
  <2>1. ASSUME NEW i \in DOMAIN Ahead, Resets(Ahead[i])
        PROVE  \E j \in DOMAIN Ahead' : Resets(Ahead'[j])
    BY <1>3, <1>8, <2>1
  <2>2. Picture.status # "CONNECTED"
    <3> SUFFICES ASSUME Picture.status = "CONNECTED" PROVE FALSE
      OBVIOUS
    <3>1. 1 \in DOMAIN Ahead /\ \A k \in DOMAIN Ahead : ~ (k < 1)
      BY <1>3
    <3>2. InOrder(Ahead, Picture.status)
      BY DEF ForgottenInv, Ordered
    <3> QED
      BY <1>1, <3>1, <3>2 DEF InOrder
  <2>3. Warned' = Warned
    BY <1>1, <1>6 DEF Warned
  <2> QED
    BY <1>1, <1>6, <1>7, <1>9, <2>1, <2>2, <2>3 DEF ForgottenInv
<1> QED
  BY <1>1, <1>2, <1>7, <1>11, <1>12, <1>13 DEF WifiInv, WifiTypes

(* The device is on a network: its name is asked for.                      *)
LEMMA ActivatedKeeps ==
  ASSUME WifiInv, Activated, reread' = (reread \/ \E u \in Callers : job'[u].do = "resync")
  PROVE  WifiInv'
<1> DEFINE r == Ahead[1]
<1>1. /\ DeviceTypes /\ Queued /\ PictureTypes /\ Told /\ ThreadTypes' /\ UserInv'
      /\ (Untouched' <=> Untouched) /\ (Once' <=> Once)
      /\ UNCHANGED <<dev, active, saved, volatile, wire, removedQ, newQ, connections, wifi>>
      /\ DeviceTypes' /\ Queued' /\ NoGhosts' /\ Coming' = Coming /\ Plain' = Plain
      /\ FirstGone /\ r \in Reports /\ r[1] = "ACTIVATED"
      /\ mon.at = "state" /\ Picture = wifi
  BY Handling DEF Activated
<1>2. /\ Ahead' = <<>> => dev = r[1]
      /\ Ahead # <<>> /\ Told' /\ (Forgotten' => Forgotten) /\ (Unforced => Unforced')
  BY <1>1, OthersStay
<1>3. /\ \A i \in DOMAIN Ahead : i = 1 \/ (i - 1 \in DOMAIN Ahead' /\ Ahead'[i - 1] = Ahead[i])
      /\ DOMAIN Ahead = 1 .. Len(Ahead) /\ DOMAIN Ahead' = 1 .. Len(Ahead) - 1
      /\ Len(Ahead) \in Nat \ {0} /\ Len(Ahead') = Len(Ahead) - 1
  BY <1>1, OthersStay
<1>4. /\ mon' = [mon EXCEPT !.next = [wifi EXCEPT !.status = "CONNECTED"], !.at = "ask"]
      /\ Monitor \in epochs'
  BY DEF Activated
<1>5. /\ mon' \in [at : {"recv", "new", "state", "ask", "store", "save"}, next : Pictures, path : Paths \cup {NoSsid}]
      /\ mon'.at = "ask" /\ mon'.next = [wifi EXCEPT !.status = "CONNECTED"]
      /\ mon'.next.ssid = wifi.ssid /\ mon'.next.status = "CONNECTED"
  BY <1>1, <1>4 DEF PictureTypes, Pictures
<1>6. Picture' = mon'.next /\ Picture'.ssid = Picture.ssid /\ Picture'.status = "CONNECTED"
  BY <1>1, <1>5 DEF Picture
<1>7. PictureTypes' /\ Watchful'
  BY <1>1, <1>4, <1>5 DEF PictureTypes, Watchful
<1>8. ~Resets(r) /\ ~Leaves(r)
  BY <1>1 DEF Resets, Leaves
<1>9. Ordered => Ordered'
  BY <1>1, OrderStays
<1>10. (\A i \in DOMAIN Ahead' : ~Resets(Ahead'[i])) => \A i \in DOMAIN Ahead : ~Resets(Ahead[i])
  BY <1>3, <1>8
<1>11. UntouchedInv => UntouchedInv'
  <2> SUFFICES ASSUME UntouchedInv PROVE UntouchedInv'
    OBVIOUS
  <2>1. Len(Ahead) \in DOMAIN Ahead
    BY <1>3
  <2>2. (\A i \in DOMAIN Ahead : ~Resets(Ahead[i]))
          => dev # "DISCONNECTED" /\ Picture.ssid \in {NoSsid, active.ssid}
    BY <1>1, <1>2, <2>1, LastResets DEF UntouchedInv, Foreseen
  <2>3. Foreseen'
    BY <1>1, <1>6, <1>10, <2>2 DEF Foreseen
  <2>4. Shown'
    BY <1>1, <1>2, <1>5, <1>6 DEF Shown
  <2> QED
    BY <1>1, <1>2, <1>7, <1>9, <2>3, <2>4 DEF UntouchedInv
<1>12. Settled'
  BY <1>1, <1>2, <1>4, <1>5, <1>6 DEF Settled
<1>13. ForgottenInv => ForgottenInv'
  <2> SUFFICES ASSUME ForgottenInv PROVE ForgottenInv'
    OBVIOUS
  <2>1. ASSUME NEW i \in DOMAIN Ahead, Resets(Ahead[i])
        PROVE  \E j \in DOMAIN Ahead' : Resets(Ahead'[j])
    BY <1>3, <1>8, <2>1
  <2>2. ASSUME NEW i \in DOMAIN Ahead, i < Len(Ahead), Leaves(Ahead[i])
        PROVE  \E j \in DOMAIN Ahead' : j < Len(Ahead') /\ Leaves(Ahead'[j])
    <3>1. i # 1 /\ i - 1 \in DOMAIN Ahead' /\ Ahead'[i - 1] = Ahead[i]
      BY <1>3, <1>8, <2>2
    <3>2. i - 1 < Len(Ahead')
      BY <1>3, <2>2
    <3> QED
      BY <2>2, <3>1, <3>2
  <2>3. Warned' = Warned
    BY <1>1, <1>6 DEF Warned
  <2> QED
    BY <1>1, <1>6, <1>7, <1>9, <2>1, <2>2, <2>3 DEF ForgottenInv
<1> QED
  BY <1>1, <1>2, <1>7, <1>11, <1>12, <1>13 DEF WifiInv, WifiTypes

(* The reports that may clear the picture.                                 *)
LEMMA HandlingKeeps ==
  ASSUME WifiInv, reread' = (reread \/ \E u \in Callers : job'[u].do = "resync"),
         Disconnected \/ Failing \/ Deactivating
  PROVE  WifiInv'
<1>1. Handles({"DISCONNECTED", "NEED_AUTH", "FAILED", "DEACTIVATING"})
  BY DEF Disconnected, Failing, Deactivating, Handles
<1>2. CASE Clears
  BY <1>1, <1>2, ClearedKeeps
<1>3. CASE ~Clears
  <2>1. UNCHANGED <<mon, epochs>>
    BY <1>3 DEF Disconnected, Failing, Deactivating
  <2>2. Head(stateQ)[1] = "DISCONNECTED" => Kept
    BY <1>3 DEF Disconnected, Failing, Deactivating, Handles
  <2>3. Leaves(Head(stateQ)) => wifi.status # "CONNECTED"
    BY <1>3 DEF Disconnected, Failing, Deactivating, Handles, Leaves, Why
  <2> QED
    BY <1>1, <2>1, <2>2, <2>3, PassedOverKeeps
<1> QED
  BY <1>2, <1>3

(* The steps of the monitor, ...                                           *)
LEMMA MonitorKeeps ==
  ASSUME WifiInv, MonitorStep, reread' = (reread \/ \E u \in Callers : job'[u].do = "resync")
  PROVE  WifiInv'
<1>1. CASE Receive
  BY <1>1, ReceiveKeeps
<1>2. CASE NewConnection
  BY <1>2, NewConnectionKeeps
<1>3. CASE Turn \/ Store
  BY <1>3, MoveKeeps
<1>4. CASE Disconnected \/ Failing \/ Deactivating
  BY <1>4, HandlingKeeps
<1>5. CASE Preparing
  BY <1>5, PreparingKeeps
<1>6. CASE Activated
  BY <1>6, ActivatedKeeps
<1>7. CASE LookUp
  BY <1>7, LookUpKeeps
<1>8. CASE Save
  BY <1>8, SaveKeeps
<1> QED
  BY <1>1, <1>2, <1>3, <1>4, <1>5, <1>6, <1>7, <1>8 DEF MonitorStep

(* ... and of a thread.                                                    *)
LEMMA ThreadKeeps ==
  ASSUME WifiInv, NEW t \in Callers, Step(t), reread' = (reread \/ \E u \in Callers : job'[u].do = "resync")
  PROVE  WifiInv'
<1>1. CASE ForgetConnection(t)
  BY <1>1, ForgetKeeps
<1>2. CASE AddAndActivate(t) \/ ActivateConnection(t)
  BY <1>2, SwitchKeeps
<1>3. CASE DeactivateConnection(t)
  BY <1>3, DeactivateKeeps
<1>4. CASE RequestFails(t) \/ ReadDevice(t) \/ FindConnection(t) \/ StoreState(t)
  BY <1>4, RereadKeeps
<1> QED
  BY <1>1, <1>2, <1>3, <1>4 DEF Step
-----------------------------------------------------------------------------
(* The theorem.                                                            *)
LEMMA WifiInitInv == WifiInit /\ reread = FALSE => WifiInv
<1> SUFFICES ASSUME WifiInit, reread = FALSE PROVE WifiInv
  OBVIOUS
<1>1. /\ dev = "DISCONNECTED" /\ active = NoSsid /\ volatile = {}
      /\ wire = <<>> /\ removedQ = <<>> /\ newQ = <<>> /\ stateQ = <<>> /\ mon = Listening
      /\ wifi = Nowhere /\ ui = Idle /\ taps = 0 /\ job = [t \in Callers |-> Idle]
  BY DEF WifiInit
<1>2. PICK names \in SUBSET Ssids : saved = {[ssid |-> s, n |-> 0] : s \in names}
  BY DEF WifiInit
<1>3. saved \subseteq Paths /\ \A p \in saved : p.ssid \in Ssids /\ p = [ssid |-> p.ssid, n |-> 0]
  BY <1>2, WifiAssumption DEF Paths
<1>4. /\ connections \in [Ssids -> Paths \cup {NoSsid}]
      /\ \A s \in Ssids : connections[s] # NoSsid => connections[s].ssid = s /\ connections[s] \in saved
      /\ \A p \in saved : connections[p.ssid] = p
  <2>1. connections = [s \in Ssids |-> IF [ssid |-> s, n |-> 0] \in saved THEN [ssid |-> s, n |-> 0] ELSE NoSsid]
    BY DEF WifiInit
  <2>2. \A s \in Ssids : [ssid |-> s, n |-> 0] \in Paths
    BY WifiAssumption DEF Paths
  <2> QED
    BY <1>3, <2>1, <2>2
<1>5. Ahead = <<>> /\ Leaving = <<>> /\ Coming = <<>>
  <2>1. OfKind("state", <<>>) = <<>> /\ OfKind("removed", <<>>) = <<>> /\ OfKind("new", <<>>) = <<>>
    BY OfKindOne
  <2> QED
    BY <1>1, <2>1 DEF Ahead, Leaving, Coming
<1>6. DeviceTypes /\ Queued
  BY <1>1, <1>3 DEF DeviceTypes, Queued
<1>7. mon.at = "recv" /\ mon.next = Nowhere /\ Picture = Nowhere
  BY <1>1 DEF Listening, Picture
<1>8. PictureTypes
  BY <1>1, <1>4, DoTypes DEF PictureTypes, Listening
<1>9. ThreadTypes /\ UserInv /\ ~Requested
  BY <1>1, DoTypes DEF ThreadTypes, UserInv, Requested
<1>10. Told /\ ~Forgotten /\ NoGhosts
  BY <1>4, <1>5 DEF Told, Forgotten, NoGhosts
<1>11. Settled
  BY <1>1, <1>7 DEF Settled
<1>12. UntouchedInv
  <2>1. Plain /\ Unforced /\ Watchful
    BY <1>1, <1>4, <1>5, <1>7 DEF Plain, Unforced, Watchful
  <2>2. Foreseen /\ Shown
    BY <1>1, <1>7 DEF Foreseen, Shown
  <2>3. Ordered
    BY <1>5 DEF Ordered, InOrder
  <2> QED
    BY <2>1, <2>2, <2>3 DEF UntouchedInv
<1> QED
  BY <1>6, <1>8, <1>9, <1>10, <1>11, <1>12 DEF WifiInv, WifiTypes

(* A step of another service.                                              *)
LEMMA WifiStays == WifiInv /\ UNCHANGED wifiAll => WifiInv'
<1> SUFFICES ASSUME WifiInv, UNCHANGED wifiAll PROVE WifiInv'
  OBVIOUS
<1>1. /\ UNCHANGED <<dev, active, saved, volatile, wire, removedQ, newQ, stateQ, mon, connections, wifi, epochs>>
      /\ UNCHANGED <<ui, taps, job, reread>>
  BY DEF wifiAll, wifiVars, manager, monitor, user
<1>2. /\ DeviceTypes' = DeviceTypes /\ Queued' = Queued /\ Told' = Told /\ Departed' = Departed
  BY <1>1, QueuesKept
<1>3. /\ UntouchedInv' = UntouchedInv /\ Settled' = Settled
      /\ Forgotten' = Forgotten /\ ForgottenInv' = ForgottenInv
  BY <1>1, MonitorKept
<1>4. PictureTypes' = PictureTypes /\ NoGhosts' = NoGhosts
  BY <1>1, <1>2 DEF PictureTypes, NoGhosts
<1>5. /\ ThreadTypes' = ThreadTypes /\ UserInv' = UserInv
      /\ Untouched' = Untouched /\ Once' = Once
  BY <1>1 DEF ThreadTypes, UserInv, Untouched, Requested, Once, Busy
<1> QED
  BY <1>2, <1>3, <1>4, <1>5 DEF WifiInv, WifiTypes

(* Whenever the monitor has caught up, no network it calls saved is gone;  *)
(* it shows where the device is if the user did nothing, and when the      *)
(* device is on a network or off if he did one thing that is done and no   *)
(* thread read the state back - but for the name of a connection.          *)
THEOREM PictureTrueSafe == ServiceSpec => []PictureTrue
<1>1. ServiceInit => WifiInv
  BY WifiInitInv DEF ServiceInit
<1>2. WifiInv /\ [ServiceNext]_serviceVars => WifiInv'
  <2> SUFFICES ASSUME WifiInv, [ServiceNext]_serviceVars PROVE WifiInv'
    OBVIOUS
  <2>1. WifiObserved \/ UNCHANGED wifiAll
    BY DEF ServiceNext, serviceVars
  <2>2. CASE WifiObserved
    <3>1. WifiNext /\ reread' = (reread \/ \E u \in Callers : job'[u].do = "resync")
      BY <2>2 DEF WifiObserved
    <3>2. CASE OfItself
      BY <3>1, <3>2, ItselfKeeps
    <3>3. CASE UserStep
      BY <3>1, <3>3, UserKeeps
    <3>4. CASE MonitorStep
      BY <3>1, <3>4, MonitorKeeps
    <3>5. CASE \E t \in Callers : Step(t)
      BY <3>1, <3>5, ThreadKeeps
    <3> QED
      BY <3>1, <3>2, <3>3, <3>4, <3>5 DEF WifiNext
  <2> QED
    BY <2>1, <2>2, WifiStays
<1>3. WifiInv => PictureTrue
  <2> DEFINE truth == IF dev = "DISCONNECTED" THEN Nowhere
                      ELSE [ssid |-> active.ssid,
                            status |-> IF dev = "ACTIVATED" THEN "CONNECTED" ELSE "CONNECTING"]
  <2> SUFFICES ASSUME WifiInv, CaughtUp
               PROVE  /\ \A s \in Ssids : connections[s] # NoSsid => connections[s] \in saved
                      /\ taps = 0 => wifi = truth
                      /\ /\ taps = 1 /\ ~reread /\ ui = Idle /\ \A t \in Callers : job[t] = Idle
                         /\ dev \in {"DISCONNECTED", "ACTIVATED"}
                         => wifi \in {truth, [truth EXCEPT !.ssid = NoSsid]}
    BY DEF PictureTrue
  <2>1. wire = <<>> /\ removedQ = <<>> /\ newQ = <<>> /\ stateQ = <<>> /\ mon.at = "recv" /\ Picture = wifi
    BY DEF CaughtUp, Picture
  <2>2. Ahead = <<>> /\ Leaving = <<>> /\ Departed = {}
    <3>1. OfKind("state", <<>>) = <<>> /\ OfKind("removed", <<>>) = <<>>
      BY OfKindOne
    <3> QED
      BY <2>1, <3>1 DEF Ahead, Leaving, Departed
  <2>3. wifi = [ssid |-> wifi.ssid, status |-> wifi.status]
    BY DEF WifiInv, WifiTypes, PictureTypes, Pictures
  <2>4. \A s \in Ssids : connections[s] # NoSsid => connections[s] \in saved
    BY <2>2 DEF WifiInv, NoGhosts
  <2>5. ASSUME taps = 0 PROVE wifi = truth
    <3>1. Foreseen /\ Shown
      BY <2>5 DEF WifiInv, Untouched, UntouchedInv
    <3> QED
      BY <2>1, <2>2, <2>3, <3>1 DEF Foreseen, Shown
  <2>6. ASSUME taps = 1, ~reread, ui = Idle, \A t \in Callers : job[t] = Idle,
               dev \in {"DISCONNECTED", "ACTIVATED"}
        PROVE  wifi \in {truth, [truth EXCEPT !.ssid = NoSsid]}
    <3>1. Settled
      BY <2>6, DoTypes DEF WifiInv, Once, Busy
    <3>2. CASE dev = "DISCONNECTED"
      BY <2>1, <2>2, <3>1, <3>2 DEF Settled
    <3>3. CASE dev = "ACTIVATED"
      <4>1. wifi.status = "CONNECTED" /\ wifi.ssid \in {NoSsid, active.ssid}
        BY <2>1, <2>2, <3>1, <3>3 DEF Settled
      <4>2. /\ truth = [ssid |-> active.ssid, status |-> "CONNECTED"]
            /\ [truth EXCEPT !.ssid = NoSsid] = [ssid |-> NoSsid, status |-> "CONNECTED"]
        BY <3>3
      <4> QED
        BY <2>3, <4>1, <4>2
    <3> QED
      BY <2>6, <3>2, <3>3
  <2> QED
    BY <2>4, <2>5, <2>6
<1> QED
  BY <1>1, <1>2, <1>3, PTL DEF ServiceSpec
=============================================================================
