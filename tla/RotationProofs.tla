--------------------------- MODULE RotationProofs ---------------------------
(***************************************************************************)
(* Theorems about Rotation: that loggerd follows the encoders segment by   *)
(* segment, for every number of cameras that stop and come back at any     *)
(* time, and every length of a segment.                                    *)
(***************************************************************************)
EXTENDS ServiceChecks, FiniteSetTheorems, TLAPS

(* Where an encoder is, by loggerd's count.                                *)
Rel(e) == encSeg[e] - offset[e]

RotTypes ==
  /\ now \in Nat /\ encStart \in Nat /\ encStart <= now /\ part \in Nat /\ ready \in Nat
  /\ encSeg \in [Encoders -> Nat] /\ offset \in [Encoders -> Int]
  /\ current \in [Encoders -> Int] /\ queued \in [Encoders -> Seq(Int)]
  /\ ahead \subseteq known /\ known \subseteq Encoders
  /\ orderly \in BOOLEAN
  /\ now = encStart => \A e \in Encoders : encSeg[e] = 0

(* A packet that waits is of a segment its encoder has reached, but not of *)
(* one before the segment that loggerd will write it into.                 *)
Waiting(e, first) ==
  /\ Rel(e) >= first
  /\ \A i \in 1 .. Len(queued[e]) : queued[e][i] >= first /\ queued[e][i] <= Rel(e)

(* While the encoders end the segments: one that is not ahead is in        *)
(* loggerd's segment; one that is ahead was in that one before, and counts,*)
(* or in the one before it, and does not count until it has come along.    *)
(* Stated of a segment and a count, as between a message and the rotation  *)
(* that it brings about.                                                   *)
OrderlyAt(segment, count) ==
  /\ count = Cardinality({e \in ahead : current[e] = segment})
  /\ segment > 0 => known = Encoders
  /\ \A e \in Encoders \ ahead : queued[e] = <<>>
  /\ \A e \in known \ ahead : Rel(e) = segment /\ current[e] = segment
  /\ \A e \in ahead : \/ current[e] = segment /\ Waiting(e, segment + 1)
                      \/ current[e] = segment - 1 /\ Waiting(e, segment)

Orderly == OrderlyAt(part, ready)

RotInv == RotTypes /\ (orderly => Orderly)
-----------------------------------------------------------------------------
LEMMA RotInitInv == RotInit /\ orderly = TRUE => RotInv
<1> SUFFICES ASSUME RotInit, orderly = TRUE PROVE RotInv
  OBVIOUS
<1>1. RotTypes
  BY DEF RotInit, RotTypes
<1>2. {e \in ahead : current[e] = part} = {} /\ Cardinality({}) = 0
  BY FS_EmptySet DEF RotInit
<1>3. Orderly
  BY <1>2 DEF RotInit, Orderly, OrderlyAt
<1> QED
  BY <1>1, <1>3 DEF RotInv

(* Encoders are counted like any finite set: as many as there are only     *)
(* when all are, and one more with one that was not among them.            *)
LEMMA Counting ==
  ASSUME NEW S \in SUBSET Encoders
  PROVE  /\ IsFiniteSet(S) /\ Cardinality(S) \in Nat
         /\ Cardinality(S) = Cardinality(Encoders) => S = Encoders
         /\ \A e \in Encoders \ S : Cardinality(S \cup {e}) = Cardinality(S) + 1
<1>1. IsFiniteSet(S) /\ Cardinality(S) \in Nat
  BY RotationAssumption, FS_Subset, FS_CardinalityType
<1>2. Cardinality(S) = Cardinality(Encoders) => S = Encoders
  BY RotationAssumption, FS_Subset
<1>3. \A e \in Encoders \ S : Cardinality(S \cup {e}) = Cardinality(S) + 1
  BY <1>1, FS_AddElement
<1> QED
  BY <1>1, <1>2, <1>3

(* An encoder's count of segments only grows, and is zero until a tick     *)
(* passed since encoderd was started.                                      *)
LEMMA Frames ==
  ASSUME RotTypes, NEW e \in Encoders
  PROVE  /\ NextSeg(e) \in Nat /\ NextSeg(e) >= encSeg[e]
         /\ now = encStart => NextSeg(e) = 0
<1>1. encSeg[e] \in Nat /\ now - encStart \in Nat /\ SegTicks \in Nat \ {0}
  BY RotationAssumption DEF RotTypes
<1>2. PICK x \in Nat, k \in Nat \ {0} : x = now - encStart /\ k = SegTicks
  BY <1>1
<1>3. x \div k \in Nat /\ (x = 0 => x \div k = 0)
  <2>1. \A v \in Nat, y \in Nat \ {0} : v \div y \in Nat
    OBVIOUS
  <2>2. \A y \in Nat \ {0} : 0 \div y = 0
    OBVIOUS
  <2> QED
    BY <1>2, <2>1, <2>2
<1>4. Due(e) = x \div k
  BY <1>2 DEF Due
<1>5. now = encStart => x = 0 /\ encSeg[e] = 0
  BY <1>2 DEF RotTypes
<1> QED
  BY <1>1, <1>3, <1>4, <1>5 DEF NextSeg

LEMMA RotTypesKept == RotTypes /\ RotObserved => RotTypes'
<1> SUFFICES ASSUME RotTypes, RotObserved PROVE RotTypes'
  OBVIOUS
<1>1. orderly' \in BOOLEAN
  BY Zenon DEF RotTypes, RotObserved
<1>2. ASSUME NEW e \in Encoders, Packet(e) PROVE RotTypes'
  <2>1. PICK n \in Nat : n = NextSeg(e) /\ (now = encStart => n = 0)
    BY Frames
  <2>2. Offset(e, n) \in Int
    BY DEF Offset, RotTypes
  <2>3. \A s \in Seq(Int), v \in Int : Append(s, v) \in Seq(Int)
    OBVIOUS
  <2>4. Matches(e, n) \/ Runs(e, n) \/ Lags(e, n)
    BY <1>2, <2>1 DEF Packet
  <2>5. /\ offset' \in [Encoders -> Int] /\ current' \in [Encoders -> Int]
        /\ ahead' \subseteq known \cup {e}
    BY <2>2, <2>4 DEF Matches, Runs, Lags, RotTypes
  <2>6. queued' \in [Encoders -> Seq(Int)]
    <3>1. CASE Matches(e, n)
      BY <3>1 DEF Matches, RotTypes
    <3>2. CASE Runs(e, n)
      <4>1. n - Offset(e, n) \in Int /\ queued[e] \in Seq(Int)
        BY <2>2 DEF RotTypes
      <4>2. Append(queued[e], n - Offset(e, n)) \in Seq(Int)
        BY <4>1, <2>3
      <4> QED
        BY <3>2, <4>1, <4>2 DEF Runs, RotTypes
    <3>3. CASE Lags(e, n)
      BY <3>3 DEF Lags, RotTypes
    <3> QED
      BY <2>4, <3>1, <3>2, <3>3
  <2>7. part' \in Nat /\ ready' \in Nat
    BY <2>4 DEF Matches, Runs, Lags, Rotate, Counted, RotTypes
  <2>8. encSeg' \in [Encoders -> Nat] /\ known' \subseteq Encoders /\ known' = known \cup {e}
    BY <1>2, <2>1 DEF Packet, RotTypes
  <2>9. now' = now /\ encStart' = encStart
    BY <1>2 DEF Packet
  <2>10. now' = encStart' => \A x \in Encoders : encSeg'[x] = 0
    BY <1>2, <2>1, <2>9 DEF Packet, RotTypes
  <2> QED
    BY <1>1, <2>5, <2>6, <2>7, <2>8, <2>9, <2>10 DEF RotTypes
<1>3. ASSUME Other PROVE RotTypes'
  BY <1>1, <1>3 DEF Other, Rotate, RotTypes
<1>4. ASSUME Tick PROVE RotTypes'
  BY <1>1, <1>4 DEF Tick, RotTypes
<1>5. ASSUME RestartEncoders PROVE RotTypes'
  BY <1>1, <1>5 DEF RestartEncoders, RotTypes
<1>6. ASSUME NEW e \in Encoders, Stop(e) \/ Resume(e) PROVE RotTypes'
  BY <1>1, <1>6 DEF Stop, Resume, RotTypes
<1> QED
  BY <1>2, <1>3, <1>4, <1>5, <1>6 DEF RotObserved, RotNext
-----------------------------------------------------------------------------
(* After a message, with p for the segment loggerd was in and r for what   *)
(* it has counted: when all have come along they are in order in the next  *)
(* segment too, and none of them counts there yet.                         *)
LEMMA RotationKeeps ==
  ASSUME NEW p \in Nat, NEW r \in Nat, p = part, Rotate(r), part' # part => ~TimedOut,
         RotTypes', OrderlyAt(p, r)'
  PROVE  Orderly'
<1> DEFINE Counts == {e \in ahead : current[e] = p}
<1>1. r = Cardinality(Counts') /\ Counts' \in SUBSET Encoders
  BY DEF OrderlyAt, RotTypes
<1>2. CASE Rotates(r)
  <2>1. part' = p + 1 /\ ready' = 0 /\ r = Cardinality(Encoders)
    BY <1>2 DEF Rotate, Rotates
  <2>2. Counts' = Encoders
    BY <1>1, <2>1, Counting
  <2>3. ahead' = Encoders /\ known' = Encoders /\ \A e \in Encoders : current'[e] = p
    BY <2>2 DEF RotTypes
  <2>4. {e \in ahead' : current'[e] = part'} = {}
    BY <2>1, <2>3
  <2>5. Cardinality({}) = 0
    BY FS_EmptySet
  <2>6. \A e \in Encoders : Waiting(e, p + 1)'
    BY <2>3 DEF OrderlyAt
  <2>7. \A e \in ahead' : current'[e] = part' - 1 /\ Waiting(e, part)'
    BY <2>1, <2>3, <2>6 DEF Waiting, Rel
  <2> QED
    BY <2>1, <2>3, <2>4, <2>5, <2>7 DEF Orderly, OrderlyAt
<1>3. CASE ~Rotates(r)
  <2>1. part' = p /\ ready' = r
    BY <1>3 DEF Rotate
  <2> QED
    BY <2>1 DEF Orderly, OrderlyAt, Waiting, Rel
<1> QED
  BY <1>2, <1>3

(* A packet of the segment its encoder is in is in order for loggerd.      *)
LEMMA MatchesKeeps ==
  ASSUME RotTypes, RotTypes', Orderly, NEW e \in Encoders, NEW n \in Nat, n >= encSeg[e],
         Matches(e, n), encSeg' = [encSeg EXCEPT ![e] = n], known' = known \cup {e},
         NEW p \in Nat, NEW r \in Nat, p = part, r = ready
  PROVE  /\ OrderlyAt(p, r)'
         /\ \A i \in 1 .. Len(queued[e]) : queued[e][i] = p
         /\ e \in known => offset'[e] = offset[e]
<1>1. Offset(e, n) \in Int /\ n - Offset(e, n) = p
  BY DEF Matches, Offset, RotTypes
<1>2. /\ offset'[e] = Offset(e, n) /\ current'[e] = p /\ queued'[e] = <<>> /\ encSeg'[e] = n
      /\ \A x \in Encoders \ {e} : /\ offset'[x] = offset[x] /\ current'[x] = current[x]
                                   /\ queued'[x] = queued[x] /\ encSeg'[x] = encSeg[x]
  BY DEF Matches, RotTypes
<1>3. Rel(e)' = p /\ \A x \in Encoders \ {e} : Rel(x)' = Rel(x)
  BY <1>1, <1>2 DEF Rel
<1>4. e \in ahead => current[e] = p - 1 /\ Waiting(e, p) /\ Rel(e) <= p
  <2> SUFFICES ASSUME e \in ahead PROVE current[e] = p - 1 /\ Waiting(e, p) /\ Rel(e) <= p
    OBVIOUS
  <2>1. Rel(e) <= p /\ Rel(e) \in Int
    BY <1>1 DEF Rel, Offset, RotTypes
  <2>2. ~Waiting(e, p + 1)
    BY <2>1 DEF Waiting
  <2> QED
    BY <2>1, <2>2 DEF Orderly, OrderlyAt
<1>5. ahead' = ahead \ {e}
  BY <1>4 DEF Matches, RotTypes
<1>6. {x \in ahead' : current'[x] = p} = {x \in ahead : current[x] = p}
  <2>1. \A x \in ahead' : x \in Encoders \ {e} /\ x \in ahead /\ current'[x] = current[x]
    BY <1>2, <1>5 DEF RotTypes
  <2>2. \A x \in ahead : current[x] = p => x \in ahead'
    BY <1>4, <1>5
  <2>3. \A x \in ahead : current[x] = p => current'[x] = p
    BY <2>1, <2>2
  <2> QED
    BY <2>1, <2>2, <2>3, Zenon
<1>7. p > 0 => known' = Encoders
  BY DEF Orderly, OrderlyAt, RotTypes
<1>8. \A x \in Encoders \ ahead' : queued'[x] = <<>>
  BY <1>2, <1>5 DEF Orderly, OrderlyAt
<1>9. \A x \in known' \ ahead' : Rel(x)' = p /\ current'[x] = p
  BY <1>2, <1>3, <1>5 DEF Orderly, OrderlyAt, RotTypes
<1>10. \A x \in ahead' : \/ current'[x] = p /\ Waiting(x, p + 1)'
                         \/ current'[x] = p - 1 /\ Waiting(x, p)'
  <2>1. \A x \in ahead' : x \in ahead /\ x \in Encoders \ {e}
    BY <1>5 DEF RotTypes
  <2>2. \A x \in ahead' : /\ current'[x] = current[x]
                         /\ Waiting(x, p)' = Waiting(x, p)
                         /\ Waiting(x, p + 1)' = Waiting(x, p + 1)
    BY <1>2, <1>3, <2>1 DEF Waiting
  <2> QED
    BY <2>1, <2>2 DEF Orderly, OrderlyAt
<1>11. \A i \in 1 .. Len(queued[e]) : queued[e][i] = p
  <2>1. CASE e \in ahead
    <3> TAKE i \in 1 .. Len(queued[e])
    <3>1. queued[e][i] >= p /\ queued[e][i] <= Rel(e) /\ Rel(e) <= p
      BY <1>4, <2>1 DEF Waiting
    <3>2. queued[e][i] \in Int /\ Rel(e) \in Int
      BY DEF RotTypes, Rel
    <3> QED
      BY <3>1, <3>2
  <2>2. CASE e \notin ahead
    BY <2>2 DEF Orderly, OrderlyAt
  <2> QED
    BY <2>1, <2>2
<1>12. e \in known => offset'[e] = offset[e]
  BY <1>2 DEF Offset
<1>13. OrderlyAt(p, r)'
  BY <1>6, <1>7, <1>8, <1>9, <1>10 DEF Orderly, OrderlyAt
<1> QED
  BY <1>11, <1>12, <1>13

(* A packet of a later segment counts its encoder, unless it counts, or    *)
(* has not come along yet.                                                 *)
LEMMA RunsKeeps ==
  ASSUME RotTypes, RotTypes', Orderly, NEW e \in Encoders, NEW n \in Nat, n >= encSeg[e],
         Runs(e, n), encSeg' = [encSeg EXCEPT ![e] = n], known' = known \cup {e},
         NEW p \in Nat, NEW r \in Nat, p = part, r = Counted(e)
  PROVE  /\ OrderlyAt(p, r)'
         /\ queued[e] # <<>> => queued'[e] # <<>>
         /\ offset' = offset
<1>1. e \in known /\ Offset(e, n) = offset[e] /\ offset[e] \in Int /\ n - offset[e] > p
  BY DEF Runs, Offset, RotTypes, Orderly, OrderlyAt
<1>2. PICK v \in Int : v = n - offset[e]
  BY <1>1
<1>3. offset' = offset /\ current' = current /\ ahead' = ahead \cup {e}
  BY <1>1 DEF Runs, RotTypes
<1>4. /\ encSeg'[e] = n /\ queued'[e] \in {queued[e], Append(queued[e], v)}
      /\ \A x \in Encoders \ {e} : queued'[x] = queued[x] /\ encSeg'[x] = encSeg[x]
  BY <1>1, <1>2 DEF Runs, RotTypes
<1>5. Rel(e)' = v /\ \A x \in Encoders \ {e} : Rel(x)' = Rel(x)
  BY <1>2, <1>3, <1>4 DEF Rel
<1>6. Rel(e) <= v /\ v > p /\ Rel(e) \in Int
  BY <1>1, <1>2 DEF Rel, RotTypes
<1>7. queued[e] \in Seq(Int)
  BY DEF RotTypes
<1>8. ASSUME NEW first \in Int, first <= v, e \in ahead => Waiting(e, first)
      PROVE  Waiting(e, first)'
  <2>1. \A i \in 1 .. Len(queued[e]) :
          queued[e][i] \in Int /\ queued[e][i] >= first /\ queued[e][i] <= v
    <3>1. CASE e \in ahead
      BY <1>6, <1>7, <1>8, <3>1 DEF Waiting
    <3>2. CASE e \notin ahead
      BY <3>2 DEF Orderly, OrderlyAt
    <3> QED
      BY <3>1, <3>2
  <2>2. CASE queued'[e] = queued[e]
    BY <1>5, <1>8, <2>1, <2>2 DEF Waiting
  <2>3. CASE queued'[e] = Append(queued[e], v)
    <3>1. Len(queued'[e]) = Len(queued[e]) + 1 /\ Len(queued[e]) \in Nat
      BY <1>7, <2>3
    <3>2. \A i \in 1 .. Len(queued[e]) + 1 :
            queued'[e][i] = IF i <= Len(queued[e]) THEN queued[e][i] ELSE v
      BY <1>7, <2>3
    <3>3. \A i \in 1 .. Len(queued'[e]) : queued'[e][i] >= first /\ queued'[e][i] <= v
      <4> TAKE i \in 1 .. Len(queued'[e])
      <4>1. i \in 1 .. Len(queued[e]) + 1
        BY <3>1
      <4>2. CASE i <= Len(queued[e])
        <5>1. i \in 1 .. Len(queued[e]) /\ queued'[e][i] = queued[e][i]
          BY <3>1, <3>2, <4>1, <4>2
        <5> QED
          BY <2>1, <5>1
      <4>3. CASE ~(i <= Len(queued[e]))
        <5>1. queued'[e][i] = v
          BY <3>2, <4>1, <4>3
        <5> QED
          BY <1>8, <5>1
      <4> QED
        BY <4>2, <4>3
    <3> QED
      BY <1>5, <1>8, <3>3 DEF Waiting
  <2> QED
    BY <1>4, <2>2, <2>3
<1>9. \A x \in ahead' : \/ current'[x] = p /\ Waiting(x, p + 1)'
                        \/ current'[x] = p - 1 /\ Waiting(x, p)'
  <2>1. \A x \in ahead \ {e} : \/ current'[x] = p /\ Waiting(x, p + 1)'
                               \/ current'[x] = p - 1 /\ Waiting(x, p)'
    <3>1. \A x \in ahead \ {e} : x \in Encoders \ {e}
      BY DEF RotTypes
    <3>2. \A x \in ahead \ {e} : /\ current'[x] = current[x]
                                /\ Waiting(x, p)' = Waiting(x, p)
                                /\ Waiting(x, p + 1)' = Waiting(x, p + 1)
      BY <1>3, <1>4, <1>5, <3>1 DEF Waiting
    <3> QED
      BY <3>2 DEF Orderly, OrderlyAt
  <2>2. CASE e \in ahead /\ current[e] = p - 1
    <3>1. Waiting(e, p)
      BY <2>2 DEF Orderly, OrderlyAt
    <3>2. Waiting(e, p)'
      BY <1>6, <1>8, <3>1
    <3> QED
      BY <1>3, <2>1, <2>2, <3>2
  <2>3. CASE e \notin ahead \/ current[e] # p - 1
    <3>1. current[e] = p /\ (e \in ahead => Waiting(e, p + 1))
      BY <1>1, <2>3 DEF Orderly, OrderlyAt
    <3>2. Waiting(e, p + 1)'
      BY <1>6, <1>8, <3>1
    <3> QED
      BY <1>3, <2>1, <3>1, <3>2
  <2> QED
    BY <2>2, <2>3
<1>10. r = Cardinality({x \in ahead' : current'[x] = p})
  <2> DEFINE S == {x \in ahead : current[x] = p}
  <2>1. S \in SUBSET Encoders /\ ready = Cardinality(S)
    BY DEF Orderly, OrderlyAt, RotTypes
  <2>2. CASE e \in ahead
    <3>1. {x \in ahead' : current'[x] = p} = S
      BY <1>3, <2>2
    <3> QED
      BY <2>1, <2>2, <3>1 DEF Counted
  <2>3. CASE e \notin ahead
    <3>1. current[e] = p
      BY <1>1, <2>3 DEF Orderly, OrderlyAt
    <3>2. {x \in ahead' : current'[x] = p} = S \cup {e} /\ e \notin S
      BY <1>3, <2>3, <3>1
    <3>3. Cardinality(S \cup {e}) = Cardinality(S) + 1
      BY <2>1, <3>2, Counting
    <3> QED
      BY <2>1, <2>3, <3>2, <3>3 DEF Counted
  <2> QED
    BY <2>2, <2>3
<1>11. p > 0 => known' = Encoders
  BY DEF Orderly, OrderlyAt, RotTypes
<1>12. \A x \in Encoders \ ahead' : queued'[x] = <<>>
  BY <1>3, <1>4 DEF Orderly, OrderlyAt
<1>13. \A x \in known' \ ahead' : Rel(x)' = p /\ current'[x] = p
  BY <1>3, <1>5 DEF Orderly, OrderlyAt, RotTypes
<1>14. OrderlyAt(p, r)'
  BY <1>9, <1>10, <1>11, <1>12, <1>13 DEF OrderlyAt
<1>15. queued[e] # <<>> => queued'[e] # <<>>
  BY <1>4, <1>7
<1> QED
  BY <1>3, <1>14, <1>15
-----------------------------------------------------------------------------
(* What OwnSegment says of a step.                                         *)
OwnStep ==
  /\ \A e \in Encoders : orderly /\ queued[e] # <<>> /\ queued'[e] = <<>>
       => \A i \in 1 .. Len(queued[e]) : queued[e][i] = part
  /\ \A e \in known : orderly' => offset'[e] = offset[e]

(* No packet is of an older segment while the encoders end the segments:   *)
(* an encoder not seen before is in the first, and no other lost count.    *)
LEMMA NoneLags ==
  ASSUME RotTypes, Orderly, NEW e \in Encoders, NEW n \in Nat, n >= encSeg[e]
  PROVE  ~Lags(e, n)
<1>1. CASE e \in known
  <2>1. Rel(e) >= part
    BY <1>1 DEF Orderly, OrderlyAt, RotTypes, Waiting, Rel
  <2> QED
    BY <1>1, <2>1 DEF Lags, Offset, Rel, RotTypes
<1>2. CASE e \notin known
  BY <1>2 DEF Lags, Offset, RotTypes, Orderly, OrderlyAt
<1> QED
  BY <1>1, <1>2

LEMMA PacketKeeps ==
  ASSUME RotInv, RotTypes', RotObserved, NEW e \in Encoders, Packet(e)
  PROVE  RotInv' /\ OwnStep
<1>1. PICK n \in Nat : n = NextSeg(e) /\ n >= encSeg[e]
  BY Frames DEF RotInv
<1>2. /\ encSeg' = [encSeg EXCEPT ![e] = n] /\ known' = known \cup {e}
      /\ Matches(e, n) \/ Runs(e, n) \/ Lags(e, n)
  BY <1>1 DEF Packet
<1>3. (orderly' => orderly) /\ (orderly' /\ part' # part => ~TimedOut)
  BY Zenon DEF RotObserved
<1>4. PICK p \in Nat : p = part
  BY DEF RotInv, RotTypes
<1>5. ASSUME orderly PROVE OwnStep /\ (orderly' => Orderly')
  <2>1. RotTypes /\ Orderly
    BY <1>5 DEF RotInv
  <2>2. CASE Matches(e, n)
    <3>1. PICK r \in Nat : r = ready
      BY <2>1 DEF RotTypes
    <3>2. /\ OrderlyAt(p, r)'
          /\ \A i \in 1 .. Len(queued[e]) : queued[e][i] = p
          /\ e \in known => offset'[e] = offset[e]
      BY <1>1, <1>2, <1>4, <2>1, <2>2, <3>1, MatchesKeeps
    <3>3. Rotate(r)
      BY <2>2, <3>1 DEF Matches
    <3>4. orderly' => Orderly'
      BY <1>3, <1>4, <3>2, <3>3, RotationKeeps
    <3>5. \A x \in Encoders \ {e} : queued'[x] = queued[x] /\ offset'[x] = offset[x]
      BY <2>1, <2>2 DEF Matches, RotTypes
    <3>6. OwnStep
      BY <1>4, <2>1, <3>2, <3>5 DEF OwnStep, RotTypes
    <3> QED
      BY <3>4, <3>6
  <2>3. CASE Runs(e, n)
    <3>1. PICK r \in Nat : r = Counted(e)
      BY <2>1 DEF RotTypes, Counted
    <3>2. OrderlyAt(p, r)' /\ (queued[e] # <<>> => queued'[e] # <<>>) /\ offset' = offset
      BY <1>1, <1>2, <1>4, <2>1, <2>3, <3>1, RunsKeeps
    <3>3. Rotate(r)
      BY <2>3, <3>1 DEF Runs
    <3>4. orderly' => Orderly'
      BY <1>3, <1>4, <3>2, <3>3, RotationKeeps
    <3>5. \A x \in Encoders \ {e} : queued'[x] = queued[x]
      BY <2>1, <2>3 DEF Runs, RotTypes
    <3>6. OwnStep
      BY <3>2, <3>5 DEF OwnStep
    <3> QED
      BY <3>4, <3>6
  <2>4. ~Lags(e, n)
    BY <1>1, <2>1, NoneLags
  <2> QED
    BY <1>2, <2>2, <2>3, <2>4
<1>6. ASSUME ~orderly PROVE OwnStep /\ ~orderly'
  BY <1>3, <1>6, Zenon DEF OwnStep
<1> QED
  BY <1>5, <1>6, <1>3 DEF RotInv

LEMMA RotStep == RotInv /\ RotObserved => RotInv' /\ OwnStep
<1> SUFFICES ASSUME RotInv, RotObserved PROVE RotInv' /\ OwnStep
  OBVIOUS
<1>1. RotTypes /\ RotTypes' /\ (orderly => Orderly)
  BY RotTypesKept DEF RotInv
<1>2. (orderly' => orderly) /\ (orderly' /\ part' # part => ~TimedOut)
  BY Zenon DEF RotObserved
<1>3. ASSUME NEW e \in Encoders, Packet(e) PROVE RotInv' /\ OwnStep
  BY <1>1, <1>3, PacketKeeps
<1>4. ASSUME Other PROVE RotInv' /\ OwnStep
  <2>1. PICK p \in Nat, r \in Nat : p = part /\ r = ready
    BY <1>1 DEF RotTypes
  <2>2. /\ Rotate(r) /\ offset' = offset /\ queued' = queued /\ current' = current
        /\ ahead' = ahead /\ known' = known /\ encSeg' = encSeg
    BY <1>4, <2>1 DEF Other
  <2>3. Orderly => OrderlyAt(p, r)'
    BY <2>1, <2>2 DEF Orderly, OrderlyAt, Waiting, Rel
  <2>4. orderly' => Orderly'
    BY <1>1, <1>2, <2>1, <2>2, <2>3, RotationKeeps
  <2> QED
    BY <1>1, <2>2, <2>4 DEF RotInv, OwnStep
<1>5. ASSUME NEW e \in Encoders, Stop(e) \/ Resume(e) PROVE RotInv' /\ OwnStep
  <2>1. /\ part' = part /\ ready' = ready /\ offset' = offset /\ queued' = queued
        /\ current' = current /\ ahead' = ahead /\ known' = known /\ encSeg' = encSeg
    BY <1>5 DEF Stop, Resume
  <2>2. Orderly => Orderly'
    BY <2>1 DEF Orderly, OrderlyAt, Waiting, Rel
  <2> QED
    BY <1>1, <1>2, <2>1, <2>2 DEF RotInv, OwnStep
<1>6. ASSUME Tick PROVE RotInv' /\ OwnStep
  <2>1. /\ part' = part /\ ready' = ready /\ offset' = offset /\ queued' = queued
        /\ current' = current /\ ahead' = ahead /\ known' = known /\ encSeg' = encSeg
    BY <1>6 DEF Tick
  <2>2. Orderly => Orderly'
    BY <2>1 DEF Orderly, OrderlyAt, Waiting, Rel
  <2> QED
    BY <1>1, <1>2, <2>1, <2>2 DEF RotInv, OwnStep
<1>7. ASSUME RestartEncoders PROVE RotInv' /\ OwnStep
  <2>1. /\ part' = part /\ ready' = ready /\ offset' = offset /\ queued' = queued
        /\ current' = current /\ ahead' = ahead /\ known' = known
    BY <1>7 DEF RestartEncoders
  <2>2. orderly' => now = encStart
    BY <1>7 DEF RestartEncoders, RotObserved
  <2>3. now = encStart => encSeg' = encSeg
    BY <1>1, <1>7 DEF RestartEncoders, RotTypes
  <2>4. encSeg' = encSeg /\ Orderly => Orderly'
    BY <2>1 DEF Orderly, OrderlyAt, Waiting, Rel
  <2> QED
    BY <1>1, <1>2, <2>1, <2>2, <2>3, <2>4 DEF RotInv, OwnStep
<1> QED
  BY <1>3, <1>4, <1>5, <1>6, <1>7 DEF RotObserved, RotNext

LEMMA RotUnchanged == RotInv /\ UNCHANGED rotAll => RotInv' /\ OwnStep
<1> SUFFICES ASSUME RotInv, UNCHANGED rotAll PROVE RotInv' /\ OwnStep
  OBVIOUS
<1>1. RotTypes'
  BY DEF RotInv, RotTypes, rotAll, rotVars
<1>2. Orderly => Orderly'
  BY DEF rotAll, rotVars, Orderly, OrderlyAt, Waiting, Rel
<1>3. orderly' = orderly /\ offset' = offset /\ queued' = queued
  BY DEF rotAll, rotVars
<1> QED
  BY <1>1, <1>2, <1>3 DEF RotInv, OwnStep

(* Whichever service runs, at every moment of every behaviour.             *)
THEOREM Rotating == ServiceSpec => []RotInv
<1>1. ServiceInit => RotInv
  BY RotInitInv DEF ServiceInit
<1>2. RotInv /\ [ServiceNext]_serviceVars => RotInv'
  BY RotStep, RotUnchanged DEF ServiceNext, serviceVars
<1> QED
  BY <1>1, <1>2, PTL DEF ServiceSpec

(* handle_encoder_msg, "they go in after the rotate": while the encoders   *)
(* end the segments, a packet that waited is written into the segment it   *)
(* was encoded for and no packet is of an older segment, however many      *)
(* cameras stop and come back.                                             *)
THEOREM OwnSegmentSafe == ServiceSpec => OwnSegment
<1>1. RotInv /\ [ServiceNext]_serviceVars => [OwnStep]_serviceVars
  BY RotStep, RotUnchanged DEF ServiceNext, serviceVars
<1>2. RotInv /\ [ServiceNext]_serviceVars
        => [/\ \A e \in Encoders : orderly /\ queued[e] # <<>> /\ queued'[e] = <<>>
                 => \A i \in 1 .. Len(queued[e]) : queued[e][i] = part
            /\ \A e \in known : orderly' => offset'[e] = offset[e]]_serviceVars
  BY <1>1, Zenon DEF OwnStep
<1> QED
  BY <1>2, Rotating, PTL DEF ServiceSpec, OwnSegment
=============================================================================
