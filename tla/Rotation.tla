------------------------------ MODULE Rotation ------------------------------
(***************************************************************************)
(* How loggerd and encoderd agree on segments: every encoder counts its    *)
(* own by frames, loggerd follows when all encoders are ahead, or when a   *)
(* segment grew too long.  Time passes in ticks; in each the encoders that *)
(* work send a packet, or several when they have segments to catch up.     *)
(***************************************************************************)
EXTENDS Integers, Sequences, FiniteSets

CONSTANTS
  Encoders,    \* encoder_infos, all of one stream each
  SegTicks,    \* SEGMENT_LENGTH
  LongTicks,   \* SEGMENT_LENGTH * 1.2
  QueueMax,    \* MAIN_FPS * 10, the packets that wait for a rotation
  LastTick     \* bounds the run

ASSUME RotationAssumption ==
  /\ IsFiniteSet(Encoders)
  /\ SegTicks \in Nat \ {0} /\ LongTicks \in Nat /\ SegTicks < LongTicks
  /\ QueueMax \in Nat /\ LastTick \in Nat

VARIABLES
  now, rotated,    \* the clock, and last_rotate_tms
  part,            \* logger.segment()
  ready,           \* ready_to_rotate
  encSeg, encStart,\* cur_seg, and the tick of start_frame_id
  working,         \* the encoders whose camera sends frames
  sentIn,          \* the encoders that sent a packet in this tick
  offset, current, \* encoderd_segment_offset, current_segment
  known,           \* seen_first_packet
  ahead,           \* marked_ready_to_rotate
  queued           \* q: the segments, by encoderd, of the packets that wait

rotVars == <<now, rotated, part, ready, encSeg, encStart, working, sentIn, offset, current, known,
             ahead, queued>>

RotInit ==
  /\ now = 0 /\ rotated = 0 /\ part = 0 /\ ready = 0
  /\ encSeg = [e \in Encoders |-> 0] /\ encStart = 0
  /\ working = Encoders /\ sentIn = {}
  /\ offset = [e \in Encoders |-> 0] /\ current = [e \in Encoders |-> -1]
  /\ known = {} /\ ahead = {} /\ queued = [e \in Encoders |-> <<>>]

-----------------------------------------------------------------------------
(* encoder_thread: at most one segment further with each frame.            *)
Due(e) == (now - encStart) \div SegTicks
NextSeg(e) == IF encSeg[e] < Due(e) THEN encSeg[e] + 1 ELSE encSeg[e]

(* rotate_if_needed, after any message; cameras that work were just seen.  *)
TimedOut ==
  /\ now - rotated > SegTicks
  /\ working = {} \/ now - rotated > LongTicks

(* Where loggerd and its counter are when the encoders have told it.       *)
Rotates(readyNow) == readyNow = Cardinality(Encoders) \/ TimedOut

(* Mutant: the encoder that completed the count is counted again. *)
RotateCounted(readyNow) ==
  IF Rotates(readyNow)
  THEN part' = part + 1 /\ ready' = 1 /\ rotated' = now
  ELSE ready' = readyNow /\ UNCHANGED <<part, rotated>>

Rotate(readyNow) ==
  IF Rotates(readyNow)
  THEN part' = part + 1 /\ ready' = 0 /\ rotated' = now
  ELSE ready' = readyNow /\ UNCHANGED <<part, rotated>>

(* handle_encoder_msg for a packet of encoder e's segment n: where e's     *)
(* offset, mark and queue are afterwards.                                  *)
Offset(e, n) == IF e \in known THEN offset[e] ELSE n

Matches(e, n) ==
  /\ n - Offset(e, n) = part
  /\ current' = [current EXCEPT ![e] = part]
  /\ ahead' = IF current[e] # part THEN ahead \ {e} ELSE ahead
  /\ queued' = [queued EXCEPT ![e] = <<>>]
  /\ offset' = [offset EXCEPT ![e] = Offset(e, n)]
  /\ Rotate(ready)

Counted(e) == IF e \in ahead THEN ready ELSE ready + 1

Runs(e, n) ==
  /\ n - Offset(e, n) > part
  /\ ahead' = ahead \cup {e}
  /\ queued' = [queued EXCEPT ![e] = IF Len(@) > QueueMax THEN @ ELSE Append(@, n - Offset(e, n))]
  /\ offset' = [offset EXCEPT ![e] = Offset(e, n)]
  /\ Rotate(Counted(e))
  /\ UNCHANGED current

(* An older segment: after a restart of encoderd, its first one is meant   *)
(* to be the current one.                                                  *)
Lags(e, n) ==
  /\ n - Offset(e, n) < part
  /\ offset' = [offset EXCEPT ![e] = -part]
  /\ Rotate(ready)
  /\ UNCHANGED <<current, ahead, queued>>

Packet(e) ==
  /\ e \in working
  /\ e \notin sentIn \/ encSeg[e] < Due(e)
  /\ encSeg' = [encSeg EXCEPT ![e] = NextSeg(e)]
  /\ LET n == NextSeg(e) IN Matches(e, n) \/ Runs(e, n) \/ Lags(e, n)
  /\ known' = known \cup {e} /\ sentIn' = sentIn \cup {e}
  /\ UNCHANGED <<now, encStart, working>>

(* Any other message.                                                      *)
Other ==
  /\ Rotates(ready)
  /\ Rotate(ready)
  /\ UNCHANGED <<now, encSeg, encStart, working, sentIn, offset, current, known, ahead, queued>>

(* A tick passes when all that work have sent, and loggerd did not miss    *)
(* the time to rotate.                                                     *)
Tick ==
  /\ now < LastTick
  /\ \A e \in working : e \in sentIn /\ encSeg[e] = Due(e)
  /\ ~Rotates(ready)
  /\ now' = now + 1 /\ sentIn' = {}
  /\ UNCHANGED <<rotated, part, ready, encSeg, encStart, working, offset, current, known, ahead,
                 queued>>

(* A camera stops for a while; its frame ids go on.                        *)
Stop(e) ==
  /\ e \in working /\ working' = working \ {e}
  /\ UNCHANGED <<now, rotated, part, ready, encSeg, encStart, sentIn, offset, current, known, ahead,
                 queued>>

Resume(e) ==
  /\ e \notin working /\ working' = working \cup {e}
  /\ UNCHANGED <<now, rotated, part, ready, encSeg, encStart, sentIn, offset, current, known, ahead,
                 queued>>

(* encoderd is started again and its encoders agree on a first frame.      *)
RestartEncoders ==
  /\ encSeg' = [e \in Encoders |-> 0] /\ encStart' = now
  /\ UNCHANGED <<now, rotated, part, ready, working, sentIn, offset, current, known, ahead, queued>>

RotNext ==
  \/ \E e \in Encoders : Packet(e) \/ Stop(e) \/ Resume(e)
  \/ Other \/ Tick \/ RestartEncoders
=============================================================================
