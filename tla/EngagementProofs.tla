------------------------- MODULE EngagementProofs -------------------------
(***************************************************************************)
(* Theorems about Engagement and EngagementChecks, for every value of the  *)
(* constants: every brand, steering mode, timer length, mismatch limit,    *)
(* set of inputs and set of settings.                                      *)
(***************************************************************************)
EXTENDS EngagementChecks, TLAPS

(* What the machines may return. *)
LEMMA SdNextType ==
  ASSUME NEW state \in SdStates, NEW left, NEW E
  PROVE  SdNext(state, left, E) \in SdStates
BY DEF SdNext, SdEntry, SdStates, SdEnabledStates, SdActiveStates

LEMMA MadsNextType ==
  ASSUME NEW state \in MadsStates, NEW left, NEW E
  PROVE  MadsNext(state, left, E) \in MadsStates
BY DEF MadsNext, MadsSteer, MadsEntry, MadsStates, MadsEnabledStates, MadsActiveStates

LEMMA SdTimerType ==
  ASSUME NEW state, NEW next, NEW t \in 0..SoftDisableFrames
  PROVE  SdTimer(state, next, t) \in 0..SoftDisableFrames
BY SoftDisableFramesAssumption DEF SdTimer, Decremented

(* A user or an immediate disable ends an engagement and admits none. *)
LEMMA SdOffOnDisable ==
  ASSUME NEW state \in SdStates, NEW left, NEW E,
         Contains(E, UserDisableEvents \cup ImmediateDisableEvents),
         Contains(E, NoEntryEvents)
  PROVE  SdNext(state, left, E) = "disabled"
BY DEF SdNext

(* The reasons mads.py knows of keep MADS from steering. *)
LEMMA MadsOffOnDisable ==
  ASSUME NEW state \in MadsStates, NEW left, NEW E,
         \/ Contains(E, UserDisableEvents \cup ImmediateDisableEvents) /\ state # "disabled"
         \/ Contains(E, NoEntryEvents) /\ state \in {"disabled", "paused"}
  PROVE  MadsNext(state, left, E) \notin MadsActiveStates
BY DEF MadsNext, MadsSteer, MadsEntry, MadsStates, MadsEnabledStates, MadsActiveStates, Contains
-----------------------------------------------------------------------------
(* The inductive invariant. *)

(* Nothing is engaged before selfdrived is initialized. *)
OffBeforeInit == ~initialized => sd = "disabled" /\ mads = "disabled"

(* A refusal that has lasted to the limit has ended the engagement, and    *)
(* the observed run of refusals is never ahead of MADS's own count.        *)
RefusalInv ==
  /\ SdOn => mismatch < MismatchLimit
  /\ Steering => latMismatch < MismatchLimit
  /\ refusedRun <= latMismatch + 1
  /\ refusedRun > 0 => Steering /\ ~SdOn

(* The second frame of steering under the brake began with a gas press. *)
BrakeInv ==
  SteeringMode # "remainActive" =>
    /\ brakeRun <= BrakeBound
    /\ brakeRun = 2 => prev.gas
    /\ brakeRun > 0 => Steering

(* What is left of the shared timer while MADS soft disables: the rest of  *)
(* an earlier one until selfdrived, out of preEnabled, sets it again.      *)
SoftInv ==
  /\ softRun > 0 <=> mads = "softDisabling"
  /\ sd = "preEnabled" => timer < SoftDisableFrames
  /\ sd = "softDisabling" => timer > 0 /\ mads \notin {"enabled", "overriding"}
  /\ mads = "softDisabling" =>
       IF sd \in {"preEnabled", "enabled", "overriding"}
       THEN softRun + timer < SoftDisableFrames /\ (softRun > 1 => timer > 0)
       ELSE softRun + timer < 2 * SoftDisableFrames /\ timer > 0

(* mads.py's copy of selfdrived.enabled is the value the next frame finds. *)
SdWasInv == sdWas = SdOn

IInv == TypeOK /\ OffBeforeInit /\ SdWasInv /\ RefusalInv /\ BrakeInv /\ SoftInv /\ NoSteeringInReverse

LEMMA InitInv == ObservedInit => IInv
<1> SUFFICES ASSUME ObservedInit PROVE IInv
  OBVIOUS
<1> USE SoftDisableFramesAssumption, EngagementAssumption DEF ObservedInit, Init
<1>1. params \in AllSettings /\ madsGas \in BOOLEAN
  BY DEF AllSettings
<1>2. sd \in SdStates /\ mads \in MadsStates /\ ~SdOn /\ ~Steering
  BY DEF SdStates, SdEnabledStates, SdActiveStates, MadsStates, MadsEnabledStates,
         MadsActiveStates, SdOn, Steering
<1>3. prev \in [brake : BOOLEAN, gas : BOOLEAN, gear : Gears, speed : Speeds,
                avail : BOOLEAN, cruise : BOOLEAN, valid : BOOLEAN]
  BY DEF Gears, Speeds
<1>4. TypeOK
  <2>1. timer \in 0..SoftDisableFrames /\ mismatch \in 0..MismatchLimit
        /\ latMismatch \in 0..MismatchLimit
    OBVIOUS
  <2>2. initialized \in BOOLEAN /\ sdWas \in BOOLEAN /\ unsafe \in BOOLEAN /\ clear \in BOOLEAN
    BY Zenon
  <2>3. brakeRun \in Nat /\ softRun \in Nat /\ refusedRun \in Nat /\ alerts = {}
    OBVIOUS
  <2> QED
    BY <1>1, <1>2, <1>3, <2>1, <2>2, <2>3 DEF TypeOK
<1>5. OffBeforeInit /\ NoSteeringInReverse
  BY DEF OffBeforeInit, NoSteeringInReverse
<1>6. SdWasInv
  <2>1. sdWas = FALSE
    OBVIOUS
  <2>2. (sd \in SdEnabledStates) = FALSE
    BY <1>2 DEF SdOn
  <2> QED
    BY <2>1, <2>2 DEF SdWasInv, SdOn
<1>7. RefusalInv /\ BrakeInv /\ SoftInv
  BY <1>2 DEF RefusalInv, BrakeInv, SoftInv, BrakeBound
<1> QED
  BY <1>4, <1>5, <1>6, <1>7 DEF IInv
-----------------------------------------------------------------------------
(* The frame, taken apart: the events selfdrived's machine sees, and those *)
(* MADS makes of them.                                                     *)
SdSees(c) == FrameEvents(c)
MadsSees(c) == MadsEvents(c, SdOn', SdSees(c))

LEMMA FrameSteps ==
  ASSUME NEW c, ObservedFrame(c)
  PROVE  \/ ~initialized' /\ ~initialized /\ UNCHANGED <<sd, timer, mads, alerts>>
         \/ /\ initialized'
            /\ sd' = SdNext(sd, Decremented(timer), SdSees(c))
            /\ mads' = MadsNext(mads, SdTimer(sd, sd', timer), MadsSees(c))
            /\ timer' = MadsTimer(mads, mads', SdOn', SdTimer(sd, sd', timer))
            /\ alerts' = SdAlerts(sd, sd', SdSees(c))
                         \cup MadsAlerts(mads, mads', SdOn', MadsSees(c))
BY DEF ObservedFrame, Frame, Machines, SdSees, MadsSees, SdOn

LEMMA FrameType ==
  ASSUME IInv, NEW c \in Inputs, ObservedFrame(c)
  PROVE  TypeOK'
<1>1. initialized' \in BOOLEAN /\ sdWas' \in BOOLEAN /\ madsGas' \in BOOLEAN
      /\ params' \in AllSettings
  BY DEF IInv, TypeOK, ObservedFrame, Frame
<1>2. sd' \in SdStates
  BY FrameSteps, SdNextType DEF IInv, TypeOK
<1>3. mads' \in MadsStates
  BY FrameSteps, MadsNextType DEF IInv, TypeOK
<1>4. timer' \in 0..SoftDisableFrames
  <2>1. SdTimer(sd, sd', timer) \in 0..SoftDisableFrames
    BY SdTimerType DEF IInv, TypeOK
  <2> QED
    BY <2>1, FrameSteps, SoftDisableFramesAssumption DEF MadsTimer, IInv, TypeOK
<1>5. alerts' \subseteq {"USER_DISABLE", "IMMEDIATE_DISABLE", "SOFT_DISABLE", "NO_ENTRY", "ENABLE"}
  BY FrameSteps DEF SdAlerts, MadsAlerts, IInv, TypeOK
<1>6. prev' \in [brake : BOOLEAN, gas : BOOLEAN, gear : Gears, speed : Speeds,
                 avail : BOOLEAN, cruise : BOOLEAN, valid : BOOLEAN]
  BY EngagementAssumption DEF Seen, CarStates, ObservedFrame, Frame
<1>7. mismatch' \in 0..MismatchLimit
  BY EngagementAssumption DEF MismatchNext, RefusalInv, IInv, TypeOK, ObservedFrame, Frame
<1>8. latMismatch' \in 0..MismatchLimit
  BY EngagementAssumption DEF LatMismatchNext, RefusalInv, IInv, TypeOK, ObservedFrame, Frame
<1>9. brakeRun' \in Nat /\ softRun' \in Nat /\ refusedRun' \in Nat
  BY DEF Longer, IInv, TypeOK, ObservedFrame
<1>10. unsafe' \in BOOLEAN /\ clear' \in BOOLEAN
  BY DEF IsUnsafe, IsClear, ObservedFrame
<1> QED
  BY <1>1, <1>2, <1>3, <1>4, <1>5, <1>6, <1>7, <1>8, <1>9, <1>10 DEF TypeOK

(* selfdrived keeps no engagement through a disable event. *)
LEMMA FrameSdOff ==
  ASSUME IInv, NEW c \in Inputs, ObservedFrame(c), initialized',
         Contains(SdSees(c), UserDisableEvents \cup ImmediateDisableEvents),
         Contains(SdSees(c), NoEntryEvents)
  PROVE  sd' = "disabled" /\ ~SdOn'
<1>1. sd' = "disabled"
  BY FrameSteps, SdOffOnDisable DEF IInv, TypeOK
<1> QED
  BY <1>1 DEF SdOn, SdEnabledStates, SdActiveStates

(* ... and MADS does not steer after one it sees. *)
LEMMA FrameMadsOff ==
  ASSUME IInv, NEW c \in Inputs, ObservedFrame(c), initialized',
         \/ Contains(MadsSees(c), UserDisableEvents \cup ImmediateDisableEvents)
            /\ mads # "disabled"
         \/ Contains(MadsSees(c), NoEntryEvents) /\ mads \in {"disabled", "paused"}
  PROVE  ~Steering'
<1>1. mads \in MadsStates /\ mads' = MadsNext(mads, SdTimer(sd, sd', timer), MadsSees(c))
  BY FrameSteps DEF IInv, TypeOK
<1>2. MadsNext(mads, SdTimer(sd, sd', timer), MadsSees(c)) \notin MadsActiveStates
  BY <1>1, MadsOffOnDisable
<1> QED
  BY <1>1, <1>2 DEF Steering

LEMMA FrameRefusal ==
  ASSUME IInv, NEW c \in Inputs, ObservedFrame(c)
  PROVE  RefusalInv'
<1> USE EngagementAssumption
<1>0. TypeOK /\ TypeOK'
  BY FrameType DEF IInv
<1>1. SdOn' => mismatch' < MismatchLimit
  <2>1. CASE ~initialized'
    BY <2>1, FrameSteps DEF IInv, OffBeforeInit, SdOn, SdEnabledStates, SdActiveStates,
                            ObservedFrame, Frame, MismatchNext
  <2>2. CASE initialized' /\ mismatch' >= MismatchLimit
    <3>1. "controlsMismatch" \in SdSees(c)
      BY <2>2 DEF SdSees, FrameEvents, If, ObservedFrame, Frame
    <3>2. Contains(SdSees(c), UserDisableEvents \cup ImmediateDisableEvents)
          /\ Contains(SdSees(c), NoEntryEvents)
      BY <3>1 DEF Contains, ImmediateDisableEvents, NoEntryEvents
    <3> QED
      BY <2>2, <3>2, FrameSdOff
  <2> QED
    BY <1>0, <2>1, <2>2 DEF TypeOK
<1>2. Steering' => latMismatch' < MismatchLimit
  <2>1. CASE ~initialized'
    BY <2>1, FrameSteps DEF IInv, OffBeforeInit, Steering, MadsActiveStates
  <2>2. CASE initialized' /\ latMismatch' >= MismatchLimit
    <3>1. mads # "disabled"
      BY <2>2 DEF ObservedFrame, Frame, LatMismatchNext, Steering, MadsActiveStates
    <3>2. "controlsMismatchLateral" \in MadsSees(c)
      BY <2>2 DEF MadsSees, MadsEvents, MadsRaised, If, ObservedFrame, Frame, SdOn
    <3>3. Contains(MadsSees(c), UserDisableEvents \cup ImmediateDisableEvents)
      BY <3>2 DEF Contains, ImmediateDisableEvents
    <3> QED
      BY <2>2, <3>1, <3>3, FrameMadsOff
  <2> QED
    BY <1>0, <2>1, <2>2 DEF TypeOK
<1>3. refusedRun' <= latMismatch' + 1 /\ (refusedRun' > 0 => Steering' /\ ~SdOn')
  <2>1. PICK lat \in Nat : latMismatch' = lat
    BY <1>0 DEF TypeOK
  <2>2. /\ refusedRun \in Nat /\ latMismatch \in Nat
        /\ refusedRun <= latMismatch + 1 /\ (refusedRun > 0 => Steering)
    BY <1>0 DEF IInv, RefusalInv, TypeOK
  <2>3. CASE Steering' /\ ~SdOn' /\ c.latRefused
    <3>1. refusedRun' = refusedRun \/ refusedRun' = refusedRun + 1
      BY <2>3 DEF ObservedFrame, Longer
    <3>2. CASE Steering
      <4>1. latMismatch' = latMismatch + 1
        BY <2>3, <3>2 DEF ObservedFrame, Frame, LatMismatchNext, SdOn
      <4> QED
        BY <2>1, <2>2, <2>3, <3>1, <4>1
    <3>3. CASE ~Steering
      BY <2>1, <2>2, <2>3, <3>1, <3>3
    <3> QED
      BY <3>2, <3>3
  <2>4. CASE ~(Steering' /\ ~SdOn' /\ c.latRefused)
    <3>1. refusedRun' = 0
      BY <2>4 DEF ObservedFrame, Longer
    <3> QED
      BY <2>1, <3>1
  <2> QED
    BY <2>3, <2>4
<1> QED
  BY <1>1, <1>2, <1>3 DEF RefusalInv

LEMMA FrameReverse ==
  ASSUME IInv, NEW c \in Inputs, ObservedFrame(c)
  PROVE  NoSteeringInReverse'
<1>1. prev' = Seen(c)
  BY DEF ObservedFrame, Frame
<1> SUFFICES ASSUME initialized', c.valid, c.gear = "reverse"
             PROVE  ~Steering' /\ ~SdOn'
  BY <1>1 DEF NoSteeringInReverse, Seen
<1>2. "reverseGear" \in SdSees(c)
  BY DEF SdSees, FrameEvents, CarEvents, If
<1>3. ~SdOn'
  <2>1. Contains(SdSees(c), UserDisableEvents \cup ImmediateDisableEvents)
        /\ Contains(SdSees(c), NoEntryEvents)
    BY <1>2 DEF Contains, UserDisableEvents, NoEntryEvents
  <2> QED
    BY <2>1, FrameSdOff
<1>4. CASE mads = "disabled"
  <2>1. "reverseGear" \in MadsSees(c)
    BY <1>2, <1>4 DEF MadsSees, MadsEvents, MadsRemoved, Silenced, Alone, MadsOn, If,
                      MadsEnabledStates, MadsActiveStates
  <2>2. Contains(MadsSees(c), NoEntryEvents)
    BY <2>1 DEF Contains, NoEntryEvents
  <2> QED
    BY <1>3, <1>4, <2>2, FrameMadsOff
<1>5. CASE mads # "disabled"
  <2>1. Alone(SdOn')
    BY <1>3, <1>5 DEF Alone, MadsOn, IInv, TypeOK, MadsStates
  <2>2. "reverseGear" \in Silenced(c, SdOn', SdSees(c))
    BY <1>2, <2>1 DEF Silenced, PauseCauses
  <2>3. CASE mads = "paused"
    <3>1. SilentOf["reverseGear"] = "silentReverseGear"
      BY DEF SilentOf
    <3>2. "silentReverseGear" \in MadsSees(c)
      BY <2>2, <3>1 DEF MadsSees, MadsEvents, MadsRaised, Silents
    <3>3. Contains(MadsSees(c), NoEntryEvents)
      BY <3>2 DEF Contains, NoEntryEvents, SilentCauses
    <3> QED
      BY <1>3, <2>3, <3>3, FrameMadsOff
  <2>4. CASE mads # "paused"
    <3>1. Pauses(c, SdOn', SdSees(c))
      BY <2>1, <2>2, <2>4 DEF Pauses
    <3>2. "silentLkasDisable" \in MadsSees(c)
      BY <3>1 DEF MadsSees, MadsEvents, MadsRaised, If
    <3>3. Contains(MadsSees(c), UserDisableEvents \cup ImmediateDisableEvents)
      BY <3>2 DEF Contains, UserDisableEvents
    <3> QED
      BY <1>3, <1>5, <3>3, FrameMadsOff
  <2> QED
    BY <2>3, <2>4
<1> QED
  BY <1>4, <1>5

(* Steering survives a brake held while moving only in a frame in which a  *)
(* gas press hides it.                                                     *)
LEMMA FrameBraking ==
  ASSUME IInv, NEW c \in Inputs, ObservedFrame(c), initialized', Steering, Steering',
         SteeringMode # "remainActive", Braking(c)
  PROVE  c.gas /\ ~prev.gas
<1> SUFFICES ASSUME ~(c.gas /\ ~prev.gas)
             PROVE  FALSE
  OBVIOUS
<1>1. "pedalPressed" \in SdSees(c)
  BY DEF SdSees, FrameEvents, PedalPressed, If, Braking
<1>2. ~SdOn'
  <2>1. Contains(SdSees(c), UserDisableEvents \cup ImmediateDisableEvents)
        /\ Contains(SdSees(c), NoEntryEvents)
    BY <1>1 DEF Contains, UserDisableEvents, NoEntryEvents
  <2> QED
    BY <2>1, FrameSdOff
<1>3. PedalNotGas(c, SdSees(c))
  BY <1>1 DEF PedalNotGas
<1>4. MadsOn /\ mads # "paused" /\ mads # "disabled"
  BY DEF Steering, MadsOn, MadsEnabledStates, MadsActiveStates
<1>5. Contains(MadsSees(c), UserDisableEvents \cup ImmediateDisableEvents)
  <2>1. CASE SteeringMode = "pause"
    <3>1. "silentLkasDisable" \in MadsSees(c)
      BY <1>2, <1>3, <1>4, <2>1 DEF MadsSees, MadsEvents, MadsRaised, Pauses, Alone, If
    <3> QED
      BY <3>1 DEF Contains, UserDisableEvents
  <2>2. CASE SteeringMode = "disengage"
    <3>1. "lkasDisable" \in MadsSees(c)
      BY <1>3, <1>4, <2>2 DEF MadsSees, MadsEvents, MadsRaised, If
    <3> QED
      BY <3>1 DEF Contains, UserDisableEvents
  <2> QED
    BY <2>1, <2>2, EngagementAssumption
<1> QED
  BY <1>4, <1>5, FrameMadsOff

LEMMA FrameBrake ==
  ASSUME IInv, NEW c \in Inputs, ObservedFrame(c)
  PROVE  BrakeInv'
<1> SUFFICES ASSUME SteeringMode # "remainActive"
             PROVE  brakeRun' <= 2 /\ (brakeRun' = 2 => prev'.gas) /\ (brakeRun' > 0 => Steering')
  BY DEF BrakeInv, BrakeBound
<1>1. /\ brakeRun \in Nat /\ brakeRun <= 2
      /\ (brakeRun = 2 => prev.gas) /\ (brakeRun > 0 => Steering)
  BY DEF IInv, BrakeInv, BrakeBound, TypeOK
<1>2. CASE ~(Steering' /\ Braking(c))
  <2>1. brakeRun' = 0
    BY <1>2 DEF ObservedFrame, Longer
  <2> QED
    BY <2>1
<1>3. CASE Steering' /\ Braking(c)
  <2>1. brakeRun' = brakeRun + 1
    BY <1>1, <1>3 DEF ObservedFrame, Longer, BrakeBound
  <2>2. CASE brakeRun = 0
    BY <1>3, <2>1, <2>2
  <2>3. CASE brakeRun > 0
    <3>1. initialized'
      BY <1>3, FrameSteps DEF IInv, OffBeforeInit, Steering, MadsActiveStates
    <3>2. c.gas /\ ~prev.gas
      BY <1>1, <1>3, <2>3, <3>1, FrameBraking
    <3>3. prev'.gas
      BY <3>2 DEF ObservedFrame, Frame, Seen
    <3>4. brakeRun = 1
      BY <1>1, <2>3, <3>2
    <3> QED
      BY <1>3, <2>1, <3>3, <3>4
  <2> QED
    BY <1>1, <2>2, <2>3
<1> QED
  BY <1>2, <1>3
-----------------------------------------------------------------------------
(* Soft disabling. *)

(* A soft disable always forbids entry too. *)
LEMMA SoftForbidsEntry ==
  ASSUME NEW E, Contains(E, SoftDisableEvents)
  PROVE  Contains(E, NoEntryEvents)
BY DEF Contains, SoftDisableEvents, NoEntryEvents

(* mads.py raises no soft disable of its own, and hides none while         *)
(* selfdrived is enabled.                                                  *)
LEMMA MadsSoftIsSdSoft ==
  ASSUME NEW c, Contains(MadsSees(c), SoftDisableEvents)
  PROVE  Contains(SdSees(c), SoftDisableEvents)
<1>1. MadsRaised(c, SdOn', SdSees(c)) \cap SoftDisableEvents = {}
  BY DEF MadsRaised, If, Silents, SilentOf, Silenced, PauseCauses, SoftDisableEvents
<1> QED
  BY <1>1 DEF MadsSees, MadsEvents, Contains

LEMMA SdSoftIsMadsSoft ==
  ASSUME NEW c, SdOn', Contains(SdSees(c), SoftDisableEvents)
  PROVE  Contains(MadsSees(c), SoftDisableEvents)
<1>1. MadsRemoved(c, SdOn', SdSees(c)) \cap SoftDisableEvents = {}
  BY DEF MadsRemoved, If, Silenced, Alone, SoftDisableEvents
<1> QED
  BY <1>1 DEF MadsSees, MadsEvents, Contains

(* Where a soft disable event takes selfdrived's machine, and what a       *)
(* softDisabling state implies.                                            *)
LEMMA SdNextSoft ==
  ASSUME NEW state \in SdStates, NEW left \in Nat, NEW E
  PROVE  /\ SdNext(state, left, E) = "softDisabling" =>
              /\ Contains(E, SoftDisableEvents)
              /\ state \in {"enabled", "overriding", "softDisabling"}
              /\ state = "softDisabling" => left > 0
         /\ Contains(E, SoftDisableEvents) /\ state # "preEnabled" =>
              SdNext(state, left, E) \in {"disabled", "softDisabling"}
<1>1. Contains(E, SoftDisableEvents) => Contains(E, NoEntryEvents)
  BY SoftForbidsEntry
<1> QED
  BY <1>1 DEF SdNext, SdEntry, SdStates, SdEnabledStates, SdActiveStates

LEMMA MadsNextSoft ==
  ASSUME NEW state \in MadsStates, NEW left \in Nat, NEW E
  PROVE  /\ MadsNext(state, left, E) = "softDisabling" =>
              /\ Contains(E, SoftDisableEvents)
              /\ state \in {"enabled", "overriding", "softDisabling"}
              /\ state = "softDisabling" => left > 0
         /\ Contains(E, SoftDisableEvents) =>
              MadsNext(state, left, E) \notin {"enabled", "overriding"}
<1>1. Contains(E, SoftDisableEvents) => Contains(E, NoEntryEvents)
  BY SoftForbidsEntry
<1> QED
  BY <1>1 DEF MadsNext, MadsSteer, MadsEntry, MadsStates, MadsEnabledStates, MadsActiveStates

(* What one frame does to the machines and the timer, seen from softRun. *)
LEMMA FrameSoftFacts ==
  ASSUME IInv, NEW c \in Inputs, ObservedFrame(c), initialized'
  PROVE  /\ sd' = "softDisabling" =>
              /\ sd \in {"enabled", "overriding", "softDisabling"}
              /\ sd = "softDisabling" => Decremented(timer) > 0
              /\ mads' \notin {"enabled", "overriding"}
         /\ mads' = "softDisabling" =>
              /\ mads \in {"enabled", "overriding", "softDisabling"}
              /\ mads = "softDisabling" => SdTimer(sd, sd', timer) > 0
              /\ sd # "preEnabled" => sd' \in {"disabled", "softDisabling"}
<1> DEFINE left == SdTimer(sd, sd', timer)
<1>1. timer \in Nat /\ Decremented(timer) \in Nat /\ left \in Nat
  BY SoftDisableFramesAssumption DEF IInv, TypeOK, SdTimer, Decremented
<1>2. sd \in SdStates /\ mads \in MadsStates
  BY DEF IInv, TypeOK
<1>3. sd' = SdNext(sd, Decremented(timer), SdSees(c)) /\ mads' = MadsNext(mads, left, MadsSees(c))
  BY FrameSteps
<1>4. sd' = "softDisabling" =>
        /\ Contains(SdSees(c), SoftDisableEvents)
        /\ sd \in {"enabled", "overriding", "softDisabling"}
        /\ sd = "softDisabling" => Decremented(timer) > 0
  BY <1>1, <1>2, <1>3, SdNextSoft
<1>5. Contains(SdSees(c), SoftDisableEvents) /\ sd # "preEnabled" =>
        sd' \in {"disabled", "softDisabling"}
  BY <1>1, <1>2, <1>3, SdNextSoft
<1>6. mads' = "softDisabling" =>
        /\ Contains(MadsSees(c), SoftDisableEvents)
        /\ mads \in {"enabled", "overriding", "softDisabling"}
        /\ mads = "softDisabling" => left > 0
  BY <1>1, <1>2, <1>3, MadsNextSoft
<1>7. Contains(MadsSees(c), SoftDisableEvents) => mads' \notin {"enabled", "overriding"}
  BY <1>1, <1>2, <1>3, MadsNextSoft
<1>8. sd' = "softDisabling" => SdOn'
  BY DEF SdOn, SdEnabledStates, SdActiveStates
<1>9. sd' = "softDisabling" => mads' \notin {"enabled", "overriding"}
  BY <1>4, <1>7, <1>8, SdSoftIsMadsSoft
<1>10. mads' = "softDisabling" /\ sd # "preEnabled" => sd' \in {"disabled", "softDisabling"}
  BY <1>5, <1>6, MadsSoftIsSdSoft
<1> QED
  BY <1>4, <1>6, <1>9, <1>10

LEMMA FrameSoft ==
  ASSUME IInv, NEW c \in Inputs, ObservedFrame(c)
  PROVE  SoftInv'
<1> DEFINE N == SoftDisableFrames
<1>0. N \in Nat /\ N > 2
  BY SoftDisableFramesAssumption
<1>1. timer \in 0..N /\ softRun \in Nat /\ sd \in SdStates /\ sd' \in SdStates
  BY FrameType DEF IInv, TypeOK
<1>2. CASE ~initialized'
  <2>1. sd = "disabled" /\ sd' = "disabled" /\ mads' = "disabled" /\ softRun' = 0
    BY <1>2, FrameSteps DEF IInv, OffBeforeInit, ObservedFrame, Longer
  <2> QED
    BY <2>1 DEF SoftInv
<1>3. CASE initialized'
  <2>1. SdOn' <=> sd' # "disabled"
    BY <1>1 DEF SdOn, SdStates, SdEnabledStates, SdActiveStates
  <2>2. /\ sd' = "softDisabling" =>
              /\ sd \in {"enabled", "overriding", "softDisabling"}
              /\ sd = "softDisabling" => Decremented(timer) > 0
              /\ mads' \notin {"enabled", "overriding"}
        /\ mads' = "softDisabling" =>
              /\ mads \in {"enabled", "overriding", "softDisabling"}
              /\ mads = "softDisabling" => SdTimer(sd, sd', timer) > 0
              /\ sd # "preEnabled" => sd' \in {"disabled", "softDisabling"}
    BY <1>3, FrameSoftFacts
  <2>3. timer' = MadsTimer(mads, mads', SdOn', SdTimer(sd, sd', timer))
    BY <1>3, FrameSteps
  <2>4. softRun <= SoftBound
        /\ (softRun > 0 <=> mads = "softDisabling")
        /\ (sd = "preEnabled" => timer < N)
        /\ (sd = "softDisabling" => timer > 0 /\ mads \notin {"enabled", "overriding"})
        /\ (mads = "softDisabling" =>
             IF sd \in {"preEnabled", "enabled", "overriding"}
             THEN softRun + timer < N /\ (softRun > 1 => timer > 0)
             ELSE softRun + timer < 2 * N /\ timer > 0)
    BY <1>0, <1>1 DEF IInv, SoftInv, SoftBound
  <2>5. softRun' = IF mads' = "softDisabling" THEN softRun + 1 ELSE 0
    BY <1>0, <1>1, <2>4 DEF ObservedFrame, Longer, SoftBound
  <2>6. softRun' > 0 <=> mads' = "softDisabling"
    BY <1>1, <2>5
  <2>7. sd' = "preEnabled" => timer' < N
    BY <1>0, <1>1, <2>1, <2>3 DEF MadsTimer, SdTimer, Decremented
  <2>8. sd' = "softDisabling" => timer' > 0 /\ mads' \notin {"enabled", "overriding"}
    BY <1>0, <1>1, <2>1, <2>2, <2>3 DEF MadsTimer, SdTimer, Decremented
  <2>9. ASSUME mads' = "softDisabling"
        PROVE  IF sd' \in {"preEnabled", "enabled", "overriding"}
               THEN softRun' + timer' < N /\ (softRun' > 1 => timer' > 0)
               ELSE softRun' + timer' < 2 * N /\ timer' > 0
    <3>0. softRun' = softRun + 1 /\ (mads # "softDisabling" => softRun = 0)
      BY <1>1, <2>4, <2>5, <2>9
    <3>1. CASE sd' = "softDisabling" /\ sd # "softDisabling"
      <4>1. timer' = N
        BY <2>1, <2>3, <3>1 DEF MadsTimer, SdTimer
      <4>2. softRun + 1 < N
        BY <1>0, <1>1, <2>2, <2>4, <3>0, <3>1
      <4> QED
        BY <1>0, <1>1, <3>0, <3>1, <4>1, <4>2
    <3>2. CASE sd' = "softDisabling" /\ sd = "softDisabling"
      <4>1. timer' = timer - 1 /\ timer > 1
        BY <1>1, <2>1, <2>2, <2>3, <3>2 DEF MadsTimer, SdTimer, Decremented
      <4>2. mads = "softDisabling"
        BY <2>2, <2>4, <2>9, <3>2
      <4> QED
        BY <1>0, <1>1, <2>4, <3>0, <3>2, <4>1, <4>2
    <3>3. CASE sd' = "disabled" /\ mads # "softDisabling"
      <4>1. timer' = N
        BY <2>1, <2>3, <2>9, <3>3 DEF MadsTimer
      <4> QED
        BY <1>0, <1>1, <3>0, <3>3, <4>1
    <3>4. CASE sd' = "disabled" /\ mads = "softDisabling"
      <4>1. timer' = timer - 1 /\ timer > 1
        BY <1>1, <2>2, <2>3, <2>9, <3>4 DEF MadsTimer, SdTimer, Decremented
      <4> QED
        BY <1>0, <1>1, <2>4, <3>0, <3>4, <4>1
    <3>5. CASE sd' \in {"preEnabled", "enabled", "overriding"}
      <4>1. sd = "preEnabled" /\ timer' = Decremented(timer)
        BY <2>1, <2>2, <2>3, <2>9, <3>5 DEF MadsTimer, SdTimer
      <4>2. CASE mads = "softDisabling"
        <5>1. timer' = timer - 1 /\ timer > 1
          BY <1>1, <2>2, <2>9, <3>5, <4>1, <4>2 DEF SdTimer, Decremented
        <5> QED
          BY <1>0, <1>1, <2>4, <3>0, <3>5, <4>1, <4>2, <5>1
      <4>3. CASE mads # "softDisabling"
        <5>1. (timer' = 0 /\ timer = 0) \/ (timer' = timer - 1 /\ timer > 0)
          BY <1>1, <4>1 DEF Decremented
        <5> QED
          BY <1>0, <1>1, <2>4, <3>0, <3>5, <4>1, <4>3, <5>1
      <4> QED
        BY <4>2, <4>3
    <3> QED
      BY <1>1, <3>1, <3>2, <3>3, <3>4, <3>5 DEF SdStates, SdEnabledStates, SdActiveStates
  <2> QED
    BY <2>6, <2>7, <2>8, <2>9 DEF SoftInv
<1> QED
  BY <1>2, <1>3
-----------------------------------------------------------------------------
LEMMA FrameInv ==
  ASSUME IInv, NEW c \in Inputs, ObservedFrame(c)
  PROVE  IInv'
<1>1. OffBeforeInit'
  BY FrameSteps DEF IInv, OffBeforeInit
<1>2. SdWasInv'
  BY DEF SdWasInv, ObservedFrame, Frame, SdOn
<1> QED
  BY <1>1, <1>2, FrameType, FrameRefusal, FrameBrake, FrameSoft, FrameReverse DEF IInv

LEMMA ReadParamsInv ==
  ASSUME IInv, ReadParams, UNCHANGED observers
  PROVE  IInv'
<1>1. params' \in AllSettings
  BY EngagementAssumption DEF ReadParams
<1>2. UNCHANGED <<initialized, sd, timer, mads, alerts, sdWas, prev, mismatch, latMismatch,
                  madsGas, brakeRun, softRun, refusedRun, unsafe, clear>>
  BY DEF ReadParams, observers
<1> QED
  BY <1>1, <1>2 DEF IInv, TypeOK, OffBeforeInit, SdWasInv, RefusalInv, BrakeInv,
                    SoftInv, NoSteeringInReverse, SdOn, Steering

LEMMA StutterInv ==
  ASSUME IInv, UNCHANGED allvars
  PROVE  IInv'
BY DEF allvars, vars, observers, IInv, TypeOK, OffBeforeInit, SdWasInv, RefusalInv,
       BrakeInv, SoftInv, NoSteeringInReverse, SdOn, Steering

(* The inductive invariant holds in every reachable state. *)
THEOREM Invariance == ObservedSpec => []IInv
<1>1. ObservedInit => IInv
  BY InitInv
<1>2. IInv /\ [ObservedNext]_allvars => IInv'
  BY FrameInv, ReadParamsInv, StutterInv DEF ObservedNext
<1> QED
  BY <1>1, <1>2, PTL DEF ObservedSpec

(* What the runs check holds for every value of the constants. *)

(* Every variable has its type. *)
THEOREM TypeCorrect == ObservedSpec => []TypeOK
BY Invariance, PTL DEF IInv

(* Neither machine is engaged after a frame in which the car is in reverse. *)
THEOREM ReverseSafe == ObservedSpec => []NoSteeringInReverse
BY Invariance, PTL DEF IInv

(* Steering outlasts a brake held while moving by at most two frames. *)
THEOREM BrakeSafe == ObservedSpec => []BrakeStopsSteering
<1>1. IInv => BrakeStopsSteering
  BY DEF IInv, BrakeInv, BrakeStopsSteering
<1> QED
  BY <1>1, Invariance, PTL

(* A soft disable lasts fewer than two soft-disable times. *)
THEOREM SoftDisableSafe == ObservedSpec => []SoftDisableBounded
<1>1. IInv => SoftDisableBounded
  <2> SUFFICES ASSUME IInv PROVE softRun <= 2 * SoftDisableFrames - 2
    BY DEF SoftDisableBounded, SoftBound
  <2>1. softRun \in Nat /\ timer \in Nat
    BY SoftDisableFramesAssumption DEF IInv, TypeOK
  <2> QED
    BY <2>1, SoftDisableFramesAssumption DEF IInv, SoftInv
<1> QED
  BY <1>1, Invariance, PTL

(* Both kinds of refusal are obeyed within the mismatch limit. *)
THEOREM RefusalSafe == ObservedSpec => []RefusalObeyed
<1>1. IInv => RefusalObeyed
  <2> SUFFICES ASSUME IInv PROVE RefusalObeyed
    OBVIOUS
  <2>1. refusedRun \in Nat /\ latMismatch \in Nat /\ MismatchLimit \in Nat \ {0}
    BY EngagementAssumption DEF IInv, TypeOK
  <2> QED
    BY <2>1 DEF IInv, RefusalInv, RefusalObeyed
<1> QED
  BY <1>1, Invariance, PTL
-----------------------------------------------------------------------------
(* What a frame may not do. *)

(* mads.py hides a reason not to engage only behind its silent twin. *)
LEMMA MadsSeesReason ==
  ASSUME NEW c, NEW e \in UnsafeFaults \cup {"wrongGear"}, e \in SdSees(c)
  PROVE  Contains(MadsSees(c), NoEntryEvents)
<1>1. CASE e \in Silenced(c, SdOn', SdSees(c))
  <2>1. SilentOf[e] \in SilentCauses
    BY <1>1 DEF Silenced, PauseCauses, SilentOf, SilentCauses
  <2>2. SilentOf[e] \in MadsSees(c)
    BY <1>1 DEF MadsSees, MadsEvents, MadsRaised, Silents
  <2> QED
    BY <2>1, <2>2 DEF Contains, NoEntryEvents
<1>2. CASE e \notin Silenced(c, SdOn', SdSees(c))
  <2>1. e \notin MadsRemoved(c, SdOn', SdSees(c))
    BY <1>2 DEF MadsRemoved, If, UnsafeFaults
  <2>2. e \in NoEntryEvents
    BY DEF UnsafeFaults, NoEntryEvents
  <2> QED
    BY <2>1, <2>2 DEF MadsSees, MadsEvents, Contains
<1> QED
  BY <1>1, <1>2

LEMMA UnsafeIsSeen ==
  ASSUME NEW c \in Inputs, IsUnsafe(c)
  PROVE  \E e \in UnsafeFaults \cup {"wrongGear"} : e \in SdSees(c)
<1>1. CASE ~c.valid /\ "canBusMissing" \notin c.faults
  <2>1. "hardFault" \in SdSees(c)
    BY <1>1 DEF SdSees, FrameEvents, If
  <2> QED
    BY <2>1 DEF UnsafeFaults
<1>2. CASE c.valid /\ c.gear # "drive"
  BY <1>2 DEF SdSees, FrameEvents, CarEvents, If
<1>3. CASE c.valid /\ c.faults \cap UnsafeFaults # {}
  <2>1. PICK e \in c.faults \cap UnsafeFaults : TRUE
    BY <1>3
  <2>2. e \in CarFaults \cup SystemFaults /\ e # "canBusMissing"
    BY DEF UnsafeFaults, CarFaults, SystemFaults
  <2>3. e \in SdSees(c)
    BY <1>3, <2>2 DEF SdSees, FrameEvents, CarEvents, If
  <2> QED
    BY <2>3
<1>4. CASE c.faults \cap {"softFault", "blocked"} # {}
  <2>1. PICK e \in {"softFault", "blocked"} : e \in c.faults
    BY <1>4
  <2>2. e \in SdSees(c)
    BY <2>1 DEF SdSees, FrameEvents, SystemFaults, If
  <2> QED
    BY <2>2 DEF UnsafeFaults
<1> QED
  BY <1>1, <1>2, <1>3, <1>4 DEF IsUnsafe

LEMMA UnsafeFrame ==
  ASSUME IInv, NEW c \in Inputs, ObservedFrame(c), IsUnsafe(c)
  PROVE  (Steering' => Steering) /\ (SdOn' => SdOn)
<1>1. CASE ~initialized'
  BY <1>1, FrameSteps DEF IInv, OffBeforeInit, Steering, SdOn, MadsActiveStates, SdEnabledStates,
                          SdActiveStates
<1>2. CASE initialized'
  <2>1. PICK e \in UnsafeFaults \cup {"wrongGear"} : e \in SdSees(c)
    BY UnsafeIsSeen
  <2>2. Steering' => Steering
    <3>1. Contains(MadsSees(c), NoEntryEvents)
      BY <2>1, MadsSeesReason
    <3>2. ~Steering => mads \in {"disabled", "paused"}
      BY DEF IInv, TypeOK, Steering, MadsStates, MadsEnabledStates
    <3> QED
      BY <1>2, <3>1, <3>2, FrameMadsOff
  <2>3. SdOn' => SdOn
    <3>1. Contains(SdSees(c), NoEntryEvents)
      BY <2>1 DEF Contains, UnsafeFaults, NoEntryEvents
    <3>2. ~SdOn => sd = "disabled"
      BY DEF IInv, TypeOK, SdOn, SdStates
    <3>3. sd = "disabled" => sd' = "disabled"
      BY <1>2, <3>1, FrameSteps DEF SdNext
    <3> QED
      BY <3>2, <3>3 DEF SdOn, SdEnabledStates, SdActiveStates
  <2> QED
    BY <2>2, <2>3
<1> QED
  BY <1>1, <1>2

(* Neither machine starts in a frame that reports a reason not to engage. *)
THEOREM NoEntrySafe == ObservedSpec => NoEntryRespected
<1>1. ASSUME IInv, [ObservedNext]_allvars, ~(UNCHANGED allvars)
      PROVE  unsafe' => (Steering' => Steering) /\ (SdOn' => SdOn)
  <2>1. CASE \E c \in Inputs : ObservedFrame(c)
    BY <1>1, <2>1, UnsafeFrame DEF ObservedFrame
  <2>2. CASE ReadParams
    BY <2>2 DEF ReadParams, Steering, SdOn
  <2> QED
    BY <1>1, <2>1, <2>2 DEF ObservedNext
<1>2. IInv /\ [ObservedNext]_allvars
      => [unsafe' => (Steering' => Steering) /\ (SdOn' => SdOn)]_allvars
  BY <1>1
<1> QED
  BY <1>2, Invariance, PTL DEF ObservedSpec, NoEntryRespected

(* What it takes not to be paused. *)
LEMMA NotPaused ==
  ASSUME NEW state \in MadsStates, NEW left, NEW E,
         ~Contains(E, NoEntryEvents), "silentLkasDisable" \notin E,
         state = "paused" => Contains(E, EnableEvents)
  PROVE  MadsNext(state, left, E) # "paused"
BY DEF MadsNext, MadsSteer, MadsEntry, MadsStates, MadsEnabledStates, MadsActiveStates

LEMMA FrameNotPaused ==
  ASSUME IInv, NEW c \in Inputs, ObservedFrame(c), initialized',
         ~Contains(MadsSees(c), NoEntryEvents),
         "pedalPressed" \notin SdSees(c), Silenced(c, SdOn', SdSees(c)) = {}
  PROVE  mads' # "paused"
<1>1. "silentLkasDisable" \notin SdSees(c)
  BY DEF SdSees, FrameEvents, CarEvents, CarFaults, SystemFaults, If
<1>2. ~Pauses(c, SdOn', SdSees(c))
  BY DEF Pauses, PedalNotGas
<1>3. "silentLkasDisable" \notin MadsSees(c)
  BY <1>1, <1>2 DEF MadsSees, MadsEvents, MadsRaised, Silents, If
<1>4. mads = "paused" => Contains(MadsSees(c), EnableEvents)
  <2> SUFFICES ASSUME mads = "paused" PROVE "silentLkasEnable" \in MadsSees(c)
    BY DEF Contains, EnableEvents
  <2>1. Resumes(c, SdOn', SdSees(c))
    BY DEF Resumes, PedalNotGas
  <2> QED
    BY <2>1 DEF MadsSees, MadsEvents, MadsRaised, If
<1>5. mads \in MadsStates /\ mads' = MadsNext(mads, SdTimer(sd, sd', timer), MadsSees(c))
  BY FrameSteps DEF IInv, TypeOK
<1> QED
  BY <1>3, <1>4, <1>5, NotPaused

(* What MADS itself raises refuses no engagement. *)
LEMMA RaisedAllowsEntry ==
  ASSUME NEW c, NEW on, NEW E, Silenced(c, on, E) = {},
         ~(LatMismatchNext(c, on) >= MismatchLimit)
  PROVE  MadsRaised(c, on, E) \cap NoEntryEvents = {}
<1>1. Silents(c, on, E) = {}
  BY DEF Silents
<1> QED
  BY <1>1 DEF MadsRaised, If, NoEntryEvents, SilentCauses

LEMMA ClearFrame ==
  ASSUME IInv, NEW c \in Inputs, ObservedFrame(c), initialized', IsClear(c)
  PROVE  mads' # "paused"
<1> USE EngagementAssumption
<1>1. SdSees(c) \cap NoEntryEvents \subseteq {"wrongCarMode", "wrongCruiseMode", "buttonCancel"}
  <2>1. MismatchNext(c) < MismatchLimit
    BY DEF MismatchNext, IInv, RefusalInv, IsClear
  <2>2. ~(MismatchNext(c) >= MismatchLimit)
    BY <2>1 DEF MismatchNext, IInv, TypeOK, IsClear
  <2> QED
    BY <2>2 DEF SdSees, FrameEvents, CarEvents, PedalPressed, If, IsClear, CarFaults, SystemFaults,
                NoEntryEvents, SilentCauses
<1>2. SdSees(c) \cap PauseCauses = {} /\ "pedalPressed" \notin SdSees(c)
  BY DEF SdSees, FrameEvents, CarEvents, PedalPressed, If, IsClear, CarFaults, SystemFaults,
         PauseCauses
<1>3. Silenced(c, SdOn', SdSees(c)) = {}
  BY <1>2 DEF Silenced
<1>4. ~Contains(MadsSees(c), NoEntryEvents)
  <2>1. ~(LatMismatchNext(c, SdOn') >= MismatchLimit)
    BY DEF LatMismatchNext, IInv, RefusalInv, TypeOK, IsClear
  <2>2. MadsRaised(c, SdOn', SdSees(c)) \cap NoEntryEvents = {}
    BY <1>3, <2>1, RaisedAllowsEntry
  <2> QED
    BY <1>1, <2>2 DEF MadsSees, MadsEvents, MadsRemoved, Contains
<1> QED
  BY <1>2, <1>3, <1>4, FrameNotPaused

LEMMA EngagingFrame ==
  ASSUME IInv, NEW c \in Inputs, ObservedFrame(c), ~SdOn, SdOn'
  PROVE  mads' # "paused" /\ (mads = "disabled" /\ params.unified => Steering')
<1> USE EngagementAssumption
<1>1. initialized' /\ sd = "disabled" /\ sd' # "disabled"
  BY FrameSteps DEF IInv, TypeOK, SdStates, SdOn, SdEnabledStates, SdActiveStates
<1>2. ~Contains(SdSees(c), NoEntryEvents) /\ Contains(SdSees(c), EnableEvents)
  BY <1>1, FrameSteps DEF SdNext
<1>3. Silenced(c, SdOn', SdSees(c)) = {}
  BY DEF Silenced, Alone
<1>4. ~Contains(MadsSees(c), NoEntryEvents)
  <2>1. ~(LatMismatchNext(c, SdOn') >= MismatchLimit)
    BY DEF LatMismatchNext
  <2>2. MadsRaised(c, SdOn', SdSees(c)) \cap NoEntryEvents = {}
    BY <1>3, <2>1, RaisedAllowsEntry
  <2> QED
    BY <1>2, <2>2 DEF MadsSees, MadsEvents, Contains
<1>5. mads' # "paused"
  <2>1. "pedalPressed" \notin SdSees(c)
    BY <1>2 DEF Contains, NoEntryEvents
  <2> QED
    BY <1>1, <1>3, <1>4, <2>1, FrameNotPaused
<1>6. ASSUME mads = "disabled", params.unified
      PROVE  Steering'
  <2>1. PICK e \in {"pcmEnable", "buttonEnable"} : e \in SdSees(c)
    BY <1>2 DEF Contains, EnableEvents, SdSees, FrameEvents, CarEvents, CarFaults, SystemFaults, If
  <2>2. c.avail
    <3>1. c.valid
      BY <2>1 DEF SdSees, FrameEvents, SystemFaults, If
    <3>2. ~c.avail => "wrongCarMode" \in SdSees(c)
      BY <3>1 DEF SdSees, FrameEvents, CarEvents, If
    <3> QED
      BY <1>2, <3>2 DEF Contains, NoEntryEvents
  <2>3. ~BlockUnified(SdOn')
    BY <1>6 DEF BlockUnified, MadsOn, MadsEnabledStates, MadsActiveStates, IInv, SdWasInv
  <2>4. e \in MadsSees(c)
    BY <2>1, <2>2, <2>3, <1>3 DEF MadsSees, MadsEvents, MadsRemoved, If, Alone
  <2>5. Contains(MadsSees(c), EnableEvents)
    BY <2>4 DEF Contains, EnableEvents
  <2>6. mads' = MadsEntry(MadsSees(c))
    BY <1>1, <1>4, <1>6, <2>5, FrameSteps DEF MadsNext
  <2> QED
    BY <2>6 DEF Steering, MadsEntry, MadsActiveStates
<1> QED
  BY <1>5, <1>6

(* A frame that enables selfdrived leaves no MADS paused, and with unified *)
(* engagement none disabled.                                               *)
THEOREM EngagedTogetherSafe == ObservedSpec => EngagedTogether
<1>1. ASSUME IInv, [ObservedNext]_allvars, ~SdOn, SdOn'
      PROVE  mads' # "paused" /\ (mads = "disabled" /\ params.unified => Steering')
  <2>1. CASE \E c \in Inputs : ObservedFrame(c)
    BY <1>1, <2>1, EngagingFrame
  <2>2. CASE ReadParams \/ UNCHANGED allvars
    BY <1>1, <2>2 DEF ReadParams, SdOn, allvars, vars
  <2> QED
    BY <1>1, <2>1, <2>2 DEF ObservedNext
<1>2. IInv /\ [ObservedNext]_allvars
      => [~SdOn /\ SdOn' => /\ mads' # "paused"
                            /\ mads = "disabled" /\ params.unified => Steering']_allvars
  BY <1>1
<1> QED
  BY <1>2, Invariance, PTL DEF ObservedSpec, EngagedTogether

(* MADS does not wait in paused once the reasons to pause are gone. *)
THEOREM PauseSafe == ObservedSpec => []PauseNeverSticks
<1>1. ObservedInit => PauseNeverSticks
  BY DEF ObservedInit, PauseNeverSticks
<1>2. IInv /\ PauseNeverSticks /\ [ObservedNext]_allvars => PauseNeverSticks'
  <2> SUFFICES ASSUME IInv, PauseNeverSticks, [ObservedNext]_allvars
               PROVE  PauseNeverSticks'
    OBVIOUS
  <2>1. ASSUME NEW c \in Inputs, ObservedFrame(c)
        PROVE  PauseNeverSticks'
    BY <2>1, ClearFrame DEF ObservedFrame, PauseNeverSticks
  <2>2. CASE (ReadParams /\ UNCHANGED observers) \/ UNCHANGED allvars
    BY <2>2 DEF ReadParams, observers, allvars, vars, PauseNeverSticks
  <2> QED
    BY <2>1, <2>2 DEF ObservedNext
<1> QED
  BY <1>1, <1>2, Invariance, PTL DEF ObservedSpec
-----------------------------------------------------------------------------
(* Whichever machine soft disables, its warning is in the alerts of the    *)
(* frame, but for a MADS that does so beside an engaged selfdrived.        *)
WarnedInv ==
  /\ sd = "softDisabling" => "SOFT_DISABLE" \in alerts
  /\ mads = "softDisabling" /\ ~SdOn => "SOFT_DISABLE" \in alerts

LEMMA WarnedStep == WarnedInv /\ IInv /\ [ObservedNext]_allvars => WarnedInv'
<1> SUFFICES ASSUME WarnedInv, IInv, [ObservedNext]_allvars PROVE WarnedInv'
  OBVIOUS
<1>1. ASSUME NEW c \in Inputs, ObservedFrame(c) PROVE WarnedInv'
  <2>1. CASE ~initialized'
    BY <1>1, <2>1, FrameSteps DEF WarnedInv, IInv, OffBeforeInit
  <2>2. CASE initialized'
    <3>1. alerts' = SdAlerts(sd, sd', SdSees(c)) \cup MadsAlerts(mads, mads', SdOn', MadsSees(c))
      BY <1>1, <2>2, FrameSteps
    <3>2. sd' = "softDisabling" => "SOFT_DISABLE" \in SdAlerts(sd, sd', SdSees(c))
      BY DEF SdAlerts
    <3>3. mads' = "softDisabling" /\ ~SdOn'
          => "SOFT_DISABLE" \in MadsAlerts(mads, mads', SdOn', MadsSees(c))
      BY DEF MadsAlerts
    <3> QED
      BY <3>1, <3>2, <3>3 DEF WarnedInv
  <2> QED
    BY <2>1, <2>2
<1>2. CASE (ReadParams /\ UNCHANGED observers) \/ UNCHANGED allvars
  BY <1>2 DEF ReadParams, allvars, vars, WarnedInv, SdOn
<1> QED
  BY <1>1, <1>2 DEF ObservedNext

(* The three ways in which MADS stops steering.                            *)
LEMMA WaysOut ==
  ASSUME NEW state \in MadsActiveStates, NEW left, NEW E,
         MadsNext(state, left, E) \notin MadsActiveStates
  PROVE  \/ Contains(E, UserDisableEvents)
         \/ ~Contains(E, UserDisableEvents) /\ Contains(E, ImmediateDisableEvents)
         \/ state = "softDisabling" /\ left = 0 /\ Contains(E, SoftDisableEvents)
BY DEF MadsNext, MadsSteer, MadsEntry, MadsActiveStates

(* No frame that starts selfdrived brings an immediate disable: the two of *)
(* them that do not forbid to engage come without an engagement.           *)
LEMMA StartIsClean ==
  ASSUME IInv, NEW c \in Inputs, ObservedFrame(c), ~SdOn, SdOn'
  PROVE  ~Contains(SdSees(c), ImmediateDisableEvents)
<1>1. initialized' /\ sd = "disabled" /\ sd' # "disabled"
  BY FrameSteps DEF IInv, TypeOK, SdStates, SdOn, SdEnabledStates, SdActiveStates
<1>2. ~Contains(SdSees(c), NoEntryEvents) /\ Contains(SdSees(c), EnableEvents)
  BY <1>1, FrameSteps DEF SdNext
<1>3. c.valid /\ c.cruise
  <2>1. PICK e \in {"pcmEnable", "buttonEnable"} : e \in SdSees(c)
    BY <1>2 DEF Contains, EnableEvents, SdSees, FrameEvents, CarEvents, CarFaults, SystemFaults, If
  <2> QED
    BY <2>1 DEF SdSees, FrameEvents, CarEvents, CarFaults, SystemFaults, If
<1> SUFFICES ASSUME NEW e \in ImmediateDisableEvents, e \in SdSees(c) PROVE FALSE
  BY DEF Contains
<1>4. e \in {"cruiseDisabled", "speedTooLow"}
  BY <1>2 DEF Contains, ImmediateDisableEvents, NoEntryEvents
<1>5. e \in c.faults
  BY <1>4 DEF SdSees, FrameEvents, CarEvents, SystemFaults, If
<1>6. "belowEngageSpeed" \in c.faults
  BY <1>3, <1>4, <1>5, EngagementAssumption DEF Sensible
<1>7. "belowEngageSpeed" \in SdSees(c)
  BY <1>3, <1>6 DEF SdSees, FrameEvents, CarEvents, CarFaults, If
<1> QED
  BY <1>2, <1>7 DEF Contains, NoEntryEvents

LEMMA LossFrame ==
  ASSUME IInv, WarnedInv, NEW c \in Inputs, ObservedFrame(c),
         Steering, ~Steering', sd # "preEnabled"
  PROVE  alerts' \cap {"USER_DISABLE", "IMMEDIATE_DISABLE"} # {} \/ "SOFT_DISABLE" \in alerts
<1> USE EngagementAssumption
<1>1. initialized'
  BY FrameSteps DEF Steering
<1>2. /\ sd' = SdNext(sd, Decremented(timer), SdSees(c))
      /\ mads' = MadsNext(mads, SdTimer(sd, sd', timer), MadsSees(c))
      /\ alerts' = SdAlerts(sd, sd', SdSees(c)) \cup MadsAlerts(mads, mads', SdOn', MadsSees(c))
  BY <1>1, FrameSteps
<1>3. mads \in MadsActiveStates /\ mads # "disabled" /\ sd \in SdStates
  BY DEF Steering, MadsActiveStates, IInv, TypeOK
<1>4. CASE Contains(MadsSees(c), UserDisableEvents)
  <2>1. "USER_DISABLE" \in MadsAlerts(mads, mads', SdOn', MadsSees(c))
    BY <1>3, <1>4 DEF MadsAlerts
  <2> QED
    BY <1>2, <2>1
<1>5. CASE ~Contains(MadsSees(c), UserDisableEvents) /\ Contains(MadsSees(c), ImmediateDisableEvents)
  <2>1. CASE ~SdOn'
    <3>1. "IMMEDIATE_DISABLE" \in MadsAlerts(mads, mads', SdOn', MadsSees(c))
      BY <1>3, <1>5, <2>1 DEF MadsAlerts
    <3> QED
      BY <1>2, <3>1
  <2>2. CASE SdOn'
    <3>1. ~(LatMismatchNext(c, SdOn') >= MismatchLimit)
      BY <2>2 DEF LatMismatchNext
    <3>2. Contains(SdSees(c), ImmediateDisableEvents)
      BY <1>5, <3>1 DEF Contains, MadsSees, MadsEvents, MadsRaised, Silents, Silenced, SilentOf,
                        PauseCauses, ImmediateDisableEvents, If
    <3>3. SdOn
      BY <2>2, <3>2, StartIsClean
    <3>4. sd' = "disabled"
      BY <1>2, <3>2, <3>3 DEF SdNext, Contains, SdOn, SdEnabledStates, SdActiveStates
    <3> QED
      BY <2>2, <3>4 DEF SdOn, SdEnabledStates, SdActiveStates
  <2> QED
    BY <2>1, <2>2
<1>6. CASE mads = "softDisabling" /\ SdTimer(sd, sd', timer) = 0
           /\ Contains(MadsSees(c), SoftDisableEvents)
  <2>1. CASE ~SdOn \/ sd = "softDisabling"
    BY <1>6, <2>1 DEF WarnedInv
  <2>2. CASE sd \in {"enabled", "overriding"}
    <3>1. Contains(SdSees(c), SoftDisableEvents)
      BY <1>6 DEF Contains, MadsSees, MadsEvents, MadsRaised, Silents, Silenced, SilentOf,
                  PauseCauses, SoftDisableEvents, If
    <3>2. CASE Contains(SdSees(c), UserDisableEvents \cup ImmediateDisableEvents)
      <4>1. {"USER_DISABLE", "IMMEDIATE_DISABLE"} \cap SdAlerts(sd, sd', SdSees(c)) # {}
        BY <2>2, <3>2 DEF SdAlerts, Contains
      <4> QED
        BY <1>2, <4>1
    <3>3. CASE ~Contains(SdSees(c), UserDisableEvents \cup ImmediateDisableEvents)
      <4>1. sd' = "softDisabling"
        BY <1>2, <2>2, <3>1, <3>3 DEF SdNext
      <4>2. SdTimer(sd, sd', timer) = SoftDisableFrames
        BY <2>2, <4>1 DEF SdTimer
      <4> QED
        BY <1>6, <4>2, SoftDisableFramesAssumption
    <3> QED
      BY <3>2, <3>3
  <2> QED
    BY <1>3, <2>1, <2>2 DEF SdOn, SdStates, SdEnabledStates, SdActiveStates
<1> QED
  BY <1>2, <1>3, <1>4, <1>5, <1>6, WaysOut DEF Steering

(* Steering never ends without a word: a user or an immediate disable in   *)
(* the frame, or the warning of the soft disable in the one before, except *)
(* beside a selfdrived in preEnabled.                                      *)
THEOREM LossAnnouncedSafe == ObservedSpec => LossAnnounced
<1>1. ObservedInit => WarnedInv
  BY DEF ObservedInit, Init, WarnedInv
<1>2. IInv /\ WarnedInv /\ [ObservedNext]_allvars
      => [Steering /\ ~Steering' /\ sd # "preEnabled"
            => alerts' \cap {"USER_DISABLE", "IMMEDIATE_DISABLE"} # {}
                 \/ "SOFT_DISABLE" \in alerts]_allvars
  <2> SUFFICES ASSUME IInv, WarnedInv, [ObservedNext]_allvars,
                      Steering, ~Steering', sd # "preEnabled"
               PROVE  alerts' \cap {"USER_DISABLE", "IMMEDIATE_DISABLE"} # {}
                        \/ "SOFT_DISABLE" \in alerts
    OBVIOUS
  <2>1. CASE \E c \in Inputs : ObservedFrame(c)
    BY <2>1, LossFrame
  <2>2. CASE ReadParams \/ UNCHANGED allvars
    BY <2>2 DEF ReadParams, Steering, allvars, vars
  <2> QED
    BY <2>1, <2>2 DEF ObservedNext
<1> QED
  BY <1>1, <1>2, WarnedStep, Invariance, PTL DEF ObservedSpec, LossAnnounced
=============================================================================
