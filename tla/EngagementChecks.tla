------------------------- MODULE EngagementChecks -------------------------
(***************************************************************************)
(* What a driver may rely on from the control loop of Engagement.  The     *)
(* variables added here only observe: how long something has gone on, and  *)
(* what the last frame reported.                                           *)
(***************************************************************************)
EXTENDS Engagement

VARIABLES
  brakeRun,   \* frames in a row that ended steering with the brake held, moving
  softRun,    \* frames in a row that ended with MADS soft disabling
  refusedRun, \* frames in a row that ended steering alone, refused by a panda
  unsafe,     \* the last frame reported a reason not to engage
  clear       \* ... reported no reason to pause, to disable or not to engage

observers == <<brakeRun, softRun, refusedRun, unsafe, clear>>
allvars == <<vars, observers>>

(* Count the frames in a row in which cond holds, up to one past bound. *)
Longer(n, bound, cond) == IF ~cond THEN 0 ELSE IF n > bound THEN n ELSE n + 1

BrakeBound == 2
SoftBound == 2 * SoftDisableFrames - 2

Braking(c) == c.valid /\ c.brake /\ c.speed # "still"

(* Reasons not to engage that the driver or the system reports itself. *)
UnsafeFaults == {"doorOpen", "seatbeltNotLatched", "parkBrake", "steerDisengage",
                 "hardFault", "softFault", "blocked"}

IsUnsafe(c) ==
  \/ ~c.valid /\ "canBusMissing" \notin c.faults
  \/ c.valid /\ (c.gear # "drive" \/ c.faults \cap UnsafeFaults # {})
  \/ c.faults \cap {"softFault", "blocked"} # {}

IsClear(c) ==
  /\ c.valid /\ ~c.brake /\ ~(c.gas /\ ~prev.gas) /\ c.gear = "drive"
  /\ ~c.refused /\ ~c.latRefused
  /\ c.faults \subseteq {"wrongCruiseMode", "blockPcmEnable", "steerOverride"}

ObservedInit ==
  /\ Init
  /\ brakeRun = 0 /\ softRun = 0 /\ refusedRun = 0
  /\ unsafe = TRUE /\ clear = FALSE

ObservedFrame(c) ==
  /\ Frame(c)
  /\ brakeRun' = Longer(brakeRun, BrakeBound, Steering' /\ Braking(c))
  /\ softRun' = Longer(softRun, SoftBound, mads' = "softDisabling")
  /\ refusedRun' = Longer(refusedRun, MismatchLimit,
                          Steering' /\ ~SdOn' /\ c.latRefused)
  /\ unsafe' = IsUnsafe(c)
  /\ clear' = (initialized' /\ IsClear(c))

ObservedNext ==
  \/ \E c \in Inputs : ObservedFrame(c)
  \/ ReadParams /\ UNCHANGED observers

ObservedSpec == ObservedInit /\ [][ObservedNext]_allvars

(* The rate keeper runs step for as long as the process lives. *)
FairSpec == ObservedSpec /\ WF_allvars(\E c \in Inputs : ObservedFrame(c))
-----------------------------------------------------------------------------
(* Every variable has its type, the counters within their limits. *)
TypeOK ==
  /\ initialized \in BOOLEAN /\ sdWas \in BOOLEAN /\ madsGas \in BOOLEAN
  /\ sd \in SdStates /\ mads \in MadsStates
  /\ timer \in 0..SoftDisableFrames
  /\ alerts \subseteq {"USER_DISABLE", "IMMEDIATE_DISABLE", "SOFT_DISABLE", "NO_ENTRY", "ENABLE"}
  /\ prev \in [brake : BOOLEAN, gas : BOOLEAN, gear : Gears, speed : Speeds,
               avail : BOOLEAN, cruise : BOOLEAN, valid : BOOLEAN]
  /\ mismatch \in 0..MismatchLimit /\ latMismatch \in 0..MismatchLimit
  /\ params \in AllSettings
  /\ brakeRun \in Nat /\ softRun \in Nat /\ refusedRun \in Nat
  /\ unsafe \in BOOLEAN /\ clear \in BOOLEAN

(* Neither machine survives a frame in which the car is in reverse: MADS   *)
(* pauses (its silent counterpart of reverseGear) or is disabled with      *)
(* selfdrived, whichever of the two was engaged and however.               *)
NoSteeringInReverse ==
  initialized /\ prev.valid /\ prev.gear = "reverse" => ~Steering /\ ~SdOn

(* With MADS set to pause or to disengage on the brake, steering outlasts  *)
(* a brake held while moving by at most two frames: one in which the LKAS  *)
(* button or the main switch engages it, one in which a gas press hides    *)
(* the brake from pedal_pressed_non_gas_pressed.                           *)
BrakeStopsSteering == SteeringMode # "remainActive" => brakeRun <= BrakeBound

(* MADS shares selfdrived's timer: a soft disable it enters on the rest of *)
(* an earlier one is extended when selfdrived then leaves preEnabled and   *)
(* sets the timer again, but never to twice SOFT_DISABLE_TIME.             *)
SoftDisableBounded == softRun <= SoftBound

(* A panda that refuses lateral control while MADS steers alone is obeyed  *)
(* within the mismatch limit, and so is a panda that refuses control while *)
(* selfdrived is enabled.                                                  *)
RefusalObeyed ==
  /\ refusedRun <= MismatchLimit
  /\ SdOn => mismatch < MismatchLimit

(* MADS never waits in paused once the reasons to pause are gone: the      *)
(* first frame without one either resumes steering or ends it.             *)
PauseNeverSticks == clear => mads # "paused"

(* Neither machine starts in a frame that reports a reason not to engage,  *)
(* though MADS removes and replaces events before its machine sees them.   *)
NoEntryRespected ==
  [][unsafe' => (Steering' => Steering) /\ (SdOn' => SdOn)]_allvars

(* The frame that enables selfdrived leaves MADS steering, unless the LKAS *)
(* button ends it: a paused MADS resumes with selfdrived, and with unified *)
(* engagement a disabled one starts with it.                               *)
EngagedTogether ==
  [][~SdOn /\ SdOn' => /\ mads' # "paused"
                       /\ mads = "disabled" /\ params.unified => Steering']_allvars

(* Steering never ends without a word: the frame raises a user or an       *)
(* immediate disable, or the frame before it warned of the soft disable.   *)
(* The exception is a MADS that soft disabled while selfdrived was in      *)
(* preEnabled: neither set the timer they share.                           *)
LossAnnounced ==
  [][Steering /\ ~Steering' /\ sd # "preEnabled"
     => alerts' \cap {"USER_DISABLE", "IMMEDIATE_DISABLE"} # {} \/ "SOFT_DISABLE" \in alerts
    ]_allvars

(* Soft disabling does not last: it ends in steering, in a pause or off. *)
SoftDisableEnds == mads = "softDisabling" ~> mads # "softDisabling"
-----------------------------------------------------------------------------
(* A statement of the code's comments that the code does not keep. *)

(* sunnypilot/mads/mads.py, update_events in the disengage mode: "block    *)
(* lkasEnable if being sent" in a frame in which the brake is pressed.     *)
LkasBlockedByBrake ==
  [][SteeringMode = "disengage" /\ prev'.valid /\ ~MadsOn
     /\ prev'.brake /\ ~prev.brake /\ ~prev'.gas
     => ~Steering']_allvars
=============================================================================
