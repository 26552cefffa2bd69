----------------------------- MODULE LaneChange -----------------------------
(***************************************************************************)
(* modeld's desire_helper and the automatic lane change: a blinker asks    *)
(* for a change of lane, which begins when the driver turns the wheel or,  *)
(* in a mode with a delay, by itself.  One LcFrame is one update; the      *)
(* timers count frames.  Turns at low speed (lane_turn_desire) choose what *)
(* is sent to the model and change nothing here.                           *)
(***************************************************************************)
EXTENDS Integers

CONSTANTS
  Delays,      \* AUTO_LANE_CHANGE_TIMER, of the modes that have a delay
  Nudgeless,   \* the shortest of them, one frame
  OneSecond,   \* ONE_SECOND_DELAY
  LlMax,       \* lane_change_ll_prob 1., in steps of fading in
  ChangeMax,   \* LANE_CHANGE_TIME_MAX
  LcInputs     \* what a frame may find, of AllLcInputs

Sides == {"left", "right"}
(* The blinkers that are on, sides with a car in the blind spot, where the *)
(* driver turns the wheel, and whether the model sees the change done.     *)
AllLcInputs ==
  [active : BOOLEAN, blinkers : SUBSET Sides, slow : BOOLEAN, blind : SUBSET Sides,
   steer : Sides \cup {"none"}, brake : BOOLEAN, done : BOOLEAN]

ASSUME LcAssumption ==
  /\ LcInputs \subseteq AllLcInputs
  /\ Delays \subseteq Nat \ {0} /\ Nudgeless \in Delays
  /\ OneSecond \in Nat \ {0} /\ LlMax \in Nat \ {0} /\ ChangeMax \in Nat

VARIABLES
  lcState,     \* lane_change_state: "off", "pre", "starting", "finishing"
  lcDir,       \* lane_change_direction
  lcTimer,     \* lane_change_timer
  llProb,      \* lane_change_ll_prob
  oneBlinker,  \* prev_one_blinker
  lcWait,      \* lane_change_wait_timer, up to the longest delay and one
  braked,      \* prev_brake_pressed
  changed,     \* prev_lane_change
  lcMode,      \* lane_change_set_timer: Off, Nudge or the delay
  bsmDelay     \* lane_change_bsm_delay

lcSettings == <<lcMode, bsmDelay>>
lcVars == <<lcState, lcDir, lcTimer, llProb, oneBlinker, lcWait, braked, changed, lcSettings>>

Off == -1
Nudge == 0
Modes == {Off, Nudge} \cup Delays  \* AutoLaneChangeMode

LcInit ==
  /\ lcState = "off" /\ lcDir = "none" /\ lcTimer = 0 /\ llProb = LlMax
  /\ oneBlinker = FALSE /\ lcWait = 0 /\ braked = FALSE /\ changed = FALSE
  /\ lcMode \in Modes /\ bsmDelay \in BOOLEAN

-----------------------------------------------------------------------------
One(in) == in.blinkers \in {{"left"}, {"right"}}
Direction(in) == IF "left" \in in.blinkers THEN "left" ELSE "right"
Blind(in) == Direction(in) \in in.blind
Longest == CHOOSE d \in Delays : \A e \in Delays : e <= d

(* Mutant: a car in the blind spot begins the delay again. *)
WaitRestarts(in) ==
  IF bsmDelay /\ Blind(in) /\ lcMode \in Delays THEN 0
  ELSE IF lcWait > Longest THEN lcWait ELSE lcWait + 1

(* update_lane_change_timers                                               *)
Wait(in) ==
  IF bsmDelay /\ Blind(in) /\ lcMode \in Delays
  THEN (IF lcMode = Nudgeless THEN 0 ELSE lcMode) - OneSecond
  ELSE IF lcWait > Longest THEN lcWait ELSE lcWait + 1

Braked(in) == braked \/ in.brake

Allowed(in) == lcMode \in Delays /\ ~Braked(in) /\ ~changed /\ Wait(in) > lcMode  \* update_allowed

Step(s, d) == lcState' = s /\ lcDir' = d

Stops(in) == ~in.active \/ lcTimer > ChangeMax \/ lcMode = Off

FromOff(in) ==
  /\ lcState = "off"
  /\ IF One(in) /\ ~oneBlinker /\ ~in.slow
     THEN Step("pre", Direction(in)) /\ llProb' = LlMax
     ELSE Step("off", lcDir) /\ UNCHANGED llProb

FromPre(in) ==
  /\ lcState = "pre"
  /\ \/ (~One(in) \/ in.slow) /\ Step("off", "none")
     \/ /\ One(in) /\ ~in.slow
        /\ Step(IF (in.steer = Direction(in) \/ Allowed(in)) /\ ~Blind(in) THEN "starting" ELSE "pre",
                Direction(in))
  /\ UNCHANGED llProb

FromStarting(in) ==
  /\ lcState = "starting"
  /\ llProb' = IF llProb > 2 THEN llProb - 2 ELSE 0
  /\ Step(IF in.done /\ llProb' = 0 THEN "finishing" ELSE "starting", lcDir)

FromFinishing(in) ==
  /\ lcState = "finishing"
  /\ llProb' = IF llProb < LlMax THEN llProb + 1 ELSE LlMax
  /\ IF llProb' < LlMax THEN Step("finishing", lcDir) ELSE Step(IF One(in) THEN "pre" ELSE "off", "none")

(* Mutant: between two changes the first is forgotten. *)
ForgetsByDirection == lcDir' = "none"

Forgets == lcState' = "off" /\ lcDir' = "none"  \* reset

(* DesireHelper.update; the controller looks at the brake and waits only   *)
(* before a change, and is reset at the end of the frame.                  *)
LcFrame(in) ==
  /\ \/ Stops(in) /\ Step("off", "none") /\ UNCHANGED llProb
     \/ ~Stops(in) /\ (FromOff(in) \/ FromPre(in) \/ FromStarting(in) \/ FromFinishing(in))
  /\ lcTimer' = IF lcState' \in {"off", "pre"} THEN 0 ELSE lcTimer + 1
  /\ oneBlinker' = One(in)
  /\ changed' = (~Forgets /\ (changed \/ lcState' = "starting"))
  /\ braked' = (~Forgets /\ (IF lcState = "pre" THEN Braked(in) ELSE braked))
  /\ lcWait' = IF Forgets THEN 0 ELSE IF lcState = "pre" THEN Wait(in) ELSE lcWait
  /\ UNCHANGED lcSettings

(* read_params, at any time                                                *)
LcSettings ==
  /\ lcMode' \in Modes /\ bsmDelay' \in BOOLEAN
  /\ UNCHANGED <<lcState, lcDir, lcTimer, llProb, oneBlinker, lcWait, braked, changed>>
=============================================================================
