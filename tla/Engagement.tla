---------------------------- MODULE Engagement ----------------------------
(***************************************************************************)
(* selfdrived's control loop (SelfdriveD.step, 100 Hz) with MADS in it:    *)
(* one Frame samples the car, raises the events of the frame, updates the  *)
(* openpilot state machine and then MADS, which rewrites the events before *)
(* updating its own machine.  A second thread refreshes the parameters.    *)
(*                                                                         *)
(* The car, the panda and the rest of openpilot are the environment: the   *)
(* input of a frame is any member of Inputs, chosen anew in every frame.   *)
(***************************************************************************)
EXTENDS MadsState

CONSTANTS
  PcmCruise,      \* CP.pcmCruise: the car's own ACC decides engagement
  AllowAlways,    \* mads.allow_always: the LKAS button works with main off
  NoMainCruise,   \* mads.no_main_cruise: the brand has no ACC main button
  SteeringMode,   \* mads.steering_mode_on_brake
  MismatchLimit,  \* frames of refusal by the panda before a mismatch, 200
  Inputs,         \* what the environment may report in a frame
  Settings        \* parameter values the user may set while driving

(* Events of conditions car_specific.py reads from the CarState and that   *)
(* no other field of an input decides.                                     *)
CarFaults == {"doorOpen", "seatbeltNotLatched", "brakeHold", "parkBrake",
              "espActive", "steerOverride", "steerDisengage", "wrongCruiseMode",
              "belowEngageSpeed", "speedTooLow", "cruiseDisabled", "hardFault"}

(* Events of the rest of the system. *)
SystemFaults == {"softFault", "blocked", "canBusMissing"}

Speeds == {"still", "slow", "fast"}        \* standstill; below 2.5 m/s; above
Gears == {"drive", "park", "reverse"}

CarStates ==
  [brake : BOOLEAN, gas : BOOLEAN, speed : Speeds, gear : Gears,
   avail : BOOLEAN,                       \* cruiseState.available
   cruise : BOOLEAN,                      \* cruiseState.enabled (PcmCruise), buttonEnable
   button : {"none", "lkas", "cancel"},   \* the button event of the frame
   valid : BOOLEAN,                       \* canValid
   faults : SUBSET (CarFaults \cup SystemFaults \cup {"blockPcmEnable"}),
   refused : BOOLEAN,                     \* some panda has not controlsAllowed
   latRefused : BOOLEAN]                  \* ... has not controlsAllowedLateral

AllSettings == [main : BOOLEAN, unified : BOOLEAN, gasDisengages : BOOLEAN]

(* car_specific.py reports a cruise that is off, or too slow for it, when  *)
(* the car's ACC is off, and else a low speed as below the one to engage.  *)
Sensible(c) ==
  /\ "cruiseDisabled" \in c.faults => PcmCruise /\ ~c.cruise
  /\ "speedTooLow" \in c.faults => "belowEngageSpeed" \in c.faults \/ (PcmCruise /\ ~c.cruise)

ASSUME EngagementAssumption ==
  /\ PcmCruise \in BOOLEAN /\ AllowAlways \in BOOLEAN /\ NoMainCruise \in BOOLEAN
  /\ SteeringMode \in {"remainActive", "pause", "disengage"}
  /\ MismatchLimit \in Nat \ {0}
  /\ Inputs \subseteq CarStates /\ \A c \in Inputs : Sensible(c)
  /\ Settings \subseteq AllSettings

VARIABLES
  initialized,   \* selfdrived.initialized
  sd,            \* selfdrived.state_machine.state
  timer,         \* selfdrived.state_machine.soft_disable_timer
  mads,          \* mads.state_machine.state
  alerts,        \* selfdrived.state_machine.current_alert_types
  sdWas,         \* selfdrived.enabled_prev, written by mads.update
  prev,          \* selfdrived.CS_prev, the fields a later frame reads
  mismatch,      \* selfdrived.mismatch_counter
  latMismatch,   \* mads.lateral_mismatch_counter
  params,        \* parameters the params thread refreshes
  madsGas        \* mads.disengage_on_accelerator, read once at start

vars == <<initialized, sd, timer, mads, alerts, sdWas, prev, mismatch,
          latMismatch, params, madsGas>>

SdOn == sd \in SdEnabledStates
MadsOn == mads \in MadsEnabledStates
Steering == mads \in MadsActiveStates

Seen(c) == [brake |-> c.brake, gas |-> c.gas, gear |-> c.gear, speed |-> c.speed,
            avail |-> c.avail, cruise |-> c.cruise, valid |-> c.valid]

If(cond, events) == IF cond THEN events ELSE {}
-----------------------------------------------------------------------------
(* The events of the frame. *)

(* A pedal edge, or a brake held while moving (SelfdriveD.update_events). *)
PedalPressed(c) ==
  \/ c.gas /\ ~prev.gas /\ params.gasDisengages
  \/ c.brake /\ (~prev.brake \/ c.speed # "still")

(* CarSpecificEvents.create_common_events. *)
CarEvents(c) ==
  (c.faults \cap CarFaults)
  \cup If(c.gear # "drive", {"wrongGear"})
  \cup If(c.gear = "reverse", {"reverseGear"})
  \cup If(~c.avail, {"wrongCarMode"})
  \cup If(c.brake /\ c.speed = "still", {"preEnableStandstill"})
  \cup If(c.gas, {"gasPressedOverride"})
  \cup If(c.button = "cancel", {"buttonCancel"})
  \cup If(~PcmCruise /\ c.cruise, {"buttonEnable"})
  \cup If(PcmCruise /\ c.cruise /\ ~prev.cruise /\ "blockPcmEnable" \notin c.faults,
          {"pcmEnable"})
  \cup If(PcmCruise /\ ~c.cruise, {"pcmDisable"})

(* SelfdriveD.data_sample: frames the panda refused in this engagement. *)
MismatchNext(c) ==
  IF ~SdOn THEN 0 ELSE IF c.refused THEN mismatch + 1 ELSE mismatch

(* SelfdriveD.update_events, once initialized. *)
FrameEvents(c) ==
  (If(c.valid, CarEvents(c) \cup If(PedalPressed(c), {"pedalPressed"}))
   \cup (c.faults \cap SystemFaults)
   \cup If(~c.valid /\ "canBusMissing" \notin c.faults, {"hardFault"})
   \cup If(MismatchNext(c) >= MismatchLimit, {"controlsMismatch"}))
  \ If(c.gear = "park" /\ MadsOn, {"canBusMissing"})
-----------------------------------------------------------------------------
(* ModularAssistiveDrivingSystem.update_events: what MADS makes of the     *)
(* events E.  on says whether selfdrived is enabled after its own update.  *)

(* Mutant: counts while selfdrived is enabled, not while it is not. *)
LatMismatchNextTogether(c, on) ==
  IF ~Steering \/ ~on THEN 0 ELSE IF c.latRefused THEN latMismatch + 1 ELSE latMismatch

LatMismatchNext(c, on) ==
  IF ~Steering \/ on THEN 0 ELSE IF c.latRefused THEN latMismatch + 1 ELSE latMismatch

(* Mutant: a held gas pedal hides the brake as well. *)
PedalNotGasHeld(c, E) == "pedalPressed" \in E /\ ~(c.gas /\ madsGas)

(* pedal_pressed_non_gas_pressed *)
PedalNotGas(c, E) == "pedalPressed" \in E /\ ~(c.gas /\ ~prev.gas /\ madsGas)

(* MADS steers, or waits to, without selfdrived. *)
Alone(on) == ~on /\ MadsOn

(* The causes that pause instead of disabling. *)
Silenced(c, on, E) ==
  {e \in E \cap PauseCauses :
     /\ Alone(on)
     /\ e \in {"doorOpen", "seatbeltNotLatched"} => c.speed = "still"
     /\ e = "wrongGear" => c.speed # "fast" \/ c.gear = "reverse"}

Silents(c, on, E) == {SilentOf[e] : e \in Silenced(c, on, E)}

(* Mutant: pauses on the brake only, not on the silenced causes. *)
PausesOnBrake(c, on, E) ==
  Alone(on) /\ mads # "paused" /\ SteeringMode = "pause" /\ PedalNotGas(c, E)

(* transition_paused_state *)
Pauses(c, on, E) ==
  /\ Alone(on) /\ mads # "paused"
  /\ Silenced(c, on, E) # {} \/ (SteeringMode = "pause" /\ PedalNotGas(c, E))

(* Mutant: does not tell the first enabled frame from later ones. *)
BlockUnifiedWhileOn(on) == ~params.unified \/ MadsOn \/ on

(* block_unified_engagement_mode *)
BlockUnified(on) == ~params.unified \/ MadsOn \/ (on /\ sdWas)

Requested(E) == Contains(E, {"pcmEnable", "buttonEnable"})

MadsRemoved(c, on, E) ==
  {"wrongCarMode", "pcmDisable", "buttonCancel", "pedalPressed", "wrongCruiseMode"}
  \cup Silenced(c, on, E)
  \cup If(Alone(on), {"preEnableStandstill", "belowEngageSpeed", "speedTooLow",
                      "cruiseDisabled", "espActive"})
  \cup If(Requested(E) /\ BlockUnified(on), {"pcmEnable", "buttonEnable"})
  \cup If(~c.avail /\ ~NoMainCruise, {"buttonEnable"})

(* Mutant: resumes on the edge of the brake only. *)
ResumesOnRelease(c, on, E) ==
  mads = "paused" /\ prev.brake /\ ~c.brake /\ Silenced(c, on, E) = {}

(* should_silent_lkas_enable *)
Resumes(c, on, E) ==
  /\ mads = "paused"
  /\ ~(SteeringMode = "pause" /\ PedalNotGas(c, E))
  /\ Silenced(c, on, E) = {}

LkasButton(c) == c.button = "lkas" /\ (c.avail \/ AllowAlways)

MadsRaised(c, on, E) ==
  Silents(c, on, E)
  \cup If(Pauses(c, on, E), {"silentLkasDisable"})
  \cup If(~Requested(E) /\ params.main /\ c.avail /\ ~prev.avail, {"lkasEnable"})
  \cup If(LkasButton(c) /\ MadsOn /\ on, {"manualSteeringRequired"})
  \cup If(LkasButton(c) /\ MadsOn /\ ~on, {"lkasDisable"})
  \cup If(LkasButton(c) /\ ~MadsOn, {"lkasEnable"})
  \cup If(~c.avail /\ prev.avail /\ ~NoMainCruise, {"lkasDisable"})
  \cup If(SteeringMode = "disengage" /\ PedalNotGas(c, E) /\ MadsOn, {"lkasDisable"})
  \cup If(Resumes(c, on, E), {"silentLkasEnable"})
  \cup If(LatMismatchNext(c, on) >= MismatchLimit, {"controlsMismatchLateral"})

MadsEvents(c, on, E) == (E \ MadsRemoved(c, on, E)) \cup MadsRaised(c, on, E)
-----------------------------------------------------------------------------
Init ==
  /\ initialized = FALSE
  /\ sd = "disabled" /\ mads = "disabled" /\ timer = 0
  /\ alerts = {} /\ sdWas = FALSE
  /\ prev = [brake |-> FALSE, gas |-> FALSE, gear |-> "park", speed |-> "slow",
             avail |-> FALSE, cruise |-> FALSE, valid |-> FALSE]
  /\ mismatch = 0 /\ latMismatch = 0
  /\ params \in Settings /\ madsGas = params.gasDisengages

(* The state machines of an initialized selfdrived. *)
Machines(c, E) ==
  /\ sd' = SdNext(sd, Decremented(timer), E)
  /\ LET on == sd' \in SdEnabledStates
         X == MadsEvents(c, on, E)
         left == SdTimer(sd, sd', timer)
     IN /\ mads' = MadsNext(mads, left, X)
        /\ timer' = MadsTimer(mads, mads', on, left)
        /\ alerts' = SdAlerts(sd, sd', E) \cup MadsAlerts(mads, mads', on, X)

(* SelfdriveD.step. *)
Frame(c) ==
  \E ready \in BOOLEAN :
    /\ initialized' = (initialized \/ ready)
    /\ mismatch' = MismatchNext(c)
    /\ IF initialized' THEN Machines(c, FrameEvents(c))
       ELSE UNCHANGED <<sd, timer, mads, alerts>>
    /\ latMismatch' = LatMismatchNext(c, sd' \in SdEnabledStates)
    /\ sdWas' = (sd' \in SdEnabledStates)
    /\ prev' = Seen(c)
    /\ UNCHANGED <<params, madsGas>>

(* SelfdriveD.params_thread: one refresh, with mads.read_params. *)
ReadParams ==
  /\ params' \in Settings
  /\ UNCHANGED <<initialized, sd, timer, mads, alerts, sdWas, prev, mismatch,
                 latMismatch, madsGas>>

Next == (\E c \in Inputs : Frame(c)) \/ ReadParams

Spec == Init /\ [][Next]_vars
=============================================================================
