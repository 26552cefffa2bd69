--------------------------- MODULE OnroadEvents ---------------------------
(***************************************************************************)
(* The events selfdrived raises in one frame and the event types that      *)
(* drive its two state machines (EVENTS and EVENTS_SP).  A set here is the *)
(* set of events whose table entry has that type.  Events that no code     *)
(* treats by name and that have the same types share one representative:   *)
(*   "softFault"  SOFT_DISABLE and NO_ENTRY: cameraMalfunction, commIssue, *)
(*                processNotRunning, overheat, steerTempUnavailable, ...   *)
(*   "hardFault"  IMMEDIATE_DISABLE and NO_ENTRY: accFaulted, canError,    *)
(*                steerUnavailable, relayMalfunction, ...                  *)
(*   "blocked"    NO_ENTRY only: tooDistracted, outOfSpace, resumeBlocked, *)
(*                selfdriveInitializing, ...                               *)
(* Types PERMANENT and WARNING never move a state machine and are left out.*)
(***************************************************************************)

(* Events whose condition mads.py swaps for a silent counterpart. *)
PauseCauses == {"doorOpen", "seatbeltNotLatched", "wrongGear",
                "reverseGear", "brakeHold", "parkBrake"}

(* The silent counterparts, and "paused without a sound". *)
SilentCauses == {"silentDoorOpen", "silentSeatbeltNotLatched",
                 "silentWrongGear", "silentReverseGear",
                 "silentBrakeHold", "silentParkBrake"}

SilentOf == [doorOpen           |-> "silentDoorOpen",
             seatbeltNotLatched |-> "silentSeatbeltNotLatched",
             wrongGear          |-> "silentWrongGear",
             reverseGear        |-> "silentReverseGear",
             brakeHold          |-> "silentBrakeHold",
             parkBrake          |-> "silentParkBrake"]

EnableEvents == {"pcmEnable", "buttonEnable", "lkasEnable", "silentLkasEnable"}

PreEnableEvents == {"preEnableStandstill"}

OverrideLateralEvents == {"steerOverride"}

OverrideLongitudinalEvents == {"gasPressedOverride"}

UserDisableEvents == {"pcmDisable", "buttonCancel", "parkBrake", "pedalPressed",
                      "steerDisengage", "wrongCarMode", "wrongCruiseMode",
                      "reverseGear", "lkasDisable", "manualSteeringRequired",
                      "silentLkasDisable"}

SoftDisableEvents == {"softFault", "espActive", "wrongGear", "doorOpen",
                      "seatbeltNotLatched"}

ImmediateDisableEvents == {"hardFault", "canBusMissing", "controlsMismatch",
                           "cruiseDisabled", "speedTooLow",
                           "controlsMismatchLateral"}

NoEntryEvents ==
  {"blocked", "softFault", "hardFault", "buttonCancel", "parkBrake",
   "pedalPressed", "steerDisengage", "wrongCarMode", "wrongCruiseMode",
   "belowEngageSpeed", "wrongGear", "doorOpen", "seatbeltNotLatched",
   "espActive", "controlsMismatch", "canBusMissing", "reverseGear",
   "controlsMismatchLateral"} \cup SilentCauses

(* EventsBase.contains: some raised event has the type. *)
Contains(events, type) == events \cap type # {}
=============================================================================
