-------------------------- MODULE SelfdriveState --------------------------
(***************************************************************************)
(* The openpilot engagement state machine (selfdrive/selfdrived/state.py). *)
(* StateMachine.update is a function of the old state, the soft-disable    *)
(* timer and the events of the frame; its results are the operators below. *)
(***************************************************************************)
EXTENDS Naturals, OnroadEvents

CONSTANT SoftDisableFrames   \* int(SOFT_DISABLE_TIME / DT_CTRL), 300 in the code

ASSUME SoftDisableFramesAssumption == SoftDisableFrames \in Nat /\ SoftDisableFrames > 2

SdActiveStates == {"enabled", "softDisabling", "overriding"}
SdEnabledStates == SdActiveStates \cup {"preEnabled"}
SdStates == SdEnabledStates \cup {"disabled"}

Overridden(events) ==
  Contains(events, OverrideLateralEvents \cup OverrideLongitudinalEvents)

(* The state an admitted engagement request leads to. *)
SdEntry(events) ==
  IF Contains(events, PreEnableEvents) THEN "preEnabled"
  ELSE IF Overridden(events) THEN "overriding" ELSE "enabled"

(* The state after update; left is the timer after its decrement. *)
SdNext(state, left, events) ==
  IF state = "disabled"
  THEN IF Contains(events, EnableEvents) /\ ~Contains(events, NoEntryEvents)
       THEN SdEntry(events) ELSE "disabled"
  ELSE IF Contains(events, UserDisableEvents \cup ImmediateDisableEvents)
  THEN "disabled"
  ELSE IF state = "preEnabled"
  THEN IF Contains(events, PreEnableEvents) THEN "preEnabled" ELSE "enabled"
  ELSE IF ~Contains(events, SoftDisableEvents)
  THEN IF state # "softDisabling" /\ Overridden(events)
       THEN "overriding" ELSE "enabled"
  ELSE IF state = "softDisabling" /\ left = 0
  THEN "disabled" ELSE "softDisabling"

(* Mutant: the decrement does not stop at zero. *)
DecrementedFreely(timer) == timer - 1

Decremented(timer) == IF timer = 0 THEN 0 ELSE timer - 1

(* The timer after update: set again on entrance in softDisabling. *)
SdTimer(state, next, timer) ==
  IF next = "softDisabling" /\ state # "softDisabling"
  THEN SoftDisableFrames ELSE Decremented(timer)

(* The alert types update leaves in current_alert_types. *)
SdAlerts(state, next, events) ==
  LET leaving == state # "disabled" IN
  {a \in {"USER_DISABLE", "IMMEDIATE_DISABLE", "SOFT_DISABLE", "NO_ENTRY", "ENABLE"} :
     \/ /\ a = "USER_DISABLE"
        /\ leaving /\ Contains(events, UserDisableEvents)
     \/ /\ a = "IMMEDIATE_DISABLE"
        /\ leaving /\ ~Contains(events, UserDisableEvents)
        /\ Contains(events, ImmediateDisableEvents)
     \/ a = "SOFT_DISABLE" /\ next = "softDisabling"
     \/ /\ a = "NO_ENTRY" /\ ~leaving
        /\ Contains(events, EnableEvents) /\ Contains(events, NoEntryEvents)
     \/ a = "ENABLE" /\ ~leaving /\ next # "disabled"}
=============================================================================
