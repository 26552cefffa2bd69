---------------------------- MODULE MadsState -----------------------------
(***************************************************************************)
(* The MADS lateral state machine (sunnypilot/mads/state.py).  It runs     *)
(* after the openpilot machine in the same frame, on the events mads.py    *)
(* has rewritten, and borrows that machine's soft-disable timer.           *)
(* sdOn says whether selfdrived is enabled after its own update.           *)
(***************************************************************************)
EXTENDS SelfdriveState

MadsActiveStates == {"enabled", "softDisabling", "overriding"}
MadsEnabledStates == MadsActiveStates \cup {"paused"}
MadsStates == MadsEnabledStates \cup {"disabled"}

MadsEntry(events) ==
  IF Contains(events, OverrideLateralEvents) THEN "overriding" ELSE "enabled"

(* Mutant: paused resumes without a look at the reasons not to engage. *)
MadsSteerUnchecked(state, left, events) ==
  IF state = "paused"
  THEN IF Contains(events, EnableEvents) THEN MadsEntry(events) ELSE "paused"
  ELSE IF ~Contains(events, SoftDisableEvents)
  THEN IF state = "softDisabling" THEN "enabled" ELSE MadsEntry(events)
  ELSE IF state = "softDisabling" /\ left = 0
  THEN "disabled" ELSE "softDisabling"

(* The state after update, for a state other than "disabled" in which no   *)
(* disable event is raised.                                                *)
MadsSteer(state, left, events) ==
  IF state = "paused"
  THEN IF Contains(events, EnableEvents) /\ ~Contains(events, NoEntryEvents)
       THEN MadsEntry(events) ELSE "paused"
  ELSE IF ~Contains(events, SoftDisableEvents)
  THEN IF state = "softDisabling" THEN "enabled" ELSE MadsEntry(events)
  ELSE IF state = "softDisabling" /\ left = 0
  THEN "disabled" ELSE "softDisabling"

(* The state after update. *)
MadsNext(state, left, events) ==
  IF state = "disabled"
  THEN IF ~Contains(events, EnableEvents) THEN "disabled"
       ELSE IF ~Contains(events, NoEntryEvents) THEN MadsEntry(events)
       ELSE IF Contains(events, PauseCauses \cup SilentCauses)
            THEN "paused" ELSE "disabled"
  ELSE IF Contains(events, UserDisableEvents)
  THEN IF "silentLkasDisable" \in events THEN "paused" ELSE "disabled"
  ELSE IF Contains(events, ImmediateDisableEvents) THEN "disabled"
  ELSE MadsSteer(state, left, events)

(* Mutant: the timer is set in every frame of a soft disable. *)
MadsTimerEveryFrame(state, next, sdOn, left) ==
  IF next = "softDisabling" /\ ~sdOn THEN SoftDisableFrames ELSE left

(* The shared timer after update: set on entrance in softDisabling, but    *)
(* only while selfdrived itself is not enabled.                            *)
MadsTimer(state, next, sdOn, left) ==
  IF next = "softDisabling" /\ state # "softDisabling" /\ ~sdOn
  THEN SoftDisableFrames ELSE left

(* Mutant: no alert of MADS while selfdrived is enabled. *)
MadsAlertsAloneOnly(state, next, sdOn, events) ==
  {a \in {"USER_DISABLE", "IMMEDIATE_DISABLE", "SOFT_DISABLE"} :
     \/ /\ a = "USER_DISABLE" /\ ~sdOn
        /\ state # "disabled" /\ Contains(events, UserDisableEvents)
     \/ /\ a = "IMMEDIATE_DISABLE" /\ ~sdOn
        /\ state # "disabled" /\ Contains(events, ImmediateDisableEvents)
     \/ a = "SOFT_DISABLE" /\ ~sdOn /\ next = "softDisabling"}

(* The alert types update adds; most of them only while selfdrived is not  *)
(* enabled (add_current_alert_types).                                      *)
MadsAlerts(state, next, sdOn, events) ==
  {a \in {"USER_DISABLE", "IMMEDIATE_DISABLE", "SOFT_DISABLE", "NO_ENTRY", "ENABLE"} :
     \/ /\ a = "USER_DISABLE"
        /\ state # "disabled" /\ Contains(events, UserDisableEvents)
     \/ /\ a = "IMMEDIATE_DISABLE" /\ ~sdOn
        /\ state # "disabled" /\ ~Contains(events, UserDisableEvents)
        /\ Contains(events, ImmediateDisableEvents)
     \/ a = "SOFT_DISABLE" /\ ~sdOn /\ next = "softDisabling"
     \/ /\ a = "NO_ENTRY" /\ ~sdOn /\ state \in {"disabled", "paused"}
        /\ Contains(events, EnableEvents) /\ Contains(events, NoEntryEvents)
        /\ state = "paused" => ~Contains(events, UserDisableEvents \cup ImmediateDisableEvents)
     \/ /\ a = "ENABLE" /\ ~sdOn /\ state \in {"disabled", "paused"}
        /\ next \in MadsActiveStates}
=============================================================================
