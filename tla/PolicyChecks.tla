---------------------------- MODULE PolicyChecks ----------------------------
(***************************************************************************)
(* Loops of the device that take one decision per message and share        *)
(* nothing: a behaviour of this module is one of one of them, chosen by    *)
(* part.  The other variables added here only observe.                     *)
(***************************************************************************)
EXTENDS Hardwared, DriverMonitoring, SpeedLimitAssist, LaneChange

CONSTANTS DmUnits   \* frames without attention after which an alert is shown

(* Both budgets run down, and for a step at the wheel the filter of the    *)
(* camera's may let a frame go by for nothing.                             *)
ASSUME PolicyAssumption == DmUnits \in Nat /\ DmUnits >= 3 * Full - VisionAlert2 - 2

VARIABLES
  part,      \* the loop that runs
  hot,       \* a drive ended by heat, and no sample below the ok band since
  dmStreak,  \* frames in a row of a driver who looks away or is not seen
  dmEngaged, \* the last frame was of an engaged system
  agreed,    \* the limit the driver agreed to, or a later one he need not be asked about
  missed,    \* the set speed changed twice between two frames of plannerd
  vetoed,    \* the brake was pressed before a change, for the blinker that is on
  once,      \* a change began for the blinker that is on
  unasked,   \* the last frame began a change though the driver did not turn the wheel
  clear      \* frames since the blind spot held a change back, for the blinker that is on

hwAll == <<hwVars, hot>>
dmAll == <<dmVars, dmStreak, dmEngaged>>
slaAll == <<slaVars, agreed, missed>>
lcAll == <<lcVars, vetoed, once, unasked, clear>>
policyVars == <<part, hwAll, dmAll, slaAll, lcAll>>

PolicyInit ==
  /\ part \in {"hw", "dm", "sla", "lc"}
  /\ HwInit /\ hot = FALSE
  /\ DmInit /\ dmStreak = 0 /\ dmEngaged = FALSE
  /\ SlaInit /\ agreed = 0 /\ missed = FALSE
  /\ LcInit /\ vetoed = FALSE /\ once = FALSE /\ unasked = FALSE /\ clear = OneSecond + 1
  /\ part # "hw" => ~offroadMode
  /\ part # "dm" => ~lockout /\ ~alwaysOn
  /\ part # "sla" => ~pcm /\ \A v \in Cruises : set <= v
  /\ part # "lc" => lcMode = Off /\ bsmDelay

HwObserved ==
  \/ \E in \in HwInputs : HwSkip(in) /\ UNCHANGED hot
  \/ \E in \in HwInputs, s \in Samples :
       /\ HwStep(in, s)
       /\ hot' = (s.temp >= MinTemp[2] /\ (hot \/ (started /\ thermal' = 2)))
  \/ (AskCycle \/ SwitchMode) /\ UNCHANGED hot

DmObserved ==
  \/ \E in \in DmInputs :
       /\ DmFrame(in)
       /\ dmEngaged' = in.engaged
       /\ dmStreak' = IF in.engaged /\ ~in.standstill /\ ~in.touching /\ in.look \in {"hidden", "distracted"}
                      THEN LeastOf(dmStreak + 1, DmUnits + 1) ELSE 0
  \/ ToggleAlwaysOn /\ UNCHANGED <<dmStreak, dmEngaged>>

(* To agree is to set the speed that is asked for, or to answer with the   *)
(* button; above the threshold, that holds for the next limit too.         *)
Agrees ==
  \/ IF pcm THEN Confirmed /\ HasLimit ELSE Accepted
  \/ agreed # 0 /\ sla \in Active /\ set >= Threshold /\ Limit >= Threshold

SlaObserved ==
  /\ \/ Plan /\ agreed' = IF Agrees THEN Limit ELSE IF LimitChanged THEN 0 ELSE agreed
     \/ (Tell \/ Card \/ Outside) /\ UNCHANGED agreed
  /\ missed' = IF set' # set THEN missed \/ set # setPrev
               ELSE missed /\ ~(setPrev' # setPrev \/ sla' = "disabled")

LcObserved ==
  \/ \E in \in LcInputs :
       /\ LcFrame(in)
       /\ vetoed' = (One(in) /\ (vetoed \/ (lcState = "pre" /\ in.brake)))
       /\ once' = (One(in) /\ (once \/ lcState' = "starting"))
       /\ unasked' = (lcState = "pre" /\ lcState' = "starting" /\ in.steer # lcDir')
       /\ clear' = IF Forgets THEN OneSecond + 1
                   ELSE IF lcState = "pre" /\ Blind(in) THEN 0
                   ELSE LeastOf(clear + 1, OneSecond + 1)
  \/ LcSettings /\ unasked' = FALSE /\ clear' = OneSecond + 1 /\ UNCHANGED <<vetoed, once>>

PolicyNext ==
  \/ part = "hw" /\ HwObserved /\ UNCHANGED <<part, dmAll, slaAll, lcAll>>
  \/ part = "dm" /\ DmObserved /\ UNCHANGED <<part, hwAll, slaAll, lcAll>>
  \/ part = "sla" /\ SlaObserved /\ UNCHANGED <<part, hwAll, dmAll, lcAll>>
  \/ part = "lc" /\ LcObserved /\ UNCHANGED <<part, hwAll, dmAll, slaAll>>

(* plannerd and card run at fixed rates and send what changed.             *)
PolicySpec ==
  /\ PolicyInit /\ [][PolicyNext]_policyVars
  /\ WF_slaVars(part = "sla" /\ Plan)
  /\ WF_slaVars(part = "sla" /\ Tell)
  /\ WF_slaVars(part = "sla" /\ Card)
-----------------------------------------------------------------------------
(* hardwared: a device that is onroad has the ignition, no pending cycle,  *)
(* no critical heat and the driver's consent, though most iterations skip  *)
(* the decision and only look whether there is an edge.                    *)
OnroadConsistent ==
  started => ignition /\ cycling = 0 /\ thermal < 2 /\ ~modeSeen

(* THERMAL_BANDS: after a drive was ended by heat none begins before the   *)
(* temperature was below the overheated band once.                         *)
NoThermalBounce == [][~started /\ started' => ~hot']_policyVars

(* dmonitoringd: a driver of an engaged, moving car who gives no sign of   *)
(* attention for DmUnits frames is alerted, however the frames alternate   *)
(* between looking away and being out of sight, and with them the policies.*)
DistractionBounded == dmStreak > DmUnits => alert >= 2

(* "restore awareness when ... alert is not red", always_on: a red alert,  *)
(* which counts towards the lockout, needs an engaged system, and only a   *)
(* frame of a disengaged one ends it, not a change of policy or a glance.  *)
RedHolds ==
  [][/\ awareness <= 0 /\ awareness' > 0 => ~dmEngaged'
     /\ alert' = 3 => dmEngaged']_policyVars

(* apply_confirm_speed_threshold: a limit is followed only if the driver   *)
(* agreed to it, or to an earlier one since when neither the limits nor    *)
(* the set speed came below the threshold; limits come and go unread.      *)
Consent == sla \in Active => agreed = limit

Settled ==
  \/ sla \in {"disabled", "inactive", "pending"}
  \/ sla \in Active /\ (pcm \/ set = Clip(limit))

(* plannerd and card: taking a limit looks like a change by the driver,    *)
(* which ends the session, and set speed and limit are equal then, which   *)
(* begins it again.  Left alone the two come to rest: no question stays    *)
(* open, and a limit that is followed is the set speed.  The set speed     *)
(* must not have changed and changed back between two frames of plannerd.  *)
Settles == <>[][~Outside]_policyVars => <>[](Settled \/ missed)

(* update_allowed: for one use of the blinker a change begins by itself at *)
(* most once, not after one the driver began, and not after he braked,     *)
(* through changes of side, of the settings and of lateral control.        *)
OnceUnasked == [][unasked' => ~once /\ ~vetoed']_policyVars

(* update_lane_change_timers: with the delay for blind spots on, no change *)
(* begins by itself within a second of a car having been in the blind spot *)
(* on the side of the blinker, whatever the mode's own delay - while the   *)
(* blinker stays on: a new use of it begins with a timer that was reset.   *)
BlindSpotWaits == [][unasked' /\ bsmDelay => clear' > OneSecond]_policyVars
=============================================================================
