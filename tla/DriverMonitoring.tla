-------------------------- MODULE DriverMonitoring --------------------------
(***************************************************************************)
(* dmonitoringd's policy: awareness runs down while the driver is, or may  *)
(* be, distracted, by one of two policies (the camera, or hands on the     *)
(* wheel) with a budget of its own each; too many or too long terminal     *)
(* alerts lock the driver out.  One DmFrame is one run_step.  Awareness is *)
(* counted in steps of the slower policy.                                  *)
(***************************************************************************)
EXTENDS Integers

CONSTANTS
  Full,               \* awareness 1.
  VisionStep,         \* steps of awareness a frame costs, by policy
  VisionAlert1, VisionAlert2,   \* thresholds of the alerts, by policy
  WheelAlert1, WheelAlert2,
  MaxTerminalAlerts,  \* _MAX_TERMINAL_ALERTS
  MaxTerminalTime,    \* _MAX_TERMINAL_DURATION
  FallbackTime,       \* _HI_STD_FALLBACK_TIME
  DmInputs            \* what a frame may find, of AllDmInputs

(* Of the face: "none" was sent, none seen, seen but unclear, distracted   *)
(* or attentive.                                                           *)
Looks == {"none", "hidden", "unclear", "distracted", "attentive"}

AllDmInputs ==
  [look : Looks, touching : BOOLEAN, engaged : BOOLEAN, standstill : BOOLEAN,
   wrongGear : BOOLEAN]

ASSUME DmAssumption ==
  /\ DmInputs \subseteq AllDmInputs
  /\ {VisionAlert1, VisionAlert2, WheelAlert1, WheelAlert2} \subseteq Nat
  /\ 0 < VisionAlert2 /\ VisionAlert2 < VisionAlert1 /\ VisionAlert1 < Full
  /\ 0 < WheelAlert2 /\ WheelAlert2 < WheelAlert1 /\ WheelAlert1 < Full
  /\ VisionStep \in 1 .. Full /\ Full \in Nat
  /\ MaxTerminalAlerts \in Nat /\ MaxTerminalTime \in Nat /\ FallbackTime \in Nat

VARIABLES
  awareness,
  lastVision, lastWheel,  \* last_vision_awareness, last_wheeltouch_awareness
  policy,                 \* active_policy
  step,                   \* step_change
  alert,                  \* alert_level
  filter,                 \* driver_distraction_filter: 0 below .37, 2 above .63
  hiStds,                 \* hi_stds, up to FallbackTime
  face,                   \* face_detected, kept when the model sends nothing
  lowStd,                 \* pose.low_std
  distracted,             \* driver_distracted
  uncertain,              \* is_model_uncertain
  terminals, terminalTime,\* terminal_alert_cnt, terminal_time, up to their limits
  lockout,                \* too_distracted
  alwaysOn                \* always_on, the toggle

dmVars == <<awareness, lastVision, lastWheel, policy, step, alert, filter, hiStds, face, lowStd,
            distracted, uncertain, terminals, terminalTime, lockout, alwaysOn>>

LeastOf(a, b) == IF a <= b THEN a ELSE b
MostOf(a, b) == IF a >= b THEN a ELSE b

DmInit ==
  /\ awareness = Full /\ lastVision = Full /\ lastWheel = Full
  /\ policy = "vision" /\ step = VisionStep /\ alert = 0
  /\ filter = 0 /\ hiStds = 0
  /\ face = FALSE /\ lowStd = TRUE /\ distracted = FALSE /\ uncertain = FALSE
  /\ terminals = 0 /\ terminalTime = 0
  /\ lockout \in BOOLEAN /\ alwaysOn \in BOOLEAN

Alert1Of(p) == IF p = "vision" THEN VisionAlert1 ELSE WheelAlert1
Alert2Of(p) == IF p = "vision" THEN VisionAlert2 ELSE WheelAlert2
StepOf(p) == IF p = "vision" THEN VisionStep ELSE 1

(* Mutant: only the camera's alerts hold the policy. *)
StaysOrange == policy = "vision" /\ awareness <= VisionAlert2

(* _set_policy: no change of policy after an orange alert of the camera's, *)
(* or after a red one.                                                     *)
Stays == (policy = "vision" /\ awareness <= VisionAlert2) \/ awareness <= 0

(* Mutant: a new policy starts with full awareness. *)
BudgetFull(target) == IF target = policy THEN awareness ELSE Full

(* The awareness to go on with under a policy. *)
Budget(target) ==
  IF target = policy THEN awareness
  ELSE IF target = "vision" THEN lastVision ELSE lastWheel

SetPolicy(target) ==
  IF Stays
  THEN [policy |-> policy, awareness |-> awareness, vision |-> lastVision, wheel |-> lastWheel,
        step |-> IF policy = "vision" /\ target # "vision" THEN 0 ELSE StepOf(policy)]
  ELSE [policy |-> target, awareness |-> Budget(target), step |-> StepOf(target),
        vision |-> IF policy = "vision" /\ target # policy THEN awareness ELSE lastVision,
        wheel |-> IF policy = "wheel" /\ target # policy THEN awareness ELSE lastWheel]

(* _update_states, what the camera saw. *)
SeenNow(in) ==
  LET f == in.look # "hidden"
      std == in.look # "unclear"
      dis == in.look = "distracted"
      unsure == hiStds >= FallbackTime
  IN [face |-> f, lowStd |-> std, distracted |-> dis, uncertain |-> unsure,
      filter |-> IF dis THEN LeastOf(filter + 1, 2) ELSE MostOf(filter - 1, 0),
      hiStds |-> IF f /\ ~std THEN LeastOf(hiStds + 1, FallbackTime)
                 ELSE IF f THEN 0 ELSE hiStds,
      set |-> SetPolicy(IF f /\ ~unsure THEN "vision" ELSE "wheel")]

(* Nothing of the driver was sent: _update_states returns. *)
SeenBefore ==
  [face |-> face, lowStd |-> lowStd, distracted |-> distracted, uncertain |-> uncertain,
   filter |-> filter, hiStds |-> hiStds,
   set |-> [policy |-> policy, awareness |-> awareness, vision |-> lastVision,
            wheel |-> lastWheel, step |-> step]]

(* The recovery of one frame, 5 times the step from nothing, 1.25 times    *)
(* when nearly full.                                                       *)
Recovered(a, cost) == LeastOf(a + (cost * (20 * Full - 15 * a)) \div (4 * Full), Full)

(* always_on_exemption: no red alert while disengaged.                     *)
Spared(in, left) == alwaysOn /\ ~in.wrongGear /\ ~in.engaged /\ left <= 0

(* _update_events: the awareness after the frame and whether an alert is   *)
(* shown, from what the frame found.                                       *)
DmEvents(in, s) ==
  LET a == s.set.awareness
      cost == s.set.step
      always == alwaysOn /\ ~in.wrongGear
      stopped == in.standstill /\ a - cost <= Alert1Of(s.set.policy)
      reset == [a |-> Full, vision |-> Full, wheel |-> Full, shown |-> FALSE]
      regain == a > 0 /\ ((s.filter = 0 /\ s.face /\ s.lowStd) \/ stopped)
      a1 == IF regain THEN Recovered(a, cost) ELSE a
      wheel1 == IF regain /\ a1 = Full THEN LeastOf(s.set.wheel + cost, Full) ELSE s.set.wheel
      counting == /\ (s.filter = 2 /\ s.distracted /\ s.face) \/ s.uncertain \/ ~s.face
                  /\ ~stopped /\ ~Spared(in, a - cost)
      kept(b, shown) == [a |-> b, vision |-> s.set.vision, wheel |-> wheel1, shown |-> shown]
  IN IF \/ in.touching /\ a > 0 /\ s.set.policy = "wheel"
        \/ ~in.engaged /\ (~always \/ a <= 0)
        \/ regain /\ in.touching
     THEN reset
     ELSE IF regain /\ a1 > Alert2Of(s.set.policy) THEN kept(a1, FALSE)
     ELSE kept(IF counting THEN MostOf(a1 - cost, -1) ELSE a1, TRUE)

(* The lockout is decided before the alerts of the frame are counted.      *)
DmRun(in, s) ==
  LET e == DmEvents(in, s)
      level == IF ~e.shown THEN 0
               ELSE IF e.a <= 0 THEN 3
               ELSE IF e.a <= Alert2Of(s.set.policy) THEN 2
               ELSE IF e.a <= Alert1Of(s.set.policy) THEN 1 ELSE 0
  IN /\ face' = s.face /\ lowStd' = s.lowStd /\ distracted' = s.distracted
     /\ uncertain' = s.uncertain /\ filter' = s.filter /\ hiStds' = s.hiStds
     /\ policy' = s.set.policy /\ step' = s.set.step
     /\ awareness' = e.a /\ lastVision' = e.vision /\ lastWheel' = e.wheel
     /\ alert' = level
     /\ lockout' = (lockout \/ terminals >= MaxTerminalAlerts \/ terminalTime >= MaxTerminalTime)
     /\ terminalTime' = IF level = 3 THEN LeastOf(terminalTime + 1, MaxTerminalTime) ELSE terminalTime
     /\ terminals' = IF level = 3 /\ s.set.awareness > 0
                     THEN LeastOf(terminals + 1, MaxTerminalAlerts) ELSE terminals
     /\ UNCHANGED alwaysOn

DmFrame(in) == DmRun(in, IF in.look = "none" THEN SeenBefore ELSE SeenNow(in))

ToggleAlwaysOn ==
  /\ alwaysOn' = ~alwaysOn
  /\ UNCHANGED <<awareness, lastVision, lastWheel, policy, step, alert, filter, hiStds, face,
                 lowStd, distracted, uncertain, terminals, terminalTime, lockout>>

DmNext == ToggleAlwaysOn \/ \E in \in DmInputs : DmFrame(in)
=============================================================================
