--------------------------- MODULE MCEngagement ---------------------------
(* Small instances of EngagementChecks: the inputs a run lets the car and  *)
(* the system report, and the settings the driver may change.              *)
EXTENDS EngagementChecks

Quiet ==
  [brake |-> FALSE, gas |-> FALSE, speed |-> "fast", gear |-> "drive",
   avail |-> TRUE, cruise |-> FALSE, button |-> "none", valid |-> TRUE,
   faults |-> {}, refused |-> FALSE, latRefused |-> FALSE]

(* Pedals, gears, main switch, cruise and the LKAS button. *)
PauseInputs ==
  {[Quiet EXCEPT !.brake = b, !.gas = g, !.speed = s, !.gear = r,
                 !.avail = a, !.cruise = on, !.button = k] :
     b \in BOOLEAN, g \in BOOLEAN, s \in {"still", "fast"},
     r \in {"drive", "reverse"}, a \in BOOLEAN, on \in BOOLEAN, k \in {"none", "lkas"}}

(* Everything that may stop an engagement, one reason at a time. *)
Reasons ==
  {{}, {"doorOpen"}, {"seatbeltNotLatched"}, {"brakeHold"}, {"parkBrake"}, {"espActive"},
   {"steerOverride"}, {"steerDisengage"}, {"belowEngageSpeed"}, {"belowEngageSpeed", "speedTooLow"},
   {"hardFault"}, {"softFault"}, {"blocked"}, {"canBusMissing"}}

FaultInputs ==
  {[Quiet EXCEPT !.faults = f, !.speed = s, !.cruise = on, !.button = k] :
     f \in Reasons, s \in Speeds, on \in BOOLEAN, k \in {"none", "lkas"}}
  \cup {[Quiet EXCEPT !.gear = "park", !.speed = s, !.cruise = on, !.button = k] :
          s \in Speeds, on \in BOOLEAN, k \in {"none", "lkas"}}
  \cup {[Quiet EXCEPT !.valid = FALSE, !.faults = f, !.button = k] :
          f \in {{}, {"canBusMissing"}}, k \in {"none", "lkas"}}

(* Pedals and buttons on a car without a main switch. *)
BrakeInputs ==
  {[Quiet EXCEPT !.brake = b, !.gas = g, !.speed = s, !.avail = a, !.cruise = on,
                 !.button = k] :
     b \in BOOLEAN, g \in BOOLEAN, s \in {"still", "fast"}, a \in BOOLEAN,
     on \in BOOLEAN, k \in {"none", "lkas", "cancel"}}

(* A soft fault that comes and goes, with the brake and the LKAS button at *)
(* a standstill, or at speed without them.                                 *)
SoftInputs ==
  {[Quiet EXCEPT !.faults = f, !.speed = "still", !.brake = b, !.cruise = on] :
     f \in {{}, {"softFault"}, {"hardFault"}}, b \in BOOLEAN, on \in BOOLEAN}
  \cup {[Quiet EXCEPT !.faults = f, !.cruise = on, !.button = k] :
          f \in {{}, {"softFault"}, {"espActive"}}, on \in BOOLEAN,
          k \in {"none", "lkas", "cancel"}}

(* Pandas that refuse either kind of control. *)
RefusalInputs ==
  {[Quiet EXCEPT !.refused = r, !.latRefused = l, !.cruise = on, !.button = k, !.gas = g] :
     r \in BOOLEAN, l \in BOOLEAN, on \in BOOLEAN, k \in {"none", "lkas"}, g \in BOOLEAN}

(* Everything that may stop an engagement, and the pedals. *)
StopInputs == FaultInputs \cup BrakeInputs

(* Everything that ends an engagement slowly. *)
FadeInputs == SoftInputs \cup RefusalInputs

AnySettings == AllSettings
MainUnified == {[main |-> TRUE, unified |-> u, gasDisengages |-> TRUE] : u \in BOOLEAN}
UnifiedGasToggled == {[main |-> FALSE, unified |-> TRUE, gasDisengages |-> g] : g \in BOOLEAN}
GasToggled == {[main |-> FALSE, unified |-> FALSE, gasDisengages |-> g] : g \in BOOLEAN}
=============================================================================
