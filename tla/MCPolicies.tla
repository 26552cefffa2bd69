----------------------------- MODULE MCPolicies -----------------------------
(* A small instance of PolicyChecks. *)
EXTENDS PolicyChecks

(* The gear matters only while disengaged, a standstill only while engaged. *)
Frames ==
  {in \in AllDmInputs : in.engaged => ~in.wrongGear} \ {in \in AllDmInputs : ~in.engaged /\ in.standstill}

(* Blind spots and the wheel matter only on the side of the blinkers.      *)
Lanes ==
  {in \in AllLcInputs :
     in.blind \subseteq in.blinkers /\ in.steer \in in.blinkers \cup {"none"} /\ (in.brake => ~in.done)}
=============================================================================
