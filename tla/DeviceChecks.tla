---------------------------- MODULE DeviceChecks ----------------------------
(* Properties of the beginning and the end of a drive.                     *)
EXTENDS Device

(* ManagerProcess: what the system runs is what the manager knows of: one  *)
(* instance of each process, though stop does not wait, start may follow   *)
(* while the old instance is dying, and any may die at any time.           *)
NoOrphans == \A p \in Procs : alive[p] = IF proc[p] = "running" THEN 1 ELSE 0

(* ensure_running: after a round every process that is wanted was started  *)
(* and is not shutting down, every other is gone or told to go, whatever   *)
(* was still shutting down or had died when the round began.               *)
RoundComplete ==
  mgr = "read" => \A p \in Procs :
    IF Wanted(p) THEN proc[p] # "none" /\ (proc[p] = "running" => ~shutting[p])
    ELSE proc[p] = "running" => shutting[p]

(* manager_cleanup: "everything is dead" before the device powers down.    *)
EverythingDead == mgr = "off" => \A p \in Procs : alive[p] = 0

(* pandad: the panda is in a car's safety mode only while pandad knows it  *)
(* configured one for a drive that it has not seen end.                    *)
ModeHeld == mode = "car" => pdConfigured /\ pdInit /\ pdOnroad

(* A drive that is over ends: the panda takes no commands and card is not  *)
(* running, unless the device is being shut down and ends it that way.     *)
DriveEnds == <>[]~started => <>[](mode = "closed" /\ alive[Card] = 0)
=============================================================================
