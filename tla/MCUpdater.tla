----------------------------- MODULE MCUpdater -----------------------------
(* Small instances of UpdaterChecks. *)
EXTENDS UpdaterChecks

(* The second revision needs the second AGNOS; what is made on the device  *)
(* stays with the first.                                                   *)
NeedsOfRev == [v \in Versions |-> IF v.rev = "r2" THEN 2 ELSE 1]
=============================================================================
