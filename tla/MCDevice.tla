------------------------------ MODULE MCDevice ------------------------------
(* A small instance of DeviceChecks. *)
EXTENDS DeviceChecks
=============================================================================
