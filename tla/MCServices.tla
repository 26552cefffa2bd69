----------------------------- MODULE MCServices -----------------------------
(* A small instance of ServiceChecks. *)
EXTENDS ServiceChecks

CONSTANTS front, wide
=============================================================================
