--------------------------- MODULE StagedInstall ---------------------------
(***************************************************************************)
(* What an owner may rely on from the updater: the device runs a version   *)
(* that came with it, one that was made on it, or one that was staged      *)
(* whole; an installation takes effect at once or not at all.              *)
(***************************************************************************)
CONSTANTS
  Published,  \* versions of the remote repository
  Homemade,   \* versions made on the device
  Nothing     \* nothing is staged; no version

VARIABLES running, staged
vars == <<running, staged>>

Init == running \in Published /\ staged = Nothing

(* A published version is staged, all of it. *)
Stage == staged = Nothing /\ staged' \in Published /\ UNCHANGED running

Discard == staged' = Nothing /\ UNCHANGED running

Install ==
  /\ staged # Nothing
  /\ running' = staged /\ staged' = Nothing

Edit == running' \in Homemade /\ UNCHANGED staged

Next == Stage \/ Discard \/ Install \/ Edit

Spec == Init /\ [][Next]_vars
=============================================================================
