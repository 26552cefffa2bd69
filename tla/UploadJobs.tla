----------------------------- MODULE UploadJobs -----------------------------
(* What the upload queue promises of each request: once accepted it waits, *)
(* is sent by one worker at a time, and ends once; only a restart may      *)
(* forget it, or have it wait again.                                       *)
CONSTANTS Items
VARIABLES job

JobInit == job = [i \in Items |-> "none"]

Moves == {<<"none", "waiting">>, <<"waiting", "sending">>, <<"sending", "waiting">>,
          <<"waiting", "gone">>, <<"sending", "gone">>, <<"sending", "sent">>}

Move(i) ==
  \E m \in Moves : job[i] = m[1] /\ job' = [job EXCEPT ![i] = m[2]]

(* The process starts again from what it had written down. *)
Recover ==
  \E kept \in SUBSET {i \in Items : job[i] # "none"} :
    job' = [i \in Items |-> IF i \in kept THEN "waiting"
                               ELSE IF job[i] \in {"waiting", "sending"} THEN "gone" ELSE job[i]]

JobNext == Recover \/ \E i \in Items : Move(i)
JobSpec == JobInit /\ [][JobNext]_job
=============================================================================
