---------------------------- MODULE MCUploadQueue ----------------------------
(* Small instances of UploadQueueChecks: requests 1 and 2 are of one file, *)
(* 2 is the urgent one and 1 may use a metered connection.                 *)
EXTENDS UploadQueueChecks, TLC

SameFile == [i \in Items |-> IF i = 2 THEN 1 ELSE i]
SecondUrgent == [i \in Items |-> IF i = 2 THEN 0 ELSE 1]
WorkersAlike == Permutations(Workers)
==============================================================================
