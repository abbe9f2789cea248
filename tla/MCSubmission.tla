---------------------------- MODULE MCSubmission ----------------------------
(* Four batches, the last one short, as the generator plans them.           *)
EXTENDS Submission

MCBatches == 0..3
MCSize == [b \in MCBatches |-> IF b = 3 THEN 1 ELSE 2]
=============================================================================
