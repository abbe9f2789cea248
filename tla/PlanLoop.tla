------------------------------ MODULE PlanLoop ------------------------------
(***************************************************************************)
(* The loop over the batches in program order, without threads: which      *)
(* transactions it creates, with which nonce, for a command line chosen in *)
(* the initial state.                                                      *)
(***************************************************************************)
EXTENDS BatchPlan

CONSTANTS
    Totals,             \* the values of <count> to try
    BatchArgs,          \* the values of --batch to try
    BaseNonces          \* the values of --base-nonce to try

ASSUME ChoicesAssumption ==
    /\ Totals \subseteq CInt
    /\ BatchArgs \subseteq CInt
    /\ BaseNonces \subseteq Int

VARIABLES
    total_count, batch_size, base_nonce,
    b,                  \* the loop counter
    created             \* the transactions created so far

vars == <<total_count, batch_size, base_nonce, b, created>>

num_batches == NumBatches(total_count, batch_size)

Init ==
    /\ total_count \in Totals
    /\ \E raw \in BatchArgs : batch_size = ClampBatchSize(raw)
    /\ base_nonce \in BaseNonces
    /\ b = 0
    /\ created = {}

(* One iteration of the loop creates the transactions of batch b.           *)
Iterate ==
    /\ b < num_batches
    /\ created' = created \cup
         {[batch |-> b, index |-> i, nonce |-> Nonce(base_nonce, i)] :
             i \in TxIndices(total_count, batch_size, b)}
    /\ b' = b + 1
    /\ UNCHANGED <<total_count, batch_size, base_nonce>>

Finished == b >= num_batches /\ UNCHANGED vars

Next == Iterate \/ Finished

Spec == Init /\ [][Next]_vars

-----------------------------------------------------------------------------
(* When the loop has ended, every requested transaction has been created     *)
(* and none that was not requested - unless the number of batches overflowed.*)
AllCreated ==
    b >= num_batches /\ CountFits(total_count, batch_size) =>
        {x.index : x \in created} = 0..(total_count - 1)

(* No transaction is created by two batches, and no two transactions carry   *)
(* the same nonce, also when base_nonce + i wraps.                           *)
CreatedOnce ==
    \A x, y \in created : x.index = y.index \/ x.nonce = y.nonce => x = y

(* No int computed inside the loop overflows, whatever the command line, and *)
(* no iteration finds its batch empty or larger than --batch.                *)
IterationsFit ==
    b < num_batches =>
        /\ b * batch_size + batch_size <= INT_MAX
        /\ TxStart(batch_size, b) = b * batch_size
        /\ BatchCount(total_count, batch_size, b) \in 1..batch_size

(* What the user asks for is what the loop creates.                          *)
CountIsHonoured ==
    b >= num_batches => {x.index : x \in created} = 0..(total_count - 1)
=============================================================================
