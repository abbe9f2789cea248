----------------------------- MODULE MCPlanLoop -----------------------------
(* Every count that an int of this width can hold, batch sizes on both      *)
(* sides of both clamps, and a base nonce that wraps.                       *)
EXTENDS PlanLoop

MCTotals == CInt
MCBatchArgs == {-1, 0, 1, 2, 3, 4, 5, INT_MAX}
MCBaseNonces == {-3, 0, NONCES - 5}
=============================================================================
