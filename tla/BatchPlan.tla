------------------------------ MODULE BatchPlan ------------------------------
(***************************************************************************)
(* How the generator cuts total_count transactions into batches: the       *)
(* clamps on the command line, the number of batches and, for each batch,  *)
(* the half-open interval of transaction indices tx_start .. tx_end - 1.   *)
(* All of it is C `int` arithmetic.  Overflow of a signed int is undefined *)
(* in C; the Makefile's build gives the two's complement result, which is  *)
(* what AsInt computes.                                                    *)
(***************************************************************************)
EXTENDS Integers

CONSTANTS
    INT_MAX,            \* the largest int; 2^31 - 1 in the build
    MAX_THREADS,        \* 64 in the source
    MAX_BATCH_SIZE,     \* 256 in the source
    NONCES              \* the number of values of a uint64_t nonce; 2^64

ASSUME LimitsAssumption ==
    /\ INT_MAX \in Nat
    /\ MAX_THREADS \in 1..INT_MAX
    /\ MAX_BATCH_SIZE \in 1..INT_MAX
    /\ NONCES \in Nat /\ NONCES > INT_MAX

CInt == (-INT_MAX - 1)..INT_MAX

(* The int that the build stores for a result x at most one wrap away. *)
AsInt(x) ==
    IF x > INT_MAX THEN x - 2 * (INT_MAX + 1)
    ELSE IF x < -INT_MAX - 1 THEN x + 2 * (INT_MAX + 1)
    ELSE x

(* Division of C: it rounds towards zero.  The divisor is positive here. *)
CDiv(x, y) == IF x >= 0 THEN x \div y ELSE -((-x) \div y)

-----------------------------------------------------------------------------
(* Faulty variants: a floor for the ceiling, a quotient plus one, a last      *)
(* batch that runs past the end, a nonce kept in a narrower type.             *)

NumBatchesFloor(total, size) == CDiv(total, size)

NumBatchesPlusOne(total, size) == CDiv(total, size) + 1

TxEndUnclamped(total, size, b) == AsInt(AsInt(b * size) + size)

NonceNarrow(base, i) == (base + i) % (NONCES \div 8)

-----------------------------------------------------------------------------
ClampBatchSize(size) ==
    IF size > MAX_BATCH_SIZE THEN MAX_BATCH_SIZE
    ELSE IF size < 1 THEN 1 ELSE size

ClampThreads(threads) ==
    IF threads < 1 THEN 1
    ELSE IF threads > MAX_THREADS THEN MAX_THREADS ELSE threads

(* (total_count + batch_size - 1) / batch_size, evaluated left to right. *)
NumBatches(total, size) == CDiv(AsInt(AsInt(total + size) - 1), size)

TxStart(size, b) == AsInt(b * size)

TxEnd(total, size, b) ==
    LET end == AsInt(TxStart(size, b) + size)
    IN  IF end > total THEN total ELSE end

BatchCount(total, size, b) == TxEnd(total, size, b) - TxStart(size, b)

(* The transactions that the inner loop of batch b creates. *)
TxIndices(total, size, b) == TxStart(size, b)..(TxEnd(total, size, b) - 1)

(* The nonce of transaction i: (uint64_t)(base_nonce + i), where the int64_t *)
(* sum may wrap and the cast takes it modulo 2^64 all the same.             *)
Nonce(base, i) == (base + i) % NONCES

(* The ceiling of line 106 is computed without overflow. *)
CountFits(total, size) == total + size - 1 <= INT_MAX
=============================================================================
