--------------------------- MODULE PlanLoopProofs ---------------------------
(***************************************************************************)
(* The plan is correct for every width of int, every limit and every       *)
(* command line.                                                           *)
(***************************************************************************)
EXTENDS PlanLoop, TLAPS

-----------------------------------------------------------------------------
(* Arithmetic                                                                *)

(* The clamps return what their limits say.                                 *)
LEMMA ClampType ==
    ASSUME NEW raw \in Int
    PROVE  /\ ClampBatchSize(raw) \in 1..MAX_BATCH_SIZE
           /\ ClampThreads(raw) \in 1..MAX_THREADS
BY LimitsAssumption DEF ClampBatchSize, ClampThreads

(* A quotient rounded up, by its defining inequalities.                     *)
LEMMA Ceiling ==
    ASSUME NEW total \in Nat, NEW size \in Nat \ {0}
    PROVE  LET n == (total + size - 1) \div size
           IN  /\ n \in Nat
               /\ total <= n * size
               /\ n * size <= total + size - 1
BY SMTT(60)

(* Without overflow the number of batches is the ceiling of count / size.   *)
LEMMA NumBatchesIsCeiling ==
    ASSUME NEW total \in CInt, NEW size \in 1..MAX_BATCH_SIZE, CountFits(total, size)
    PROVE  LET n == NumBatches(total, size)
           IN  /\ n \in Int
               /\ total <= 0 => n <= 0
               /\ total >= 0 => /\ n \in Nat
                                /\ total <= n * size
                                /\ n * size <= total + size - 1
<1>1. /\ total + size \in Int 
      /\ AsInt(AsInt(total + size) - 1) = total + size - 1
  BY LimitsAssumption DEF CInt, CountFits, AsInt
<1>2. NumBatches(total, size) = CDiv(total + size - 1, size)
  BY <1>1 DEF NumBatches
<1>3. CASE total >= 0
  <2>1. NumBatches(total, size) = (total + size - 1) \div size
    BY <1>2, <1>3, LimitsAssumption DEF CDiv, CInt
  <2>2. total = 0 => (total + size - 1) \div size = 0
    BY LimitsAssumption
  <2> QED BY <2>1, <2>2, <1>3, Ceiling, LimitsAssumption DEF CInt
<1>4. CASE total < 0
  <2>1. total + size - 1 >= 0 => (total + size - 1) \div size = 0
    BY <1>4, LimitsAssumption DEF CInt
  <2>2. total + size - 1 < 0 => (-(total + size - 1)) \div size \in Nat
    BY <1>4, LimitsAssumption, SMTT(30) DEF CInt
  <2> QED BY <1>2, <1>4, <2>1, <2>2, LimitsAssumption DEF CDiv, CInt
<1> QED BY <1>3, <1>4, LimitsAssumption DEF CInt

(* Where the sum of the ceiling overflows the program plans no batch.      *)
LEMMA OverflowPlansNothing ==
    ASSUME NEW total \in CInt, NEW size \in 1..MAX_BATCH_SIZE, ~CountFits(total, size)
    PROVE  NumBatches(total, size) \in Int /\ NumBatches(total, size) <= 0
<1> DEFINE x == AsInt(AsInt(total + size) - 1)
<1>1. CASE total + size - 1 > INT_MAX
  <2>1. x = total + size - 1 - 2 * (INT_MAX + 1) /\ x < 0
    BY <1>1, LimitsAssumption DEF CInt, AsInt
  <2>2. (-x) \div size \in Nat
    BY <2>1, LimitsAssumption, SMTT(30) DEF CInt
  <2>3. NumBatches(total, size) = CDiv(x, size)
    BY DEF NumBatches
  <2>4. x \in Int
    BY <2>1, LimitsAssumption DEF CInt
  <2> HIDE DEF x
  <2>5. CDiv(x, size) = -((-x) \div size)
    BY <2>1, <2>4 DEF CDiv
  <2> QED BY <2>2, <2>3, <2>5
<1> QED BY <1>1, LimitsAssumption DEF CInt, CountFits

-----------------------------------------------------------------------------
(* Inside the loop no index overflows, no batch is empty, and batch k       *)
(* starts at k * batch_size.                                                *)
LEMMA InsideTheLoop ==
    ASSUME NEW total \in CInt, NEW size \in 1..MAX_BATCH_SIZE,
           NEW k \in 0..(NumBatches(total, size) - 1)
    PROVE  /\ CountFits(total, size)
           /\ total \in Nat
           /\ k * size \in Nat
           /\ k * size < total
           /\ k * size + size <= INT_MAX
           /\ TxStart(size, k) = k * size
           /\ TxEnd(total, size, k) = IF k * size + size > total THEN total ELSE k * size + size
           /\ BatchCount(total, size, k) \in 1..size
<1>1. CountFits(total, size)
  BY OverflowPlansNothing
<1>2. NumBatches(total, size) \in Int /\ total > 0
  BY <1>1, NumBatchesIsCeiling, LimitsAssumption DEF CInt
<1> DEFINE n == NumBatches(total, size)
<1>3. total \in Nat /\ n * size <= total + size - 1
  BY <1>1, <1>2, NumBatchesIsCeiling, LimitsAssumption DEF CInt
<1> HIDE DEF n
<1>4. k \in Nat /\ k + 1 <= n /\ n \in Nat /\ size \in Nat /\ size >= 1
  BY <1>2, LimitsAssumption DEF n
<1>5. (k + 1) * size <= n * size
  BY <1>4, SMTT(30)
<1>6. /\ (k + 1) * size = k * size + size
      /\ k * size \in Nat
      /\ n * size \in Nat
  BY <1>4, SMTT(30)
<1>7. k * size + size <= total + size - 1
  BY <1>3, <1>4, <1>5, <1>6
<1>8. k * size < total
  BY <1>3, <1>4, <1>6, <1>7
<1>9. TxStart(size, k) = k * size
  BY <1>3, <1>6, <1>8, LimitsAssumption DEF TxStart, AsInt, CInt
<1>10. k * size + size <= INT_MAX /\ AsInt(k * size + size) = k * size + size
  BY <1>1, <1>3, <1>4, <1>6, <1>7, LimitsAssumption DEF AsInt, CountFits
<1>11. TxEnd(total, size, k) = IF k * size + size > total THEN total ELSE k * size + size
  BY <1>9, <1>10 DEF TxEnd
<1>12. BatchCount(total, size, k) \in 1..size
  BY <1>3, <1>4, <1>6, <1>8, <1>9, <1>11 DEF BatchCount
<1> QED BY <1>1, <1>3, <1>6, <1>8, <1>9, <1>10, <1>11, <1>12

(* A later batch is never larger than an earlier one: only the last batch   *)
(* can be short.                                                            *)
LEMMA LaterIsNoLarger ==
    ASSUME NEW total \in CInt, NEW size \in 1..MAX_BATCH_SIZE,
           NEW k \in 0..(NumBatches(total, size) - 1),
           NEW c \in 0..(NumBatches(total, size) - 1), c <= k
    PROVE  BatchCount(total, size, k) <= BatchCount(total, size, c)
<1>1. k \in Nat /\ c \in Nat /\ size \in Nat /\ total \in Nat
  BY InsideTheLoop, LimitsAssumption, k \in Int, c \in Int
<1>2. CASE c = k
  BY <1>2, <1>1, InsideTheLoop, LimitsAssumption
<1>3. CASE c < k
  <2>1. (c + 1) * size <= k * size
    BY <1>1, <1>3, SMTT(30)
  <2>2. (c + 1) * size = c * size + size /\ c * size \in Nat
    BY <1>1, SMTT(30)
  <2>3. c * size + size <= total
    BY <1>1, <2>1, <2>2, InsideTheLoop
  <2>4. BatchCount(total, size, c) = size
    BY <1>1, <2>2, <2>3, InsideTheLoop DEF BatchCount
  <2> QED BY <1>1, <2>4, InsideTheLoop
<1> QED BY <1>1, <1>2, <1>3

(* Each batch starts where the one before it ended, the first at 0, and the   *)
(* last ends with the count.                                                *)
LEMMA Consecutive ==
    ASSUME NEW total \in CInt, NEW size \in 1..MAX_BATCH_SIZE,
           NEW k \in 0..(NumBatches(total, size) - 1)
    PROVE  /\ k = 0 => TxStart(size, k) = 0
           /\ k + 1 \in 0..(NumBatches(total, size) - 1) =>
                 TxStart(size, k + 1) = TxEnd(total, size, k)
           /\ k = NumBatches(total, size) - 1 => TxEnd(total, size, k) = total
<1> DEFINE n == NumBatches(total, size)
<1>1. k \in Nat /\ size \in Nat /\ total \in Nat /\ CountFits(total, size)
  BY InsideTheLoop, LimitsAssumption
<1>2. n \in Nat /\ total <= n * size
  BY <1>1, NumBatchesIsCeiling
<1>3. /\ TxStart(size, k) = k * size
      /\ TxEnd(total, size, k) = IF k * size + size > total THEN total ELSE k * size + size
  BY InsideTheLoop
<1>4. k + 1 \in 0..(n - 1) => TxStart(size, k + 1) = (k + 1) * size /\ (k + 1) * size < total
  BY InsideTheLoop
<1>5. (k + 1) * size = k * size + size /\ k * size \in Nat
  BY <1>1, SMTT(30)
<1>6. k = 0 => k * size = 0
  BY <1>1
<1>7. k = n - 1 => total <= k * size + size
  <2>1. k = n - 1 => n = k + 1
    BY <1>1, <1>2
  <2> QED BY <1>2, <1>5, <2>1
<1> HIDE DEF n
<1> QED BY <1>1, <1>2, <1>3, <1>4, <1>5, <1>6, <1>7 DEF n

(* The batches are consecutive, none is empty or larger than --batch, and    *)
(* every requested transaction is created by exactly one of them, and no     *)
(* other (main.c 106, 164-172).                                              *)
THEOREM BatchesPartition ==
    ASSUME NEW total \in CInt, NEW size \in 1..MAX_BATCH_SIZE, CountFits(total, size)
    PROVE  LET Bs == 0..(NumBatches(total, size) - 1)
           IN  /\ \A k \in Bs :
                     /\ k = 0 => TxStart(size, k) = 0
                     /\ k + 1 \in Bs => TxStart(size, k + 1) = TxEnd(total, size, k)
                     /\ k = NumBatches(total, size) - 1 => TxEnd(total, size, k) = total
                     /\ BatchCount(total, size, k) \in 1..size
               /\ \A k \in Bs : TxIndices(total, size, k) \subseteq 0..(total - 1)
               /\ \A i \in 0..(total - 1) : \E k \in Bs : i \in TxIndices(total, size, k)
               /\ \A k, c \in Bs : \A i \in TxIndices(total, size, k) :
                     i \in TxIndices(total, size, c) => k = c
<1> DEFINE n == NumBatches(total, size)
<1> DEFINE Bs == 0..(n - 1)
<1>1. n \in Int /\ size \in Nat /\ size >= 1
  BY NumBatchesIsCeiling, LimitsAssumption
<1>2. ASSUME NEW k \in Bs, NEW i \in Int
      PROVE  i \in TxIndices(total, size, k) <=>
                k * size <= i /\ i < k * size + size /\ i < total
  BY <1>1, <1>2, InsideTheLoop DEF TxIndices
<1>3. ASSUME NEW k \in Bs, NEW i \in TxIndices(total, size, k)
      PROVE  i \in 0..(total - 1)
  <2>1. i \in Int
    BY <1>1, <1>3, InsideTheLoop DEF TxIndices
  <2> QED BY <1>2, <2>1, <1>3, InsideTheLoop
<1>4. ASSUME NEW i \in 0..(total - 1)
      PROVE  \E k \in Bs : i \in TxIndices(total, size, k)
  <2> DEFINE k == i \div size
  <2>0. total \in Int
    BY LimitsAssumption DEF CInt
  <2>1. k \in Nat /\ k * size <= i /\ i < k * size + size
    BY <1>1, <1>4, <2>0, SMTT(30)
  <2>2. n \in Nat /\ total <= n * size
    BY <2>0, NumBatchesIsCeiling, <1>4
  <2> HIDE DEF k, n
  <2>3. ~(n <= k)
    <3>1. n <= k => n * size <= k * size
      BY <1>1, <2>1, <2>2, SMTT(30)
    <3> QED BY <3>1, <2>0, <2>1, <2>2, <1>1, <1>4
  <2>4. k \in Bs
    BY <2>1, <2>2, <2>3
  <2>5. i < total /\ i \in Int
    BY <1>4, <2>0
  <2>6. i \in TxIndices(total, size, k)
    BY <1>2, <2>1, <2>4, <2>5
  <2> QED BY <2>4, <2>6
<1>5. ASSUME NEW k \in Bs, NEW c \in Bs, NEW i \in TxIndices(total, size, k),
             i \in TxIndices(total, size, c)
      PROVE  k = c
  <2>1. i \in Int
    BY <1>3, <1>5, LimitsAssumption DEF CInt
  <2>2. /\ k * size <= i /\ i < k * size + size
        /\ c * size <= i /\ i < c * size + size
    BY <1>2, <2>1, <1>5
  <2>3. k \in Nat /\ c \in Nat
    BY <1>1
  <2> HIDE DEF n
  <2>4. k < c => k * size + size <= c * size
    BY <1>1, <2>3, SMTT(30)
  <2>5. c < k => c * size + size <= k * size
    BY <1>1, <2>3, SMTT(30)
  <2>6. k * size \in Int /\ c * size \in Int
    BY <1>1, <2>3
  <2> QED BY <1>1, <2>1, <2>2, <2>3, <2>4, <2>5, <2>6
<1>6. ASSUME NEW k \in Bs
      PROVE  /\ k = 0 => TxStart(size, k) = 0
             /\ k + 1 \in Bs => TxStart(size, k + 1) = TxEnd(total, size, k)
             /\ k = n - 1 => TxEnd(total, size, k) = total
             /\ BatchCount(total, size, k) \in 1..size
  BY Consecutive, InsideTheLoop
<1> QED BY <1>3, <1>4, <1>5, <1>6

(* Two transactions of one run never carry the same nonce (main.c 173).     *)
THEOREM NoncesDiffer ==
    ASSUME NEW total \in CInt, NEW base \in Int,
           NEW i \in 0..(total - 1), NEW j \in 0..(total - 1), i # j
    PROVE  Nonce(base, i) # Nonce(base, j)
<1>1. /\ i \in Int /\ j \in Int /\ i - j < NONCES /\ j - i < NONCES
      /\ NONCES \in Nat /\ NONCES > 0
  BY LimitsAssumption DEF CInt
<1>2. ASSUME NEW x \in Int, NEW y \in Int, x < y, y - x < NONCES
      PROVE  x % NONCES # y % NONCES
  <2>1. x = NONCES * (x \div NONCES) + (x % NONCES) /\ x \div NONCES \in Int /\ x % NONCES \in Int
    BY <1>1, SMTT(30)
  <2>2. y = NONCES * (y \div NONCES) + (y % NONCES) /\ y \div NONCES \in Int /\ y % NONCES \in Int
    BY <1>1, SMTT(30)
  <2> DEFINE p == x \div NONCES
             q == y \div NONCES
             r == x % NONCES
             s == y % NONCES
  <2> HIDE DEF p, q, r, s
  <2>3. r = s => y - x = NONCES * q - NONCES * p
    BY <1>1, <2>1, <2>2 DEF p, q, r, s
  <2>4. q <= p => NONCES * q <= NONCES * p
    BY <1>1, <2>1, <2>2, SMTT(30) DEF p, q
  <2>5. q > p => NONCES * q >= NONCES * p + NONCES
    BY <1>1, <2>1, <2>2, SMTT(30) DEF p, q
  <2>6. NONCES * p \in Int /\ NONCES * q \in Int /\ p \in Int /\ q \in Int
    BY <1>1, <2>1, <2>2 DEF p, q
  <2> QED BY <1>1, <1>2, <2>3, <2>4, <2>5, <2>6 DEF r, s
<1>3. CASE i < j
  BY <1>1, <1>2, <1>3 DEF Nonce
<1>4. CASE j < i
  BY <1>1, <1>2, <1>4 DEF Nonce
<1> QED BY <1>1, <1>3, <1>4

-----------------------------------------------------------------------------
(* The loop                                                                  *)

(* After b iterations exactly the transactions of the batches before b exist.*)
PlanInv ==
    /\ total_count \in CInt
    /\ batch_size \in 1..MAX_BATCH_SIZE
    /\ base_nonce \in Int
    /\ b \in Nat
    /\ \A x \in created :
          /\ x = [batch |-> x.batch, index |-> x.index, nonce |-> x.nonce]
          /\ x.batch \in 0..(num_batches - 1)
          /\ x.batch < b
          /\ x.index \in TxIndices(total_count, batch_size, x.batch)
          /\ x.nonce = Nonce(base_nonce, x.index)
    /\ \A c \in 0..(num_batches - 1) : \A i \in TxIndices(total_count, batch_size, c) :
          c < b => \E x \in created : x.index = i

(* What has been created is what the iterations so far should have.         *)
LEMMA PlanInvHolds == Spec => []PlanInv
<1>1. Init => PlanInv
  BY ChoicesAssumption, ClampType, LimitsAssumption DEF Init, PlanInv, CInt
<1>2. PlanInv /\ [Next]_vars => PlanInv'
  <2> SUFFICES ASSUME PlanInv, [Next]_vars PROVE PlanInv'
    OBVIOUS
  <2>1. CASE Iterate
    <3> DEFINE new == {[batch |-> b, index |-> i, nonce |-> Nonce(base_nonce, i)] :
                          i \in TxIndices(total_count, batch_size, b)}
    <3>1. /\ b < num_batches /\ b' = b + 1 /\ created' = created \cup new
          /\ total_count' = total_count /\ batch_size' = batch_size
          /\ base_nonce' = base_nonce /\ num_batches' = num_batches
      BY <2>1 DEF Iterate, num_batches
    <3>2. num_batches \in Int /\ b \in 0..(num_batches - 1)
      BY <3>1, NumBatchesIsCeiling, OverflowPlansNothing DEF PlanInv, num_batches
    <3>3. \A x \in new :
             /\ x = [batch |-> x.batch, index |-> x.index, nonce |-> x.nonce]
             /\ x.batch = b
             /\ x.index \in TxIndices(total_count, batch_size, b)
             /\ x.nonce = Nonce(base_nonce, x.index)
      OBVIOUS
    <3>4. \A i \in TxIndices(total_count, batch_size, b) : \E x \in new : x.index = i
      <4> TAKE i \in TxIndices(total_count, batch_size, b)
      <4> WITNESS [batch |-> b, index |-> i, nonce |-> Nonce(base_nonce, i)] \in new
      <4> QED OBVIOUS
    <3> HIDE DEF new
    <3>5. (\A x \in created :
             /\ x = [batch |-> x.batch, index |-> x.index, nonce |-> x.nonce]
             /\ x.batch \in 0..(num_batches - 1)
             /\ x.batch < b
             /\ x.index \in TxIndices(total_count, batch_size, x.batch)
             /\ x.nonce = Nonce(base_nonce, x.index))'
      BY <3>1, <3>2, <3>3 DEF PlanInv
    <3>6. (\A c \in 0..(num_batches - 1) : \A i \in TxIndices(total_count, batch_size, c) :
             c < b => \E x \in created : x.index = i)'
      <4> SUFFICES ASSUME NEW c \in 0..(num_batches - 1),
                          NEW i \in TxIndices(total_count, batch_size, c),
                          c < b + 1
                   PROVE  \E x \in created \cup new : x.index = i
        BY <3>1
      <4>1. CASE c < b
        BY <4>1 DEF PlanInv
      <4>2. CASE c = b
        BY <4>2, <3>4
      <4> QED BY <3>2, <4>1, <4>2
    <3> QED BY <3>1, <3>2, <3>5, <3>6 DEF PlanInv
  <2>2. CASE UNCHANGED vars
    BY <2>2 DEF PlanInv, vars, num_batches
  <2> QED BY <2>1, <2>2 DEF Next, Finished
<1> QED BY <1>1, <1>2, PTL DEF Spec

(* Every requested transaction is created (main.c 106, 161-173), unless the   *)
(* ceiling of line 106 overflows.                                            *)
THEOREM PlanCreatesAll == Spec => []AllCreated
<1>1. PlanInv => AllCreated
  <2> SUFFICES ASSUME PlanInv, b >= num_batches, CountFits(total_count, batch_size)
               PROVE  {x.index : x \in created} = 0..(total_count - 1)
    BY DEF AllCreated
  <2> DEFINE Bs == 0..(num_batches - 1)
  <2>1. \A c \in Bs : TxIndices(total_count, batch_size, c) \subseteq 0..(total_count - 1)
    BY BatchesPartition DEF PlanInv, num_batches
  <2>2. \A i \in 0..(total_count - 1) : \E c \in Bs : i \in TxIndices(total_count, batch_size, c)
    BY BatchesPartition DEF PlanInv, num_batches
  <2>3. num_batches \in Int
    BY NumBatchesIsCeiling DEF PlanInv, num_batches
  <2>4. \A c \in Bs : c < b
    BY <2>3 DEF PlanInv
  <2> HIDE DEF Bs
  <2>5. ASSUME NEW x \in created PROVE x.index \in 0..(total_count - 1)
    BY <2>1 DEF PlanInv, Bs
  <2>6. ASSUME NEW i \in 0..(total_count - 1) PROVE \E x \in created : x.index = i
    BY <2>2, <2>4 DEF PlanInv, Bs
  <2> QED BY <2>5, <2>6
<1> QED BY <1>1, PlanInvHolds, PTL

(* No transaction is created twice, and each has a nonce of its own          *)
(* (main.c 164-173).                                                         *)
THEOREM PlanCreatesOnce == Spec => []CreatedOnce
<1>1. PlanInv => CreatedOnce
  <2> SUFFICES ASSUME PlanInv, NEW x \in created, NEW y \in created,
                      x.index = y.index \/ x.nonce = y.nonce
               PROVE  x = y
    BY DEF CreatedOnce
  <2>1. CountFits(total_count, batch_size)
    BY InsideTheLoop DEF PlanInv, num_batches
  <2>2. x.index \in 0..(total_count - 1) /\ y.index \in 0..(total_count - 1)
    BY <2>1, BatchesPartition DEF PlanInv, num_batches
  <2>3. x.index = y.index
    BY <2>2, NoncesDiffer DEF PlanInv
  <2>4. x.batch = y.batch
    BY <2>1, <2>3, BatchesPartition DEF PlanInv, num_batches
  <2> QED BY <2>3, <2>4 DEF PlanInv
<1> QED BY <1>1, PlanInvHolds, PTL

(* Inside the loop no int overflows and no batch is empty (main.c 164-172).  *)
THEOREM PlanNeverOverflows == Spec => []IterationsFit
<1>1. PlanInv => IterationsFit
  <2> SUFFICES ASSUME PlanInv, b < num_batches PROVE IterationsFit
    BY DEF IterationsFit
  <2>1. num_batches \in Int
    BY NumBatchesIsCeiling, OverflowPlansNothing DEF PlanInv, num_batches
  <2>2. b \in 0..(num_batches - 1)
    BY <2>1 DEF PlanInv
  <2> QED BY <2>2, InsideTheLoop DEF PlanInv, IterationsFit, num_batches
<1> QED BY <1>1, PlanInvHolds, PTL
=============================================================================
