--------------------------- MODULE SimulatorProofs ---------------------------
(***************************************************************************)
(* The safety of the generator and the receiver for every command line,    *)
(* every number of threads, of other clients and of crashes.               *)
(***************************************************************************)
EXTENDS Simulator, FiniteSetTheorems, TLAPS

-----------------------------------------------------------------------------
(* The plan.  It is proved of the loop over the batches in program order;    *)
(* here is the loop of this run's command line, before its first batch.      *)
Plan == INSTANCE PlanLoopProofs WITH
            Totals <- {total_count},
            BatchArgs <- {batch_arg},
            BaseNonces <- {0},
            base_nonce <- 0,
            b <- 0,
            created <- {}

(* The choices of that loop are this command line.                          *)
LEMMA PlanChoices == Plan!LimitsAssumption /\ Plan!ChoicesAssumption
BY LimitsAssumption, CommandLineAssumption
   DEF Plan!LimitsAssumption, Plan!ChoicesAssumption, Plan!CInt, CInt

(* The operators of the plan are the same in both.                          *)
LEMMA PlanOperators ==
    /\ Plan!CInt = CInt
    /\ \A raw : Plan!ClampBatchSize(raw) = ClampBatchSize(raw) /\ Plan!ClampThreads(raw) = ClampThreads(raw)
    /\ \A total, size : /\ Plan!NumBatches(total, size) = NumBatches(total, size)
                        /\ Plan!CountFits(total, size) <=> CountFits(total, size)
    /\ \A size, k : Plan!TxStart(size, k) = TxStart(size, k)
    /\ \A total, size, k : /\ Plan!TxEnd(total, size, k) = TxEnd(total, size, k)
                           /\ Plan!BatchCount(total, size, k) = BatchCount(total, size, k)
<1>1. /\ Plan!CInt = CInt
      /\ \A total, size : Plan!CountFits(total, size) <=> CountFits(total, size)
  BY Zenon DEF CInt, CountFits, Plan!CInt, Plan!CountFits
<1>2. \A raw : /\ Plan!ClampBatchSize(raw) = ClampBatchSize(raw)
               /\ Plan!ClampThreads(raw) = ClampThreads(raw)
  BY Zenon DEF ClampBatchSize, ClampThreads, Plan!ClampBatchSize, Plan!ClampThreads
<1>3. \A x, y : Plan!AsInt(x) = AsInt(x) /\ Plan!CDiv(x, y) = CDiv(x, y)
  BY Zenon DEF AsInt, CDiv, Plan!AsInt, Plan!CDiv
<1>4. /\ \A total, size : Plan!NumBatches(total, size) = NumBatches(total, size)
      /\ \A size, k : Plan!TxStart(size, k) = TxStart(size, k)
  BY <1>3 DEF NumBatches, TxStart, Plan!NumBatches, Plan!TxStart
<1>5. \A total, size, k : Plan!TxEnd(total, size, k) = TxEnd(total, size, k)
  BY <1>3, <1>4 DEF TxEnd, Plan!TxEnd
<1>6. \A total, size, k : Plan!BatchCount(total, size, k) = BatchCount(total, size, k)
  BY <1>4, <1>5 DEF BatchCount, Plan!BatchCount
<1> QED BY <1>1, <1>2, <1>4, <1>5, <1>6

-----------------------------------------------------------------------------
(* Facts about the constants                                                *)

(* What the clamps return, and how many batches there are.                   *)
LEMMA CommandLineFacts ==
    /\ num_threads \in 1..MAX_THREADS /\ batch_size \in 1..MAX_BATCH_SIZE
    /\ num_batches \in Int
    /\ CountFits(total_count, batch_size) =>
          /\ total_count <= 0 => num_batches <= 0
          /\ total_count >= 0 => total_count <= num_batches * batch_size
<1>1. threads_arg \in Int /\ batch_arg \in Int
  BY CommandLineAssumption, LimitsAssumption DEF CInt
<1>2. num_threads \in 1..MAX_THREADS /\ batch_size \in 1..MAX_BATCH_SIZE
  BY <1>1, PlanChoices, PlanOperators, Plan!ClampType DEF num_threads, batch_size
<1>3. CASE CountFits(total_count, batch_size)
  <2> DEFINE n == NumBatches(total_count, batch_size)
  <2>1. /\ n \in Int
        /\ total_count <= 0 => n <= 0
        /\ total_count >= 0 => total_count <= n * batch_size
    BY <1>2, <1>3, CommandLineAssumption, PlanChoices, PlanOperators, Plan!NumBatchesIsCeiling
  <2> QED BY <1>2, <2>1 DEF num_batches
<1>4. CASE ~CountFits(total_count, batch_size)
  <2>1. NumBatches(total_count, batch_size) \in Int
    BY <1>2, <1>4, CommandLineAssumption, PlanChoices, PlanOperators, Plan!OverflowPlansNothing
  <2> QED BY <1>2, <1>4, <2>1 DEF num_batches
<1> QED BY <1>3, <1>4

(* Inside the loop no int overflows, and no batch is empty.                  *)
LEMMA InsideTheLoop ==
    ASSUME NEW k \in 0..(NumBatches(total_count, batch_size) - 1)
    PROVE  /\ k * batch_size \in Nat /\ k * batch_size < total_count
           /\ k * batch_size + batch_size <= INT_MAX
           /\ TxStart(batch_size, k) = k * batch_size
           /\ TxEnd(total_count, batch_size, k) =
                 IF k * batch_size + batch_size > total_count
                 THEN total_count ELSE k * batch_size + batch_size
           /\ BatchCount(total_count, batch_size, k) \in 1..batch_size
BY CommandLineFacts, CommandLineAssumption, PlanChoices, PlanOperators, Plan!InsideTheLoop

(* A later batch is never larger than an earlier one.                        *)
LEMMA LaterIsNoLarger ==
    ASSUME NEW k \in 0..(NumBatches(total_count, batch_size) - 1),
           NEW c \in 0..(NumBatches(total_count, batch_size) - 1), c <= k
    PROVE  BatchCount(total_count, batch_size, k) <= BatchCount(total_count, batch_size, c)
BY CommandLineFacts, CommandLineAssumption, PlanChoices, PlanOperators, Plan!LaterIsNoLarger

(* The types of what the command line determines.                           *)
LEMMA ConstantFacts ==
    /\ INT_MAX \in Nat
    /\ total_count \in CInt
    /\ num_threads \in Nat \ {0}
    /\ batch_size \in 1..MAX_BATCH_SIZE
    /\ num_batches \in Int
    /\ \A t \in Threads : t \in Nat /\ t \notin Foreign
    /\ \A b \in Batches : b \in Nat
    /\ NoBatch = -1
BY CommandLineFacts, CommandLineAssumption, LimitsAssumption, ForeignAssumption
   DEF Threads, Batches, NoBatch

(* Every batch holds between one and MAX_BATCH_SIZE transactions.           *)
LEMMA BatchFacts ==
    ASSUME NEW b \in Batches
    PROVE  /\ b \in Nat /\ b < num_batches
           /\ txs_in_batch(b) \in 1..MAX_BATCH_SIZE
           /\ txs_in_batch(b) \in Nat \ {0}
           /\ TxStart(batch_size, b) \in Nat
           /\ TxEnd(total_count, batch_size, b) = TxStart(batch_size, b) + txs_in_batch(b)
           /\ TxEnd(total_count, batch_size, b) <= INT_MAX
<1>1. b \in 0..(NumBatches(total_count, batch_size) - 1) /\ b \in Nat /\ b < num_batches
  BY ConstantFacts DEF Batches, num_batches
<1>2. /\ b * batch_size \in Nat
      /\ TxStart(batch_size, b) = b * batch_size
      /\ TxEnd(total_count, batch_size, b) =
            IF b * batch_size + batch_size > total_count
            THEN total_count ELSE b * batch_size + batch_size
      /\ BatchCount(total_count, batch_size, b) \in 1..batch_size
  BY <1>1, ConstantFacts, InsideTheLoop
<1>3. total_count \in Int /\ total_count <= INT_MAX
  BY ConstantFacts DEF CInt
<1> QED BY <1>1, <1>2, <1>3, ConstantFacts, LimitsAssumption DEF txs_in_batch, BatchCount

(* A later batch begins where or after an earlier one ends, and is no larger.*)
LEMMA BatchOrder ==
    ASSUME NEW b \in Batches, NEW c \in Batches, c < b
    PROVE  /\ TxEnd(total_count, batch_size, c) <= TxStart(batch_size, b)
           /\ txs_in_batch(b) <= txs_in_batch(c)
<1>1. /\ b \in 0..(NumBatches(total_count, batch_size) - 1)
      /\ c \in 0..(NumBatches(total_count, batch_size) - 1)
      /\ b \in Nat /\ c \in Nat /\ batch_size \in Nat /\ total_count \in Int
  BY ConstantFacts, LimitsAssumption DEF Batches, num_batches, CInt
<1>2. (c + 1) * batch_size <= b * batch_size
  BY <1>1, SMTT(30)
<1>3. (c + 1) * batch_size = c * batch_size + batch_size /\ c * batch_size \in Nat
  BY <1>1, SMTT(30)
<1>4. TxEnd(total_count, batch_size, c) <= TxStart(batch_size, b)
  BY <1>1, <1>2, <1>3, ConstantFacts, InsideTheLoop
<1>5. txs_in_batch(b) <= txs_in_batch(c)
  BY <1>1, ConstantFacts, LaterIsNoLarger DEF txs_in_batch
<1> QED BY <1>4, <1>5

(* A batch begins where the one before it ends.                              *)
LEMMA Consecutive ==
    ASSUME NEW b \in Batches, NEW c \in Batches, b = c + 1
    PROVE  TxEnd(total_count, batch_size, c) = TxStart(batch_size, b)
<1>1. /\ b \in 0..(NumBatches(total_count, batch_size) - 1)
      /\ c \in 0..(NumBatches(total_count, batch_size) - 1)
      /\ b \in Nat /\ c \in Nat /\ batch_size \in Nat /\ total_count \in Int
  BY ConstantFacts, LimitsAssumption DEF Batches, num_batches, CInt
<1>2. b * batch_size = c * batch_size + batch_size /\ c * batch_size \in Nat
  BY <1>1, SMTT(30)
<1> QED BY <1>1, <1>2, ConstantFacts, InsideTheLoop

-----------------------------------------------------------------------------
(* What the invariant says of single elements, with their types.            *)
LEMMA ElementFacts ==
    ASSUME IInv
    PROVE  /\ next \in Nat
           /\ \A t \in Threads :
                 /\ pc[t] \in {"claim", "send", "recv", "barrier"}
                 /\ cur[t] \in Int /\ cur[t] < next
                 /\ cur[t] # NoBatch => cur[t] \in Batches
                 /\ thread_submitted[t] \in Nat /\ thread_submitted[t] <= INT_MAX
                 /\ receivedFrom[t] \in Nat
           /\ \A b \in Concluded \cup sent : b \in Batches /\ b \in Int /\ b < next
           /\ \A m \in net : /\ m \in Message
                             /\ m.from \in Clients /\ m.batch \in Int /\ m.count \in Nat
<1>1. next \in Nat
  BY DEF IInv, TypeOK
<1>2. ASSUME NEW t \in Threads
      PROVE  /\ pc[t] \in {"claim", "send", "recv", "barrier"}
             /\ cur[t] \in Int /\ cur[t] < next
             /\ cur[t] # NoBatch => cur[t] \in Batches
             /\ thread_submitted[t] \in Nat /\ thread_submitted[t] <= INT_MAX
             /\ receivedFrom[t] \in Nat
  <2>1. /\ pc[t] \in {"claim", "send", "recv", "barrier"}
        /\ cur[t] \in Batches \cup {NoBatch}
        /\ thread_submitted[t] \in 0..INT_MAX
        /\ receivedFrom[t] \in Nat
    BY DEF IInv, TypeOK
  <2>2. cur[t] < next
    BY DEF IInv, ClaimInv
  <2> QED BY <2>1, <2>2, ConstantFacts
<1>3. ASSUME NEW b \in Concluded \cup sent
      PROVE  b \in Batches /\ b \in Int /\ b < next
  <2>1. b \in Batches
    BY DEF IInv, TypeOK, Concluded, Counted
  <2>2. b < next
    BY DEF IInv, ClaimInv
  <2> QED BY <2>1, <2>2, ConstantFacts
<1>4. ASSUME NEW m \in net
      PROVE  m \in Message /\ m.from \in Clients /\ m.batch \in Int /\ m.count \in Nat
  <2>1. m \in Message
    BY <1>4 DEF IInv, TypeOK
  <2>2. m.from \in Clients /\ m.batch \in Batches \cup {NoBatch} /\ m.count \in 0..MAX_BATCH_SIZE
    BY <2>1 DEF Message
  <2>3. m.batch \in Int
    BY <2>2, ConstantFacts
  <2>4. m.count \in Nat
    BY <2>2, LimitsAssumption
  <2> QED BY <2>1, <2>2, <2>3, <2>4
<1> QED BY <1>1, <1>2, <1>3, <1>4

(* A thread takes the next batch, which no other thread holds.              *)
LEMMA ClaimPreserves ==
    ASSUME IInv, NEW t \in Threads, WorkerClaims(t)
    PROVE  IInv'
<1> USE ConstantFacts, ElementFacts
<1>0. next \in Batches /\ next \in Nat
  BY DEF IInv, TypeOK, Batches, WorkerClaims, Claim
<1>a. /\ pc[t] = "claim"
      /\ next' = next + 1
      /\ \A s \in Threads : /\ pc'[s] = IF s = t THEN "send" ELSE pc[s]
                            /\ cur'[s] = IF s = t THEN next ELSE cur[s]
      /\ pc' = [pc EXCEPT ![t] = "send"]
      /\ cur' = [cur EXCEPT ![t] = next]
      /\ UNCHANGED <<reqState, net, thread_submitted, use_zmq, phase, closed, up, total_received,
                     crashes, sent, deliveries, receivedFrom, credit, missed>>
  BY DEF IInv, TypeOK, WorkerClaims, Claim, mainVars, netVars, receiverVars, historyVars
<1>b. Concluded' = Concluded /\ Counted' = Counted
  BY <1>a DEF Concluded, Counted
<1>1. TypeOK'
  BY <1>0, <1>a DEF IInv, TypeOK
<1>2. ClaimInv'
  <2>1. \A s \in Threads : /\ cur'[s] < next'
                           /\ AtWork(s)' => cur'[s] \in Batches /\ cur'[s] \notin Concluded
                           /\ pc'[s] = "send" => cur'[s] \notin sent
    <3> TAKE s \in Threads
    <3>1. CASE s = t
      BY <3>1, <1>0, <1>a DEF AtWork
    <3>2. CASE s # t
      BY <3>2, <1>0, <1>a DEF IInv, ClaimInv, AtWork
    <3> QED BY <3>1, <3>2
  <2>2. \A s \in Threads : /\ pc'[s] = "barrier" => next' >= num_batches
                           /\ phase # "parallel" => pc'[s] = "barrier"
    BY <1>0, <1>a DEF IInv, TypeOK, ClaimInv
  <2>3. \A s, u \in Threads : (AtWork(s) /\ AtWork(u) /\ cur[s] = cur[u])' => s = u
    BY <1>0, <1>a DEF IInv, TypeOK, ClaimInv, AtWork
  <2>4. \A b \in Concluded \cup sent : b < next'
    BY <1>0, <1>a DEF IInv, TypeOK, ClaimInv, Concluded, Counted
  <2>5. ASSUME NEW b \in Batches, b < next'
        PROVE  b \in Concluded \/ \E s \in Threads : AtWork(s)' /\ cur'[s] = b
    <3>1. CASE b = next
      BY <3>1, <1>a DEF AtWork
    <3>2. CASE b < next
      <4>1. CASE b \notin Concluded
        <5>1. PICK s \in Threads : AtWork(s) /\ cur[s] = b
          BY <3>2, <4>1 DEF IInv, ClaimInv
        <5>2. s # t
          BY <5>1, <1>a DEF AtWork
        <5> QED BY <5>1, <5>2, <1>a DEF AtWork
      <4> QED BY <4>1
    <3> QED BY <1>0, <1>a, <2>5, <3>1, <3>2
  <2> QED BY <2>1, <2>2, <2>3, <2>4, <2>5, <1>a, <1>b DEF IInv, ClaimInv
<1>3. LockStep'
  BY <1>a DEF IInv, LockStep
<1>4. MessageInv'
  <2>1. ASSUME NEW m \in net, m.from \in Threads
        PROVE  ThreadMessage(m)'
    <3>1. ThreadMessage(m)
      BY <2>1 DEF IInv, MessageInv
    <3>2. CASE m.from = t
      BY <3>1, <3>2, <1>0, <1>a, <1>b DEF ThreadMessage, AtWork
    <3>3. CASE m.from # t
      BY <3>1, <3>3, <2>1, <1>a, <1>b DEF ThreadMessage, AtWork
    <3> QED BY <3>2, <3>3
  <2> QED BY <2>1, <1>a DEF IInv, MessageInv
<1>5. (CountedAtMostOnce /\ CreditSound /\ LateReplyOnly)'
  BY <1>a, <1>b DEF IInv, CountedAtMostOnce, CreditSound, LateReplyOnly
<1>6. CountInv'
  <2>1. thread_submitted[t] <= TxStart(batch_size, next)
    <3>1. CASE cur[t] = NoBatch
      BY <3>1, <1>0, <1>a, BatchFacts DEF IInv, CountInv
    <3>2. CASE cur[t] # NoBatch
      <4>1. cur[t] \in Batches /\ cur[t] < next
        BY <3>2
      <4>2. thread_submitted[t] <= TxEnd(total_count, batch_size, cur[t])
        BY <3>2, <1>a DEF IInv, CountInv, AtWork
      <4>3. /\ TxEnd(total_count, batch_size, cur[t]) \in Nat
            /\ TxStart(batch_size, next) \in Nat
        BY <4>1, <1>0, BatchFacts
      <4> QED BY <4>1, <4>2, <4>3, <1>0, BatchOrder
    <3> QED BY <3>1, <3>2
  <2> QED BY <2>1, <1>0, <1>a DEF IInv, CountInv, AtWork
<1> QED BY <1>1, <1>2, <1>3, <1>4, <1>5, <1>6 DEF IInv

(* A thread that finds no batch left.                                        *)
LEMMA LeavePreserves ==
    ASSUME IInv, NEW t \in Threads, WorkerLeaves(t)
    PROVE  IInv'
<1> USE ConstantFacts, ElementFacts
<1>a. /\ pc[t] = "claim" /\ next >= num_batches
      /\ \A s \in Threads : pc'[s] = IF s = t THEN "barrier" ELSE pc[s]
      /\ pc' = [pc EXCEPT ![t] = "barrier"]
      /\ UNCHANGED <<reqState, net, next, cur, thread_submitted, use_zmq, phase, closed, up,
                     total_received, crashes, sent, deliveries, receivedFrom, credit, missed>>
  BY DEF IInv, TypeOK, WorkerLeaves, Leave, mainVars, netVars, receiverVars, historyVars
<1>b. /\ Concluded' = Concluded /\ Counted' = Counted
      /\ \A s \in Threads : AtWork(s)' <=> AtWork(s)
  BY <1>a DEF Concluded, Counted, AtWork
<1>1. TypeOK'
  BY <1>a DEF IInv, TypeOK
<1>2. ClaimInv'
  BY <1>a, <1>b DEF IInv, ClaimInv
<1>3. LockStep'
  BY <1>a DEF IInv, LockStep
<1>4. MessageInv'
  <2>1. ASSUME NEW m \in net, m.from \in Threads
        PROVE  ThreadMessage(m)'
    BY <2>1, <1>a, <1>b DEF IInv, MessageInv, ThreadMessage
  <2> QED BY <2>1, <1>a DEF IInv, MessageInv
<1>5. (CountedAtMostOnce /\ CreditSound /\ LateReplyOnly)'
  BY <1>a, <1>b DEF IInv, CountedAtMostOnce, CreditSound, LateReplyOnly
<1>6. CountInv'
  BY <1>a, <1>b DEF IInv, CountInv
<1> QED BY <1>1, <1>2, <1>3, <1>4, <1>5, <1>6 DEF IInv

(* zmq_send: refused while the socket awaits a reply, or a new message whose *)
(* batch was never sent before.                                              *)
LEMMA SendPreserves ==
    ASSUME IInv, NEW t \in Threads, WorkerSends(t)
    PROVE  IInv'
<1> USE ConstantFacts, ElementFacts
<1> DEFINE new == Request(t, "batch", cur[t], txs_in_batch(cur[t]))
<1>a. /\ pc[t] = "send"
      /\ \A s \in Threads : pc'[s] = IF s = t THEN "recv" ELSE pc[s]
      /\ pc' = [pc EXCEPT ![t] = "recv"]
      /\ UNCHANGED <<next, cur, thread_submitted, use_zmq, phase, closed, up,
                     total_received, crashes, deliveries, receivedFrom, credit, missed>>
  BY DEF IInv, TypeOK, WorkerSends, SendBatch, mainVars, receiverVars
<1>b. /\ Concluded' = Concluded /\ Counted' = Counted
      /\ \A s \in Threads : AtWork(s)' <=> AtWork(s)
  BY <1>a DEF Concluded, Counted, AtWork
<1>c. cur[t] \in Batches /\ cur[t] \notin Concluded /\ cur[t] \notin sent
  BY <1>a DEF IInv, ClaimInv, AtWork
<1>d. \/ /\ reqState[t] = "send"
         /\ net' = net \cup {new}
         /\ reqState' = [reqState EXCEPT ![t] = "recv"]
         /\ sent' = sent \cup {cur[t]}
      \/ /\ reqState[t] = "recv"
         /\ UNCHANGED <<net, reqState, sent>>
  BY DEF WorkerSends, SendBatch, ZmqSend, netVars
<1>e. sent \subseteq sent' /\ sent' \subseteq sent \cup {cur[t]}
  BY <1>d
<1>f. t \in Clients /\ t \notin Foreign
  BY DEF Clients
<1>2. ClaimInv'
  <2>1. \A s \in Threads : pc'[s] = "send" => cur[s] \notin sent'
    BY <1>a, <1>c, <1>e DEF IInv, ClaimInv, AtWork
  <2>2. \A b \in Concluded \cup sent' : b < next
    BY <1>e DEF IInv, ClaimInv
  <2>3. \A s \in Threads : /\ pc'[s] = "barrier" => pc[s] = "barrier"
                           /\ pc[s] = "barrier" => pc'[s] = "barrier"
    BY <1>a
  <2> QED BY <1>a, <1>b, <2>1, <2>2, <2>3 DEF IInv, ClaimInv
<1>5. (CountedAtMostOnce /\ CreditSound)'
  BY <1>a, <1>b DEF IInv, CountedAtMostOnce, CreditSound
<1>6. LateReplyOnly'
  BY <1>a, <1>b, <1>c, <1>e DEF IInv, LateReplyOnly, Concluded
<1>7. CASE reqState[t] = "send"
  <2>1. /\ net' = net \cup {new}
        /\ reqState' = [reqState EXCEPT ![t] = "recv"]
        /\ sent' = sent \cup {cur[t]}
    BY <1>7, <1>d
  <2>2. /\ new.from = t /\ new.form = "batch" /\ new.batch = cur[t] /\ new.at = "pipe"
        /\ new.count = txs_in_batch(cur[t])
    BY DEF Request
  <2>3. \A m \in net : m.from # t
    BY <1>7 DEF IInv, LockStep
  <2>4. new \in Message
    <3>1. txs_in_batch(cur[t]) \in 0..MAX_BATCH_SIZE
      BY <1>c, BatchFacts, LimitsAssumption
    <3> QED BY <3>1, <1>c, <1>f DEF Request, Message, Forms, Stages
  <2>0. new' = new
    BY <1>a
  <2> HIDE DEF new
  <2>5. TypeOK'
    BY <1>a, <1>c, <1>f, <2>1, <2>4 DEF IInv, TypeOK
  <2>6. LockStep'
    <3>1. \A m, n \in net' : m.from = n.from => m = n
      BY <2>1, <2>2, <2>3 DEF IInv, LockStep
    <3>2. \A m \in net' : reqState'[m.from] = "recv"
      BY <1>f, <2>1, <2>2, <2>3 DEF IInv, LockStep, TypeOK
    <3> QED BY <3>1, <3>2 DEF LockStep
  <2>7. ThreadMessage(new)'
    <3>1. deliveries[cur[t]] = 0
      BY <1>c DEF IInv, TypeOK, CountInv
    <3>2. \A b \in Counted : credit[b] # cur[t]
      BY <1>c, <3>1 DEF IInv, CreditSound
    <3>3. pc'[t] = "recv"
      BY <1>a
    <3> QED BY <1>a, <1>b, <1>c, <2>0, <2>1, <2>2, <3>1, <3>2, <3>3 DEF ThreadMessage
  <2>8. ASSUME NEW m \in net, m.from \in Threads
        PROVE  ThreadMessage(m)'
    <3>1. ThreadMessage(m) /\ m.from # t
      BY <2>3, <2>8 DEF IInv, MessageInv
    <3>2. cur[m.from] # cur[t] \/ ~AtWork(m.from)
      BY <2>8, <3>1, <1>a DEF IInv, ClaimInv, AtWork
    <3> QED BY <3>1, <3>2, <2>8, <2>1, <1>a, <1>b DEF ThreadMessage, AtWork
  <2>9. MessageInv'
    <3>1. \A m \in net' : m.from \in Threads => ThreadMessage(m)'
      BY <2>0, <2>1, <2>7, <2>8
    <3>2. \A m \in net' : m.from \in Foreign => m.form # "batch"
      BY <1>f, <2>1, <2>2 DEF IInv, MessageInv
    <3>3. \A m \in net : m.from \in Threads => m.batch # cur[t]
      BY <1>c DEF IInv, MessageInv, ThreadMessage
    <3>4. \A m, n \in net' :
             m.from \in Threads /\ n.from \in Threads /\ m.batch = n.batch => m = n
      BY <2>1, <2>2, <3>3 DEF IInv, MessageInv
    <3> QED BY <3>1, <3>2, <3>4 DEF MessageInv
  <2>10. CountInv'
    <3>1. \A m \in net' : m.at = "ok" => m \in net
      BY <2>1, <2>2
    <3> QED BY <3>1, <1>a, <1>b, <1>e DEF IInv, CountInv
  <2> QED BY <1>2, <1>5, <1>6, <2>5, <2>6, <2>9, <2>10 DEF IInv
<1>8. CASE reqState[t] = "recv"
  <2>1. UNCHANGED <<net, reqState, sent>>
    BY <1>8, <1>d
  <2>2. TypeOK'
    BY <1>a, <2>1 DEF IInv, TypeOK
  <2>3. LockStep'
    BY <2>1 DEF IInv, LockStep
  <2>4. ASSUME NEW m \in net, m.from \in Threads
        PROVE  ThreadMessage(m)'
    <3>1. ThreadMessage(m)
      BY <2>4 DEF IInv, MessageInv
    <3> QED BY <3>1, <2>1, <2>4, <1>a, <1>b, <1>c DEF ThreadMessage
  <2>5. MessageInv'
    BY <2>1, <2>4 DEF IInv, MessageInv
  <2>6. CountInv'
    BY <2>1, <1>a, <1>b DEF IInv, CountInv
  <2> QED BY <1>2, <1>5, <1>6, <2>2, <2>3, <2>5, <2>6 DEF IInv
<1> QED BY <1>d, <1>7, <1>8

(* A thread concludes its batch: pc goes back to "claim", the batch joins    *)
(* Concluded, and the thread's counter grows by at most the batch.           *)
LEMMA ClaimInvAfterBatch ==
    ASSUME IInv, NEW t \in Threads, AtWork(t),
           pc' = [pc EXCEPT ![t] = "claim"],
           UNCHANGED <<next, cur, phase>>,
           Concluded' = Concluded \cup {cur[t]},
           (Counted \cap missed)' = {},
           sent' = sent \/ sent' = sent \cup {cur[t]}
    PROVE  ClaimInv'
<1> USE ConstantFacts, ElementFacts
<1>1. /\ \A s \in Threads : pc'[s] = IF s = t THEN "claim" ELSE pc[s]
      /\ cur[t] \in Batches /\ cur[t] \notin Concluded /\ cur[t] < next
  BY DEF IInv, TypeOK, ClaimInv
<1>2. \A s \in Threads : /\ AtWork(s)' => AtWork(s) /\ s # t /\ cur[s] # cur[t]
                         /\ s # t /\ AtWork(s) => AtWork(s)'
  BY <1>1 DEF IInv, ClaimInv, AtWork
<1>3. \A s \in Threads :
         /\ cur'[s] < next'
         /\ AtWork(s)' => cur'[s] \in Batches /\ cur'[s] \notin Concluded'
  BY <1>2 DEF IInv, ClaimInv
<1>4. \A s \in Threads : pc'[s] = "send" => cur'[s] \notin sent'
  BY <1>1, <1>2 DEF IInv, ClaimInv, AtWork
<1>5. \A s \in Threads : /\ pc'[s] = "barrier" => next' >= num_batches
                         /\ phase' # "parallel" => pc'[s] = "barrier"
  BY <1>1 DEF IInv, ClaimInv, AtWork
<1>6. \A r, s \in Threads : (AtWork(r) /\ AtWork(s) /\ cur[r] = cur[s])' => r = s
  BY <1>2 DEF IInv, ClaimInv
<1>7. \A b \in (Concluded \cup sent)' : b < next'
  BY <1>1 DEF IInv, ClaimInv
<1>8. \A b \in Batches : b < next' =>
         b \in Concluded' \/ \E s \in Threads : AtWork(s)' /\ cur'[s] = b
  BY <1>2 DEF IInv, ClaimInv
<1> QED BY <1>3, <1>4, <1>5, <1>6, <1>7, <1>8 DEF ClaimInv

(* The counter of a thread that concludes its batch stays within the         *)
(* transactions it has left behind.                                          *)
LEMMA CounterWithinBatches ==
    ASSUME IInv, NEW t \in Threads, AtWork(t)
    PROVE  /\ cur[t] \in Batches /\ cur[t] # NoBatch
           /\ thread_submitted[t] + txs_in_batch(cur[t]) <= TxEnd(total_count, batch_size, cur[t])
           /\ thread_submitted[t] <= TxEnd(total_count, batch_size, cur[t])
           /\ thread_submitted[t] + txs_in_batch(cur[t]) \in 0..INT_MAX
<1> USE ConstantFacts, ElementFacts
<1>1. cur[t] \in Batches /\ cur[t] # NoBatch
  BY DEF IInv, ClaimInv
<1>2. thread_submitted[t] <= TxStart(batch_size, cur[t])
  BY <1>1 DEF IInv, CountInv
<1> QED BY <1>1, <1>2, BatchFacts

(* zmq_recv gives up: the batch is missed, and its message stays on its way.*)
LEMMA TimeoutPreserves ==
    ASSUME IInv, NEW t \in Threads, WorkerTimesOut(t)
    PROVE  IInv'
<1> USE ConstantFacts, ElementFacts
<1>a. /\ pc[t] = "recv"
      /\ \A s \in Threads : pc'[s] = IF s = t THEN "claim" ELSE pc[s]
      /\ pc' = [pc EXCEPT ![t] = "claim"]
      /\ missed' = missed \cup {cur[t]}
      /\ UNCHANGED <<reqState, net, next, cur, thread_submitted, use_zmq, phase, closed, up,
                     total_received, crashes, sent, deliveries, receivedFrom, credit>>
  BY DEF IInv, TypeOK, WorkerTimesOut, RecvTimeout, mainVars, netVars, receiverVars
<1>b. Concluded' = Concluded \cup {cur[t]} /\ Counted' = Counted
  BY <1>a DEF Concluded, Counted
<1>c. AtWork(t) /\ cur[t] \in Batches /\ cur[t] \notin Counted
  BY <1>a DEF IInv, ClaimInv, AtWork, Concluded
<1>1. TypeOK'
  BY <1>a, <1>c DEF IInv, TypeOK
<1>2. ClaimInv'
  <2>1. (Counted \cap missed)' = {}
    BY <1>a, <1>b, <1>c DEF IInv, ClaimInv
  <2> QED BY <2>1, <1>a, <1>b, <1>c, ClaimInvAfterBatch
<1>3. LockStep'
  BY <1>a DEF IInv, LockStep
<1>4. MessageInv'
  <2>1. ASSUME NEW m \in net, m.from \in Threads
        PROVE  ThreadMessage(m)'
    <3>1. ThreadMessage(m)
      BY <2>1 DEF IInv, MessageInv
    <3> QED BY <3>1, <2>1, <1>a, <1>b DEF ThreadMessage, AtWork
  <2> QED BY <2>1, <1>a DEF IInv, MessageInv
<1>5. (CountedAtMostOnce /\ CreditSound /\ LateReplyOnly)'
  BY <1>a, <1>b DEF IInv, CountedAtMostOnce, CreditSound, LateReplyOnly
<1>6. CountInv'
  <2>1. \A s \in Threads : thread_submitted[s] <=
           IF cur[s] = NoBatch THEN 0
           ELSE IF AtWork(s)' THEN TxStart(batch_size, cur[s])
           ELSE TxEnd(total_count, batch_size, cur[s])
    <3> TAKE s \in Threads
    <3>1. CASE s = t
      BY <3>1, <1>a, <1>c, CounterWithinBatches DEF AtWork
    <3>2. CASE s # t
      BY <3>2, <1>a DEF IInv, CountInv, AtWork
    <3> QED BY <3>1, <3>2
  <2> QED BY <2>1, <1>a DEF IInv, CountInv
<1> QED BY <1>1, <1>2, <1>3, <1>4, <1>5, <1>6 DEF IInv

(* zmq_recv returns a reply.  It is the reply to the batch the thread works  *)
(* on, or to one it gave up while the send of this one was refused.          *)
LEMMA ReceivePreserves ==
    ASSUME IInv, NEW t \in Threads, NEW m \in net, WorkerReceives(t, m)
    PROVE  IInv'
<1> USE ConstantFacts, ElementFacts
<1>a. /\ pc[t] = "recv" /\ m.from = t /\ IsReply(m)
      /\ \A s \in Threads : pc'[s] = IF s = t THEN "claim" ELSE pc[s]
      /\ pc' = [pc EXCEPT ![t] = "claim"]
      /\ net' = net \ {m}
      /\ reqState' = [reqState EXCEPT ![t] = "send"]
      /\ UNCHANGED <<next, cur, use_zmq, phase, closed, up, total_received, crashes, sent,
                     deliveries, receivedFrom>>
  BY DEF IInv, TypeOK, WorkerReceives, RecvReply, ZmqRecv, mainVars, receiverVars
<1>b. ThreadMessage(m) /\ m.at = "ok"
  BY <1>a DEF IInv, MessageInv, ThreadMessage, IsReply
<1>c. AtWork(t) /\ cur[t] \in Batches /\ cur[t] \notin Concluded
  BY <1>a DEF IInv, ClaimInv, AtWork
<1>d. /\ thread_submitted' = [thread_submitted EXCEPT ![t] = @ + txs_in_batch(cur[t])]
      /\ credit' = [credit EXCEPT ![cur[t]] = m.batch]
      /\ missed' = missed
  BY <1>b DEF WorkerReceives, RecvReply
<1>e. /\ m.batch \in Batches /\ m.batch # NoBatch /\ m.batch <= cur[t]
      /\ deliveries[m.batch] = 1
      /\ m.count = txs_in_batch(m.batch)
      /\ txs_in_batch(cur[t]) <= m.count
      /\ \A b \in Counted : credit[b] # m.batch
  <2>1. /\ m.batch \in Batches /\ m.batch <= cur[t]
        /\ deliveries[m.batch] = 1
        /\ m.count = txs_in_batch(m.batch)
        /\ \A b \in Counted : credit[b] # m.batch
    BY <1>a, <1>b, <1>c DEF ThreadMessage, IInv, TypeOK
  <2>2. txs_in_batch(cur[t]) <= txs_in_batch(m.batch)
    BY <2>1, <1>c, BatchFacts, BatchOrder
  <2> QED BY <2>1, <2>2
<1>f. /\ \A b \in Batches : credit'[b] = IF b = cur[t] THEN m.batch ELSE credit[b]
      /\ Counted' = Counted \cup {cur[t]}
      /\ Concluded' = Concluded \cup {cur[t]}
      /\ cur[t] \notin Counted
  <2>1. \A b \in Batches : credit'[b] = IF b = cur[t] THEN m.batch ELSE credit[b]
    BY <1>c, <1>d DEF IInv, TypeOK
  <2>2. Counted' = Counted \cup {cur[t]}
    BY <2>1, <1>c, <1>e DEF Counted
  <2> QED BY <2>1, <2>2, <1>c, <1>d DEF Concluded
<1>g. \A s \in Threads : thread_submitted'[s] = IF s = t THEN thread_submitted[t] + txs_in_batch(cur[t])
                                                ELSE thread_submitted[s]
  BY <1>d DEF IInv, TypeOK
<1>h. t \in Clients /\ \A n \in net \ {m} : n.from # t
  BY <1>a DEF Clients, IInv, LockStep
<1>1. TypeOK'
  <2>1. thread_submitted' \in [Threads -> 0..INT_MAX]
    BY <1>c, <1>d, CounterWithinBatches DEF IInv, TypeOK
  <2>2. credit' \in [Batches -> Batches \cup {NoBatch}]
    BY <1>d, <1>e DEF IInv, TypeOK
  <2>3. pc' \in [Threads -> {"claim", "send", "recv", "barrier"}]
        /\ reqState' \in [Clients -> {"send", "recv"}] /\ net' \in SUBSET Message
    BY <1>a DEF IInv, TypeOK
  <2> QED BY <2>1, <2>2, <2>3, <1>a, <1>d DEF IInv, TypeOK
<1>2. ClaimInv'
  <2>1. (Counted \cap missed)' = {}
    BY <1>c, <1>d, <1>f DEF IInv, ClaimInv, Concluded
  <2> QED BY <2>1, <1>a, <1>c, <1>f, ClaimInvAfterBatch
<1>3. LockStep'
  <2>1. \A n \in net' : reqState'[n.from] = "recv"
    BY <1>a, <1>h DEF IInv, LockStep, TypeOK
  <2> QED BY <2>1, <1>a DEF IInv, LockStep
<1>4. MessageInv'
  <2>1. ASSUME NEW n \in net', n.from \in Threads
        PROVE  ThreadMessage(n)'
    <3>1. ThreadMessage(n) /\ n.from # t /\ n \in net
      BY <2>1, <1>a, <1>h DEF IInv, MessageInv
    <3>2. n.batch # m.batch
      BY <3>1, <2>1, <1>a DEF IInv, MessageInv
    <3>3. \A b \in Counted' : credit'[b] # n.batch
      BY <3>1, <3>2, <1>c, <1>f DEF ThreadMessage, Counted
    <3> QED BY <3>1, <3>3, <2>1, <1>a, <1>d DEF ThreadMessage, AtWork
  <2> QED BY <2>1, <1>a DEF IInv, MessageInv
<1>5. (CountedAtMostOnce /\ CreditSound /\ LateReplyOnly)'
  <2>1. CountedAtMostOnce'
    BY <1>a DEF IInv, CountedAtMostOnce
  <2>2. \A b \in Counted' : /\ credit'[b] <= b
                            /\ deliveries[credit'[b]] = 1
                            /\ txs_in_batch(b) <= txs_in_batch(credit'[b])
    <3> SUFFICES ASSUME NEW b \in Counted'
                 PROVE  /\ credit'[b] <= b
                        /\ deliveries[credit'[b]] = 1
                        /\ txs_in_batch(b) <= txs_in_batch(credit'[b])
      OBVIOUS
    <3>1. CASE b = cur[t]
      BY <3>1, <1>c, <1>e, <1>f
    <3>2. CASE b # cur[t]
      <4>1. b \in Counted /\ b \in Batches
        BY <3>2, <1>f DEF Counted
      <4> QED BY <4>1, <3>2, <1>f DEF IInv, CreditSound
    <3> QED BY <3>1, <3>2
  <2>3. \A b, c \in Counted' : credit'[b] = credit'[c] => b = c
    <3>1. \A b \in Counted : b \in Batches
      BY DEF Counted
    <3> QED BY <3>1, <1>c, <1>e, <1>f DEF IInv, CreditSound
  <2>4. \A b \in Counted' : credit'[b] # b => credit'[b] \in missed' /\ b \notin sent'
    <3> SUFFICES ASSUME NEW b \in Counted', credit'[b] # b
                 PROVE  credit'[b] \in missed /\ b \notin sent
      BY <1>a, <1>d
    <3>1. CASE b = cur[t]
      BY <3>1, <1>a, <1>b, <1>c, <1>f DEF ThreadMessage
    <3>2. CASE b # cur[t]
      <4>1. b \in Counted /\ b \in Batches
        BY <3>2, <1>f DEF Counted
      <4> QED BY <4>1, <3>2, <1>f DEF IInv, LateReplyOnly
    <3> QED BY <3>1, <3>2
  <2> QED BY <2>1, <2>2, <2>3, <2>4, <1>a DEF CreditSound, LateReplyOnly
<1>6. CountInv'
  <2>1. ASSUME NEW s \in Threads
        PROVE  /\ thread_submitted'[s] <= receivedFrom[s]
               /\ \A n \in net' : n.from = s /\ n.at = "ok" =>
                     thread_submitted'[s] + n.count <= receivedFrom[s]
               /\ thread_submitted'[s] <=
                     IF cur[s] = NoBatch THEN 0
                     ELSE IF AtWork(s)' THEN TxStart(batch_size, cur[s])
                     ELSE TxEnd(total_count, batch_size, cur[s])
    <3>1. CASE s = t
      <4>1. thread_submitted'[t] <= TxEnd(total_count, batch_size, cur[t]) /\ cur[t] # NoBatch
        BY <1>c, <1>g, CounterWithinBatches
      <4>2. ~AtWork(t)'
        BY <1>a DEF AtWork
      <4>3. thread_submitted[t] + m.count <= receivedFrom[t]
        BY <1>a, <1>b DEF IInv, CountInv
      <4>4. thread_submitted'[t] <= receivedFrom[t]
        BY <4>3, <1>c, <1>e, <1>g, BatchFacts
      <4>5. \A n \in net' : n.from # t
        BY <1>a, <1>h
      <4> QED BY <3>1, <4>1, <4>2, <4>4, <4>5
    <3>2. CASE s # t
      <4>1. thread_submitted'[s] = thread_submitted[s] /\ net' \subseteq net
            /\ (AtWork(s)' <=> AtWork(s))
        BY <3>2, <1>a, <1>g DEF AtWork
      <4> QED BY <4>1 DEF IInv, CountInv
    <3> QED BY <3>1, <3>2
  <2> QED BY <2>1, <1>a DEF IInv, CountInv
<1> QED BY <1>1, <1>2, <1>3, <1>4, <1>5, <1>6 DEF IInv

(* --in-process: the batch is received, sent and counted in one step.        *)
LEMMA SubmitPreserves ==
    ASSUME IInv, NEW t \in Threads, WorkerSubmits(t)
    PROVE  IInv'
<1> USE ConstantFacts, ElementFacts
<1>a. /\ pc[t] = "send"
      /\ \A s \in Threads : pc'[s] = IF s = t THEN "claim" ELSE pc[s]
      /\ pc' = [pc EXCEPT ![t] = "claim"]
      /\ thread_submitted' = [thread_submitted EXCEPT ![t] = @ + txs_in_batch(cur[t])]
      /\ receivedFrom' = [receivedFrom EXCEPT ![t] = @ + txs_in_batch(cur[t])]
      /\ deliveries' = [deliveries EXCEPT ![cur[t]] = @ + 1]
      /\ credit' = [credit EXCEPT ![cur[t]] = cur[t]]
      /\ sent' = sent \cup {cur[t]}
      /\ UNCHANGED <<reqState, net, next, cur, use_zmq, phase, closed, up, total_received, crashes,
                     missed>>
  BY DEF IInv, TypeOK, WorkerSubmits, SubmitInProcess, mainVars, netVars, receiverVars
<1>b. AtWork(t) /\ cur[t] \in Batches /\ cur[t] # NoBatch /\ cur[t] \notin Concluded
      /\ cur[t] \notin sent
  BY <1>a DEF IInv, ClaimInv, AtWork
<1>c. deliveries[cur[t]] = 0 /\ cur[t] \notin Counted
      /\ \A b \in Counted : credit[b] # cur[t]
  <2>1. deliveries[cur[t]] = 0
    BY <1>b DEF IInv, TypeOK, CountInv
  <2> QED BY <2>1, <1>b DEF IInv, CreditSound, Concluded
<1>d. /\ \A b \in Batches : /\ credit'[b] = IF b = cur[t] THEN cur[t] ELSE credit[b]
                            /\ deliveries'[b] = IF b = cur[t] THEN 1 ELSE deliveries[b]
      /\ \A s \in Threads :
            /\ thread_submitted'[s] = IF s = t THEN thread_submitted[t] + txs_in_batch(cur[t])
                                      ELSE thread_submitted[s]
            /\ receivedFrom'[s] = IF s = t THEN receivedFrom[t] + txs_in_batch(cur[t])
                                  ELSE receivedFrom[s]
  BY <1>a, <1>b, <1>c DEF IInv, TypeOK
<1>e. Counted' = Counted \cup {cur[t]} /\ Concluded' = Concluded \cup {cur[t]}
  <2>1. Counted' = Counted \cup {cur[t]}
    BY <1>b, <1>d DEF Counted
  <2> QED BY <2>1, <1>a DEF Concluded
<1>f. \A b \in Counted : b \in Batches /\ credit[b] \in Batches
  BY DEF Counted, IInv, TypeOK
<1>1. TypeOK'
  <2>1. thread_submitted' \in [Threads -> 0..INT_MAX]
    BY <1>a, <1>b, CounterWithinBatches DEF IInv, TypeOK
  <2>2. receivedFrom' \in [Threads -> Nat] /\ deliveries' \in [Batches -> Nat]
    BY <1>a, <1>b, BatchFacts DEF IInv, TypeOK
  <2>3. /\ credit' \in [Batches -> Batches \cup {NoBatch}] /\ sent' \in SUBSET Batches
        /\ pc' \in [Threads -> {"claim", "send", "recv", "barrier"}]
    BY <1>a, <1>b DEF IInv, TypeOK
  <2> QED BY <2>1, <2>2, <2>3, <1>a DEF IInv, TypeOK
<1>2. ClaimInv'
  <2>1. (Counted \cap missed)' = {}
    BY <1>a, <1>b, <1>e DEF IInv, ClaimInv, Concluded
  <2> QED BY <2>1, <1>a, <1>b, <1>e, ClaimInvAfterBatch
<1>3. LockStep'
  BY <1>a DEF IInv, LockStep
<1>4. MessageInv'
  <2>1. ASSUME NEW m \in net, m.from \in Threads
        PROVE  ThreadMessage(m)'
    <3>1. ThreadMessage(m)
      BY <2>1 DEF IInv, MessageInv
    <3>2. m.batch # cur[t] /\ m.batch \in sent
      BY <3>1, <1>b DEF ThreadMessage
    <3>3. deliveries'[m.batch] = deliveries[m.batch]
      BY <3>2, <1>d
    <3>4. \A b \in Counted' : credit'[b] # m.batch
      BY <3>1, <3>2, <1>b, <1>d, <1>e, <1>f DEF ThreadMessage
    <3>5. pc'[m.from] = "recv" => cur[m.from] # cur[t] /\ pc[m.from] = "recv"
      BY <2>1, <1>a, <1>b DEF IInv, ClaimInv, AtWork
    <3>6. AtWork(m.from)' => AtWork(m.from)
      BY <2>1, <1>a DEF AtWork
    <3>7. m.batch \in missed' \/ (pc'[m.from] = "recv" /\ cur'[m.from] = m.batch)
      BY <2>1, <3>1, <3>2, <1>a DEF ThreadMessage
    <3> QED BY <3>1, <3>2, <3>3, <3>4, <3>5, <3>6, <3>7, <1>a DEF ThreadMessage
  <2> QED BY <2>1, <1>a DEF IInv, MessageInv
<1>5. (CountedAtMostOnce /\ CreditSound /\ LateReplyOnly)'
  <2>1. CountedAtMostOnce'
    BY <1>d DEF IInv, CountedAtMostOnce
  <2>2. ASSUME NEW b \in Counted'
        PROVE  /\ credit'[b] <= b
               /\ deliveries'[credit'[b]] = 1
               /\ txs_in_batch(b) <= txs_in_batch(credit'[b])
               /\ credit'[b] # b => credit'[b] \in missed' /\ b \notin sent'
    <3>1. CASE b = cur[t]
      BY <3>1, <1>b, <1>d, BatchFacts
    <3>2. CASE b # cur[t]
      <4>1. b \in Counted /\ credit'[b] = credit[b] /\ credit[b] # cur[t]
        BY <3>2, <1>c, <1>d, <1>e, <1>f
      <4> QED BY <3>2, <4>1, <1>a, <1>d, <1>f DEF IInv, CreditSound, LateReplyOnly
    <3> QED BY <3>1, <3>2
  <2>3. \A b, c \in Counted' : credit'[b] = credit'[c] => b = c
    BY <1>b, <1>c, <1>d, <1>e, <1>f DEF IInv, CreditSound
  <2> QED BY <2>1, <2>2, <2>3 DEF CreditSound, LateReplyOnly
<1>6. CountInv'
  <2>1. \A b \in Batches : deliveries'[b] > 0 => b \in sent'
    BY <1>a, <1>d DEF IInv, CountInv
  <2>2. ASSUME NEW s \in Threads
        PROVE  /\ thread_submitted'[s] <= receivedFrom'[s]
               /\ \A n \in net : n.from = s /\ n.at = "ok" =>
                     thread_submitted'[s] + n.count <= receivedFrom'[s]
               /\ thread_submitted'[s] <=
                     IF cur[s] = NoBatch THEN 0
                     ELSE IF AtWork(s)' THEN TxStart(batch_size, cur[s])
                     ELSE TxEnd(total_count, batch_size, cur[s])
    <3>1. CASE s = t
      <4>1. thread_submitted'[t] <= TxEnd(total_count, batch_size, cur[t])
        BY <1>b, <1>d, CounterWithinBatches
      <4>2. ~AtWork(t)'
        BY <1>a DEF AtWork
      <4>3. txs_in_batch(cur[t]) \in Nat
        BY <1>b, BatchFacts
      <4>4. thread_submitted'[t] <= receivedFrom'[t]
        BY <4>3, <1>d DEF IInv, CountInv
      <4>5. \A n \in net : n.from = t /\ n.at = "ok" =>
               thread_submitted'[t] + n.count <= receivedFrom'[t]
        BY <4>3, <1>d DEF IInv, CountInv
      <4> QED BY <3>1, <4>1, <4>2, <4>4, <4>5, <1>b
    <3>2. CASE s # t
      <4>1. /\ thread_submitted'[s] = thread_submitted[s] /\ receivedFrom'[s] = receivedFrom[s]
            /\ AtWork(s)' <=> AtWork(s)
        BY <3>2, <1>a, <1>d DEF AtWork
      <4> QED BY <4>1 DEF IInv, CountInv
    <3> QED BY <3>1, <3>2
  <2> QED BY <2>1, <2>2, <1>a DEF CountInv
<1> QED BY <1>1, <1>2, <1>3, <1>4, <1>5, <1>6 DEF IInv

-----------------------------------------------------------------------------
(* A step that leaves the threads and the history alone, and of the messages *)
(* of the threads keeps some and moves some on, but not to "ok".             *)
LEMMA QuietStep ==
    ASSUME IInv, TypeOK', LockStep',
           UNCHANGED <<next, pc, cur, thread_submitted, historyVars>>,
           phase' # "parallel" => \A t \in Threads : pc[t] = "barrier",
           \A m \in net' : m.from \in Foreign => m.form # "batch",
           \A m \in net' : m.from \in Threads =>
              \E n \in net : /\ m.from = n.from /\ m.form = n.form
                             /\ m.batch = n.batch /\ m.count = n.count
                             /\ m.at # "unknown"
                             /\ m.at = "ok" <=> n.at = "ok"
    PROVE  IInv'
<1> USE ConstantFacts, ElementFacts
<1>a. /\ UNCHANGED <<sent, deliveries, receivedFrom, credit, missed>>
      /\ Counted' = Counted /\ Concluded' = Concluded
      /\ \A t \in Threads : AtWork(t)' <=> AtWork(t)
  BY DEF historyVars, Counted, Concluded, AtWork
<1>2. ClaimInv'
  BY <1>a DEF IInv, ClaimInv
<1>4. MessageInv'
  <2>1. ASSUME NEW m \in net', m.from \in Threads
        PROVE  ThreadMessage(m)'
    <3>1. PICK n \in net : /\ m.from = n.from /\ m.form = n.form
                           /\ m.batch = n.batch /\ m.count = n.count
                           /\ m.at # "unknown"
                           /\ m.at = "ok" <=> n.at = "ok"
      BY <2>1
    <3>2. ThreadMessage(n)
      BY <2>1, <3>1 DEF IInv, MessageInv
    <3> QED BY <2>1, <3>1, <3>2, <1>a DEF ThreadMessage
  <2>2. ASSUME NEW m \in net', NEW n \in net',
               m.from \in Threads, n.from \in Threads, m.batch = n.batch
        PROVE  m = n
    <3>1. PICK k \in net : m.from = k.from /\ m.batch = k.batch
      BY <2>2
    <3>2. PICK l \in net : n.from = l.from /\ n.batch = l.batch
      BY <2>2
    <3>3. k = l
      <4>1. k.from \in Threads /\ l.from \in Threads /\ k.batch = l.batch
        BY <2>2, <3>1, <3>2
      <4>2. MessageInv
        BY DEF IInv
      <4> HIDE ConstantFacts, ElementFacts
      <4> QED BY <4>1, <4>2 DEF MessageInv
    <3>4. m.from = n.from
      BY <3>1, <3>2, <3>3
    <3> QED BY <3>4 DEF LockStep
  <2> QED BY <2>1, <2>2 DEF MessageInv
<1>5. (CountedAtMostOnce /\ CreditSound /\ LateReplyOnly)'
  BY <1>a DEF IInv, CountedAtMostOnce, CreditSound, LateReplyOnly
<1>6. CountInv'
  <2>1. ASSUME NEW t \in Threads, NEW m \in net', m.from = t, m.at = "ok"
        PROVE  thread_submitted[t] + m.count <= receivedFrom[t]
    BY <2>1 DEF IInv, CountInv
  <2> QED BY <2>1, <1>a DEF IInv, CountInv
<1> QED BY <1>2, <1>4, <1>5, <1>6 DEF IInv

(* The same for a step that only takes messages away.                        *)
LEMMA FewerMessages ==
    ASSUME IInv, net' \subseteq net,
           UNCHANGED <<reqState, next, pc, cur, thread_submitted, historyVars>>,
           use_zmq' \in BOOLEAN,
           phase' \in {"parallel", "teardown", "done"}, closed' \in 0..num_threads,
           up' \in BOOLEAN, total_received' \in Nat, crashes' \in 0..MaxCrashes,
           phase' # "parallel" => \A t \in Threads : pc[t] = "barrier"
    PROVE  IInv'
<1>1. TypeOK'
  BY DEF IInv, TypeOK, historyVars
<1>2. LockStep'
  BY DEF IInv, LockStep
<1>3. /\ \A m \in net' : m.from \in Foreign => m.form # "batch"
      /\ \A m \in net' : m.from \in Threads => m.at # "unknown"
  BY DEF IInv, MessageInv, ThreadMessage
<1> QED BY <1>1, <1>2, <1>3, QuietStep

(* The main thread moves on, and may drop the replies nobody read.          *)
LEMMA MainPreserves ==
    ASSUME IInv, MainStep
    PROVE  IInv'
<1> USE ConstantFacts DEF receiverVars, historyVars, threadVars, netVars, IInv, TypeOK, ClaimInv
<1>1. CASE MainJoins
  BY <1>1, FewerMessages DEF MainJoins, JoinThreads
<1>2. CASE MainCloses
  <2>1. closed' \in 0..num_threads
    BY <1>2 DEF MainCloses, CloseSocket
  <2>2. net' \subseteq net
    BY <1>2 DEF MainCloses, CloseSocket, ZmqClose
  <2> QED BY <1>2, <2>1, <2>2, FewerMessages DEF MainCloses, CloseSocket, ZmqClose
<1>3. CASE MainReports
  BY <1>3, FewerMessages DEF MainReports, Report
<1> QED BY <1>1, <1>2, <1>3 DEF MainStep

(* A message that moves on stays the only one of its client.                 *)
LEMMA MoveKeepsLockStep ==
    ASSUME LockStep, NEW m \in net, NEW stage, MoveTo(m, stage), reqState' = reqState,
           m \in Message
    PROVE  LockStep'
<1> DEFINE k == [m EXCEPT !.at = stage]
<1>1. k.from = m.from
  BY DEF Message
<1>2. net' = (net \ {m}) \cup {k}
  BY DEF MoveTo
<1>3. \A n \in net \ {m} : n.from # m.from
  BY DEF LockStep
<1> HIDE DEF k
<1> QED BY <1>1, <1>2, <1>3 DEF LockStep

(* A message moves on towards the receiver.                                 *)
LEMMA MovePreserves ==
    ASSUME IInv, NEW m \in net, ReceiverDelivers(m) \/ ReceiverTakes(m)
    PROVE  IInv'
<1> USE ConstantFacts, ElementFacts
<1>1. PICK stage \in {"inbox", "working"} : MoveTo(m, stage)
  BY DEF ReceiverDelivers, Deliver, ReceiverTakes, Recv
<1>2. /\ m.at \in {"pipe", "inbox"}
      /\ UNCHANGED <<reqState, next, pc, cur, thread_submitted, use_zmq, phase, closed, historyVars,
                     up, total_received, crashes>>
  BY DEF ReceiverDelivers, Deliver, ReceiverTakes, Recv, generatorVars, threadVars,
         mainVars, receiverVars
<1> DEFINE k == [m EXCEPT !.at = stage]
<1>3. /\ k \in Message /\ k.from = m.from /\ k.form = m.form /\ k.batch = m.batch
      /\ k.count = m.count /\ k.at = stage
  BY DEF Message, Stages
<1>4. net' = (net \ {m}) \cup {k}
  BY <1>1 DEF MoveTo
<1> HIDE DEF k
<1>5. TypeOK'
  BY <1>2, <1>3, <1>4 DEF IInv, TypeOK, historyVars
<1>6. LockStep'
  BY <1>1, <1>2, MoveKeepsLockStep DEF IInv
<1>7. \A n \in net' : n.from \in Foreign => n.form # "batch"
  BY <1>3, <1>4 DEF IInv, MessageInv
<1>8. ASSUME NEW n \in net', n.from \in Threads
      PROVE  \E l \in net : /\ n.from = l.from /\ n.form = l.form
                            /\ n.batch = l.batch /\ n.count = l.count
                            /\ n.at # "unknown"
                            /\ n.at = "ok" <=> l.at = "ok"
  <2>1. CASE n = k
    BY <2>1, <1>2, <1>3
  <2>2. CASE n \in net
    BY <2>2, <1>8 DEF IInv, MessageInv, ThreadMessage
  <2> QED BY <2>1, <2>2, <1>4
<1>9. phase' # "parallel" => \A t \in Threads : pc[t] = "barrier"
  BY <1>2 DEF IInv, ClaimInv
<1> QED BY <1>2, <1>5, <1>6, <1>7, <1>8, <1>9, QuietStep

(* The receiver counts a batch and replies.                                  *)
LEMMA AnswerPreserves ==
    ASSUME IInv, NEW m \in net, ReceiverAnswers(m)
    PROVE  IInv'
<1> USE ConstantFacts, ElementFacts
<1> DEFINE stage == IF HasPrefix(m) THEN "ok" ELSE "unknown"
<1> DEFINE k == [m EXCEPT !.at = stage]
<1>1. /\ m.at = "working"
      /\ MoveTo(m, stage)
      /\ total_received' = total_received + Unpacked(m)
      /\ UNCHANGED <<reqState, next, pc, cur, thread_submitted, use_zmq, phase, closed, up, crashes,
                     sent, credit, missed>>
  BY DEF ReceiverAnswers, Answer, generatorVars, threadVars, mainVars
<1>2. /\ k \in Message /\ k.from = m.from /\ k.form = m.form /\ k.batch = m.batch
      /\ k.count = m.count /\ k.at = stage
  BY DEF Message, Stages
<1>3. net' = (net \ {m}) \cup {k}
  BY <1>1 DEF MoveTo
<1>4. /\ m.form = "batch" => stage = "ok"
      /\ stage \in {"ok", "unknown"}
  BY DEF HasPrefix
<1> HIDE DEF k, stage
<1>5. LockStep'
  BY <1>1, MoveKeepsLockStep DEF IInv
<1>6. total_received' \in Nat
  BY <1>1 DEF Unpacked, IInv, TypeOK
<1>a. /\ Counted' = Counted /\ Concluded' = Concluded
      /\ \A t \in Threads : AtWork(t)' <=> AtWork(t)
  BY <1>1 DEF Counted, Concluded, AtWork
<1>7. CASE m.form # "batch"
  <2>1. /\ UNCHANGED historyVars
        /\ m.from \notin Threads
    BY <1>1, <1>7 DEF ReceiverAnswers, IInv, MessageInv, ThreadMessage, historyVars
  <2>2. TypeOK'
    BY <1>1, <1>2, <1>3, <1>6, <2>1 DEF IInv, TypeOK, historyVars
  <2>3. \A n \in net' : n.from \in Foreign => n.form # "batch"
    BY <1>2, <1>3, <1>7 DEF IInv, MessageInv
  <2>4. \A n \in net' : n.from \in Threads => n \in net /\ n.at # "unknown"
    BY <1>2, <1>3, <2>1 DEF IInv, MessageInv, ThreadMessage
  <2>5. phase' # "parallel" => \A t \in Threads : pc[t] = "barrier"
    BY <1>1 DEF IInv, ClaimInv
  <2> QED BY <1>1, <1>5, <2>1, <2>2, <2>3, <2>4, <2>5, QuietStep
<1>8. CASE m.form = "batch"
  <2>1. /\ deliveries' = [deliveries EXCEPT ![m.batch] = @ + 1]
        /\ receivedFrom' = [receivedFrom EXCEPT ![m.from] = @ + m.count]
        /\ k.at = "ok"
    BY <1>2, <1>4, <1>8 DEF ReceiverAnswers
  <2>2. m.from \in Threads /\ m.from \notin Foreign
    BY <1>8 DEF Clients, IInv, MessageInv
  <2>3. ThreadMessage(m)
    BY <2>2 DEF IInv, MessageInv
  <2>4. m.batch \in Batches /\ m.batch \in sent /\ deliveries[m.batch] = 0
    BY <2>3, <1>1 DEF ThreadMessage
  <2>5. \A b \in Batches : deliveries'[b] = IF b = m.batch THEN 1 ELSE deliveries[b]
    BY <2>1, <2>4 DEF IInv, TypeOK
  <2>6. \A t \in Threads : receivedFrom'[t] = IF t = m.from THEN receivedFrom[t] + m.count
                                              ELSE receivedFrom[t]
    BY <2>1, <2>2 DEF IInv, TypeOK
  <2>7. TypeOK'
    <3>1. deliveries' \in [Batches -> Nat]
      BY <2>1, <2>4 DEF IInv, TypeOK
    <3>2. receivedFrom' \in [Threads -> Nat]
      BY <2>1, <2>2 DEF IInv, TypeOK
    <3> QED BY <3>1, <3>2, <1>1, <1>2, <1>3, <1>6 DEF IInv, TypeOK
  <2>8. ClaimInv'
    BY <1>1, <1>a DEF IInv, ClaimInv
  <2>9. MessageInv'
    <3>1. ASSUME NEW n \in net \ {m}, n.from \in Threads
          PROVE  ThreadMessage(n)' /\ n.batch # m.batch
      <4>1. ThreadMessage(n)
        BY <3>1 DEF IInv, MessageInv
      <4>2. n.batch # m.batch
        BY <2>2, <3>1 DEF IInv, MessageInv
      <4>3. deliveries'[n.batch] = deliveries[n.batch]
        BY <4>1, <4>2, <2>5 DEF ThreadMessage
      <4> QED BY <3>1, <4>1, <4>2, <4>3, <1>1, <1>a DEF ThreadMessage
    <3>2. \A n : n = k => ThreadMessage(n)'
      <4> SUFFICES ASSUME NEW n, n = k PROVE ThreadMessage(n)'
        OBVIOUS
      <4>1. n.from = m.from /\ n.form = "batch" /\ n.batch = m.batch /\ n.count = m.count
            /\ n.at = "ok"
        BY <1>2, <1>8, <2>1
      <4>2. deliveries'[n.batch] = 1
        BY <4>1, <2>4, <2>5
      <4>3. \A b \in Counted' : credit'[b] # n.batch
        BY <4>1, <2>3, <1>1, <1>a DEF ThreadMessage
      <4> QED BY <4>1, <4>2, <4>3, <2>2, <2>3, <1>1, <1>a DEF ThreadMessage
    <3>3. \A n \in net' : n.from \in Threads => ThreadMessage(n)'
      BY <1>3, <3>1, <3>2
    <3>4. \A n \in net' : n.from \in Foreign => n.form # "batch"
      BY <1>2, <1>3, <2>2 DEF IInv, MessageInv
    <3>5. \A n, l \in net' :
             n.from \in Threads /\ l.from \in Threads /\ n.batch = l.batch => n = l
      BY <1>2, <1>3, <3>1 DEF IInv, MessageInv
    <3> QED BY <3>3, <3>4, <3>5 DEF MessageInv
  <2>10. CountedAtMostOnce'
    BY <2>5 DEF IInv, CountedAtMostOnce
  <2>11. CreditSound'
    <3>1. \A b \in Counted : credit[b] \in Batches /\ credit[b] # m.batch
      BY <2>3 DEF Counted, IInv, TypeOK, ThreadMessage
    <3> QED BY <3>1, <2>5, <1>1, <1>a DEF IInv, CreditSound
  <2>12. LateReplyOnly'
    BY <1>1, <1>a DEF IInv, LateReplyOnly
  <2>13. CountInv'
    <3>1. \A b \in Batches : deliveries'[b] > 0 => b \in sent'
      BY <2>4, <2>5, <1>1 DEF IInv, CountInv
    <3>2. ASSUME NEW t \in Threads
          PROVE  /\ thread_submitted[t] <= receivedFrom'[t]
                 /\ \A n \in net' : n.from = t /\ n.at = "ok" =>
                       thread_submitted[t] + n.count <= receivedFrom'[t]
      <4>1. CASE t = m.from
        <5>1. \A n \in net' : n.from = t => n = k
          BY <4>1, <1>3 DEF IInv, LockStep
        <5>2. thread_submitted[t] <= receivedFrom[t]
          BY DEF IInv, CountInv
        <5>3. receivedFrom'[t] = receivedFrom[t] + m.count
          BY <4>1, <2>6
        <5> QED BY <5>1, <5>2, <5>3, <1>2
      <4>2. CASE t # m.from
        <5>1. \A n \in net' : n.from = t => n \in net
          BY <4>2, <1>2, <1>3
        <5> QED BY <4>2, <5>1, <2>6 DEF IInv, CountInv
      <4> QED BY <4>1, <4>2
    <3> QED BY <3>1, <3>2, <1>1, <1>a DEF IInv, CountInv
  <2> QED BY <1>5, <2>7, <2>8, <2>9, <2>10, <2>11, <2>12, <2>13 DEF IInv
<1> QED BY <1>7, <1>8

(* The receiver dies and takes messages with it.                            *)
LEMMA CrashPreserves ==
    ASSUME IInv, ReceiverCrashes
    PROVE  IInv'
<1>1. net' \subseteq net
  BY DEF ReceiverCrashes, Crash
<1>2. crashes' \in 0..MaxCrashes
  BY MaxCrashesAssumption DEF ReceiverCrashes, Crash, IInv, TypeOK
<1> QED BY <1>1, <1>2, FewerMessages
        DEF ReceiverCrashes, Crash, generatorVars, threadVars, mainVars, historyVars,
            IInv, TypeOK, ClaimInv

(* The receiver is started again.                                           *)
LEMMA StartPreserves ==
    ASSUME IInv, ReceiverStarts
    PROVE  IInv'
BY FewerMessages
   DEF ReceiverStarts, Start, netVars, generatorVars, threadVars, mainVars, historyVars,
       IInv, TypeOK, ClaimInv

-----------------------------------------------------------------------------
(* Other clients never touch a message of a thread.                          *)
LEMMA ForeignPreserves ==
    ASSUME IInv, NEW c \in Foreign, ForeignSends(c) \/ ForeignReceives(c)
    PROVE  IInv'
<1> USE ConstantFacts, ElementFacts
<1>1. c \in Clients /\ c \notin Threads
  BY DEF Clients
<1>2. UNCHANGED <<next, pc, cur, thread_submitted, use_zmq, phase, closed, historyVars, up,
                  total_received, crashes>>
  BY DEF ForeignSends, ForeignReceives, generatorVars, threadVars, mainVars, receiverVars
<1>3. phase' # "parallel" => \A t \in Threads : pc[t] = "barrier"
  BY <1>2 DEF IInv, ClaimInv
<1>4. CASE ForeignSends(c)
  <2>1. PICK form \in {"garbled", "other"} : ZmqSend(c, form, NoBatch, 0)
    BY <1>4 DEF ForeignSends
  <2> DEFINE new == Request(c, form, NoBatch, 0)
  <2>2. /\ reqState[c] = "send"
        /\ net' = net \cup {new}
        /\ reqState' = [reqState EXCEPT ![c] = "recv"]
    BY <1>4, <2>1 DEF ForeignSends, ZmqSend
  <2>3. /\ new \in Message /\ new.from = c /\ new.form # "batch"
    BY <1>1, LimitsAssumption DEF Request, Message, Forms, Stages
  <2> HIDE DEF new
  <2>4. \A m \in net : m.from # c
    BY <2>2 DEF IInv, LockStep
  <2>5. TypeOK'
    BY <1>1, <1>2, <2>2, <2>3 DEF IInv, TypeOK, historyVars
  <2>6. LockStep'
    <3>1. \A m \in net' : reqState'[m.from] = "recv"
      BY <1>1, <2>2, <2>3, <2>4 DEF IInv, LockStep, TypeOK
    <3> QED BY <3>1, <2>2, <2>3, <2>4 DEF IInv, LockStep
  <2>7. \A m \in net' : m.from \in Foreign => m.form # "batch"
    BY <2>2, <2>3 DEF IInv, MessageInv
  <2>8. \A m \in net' : m.from \in Threads => m \in net /\ m.at # "unknown"
    BY <1>1, <2>2, <2>3 DEF IInv, MessageInv, ThreadMessage
  <2> QED BY <1>2, <1>3, <2>5, <2>6, <2>7, <2>8, QuietStep
<1>5. CASE ForeignReceives(c)
  <2>1. PICK m \in net : ZmqRecv(c, m)
    BY <1>5 DEF ForeignReceives
  <2>2. /\ m.from = c /\ net' = net \ {m}
        /\ reqState' = [reqState EXCEPT ![c] = "send"]
    BY <2>1 DEF ZmqRecv
  <2>3. \A n \in net' : n.from # c
    BY <2>2 DEF IInv, LockStep
  <2>5. TypeOK'
    BY <1>1, <1>2, <2>2 DEF IInv, TypeOK, historyVars
  <2>6. LockStep'
    <3>1. \A n \in net' : reqState'[n.from] = "recv"
      BY <1>1, <2>2, <2>3 DEF IInv, LockStep, TypeOK
    <3> QED BY <3>1, <2>2 DEF IInv, LockStep
  <2>7. \A n \in net' : n.from \in Foreign => n.form # "batch"
    BY <2>2 DEF IInv, MessageInv
  <2>8. \A n \in net' : n.from \in Threads => n \in net /\ n.at # "unknown"
    BY <2>2 DEF IInv, MessageInv, ThreadMessage
  <2> QED BY <1>2, <1>3, <2>5, <2>6, <2>7, <2>8, QuietStep
<1> QED BY <1>4, <1>5

-----------------------------------------------------------------------------
(* Nothing is claimed, sent or counted at first.                            *)
LEMMA InitEstablishes == Init => IInv
<1> USE ConstantFacts
<1> SUFFICES ASSUME Init PROVE IInv
  OBVIOUS
<1> USE DEF Init, NetInit, GeneratorInit, ReceiverInit
<1>1. TypeOK
  BY MaxCrashesAssumption DEF TypeOK
<1>2. Counted = {} /\ Concluded = {} /\ \A t \in Threads : ~AtWork(t) /\ cur[t] = NoBatch
  BY DEF Counted, Concluded, AtWork
<1>3. ClaimInv
  BY <1>2 DEF ClaimInv
<1>4. LockStep /\ MessageInv
  BY DEF LockStep, MessageInv
<1>5. CountedAtMostOnce /\ CreditSound /\ LateReplyOnly /\ CountInv
  BY <1>2 DEF CountedAtMostOnce, CreditSound, LateReplyOnly, CountInv
<1> QED BY <1>1, <1>3, <1>4, <1>5 DEF IInv

(* A step that changes nothing.                                             *)
LEMMA StutterPreserves ==
    ASSUME IInv, UNCHANGED vars
    PROVE  IInv'
BY FewerMessages
   DEF vars, netVars, generatorVars, threadVars, mainVars, receiverVars, historyVars,
       IInv, TypeOK, ClaimInv

(* Every step keeps the invariant.                                          *)
LEMMA NextPreserves == IInv /\ [Next]_vars => IInv'
<1> SUFFICES ASSUME IInv, [Next]_vars PROVE IInv'
  OBVIOUS
<1>1. ASSUME NEW t \in Threads, WorkerStep(t) PROVE IInv'
  BY <1>1, ClaimPreserves, LeavePreserves, SendPreserves, TimeoutPreserves,
     ReceivePreserves, SubmitPreserves DEF WorkerStep, WorkerAwakens
<1>2. ASSUME NEW m \in net,
             ReceiverDelivers(m) \/ ReceiverTakes(m) \/ ReceiverAnswers(m)
      PROVE  IInv'
  BY <1>2, MovePreserves, AnswerPreserves
<1>3. ASSUME NEW c \in Foreign, ForeignSends(c) \/ ForeignReceives(c) PROVE IInv'
  BY <1>3, ForeignPreserves
<1>4. Idle \/ UNCHANGED vars => IInv'
  BY StutterPreserves DEF Idle
<1> QED BY <1>1, <1>2, <1>3, <1>4, MainPreserves, CrashPreserves, StartPreserves DEF Next

(* The invariant holds in every run of the two programs.                     *)
THEOREM Invariance == Spec => []IInv
BY InitEstablishes, NextPreserves, PTL DEF Spec

-----------------------------------------------------------------------------
(* What follows from the invariant                                           *)

(* Types, and no thread's counter overflows.                                 *)
THEOREM TypeCorrect == Spec => []TypeOK
BY Invariance, PTL DEF IInv

(* The sockets stay in lock step whatever times out or dies (main.c 214-218).*)
THEOREM SocketsInLockStep == Spec => []LockStep
BY Invariance, PTL DEF IInv

(* No batch is received twice (main.c 214, receiver.c 104).                  *)
THEOREM ReceivedAtMostOnce == Spec => []CountedAtMostOnce
BY Invariance, PTL DEF IInv

(* A counted batch is backed by a received one of its own (main.c 218-222).  *)
THEOREM CreditsAreSound == Spec => []CreditSound
BY Invariance, PTL DEF IInv

(* It is backed by another batch's reply only after a timeout, when it was   *)
(* itself never sent (main.c 214-218).                                       *)
THEOREM LateRepliesOnly == Spec => []LateReplyOnly
BY Invariance, PTL DEF IInv

(* No thread counts more than the receiver has had from it (main.c 222).     *)
THEOREM NeverOvercounts == Spec => []SubmittedWithinReceived
<1>1. IInv => SubmittedWithinReceived
  BY DEF IInv, CountInv, SubmittedWithinReceived
<1> QED BY <1>1, Invariance, PTL

-----------------------------------------------------------------------------
(* The sockets that are closed have nothing left to send.                    *)
CloseInv ==
    /\ \A m \in net : m.from \in Threads => use_zmq
    /\ closed > 0 => phase # "parallel"
    /\ \A m \in net : m.from \in Threads /\ m.from < closed => m.at # "pipe"
    /\ phase = "done" /\ use_zmq => closed = num_threads

(* Every step keeps what is known of the closed sockets.                    *)
LEMMA CloseInvStep ==
    ASSUME IInv, CloseInv, [Next]_vars
    PROVE  CloseInv'
<1> USE ConstantFacts, ElementFacts
<1>0. closed \in Nat /\ closed <= num_threads
  BY DEF IInv, TypeOK
<1>1. ASSUME NEW t \in Threads, WorkerSends(t)
      PROVE  CloseInv'
  <2>1. phase = "parallel" /\ closed = 0 /\ use_zmq
    BY <1>0, <1>1 DEF IInv, ClaimInv, WorkerSends, SendBatch, CloseInv
  <2>2. UNCHANGED <<use_zmq, phase, closed>>
    BY <1>1 DEF WorkerSends, SendBatch, mainVars
  <2> QED BY <2>1, <2>2 DEF CloseInv
<1>2. ASSUME net' \subseteq net, UNCHANGED <<use_zmq, phase, closed>>
      PROVE  CloseInv'
  BY <1>2 DEF CloseInv
<1>3. ASSUME NEW t \in Threads,
             WorkerClaims(t) \/ WorkerLeaves(t) \/ WorkerAwakens(t) \/ WorkerSubmits(t)
      PROVE  CloseInv'
  <2>1. net' \subseteq net /\ UNCHANGED <<use_zmq, phase, closed>>
    BY <1>3 DEF WorkerClaims, Claim, WorkerLeaves, Leave, WorkerAwakens, WorkerTimesOut,
                RecvTimeout, WorkerReceives, RecvReply, ZmqRecv, WorkerSubmits,
                SubmitInProcess, mainVars, netVars
  <2> QED BY <2>1, <1>2
<1>4. CASE MainJoins
  BY <1>4 DEF MainJoins, JoinThreads, CloseInv, netVars
<1>5. CASE MainCloses
  <2>1. /\ closed' = closed + 1 /\ phase' = phase /\ phase = "teardown" /\ use_zmq' = use_zmq
        /\ net' \subseteq net
        /\ \A m \in net : m.from = closed => m.at # "pipe"
    BY <1>5 DEF MainCloses, CloseSocket, ZmqClose
  <2>2. \A t \in Threads : t < closed' => t < closed \/ t = closed
    BY <1>0, <2>1
  <2> QED BY <2>1, <2>2, <1>0 DEF CloseInv
<1>6. CASE MainReports
  BY <1>6 DEF MainReports, Report, CloseInv, netVars, IInv, TypeOK
<1>7. ASSUME NEW m \in net, NEW stage \in {"inbox", "working", "ok", "unknown"},
             MoveTo(m, stage), UNCHANGED <<use_zmq, phase, closed>>
      PROVE  CloseInv'
  <2> DEFINE k == [m EXCEPT !.at = stage]
  <2>1. k.from = m.from /\ k.at = stage
    BY DEF Message
  <2>2. net' = (net \ {m}) \cup {k}
    BY <1>7 DEF MoveTo
  <2> HIDE DEF k
  <2> QED BY <2>1, <2>2, <1>7 DEF CloseInv
<1>8. ASSUME NEW m \in net, ReceiverDelivers(m) \/ ReceiverTakes(m) \/ ReceiverAnswers(m)
      PROVE  CloseInv'
  <2>1. UNCHANGED <<use_zmq, phase, closed>>
    BY <1>8 DEF ReceiverDelivers, ReceiverTakes, ReceiverAnswers, generatorVars, mainVars
  <2>2. \E stage \in {"inbox", "working", "ok", "unknown"} : MoveTo(m, stage)
    BY <1>8 DEF ReceiverDelivers, Deliver, ReceiverTakes, Recv, ReceiverAnswers, Answer
  <2> QED BY <2>1, <2>2, <1>7
<1>9. CASE ReceiverCrashes \/ ReceiverStarts
  BY <1>2, <1>9 DEF ReceiverCrashes, Crash, ReceiverStarts, Start, generatorVars, mainVars, netVars
<1>10. ASSUME NEW c \in Foreign, ForeignSends(c) \/ ForeignReceives(c)
       PROVE  CloseInv'
  <2>1. c \notin Threads /\ UNCHANGED <<use_zmq, phase, closed>>
    BY <1>10 DEF ForeignSends, ForeignReceives, generatorVars, mainVars
  <2>2. \A m \in net' : m \in net \/ m.from = c
    BY <1>10 DEF ForeignSends, ForeignReceives, ZmqSend, ZmqRecv, Request, netVars
  <2> QED BY <2>1, <2>2 DEF CloseInv
<1>11. CASE Idle \/ UNCHANGED vars
  BY <1>2, <1>11 DEF Idle, vars, generatorVars, mainVars, netVars
<1> QED BY <1>1, <1>3, <1>4, <1>5, <1>6, <1>8, <1>9, <1>10, <1>11
        DEF Next, WorkerStep, MainStep

(* The figure is printed last: every batch has ended, and every request has  *)
(* left the process (main.c 237, 241-254).                                   *)
THEOREM ReportIsLast == Spec => []ReportComesLast
<1>1. Init => CloseInv
  BY ConstantFacts DEF Init, NetInit, GeneratorInit, CloseInv
<1>2. IInv /\ CloseInv => ReportComesLast
  <2> SUFFICES ASSUME IInv, CloseInv, phase = "done"
               PROVE  /\ Concluded = Batches
                      /\ \A m \in net : m.from \in Threads => m.at # "pipe"
    BY DEF ReportComesLast
  <2>1. 0 \in Threads
    BY ConstantFacts DEF Threads
  <2>2. next >= num_batches /\ \A t \in Threads : ~AtWork(t)
    BY <2>1 DEF IInv, ClaimInv, AtWork
  <2>3. \A b \in Batches : b < next
    BY <2>2, ConstantFacts, BatchFacts, ElementFacts
  <2>4. Concluded = Batches
    BY <2>2, <2>3, ElementFacts DEF IInv, ClaimInv
  <2>5. \A t \in Threads : t < num_threads
    BY ConstantFacts DEF Threads
  <2> QED BY <2>4, <2>5 DEF CloseInv
<1>3. IInv /\ CloseInv /\ [Next]_vars => CloseInv'
  BY CloseInvStep
<1> QED BY <1>1, <1>2, <1>3, Invariance, PTL DEF Spec
-----------------------------------------------------------------------------
(* The two programs implement the abstract specification Submission.         *)

Received == {b \in Batches : deliveries[b] > 0}
Spent == {credit[b] : b \in Counted}

(* The steps that the abstract specification does not see.                   *)
LEMMA UnseenStep ==
    ASSUME UNCHANGED <<deliveries, credit, missed>>, (phase = "done") = (phase' = "done")
    PROVE  UNCHANGED S!vars
<1>1. Counted' = Counted /\ Outcome' = Outcome
  BY DEF Counted, Outcome
<1> QED BY <1>1 DEF S!vars

(* A reply that is read counts the batch at work against the batch that was  *)
(* received, which nothing else has been counted against.                    *)
LEMMA ReceiveCounts ==
    ASSUME IInv, IInv', NEW t \in Threads, NEW m \in net, WorkerReceives(t, m)
    PROVE  S!Count(cur[t], m.batch) /\ cur[t] \in Batches /\ m.batch \in Batches
<1> USE ConstantFacts, ElementFacts
<1>1. /\ pc[t] = "recv" /\ m.from = t /\ IsReply(m)
      /\ UNCHANGED <<phase, deliveries>>
  BY DEF WorkerReceives, RecvReply, ZmqRecv, mainVars
<1>2. ThreadMessage(m) /\ m.at = "ok"
  BY <1>1 DEF IInv, MessageInv, ThreadMessage, IsReply
<1>3. cur[t] \in Batches /\ cur[t] \notin Counted /\ cur[t] \notin missed
  BY <1>1 DEF IInv, ClaimInv, AtWork, Concluded
<1>4. credit' = [credit EXCEPT ![cur[t]] = m.batch] /\ missed' = missed
  BY <1>2 DEF WorkerReceives
<1>5. /\ m.batch \in Batches /\ m.batch # NoBatch /\ deliveries[m.batch] = 1
      /\ m.batch \notin Spent
      /\ txs_in_batch(m.batch) >= txs_in_batch(cur[t])
  <2>1. m.batch \in Batches /\ m.batch <= cur[t] /\ deliveries[m.batch] = 1
        /\ \A b \in Counted : credit[b] # m.batch
    BY <1>1, <1>2 DEF ThreadMessage, AtWork
  <2>2. txs_in_batch(m.batch) >= txs_in_batch(cur[t])
    BY <2>1, <1>3, BatchFacts, BatchOrder
  <2> QED BY <2>1, <2>2 DEF Spent
<1>6. \A b \in Batches : credit'[b] = IF b = cur[t] THEN m.batch ELSE credit[b]
  BY <1>3, <1>4 DEF IInv, TypeOK
<1>7. Counted' = Counted \cup {cur[t]}
  BY <1>3, <1>5, <1>6 DEF Counted
<1>8. Outcome[cur[t]] = "open" /\ Outcome' = [Outcome EXCEPT ![cur[t]] = "counted"]
  BY <1>3, <1>4, <1>7 DEF Outcome
<1>9. Spent' = Spent \cup {m.batch}
  <2>1. \A b \in Counted : b \in Batches /\ b # cur[t]
    BY <1>3 DEF Counted
  <2> QED BY <2>1, <1>3, <1>6, <1>7 DEF Spent
<1>10. m.batch \in Received /\ Received' = Received
  BY <1>1, <1>5 DEF Received
<1> QED BY <1>1, <1>3, <1>5, <1>8, <1>9, <1>10 DEF S!Count, Received, Spent

(* A wait that times out gives its batch up.                                *)
LEMMA TimeoutMisses ==
    ASSUME IInv, NEW t \in Threads, WorkerTimesOut(t)
    PROVE  S!Miss(cur[t]) /\ cur[t] \in Batches
<1>1. /\ pc[t] = "recv" /\ missed' = missed \cup {cur[t]}
      /\ UNCHANGED <<phase, deliveries, credit>>
  BY DEF WorkerTimesOut, RecvTimeout, mainVars
<1>2. cur[t] \in Batches /\ cur[t] \notin Counted /\ cur[t] \notin missed
  BY <1>1 DEF IInv, ClaimInv, AtWork, Concluded
<1>3. Counted' = Counted
  BY <1>1 DEF Counted
<1>4. Outcome[cur[t]] = "open" /\ Outcome' = [Outcome EXCEPT ![cur[t]] = "missed"]
  BY <1>1, <1>2, <1>3 DEF Outcome
<1> QED BY <1>1, <1>2, <1>3, <1>4 DEF S!Miss

(* The callback receives and counts its batch at once.                      *)
LEMMA InProcessSubmits ==
    ASSUME IInv, NEW t \in Threads, WorkerSubmits(t)
    PROVE  \E b \in Batches : S!Submit(b)
<1> USE ConstantFacts
<1>1. /\ pc[t] = "send" /\ missed' = missed /\ phase' = phase
      /\ deliveries' = [deliveries EXCEPT ![cur[t]] = @ + 1]
      /\ credit' = [credit EXCEPT ![cur[t]] = cur[t]]
  BY DEF WorkerSubmits, SubmitInProcess, mainVars
<1>2. /\ cur[t] \in Batches /\ cur[t] \notin Counted /\ cur[t] \notin missed
      /\ cur[t] \notin sent /\ cur[t] # NoBatch
  BY <1>1 DEF IInv, ClaimInv, AtWork, Concluded
<1>3. deliveries[cur[t]] = 0
  BY <1>2 DEF IInv, TypeOK, CountInv
<1>4. \A b \in Batches : /\ credit'[b] = IF b = cur[t] THEN cur[t] ELSE credit[b]
                         /\ deliveries'[b] = IF b = cur[t] THEN 1 ELSE deliveries[b]
  BY <1>1, <1>2, <1>3 DEF IInv, TypeOK
<1>5. Counted' = Counted \cup {cur[t]}
  BY <1>2, <1>4 DEF Counted
<1>6. Outcome[cur[t]] = "open" /\ Outcome' = [Outcome EXCEPT ![cur[t]] = "counted"]
  BY <1>1, <1>2, <1>5 DEF Outcome
<1>7. Spent' = Spent \cup {cur[t]}
  <2>1. \A b \in Counted : b \in Batches /\ b # cur[t]
    BY <1>2 DEF Counted
  <2> QED BY <2>1, <1>2, <1>4, <1>5 DEF Spent
<1>8. cur[t] \notin Received /\ Received' = Received \cup {cur[t]}
  BY <1>2, <1>3, <1>4 DEF Received
<1>9. PICK b \in Batches : b = cur[t]
  BY <1>2
<1>10. S!Submit(b)
  BY <1>1, <1>2, <1>6, <1>7, <1>8, <1>9 DEF S!Submit, Received, Spent
<1> QED BY <1>10

(* The receiver's answer receives a batch, or is not seen.                  *)
LEMMA AnswerReceives ==
    ASSUME IInv, NEW m \in net, ReceiverAnswers(m)
    PROVE  \/ UNCHANGED S!vars
           \/ S!Receive(m.batch) /\ m.batch \in Batches
<1> USE ConstantFacts, ElementFacts
<1>1. m.at = "working" /\ UNCHANGED <<phase, credit, missed>>
  BY DEF ReceiverAnswers, Answer, generatorVars, mainVars
<1>2. CASE m.form # "batch"
  BY <1>1, <1>2, UnseenStep DEF ReceiverAnswers
<1>3. CASE m.form = "batch"
  <2>1. deliveries' = [deliveries EXCEPT ![m.batch] = @ + 1]
    BY <1>3 DEF ReceiverAnswers
  <2>2. m.from \in Threads
    BY <1>3 DEF Clients, IInv, MessageInv
  <2>3. m.batch \in Batches /\ deliveries[m.batch] = 0
    BY <1>1, <2>2 DEF IInv, MessageInv, ThreadMessage
  <2>4. \A b \in Batches : deliveries'[b] = IF b = m.batch THEN 1 ELSE deliveries[b]
    BY <2>1, <2>3 DEF IInv, TypeOK
  <2>5. m.batch \notin Received /\ Received' = Received \cup {m.batch}
    BY <2>3, <2>4 DEF Received
  <2>6. Counted' = Counted /\ Outcome' = Outcome
    BY <1>1 DEF Counted, Outcome
  <2> QED BY <1>1, <2>3, <2>5, <2>6 DEF S!Receive, Received
<1> QED BY <1>2, <1>3

(* The figure is printed once no batch is open.                             *)
LEMMA ReportReports ==
    ASSUME IInv, MainReports
    PROVE  S!Report
<1> USE ConstantFacts, ElementFacts
<1>1. /\ phase = "teardown" /\ phase' = "done"
      /\ UNCHANGED <<deliveries, credit, missed>>
  BY DEF MainReports, Report, historyVars
<1>2. 0 \in Threads
  BY DEF Threads
<1>3. next >= num_batches /\ \A t \in Threads : ~AtWork(t)
  BY <1>1, <1>2 DEF IInv, ClaimInv, AtWork
<1>4. \A b \in Batches : b \in Concluded
  BY <1>3, BatchFacts DEF IInv, ClaimInv
<1>5. \A b \in Batches : Outcome[b] # "open"
  BY <1>4 DEF Outcome, Concluded
<1>6. Counted' = Counted /\ Outcome' = Outcome
  BY <1>1 DEF Counted, Outcome
<1> QED BY <1>1, <1>5, <1>6 DEF S!Report

(* The initial states map to initial states.                                *)
LEMMA InitMapsToInit == Init => S!Init
<1> SUFFICES ASSUME Init PROVE S!Init
  OBVIOUS
<1>1. Counted = {} /\ missed = {} /\ phase = "parallel"
  BY DEF Init, GeneratorInit, Counted
<1>2. Outcome = [b \in Batches |-> "open"]
  BY <1>1 DEF Outcome
<1>3. {b \in Batches : deliveries[b] > 0} = {}
  BY DEF Init
<1> QED BY <1>1, <1>2, <1>3 DEF S!Init

(* Every step of the two programs maps to a step, or to a stutter.          *)
LEMMA StepMapsToStep == IInv /\ IInv' /\ [Next]_vars => [S!Next]_(S!vars)
<1> SUFFICES ASSUME IInv, IInv', [Next]_vars
             PROVE  S!Next \/ UNCHANGED S!vars
  OBVIOUS
<1>1. ASSUME NEW t \in Threads, WorkerStep(t)
      PROVE  S!Next \/ UNCHANGED S!vars
  <2>1. CASE WorkerClaims(t) \/ WorkerLeaves(t) \/ WorkerSends(t)
    <3>1. UNCHANGED <<phase, deliveries, credit, missed>>
      BY <2>1 DEF WorkerClaims, Claim, WorkerLeaves, Leave, WorkerSends, SendBatch,
                  mainVars, historyVars
    <3> QED BY <3>1, UnseenStep
  <2>2. CASE WorkerTimesOut(t)
    BY <2>2, TimeoutMisses DEF S!Next
  <2>3. ASSUME NEW m \in net, WorkerReceives(t, m)
        PROVE  S!Next
    <3>1. S!Count(cur[t], m.batch) /\ cur[t] \in Batches /\ m.batch \in Batches
      BY <2>3, ReceiveCounts
    <3> QED BY <3>1 DEF S!Next
  <2>4. CASE WorkerSubmits(t)
    BY <2>4, InProcessSubmits DEF S!Next
  <2> QED BY <1>1, <2>1, <2>2, <2>3, <2>4 DEF WorkerStep, WorkerAwakens
<1>2. CASE MainJoins \/ MainCloses
  <2>1. UNCHANGED <<deliveries, credit, missed>> /\ phase # "done" /\ phase' # "done"
    BY <1>2 DEF MainJoins, JoinThreads, MainCloses, CloseSocket, historyVars
  <2> QED BY <2>1, UnseenStep
<1>3. CASE MainReports
  BY <1>3, ReportReports DEF S!Next
<1>4. ASSUME NEW m \in net,
             ReceiverDelivers(m) \/ ReceiverTakes(m) \/ ReceiverAnswers(m)
      PROVE  S!Next \/ UNCHANGED S!vars
  <2>1. CASE ReceiverDelivers(m) \/ ReceiverTakes(m)
    <3>1. UNCHANGED <<phase, deliveries, credit, missed>>
      BY <2>1 DEF ReceiverDelivers, ReceiverTakes, generatorVars, mainVars, historyVars
    <3> QED BY <3>1, UnseenStep
  <2>2. CASE ReceiverAnswers(m)
    BY <2>2, AnswerReceives DEF S!Next
  <2> QED BY <1>4, <2>1, <2>2
<1>5. CASE ReceiverCrashes \/ ReceiverStarts
  <2>1. UNCHANGED <<phase, deliveries, credit, missed>>
    BY <1>5 DEF ReceiverCrashes, ReceiverStarts, generatorVars, mainVars, historyVars
  <2> QED BY <2>1, UnseenStep
<1>6. ASSUME NEW c \in Foreign, ForeignSends(c) \/ ForeignReceives(c)
      PROVE  S!Next \/ UNCHANGED S!vars
  <2>1. UNCHANGED <<phase, deliveries, credit, missed>>
    BY <1>6 DEF ForeignSends, ForeignReceives, generatorVars, mainVars, historyVars
  <2> QED BY <2>1, UnseenStep
<1>7. CASE Idle \/ UNCHANGED vars
  <2>1. UNCHANGED <<phase, deliveries, credit, missed>>
    BY <1>7 DEF Idle, vars, generatorVars, mainVars, historyVars
  <2> QED BY <2>1, UnseenStep
<1> QED BY <1>1, <1>2, <1>3, <1>4, <1>5, <1>6, <1>7 DEF Next, MainStep

(* Every run of the two programs is a run of Submission: each batch ends     *)
(* counted or missed, once, and what is counted uses up what was received    *)
(* (main.c 158-254, receiver.c 81-115).                                      *)
THEOREM Implements == Spec => ImplementsSubmission
BY Invariance, InitMapsToInit, StepMapsToStep, PTL DEF Spec, S!Spec, ImplementsSubmission

-----------------------------------------------------------------------------
(* The figure.  The lemmas on sums are those of SubmissionProofs, for the     *)
(* batches of this run.                                                     *)
Sizes == [b \in Batches |-> txs_in_batch(b)]

Books == INSTANCE SubmissionProofs WITH
            Size <- Sizes,
            outcome <- Outcome,
            received <- Received,
            spent <- Spent,
            reported <- phase = "done"

(* The batches of a run are finitely many, and so are its threads.           *)
LEMMA FiniteFacts ==
    /\ IsFiniteSet(Batches) /\ IsFiniteSet(Threads)
    /\ Sizes \in [Batches -> Nat]
    /\ \A b \in Batches : Sizes[b] = txs_in_batch(b) /\ Sizes[b] \in Nat
<1>1. IsFiniteSet(Batches) /\ IsFiniteSet(Threads)
  BY ConstantFacts, FS_Interval DEF Batches, Threads
<1>2. \A b \in Batches : txs_in_batch(b) \in Nat
  BY BatchFacts
<1> QED BY <1>1, <1>2 DEF Sizes

(* Instantiating the module instantiates the library's operators with it,    *)
(* but they are the same operators.                                         *)
LEMMA SameOperators ==
    /\ \A T : Books!IsFiniteSet(T) <=> IsFiniteSet(T)
    /\ \A f, T : Books!SumFunctionOnSet(f, T) = SumFunctionOnSet(f, T)
    /\ \A f : Books!SumFunction(f) = SumFunction(f)
<1>1. \A T : Books!IsFiniteSet(T) <=> IsFiniteSet(T)
  BY Zenon DEF IsFiniteSet, Books!IsFiniteSet
<1>2. \A f, T : Books!SumFunctionOnSet(f, T) = SumFunctionOnSet(f, T)
  BY Zenon DEF SumFunctionOnSet, FoldFunctionOnSet, MapThenFoldSet,
               Books!SumFunctionOnSet, Books!FoldFunctionOnSet, Books!MapThenFoldSet
<1>3. \A f : Books!SumFunction(f) = SumFunction(f)
  BY <1>2 DEF SumFunction, Books!SumFunction
<1> QED BY <1>1, <1>2, <1>3

(* The threads' counters add up to the batches that were counted, and the    *)
(* figure is their sum.                                                     *)
TotalsInv ==
    /\ SumFunction(thread_submitted) = SumFunctionOnSet(Sizes, Counted)
    /\ phase = "done" => total_submitted = SumFunction(thread_submitted)

(* A batch that is counted joins the sum as it joins the counter.            *)
LEMMA CountingKeepsTotals ==
    ASSUME IInv, TotalsInv, NEW t \in Threads, AtWork(t),
           thread_submitted' = [thread_submitted EXCEPT ![t] = @ + txs_in_batch(cur[t])],
           Counted' = Counted \cup {cur[t]}, phase' = phase
    PROVE  TotalsInv'
<1>1. cur[t] \in Batches /\ cur[t] \notin Counted /\ phase = "parallel"
  BY DEF IInv, TypeOK, ClaimInv, AtWork, Concluded
<1>2. SumFunction(thread_submitted') = SumFunction(thread_submitted) + txs_in_batch(cur[t])
  <2>1. thread_submitted \in [Threads -> Int] /\ txs_in_batch(cur[t]) \in Int
    BY <1>1, BatchFacts, LimitsAssumption DEF IInv, TypeOK
  <2>2. SumFunction([thread_submitted EXCEPT ![t] = @ + txs_in_batch(cur[t])])
           = SumFunction(thread_submitted) + txs_in_batch(cur[t])
    BY <2>1, FiniteFacts, SameOperators, Books!SumUpdate
  <2> QED BY <2>2
<1>3. SumFunctionOnSet(Sizes, Counted') = SumFunctionOnSet(Sizes, Counted) + Sizes[cur[t]]
  <2>1. IsFiniteSet(Counted) /\ \A b \in Counted \cup {cur[t]} : Sizes[b] \in Int
    BY <1>1, FiniteFacts, FS_Subset DEF Counted
  <2>2. SumFunctionOnSet(Sizes, Counted \cup {cur[t]})
           = SumFunctionOnSet(Sizes, Counted) + Sizes[cur[t]]
    BY <1>1, <2>1, FiniteFacts, SameOperators, Books!SumAdd
  <2> QED BY <2>2
<1>4. Sizes[cur[t]] = txs_in_batch(cur[t])
  BY <1>1, FiniteFacts
<1> QED BY <1>1, <1>2, <1>3, <1>4 DEF TotalsInv

(* Every step keeps the totals.                                             *)
LEMMA TotalsStep ==
    ASSUME IInv, TotalsInv, [Next]_vars
    PROVE  TotalsInv'
<1> USE ConstantFacts, ElementFacts
<1>1. ASSUME UNCHANGED <<thread_submitted, credit, phase, total_submitted>>
      PROVE  TotalsInv'
  <2>1. Counted' = Counted
    BY <1>1 DEF Counted
  <2> QED BY <1>1, <2>1 DEF TotalsInv
<1>2. ASSUME NEW t \in Threads,
             WorkerClaims(t) \/ WorkerLeaves(t) \/ WorkerSends(t) \/ WorkerTimesOut(t)
      PROVE  TotalsInv'
  BY <1>1, <1>2 DEF WorkerClaims, Claim, WorkerLeaves, Leave, WorkerSends, SendBatch,
     WorkerTimesOut, RecvTimeout, mainVars, historyVars
<1>3. ASSUME NEW t \in Threads, NEW m \in net, WorkerReceives(t, m)
      PROVE  TotalsInv'
  <2>1. pc[t] = "recv" /\ m.from = t /\ IsReply(m) /\ phase' = phase
    BY <1>3 DEF WorkerReceives, RecvReply, ZmqRecv, mainVars
  <2>2. ThreadMessage(m) /\ m.at = "ok"
    BY <2>1 DEF IInv, MessageInv, ThreadMessage, IsReply
  <2>3. AtWork(t) /\ cur[t] \in Batches
    BY <2>1 DEF IInv, ClaimInv, AtWork
  <2>4. /\ thread_submitted' = [thread_submitted EXCEPT ![t] = @ + txs_in_batch(cur[t])]
        /\ credit' = [credit EXCEPT ![cur[t]] = m.batch]
    BY <1>3, <2>2 DEF WorkerReceives, RecvReply
  <2>5. m.batch \in Batches /\ m.batch # NoBatch
    BY <2>2, BatchFacts DEF ThreadMessage, IInv, TypeOK
  <2>6. Counted' = Counted \cup {cur[t]}
    BY <2>3, <2>4, <2>5 DEF Counted, IInv, TypeOK
  <2> QED BY <2>1, <2>3, <2>4, <2>6, CountingKeepsTotals
<1>4. ASSUME NEW t \in Threads, WorkerSubmits(t)
      PROVE  TotalsInv'
  <2>1. /\ pc[t] = "send" /\ phase' = phase
        /\ thread_submitted' = [thread_submitted EXCEPT ![t] = @ + txs_in_batch(cur[t])]
        /\ credit' = [credit EXCEPT ![cur[t]] = cur[t]]
    BY <1>4 DEF WorkerSubmits, SubmitInProcess, mainVars
  <2>2. AtWork(t) /\ cur[t] \in Batches /\ cur[t] # NoBatch
    BY <2>1, BatchFacts DEF IInv, ClaimInv, AtWork
  <2>3. Counted' = Counted \cup {cur[t]}
    BY <2>1, <2>2 DEF Counted, IInv, TypeOK
  <2> QED BY <2>1, <2>2, <2>3, CountingKeepsTotals
<1>5. CASE MainJoins \/ MainCloses
  <2>1. /\ UNCHANGED <<thread_submitted, credit>> /\ phase' # "done"
    BY <1>5 DEF MainJoins, JoinThreads, MainCloses, CloseSocket, threadVars, historyVars
  <2>2. Counted' = Counted
    BY <2>1 DEF Counted
  <2> QED BY <2>1, <2>2 DEF TotalsInv
<1>6. CASE MainReports
  <2>1. UNCHANGED <<thread_submitted, credit>> /\ total_submitted' = SumFunction(thread_submitted)
    BY <1>6 DEF MainReports, Report, threadVars, historyVars
  <2>2. Counted' = Counted
    BY <2>1 DEF Counted
  <2> QED BY <2>1, <2>2 DEF TotalsInv
<1>7. ASSUME NEW m \in net,
             ReceiverDelivers(m) \/ ReceiverTakes(m) \/ ReceiverAnswers(m)
      PROVE  TotalsInv'
  BY <1>1, <1>7 DEF ReceiverDelivers, ReceiverTakes, ReceiverAnswers, generatorVars,
     threadVars, mainVars, historyVars
<1>8. CASE ReceiverCrashes \/ ReceiverStarts \/ Idle \/ UNCHANGED vars
  BY <1>1, <1>8 DEF ReceiverCrashes, ReceiverStarts, Idle, vars, generatorVars, threadVars,
     mainVars, historyVars
<1>9. ASSUME NEW c \in Foreign, ForeignSends(c) \/ ForeignReceives(c)
      PROVE  TotalsInv'
  BY <1>1, <1>9 DEF ForeignSends, ForeignReceives, generatorVars, threadVars, mainVars, historyVars
<1> QED BY <1>2, <1>3, <1>4, <1>5, <1>6, <1>7, <1>8, <1>9
        DEF Next, WorkerStep, WorkerAwakens, MainStep

(* Nothing is counted at first.                                             *)
LEMMA TotalsInit ==
    ASSUME Init
    PROVE  TotalsInv
<1>1. Counted = {} /\ phase # "done" /\ thread_submitted = [t \in Threads |-> 0]
  BY DEF Init, GeneratorInit, Counted
<1>2. SumFunctionOnSet(Sizes, {}) = 0
  BY FiniteFacts, SameOperators, Books!SumEmpty
<1>3. SumFunction(thread_submitted) = 0
  BY <1>1, FiniteFacts, SameOperators, Books!SumZeros
<1> QED BY <1>1, <1>2, <1>3 DEF TotalsInv

(* The figure is the sum of the counted batches, and no more than what the   *)
(* receiver has had from all threads together (main.c 249-254).              *)
THEOREM FigureIsExact == Spec => []ReportIsExact
<1>1. IInv /\ TotalsInv => ReportIsExact
  <2> SUFFICES ASSUME IInv, TotalsInv, phase = "done"
               PROVE  /\ total_submitted = SumFunctionOnSet(Sizes, Counted)
                      /\ total_submitted <= SumFunction(receivedFrom)
    BY DEF ReportIsExact, Sizes
  <2>1. /\ DOMAIN thread_submitted = Threads /\ DOMAIN receivedFrom = Threads
        /\ \A t \in Threads : /\ thread_submitted[t] \in Int /\ receivedFrom[t] \in Int
                              /\ thread_submitted[t] <= receivedFrom[t]
    BY LimitsAssumption DEF IInv, TypeOK, CountInv
  <2>2. SumFunctionOnSet(thread_submitted, Threads) <= SumFunctionOnSet(receivedFrom, Threads)
    BY <2>1, FiniteFacts, SameOperators, Books!SumMonotone
  <2>3. SumFunction(thread_submitted) <= SumFunction(receivedFrom)
    BY <2>1, <2>2 DEF SumFunction
  <2> QED BY <2>3 DEF TotalsInv
<1>2. Init => TotalsInv
  BY TotalsInit
<1>3. IInv /\ TotalsInv /\ [Next]_vars => TotalsInv'
  BY TotalsStep
<1> QED BY <1>1, <1>2, <1>3, Invariance, PTL DEF Spec

(* The first batches together hold the transactions up to the end of the     *)
(* last of them.                                                            *)
LEMMA FirstBatches ==
    ASSUME NEW k \in Batches
    PROVE  SumFunctionOnSet(Sizes, 0..k) = TxEnd(total_count, batch_size, k)
<1> USE ConstantFacts
<1> DEFINE Sum(s) == SumFunctionOnSet(Sizes, s)
           End(b) == TxEnd(total_count, batch_size, b)
           G == {s \in SUBSET Batches : \A b \in Batches : s = 0..b => Sum(s) = End(b)}
<1>1. ASSUME NEW s \in SUBSET Batches, \A r \in SUBSET s : r # s => r \in G,
             NEW b \in Batches, s = 0..b
      PROVE  Sum(s) = End(b)
  <2>1. /\ b \in Nat /\ End(b) = TxStart(batch_size, b) + txs_in_batch(b)
        /\ txs_in_batch(b) \in Nat /\ TxStart(batch_size, b) \in Nat
    BY BatchFacts
  <2>2. b \in s /\ s \ {b} = 0..(b - 1)
    BY <1>1, <2>1
  <2>3. Sum(s) = txs_in_batch(b) + Sum(s \ {b})
    <3>1. IsFiniteSet(s) /\ \A x \in s : Sizes[x] \in Int
      BY FiniteFacts, FS_Subset
    <3>2. Sum(s) = Sizes[b] + Sum(s \ {b})
      BY <2>2, <3>1, FiniteFacts, SameOperators, Books!SumTakeOut
    <3> QED BY <3>2, FiniteFacts
  <2>4. CASE b = 0
    <3>1. Sum({}) = 0
      BY FiniteFacts, SameOperators, Books!SumEmpty
    <3>2. s \ {b} = {}
      BY <2>2, <2>4
    <3>3. TxStart(batch_size, b) = 0
      <4>1. b \in 0..(NumBatches(total_count, batch_size) - 1)
        BY DEF Batches, num_batches
      <4>2. TxStart(batch_size, b) = b * batch_size
        BY <4>1, InsideTheLoop
      <4> QED BY <2>4, <4>2, LimitsAssumption
    <3> HIDE DEF Sum, End
    <3>4. Sum(s \ {b}) = 0
      BY <3>1, <3>2
    <3> QED BY <2>1, <2>3, <3>3, <3>4
  <2>5. CASE b # 0
    <3> DEFINE a == b - 1
    <3>1. a \in Batches /\ s \ {b} = 0..a /\ s \ {b} \in SUBSET s /\ s \ {b} # s
      BY <2>1, <2>2, <2>5 DEF Batches
    <3>2. Sum(s \ {b}) = End(a)
      <4>1. s \ {b} \in G
        BY <1>1, <3>1
      <4> HIDE DEF Sum, End, a
      <4> QED BY <3>1, <4>1
    <3>3. End(a) = TxStart(batch_size, b)
      BY <2>1, <3>1, Consecutive
    <3> HIDE DEF Sum, End, a
    <3> QED BY <2>1, <2>3, <3>2, <3>3
  <2> QED BY <2>4, <2>5
<1>2. \A s \in SUBSET Batches : s \in G
  <2>1. \A s \in SUBSET Batches : (\A r \in SUBSET s : r # s => r \in G) => s \in G
    <3> HIDE DEF Sum, End
    <3> QED BY <1>1
  <2> HIDE DEF G
  <2> QED BY <2>1, FiniteFacts, SameOperators, Books!SubsetInduction
<1>3. 0..k \in SUBSET Batches
  BY BatchFacts DEF Batches
<1> HIDE DEF Sum, End
<1>4. Sum(0..k) = End(k)
  BY <1>2, <1>3
<1> QED BY <1>4 DEF Sum, End

(* If nothing was missed the figure is the number of transactions asked for  *)
(* (main.c 106, 167-170, 249-254).                                           *)
THEOREM QuietRunIsComplete == Spec => []QuietRunSubmitsAll
<1> USE ConstantFacts
<1>1. CountFits(total_count, batch_size) =>
         SumFunctionOnSet(Sizes, Batches) = IF total_count > 0 THEN total_count ELSE 0
  <2> SUFFICES ASSUME CountFits(total_count, batch_size)
               PROVE  SumFunctionOnSet(Sizes, Batches) = IF total_count > 0 THEN total_count ELSE 0
    OBVIOUS
  <2>1. /\ total_count <= 0 => num_batches <= 0
        /\ total_count >= 0 => total_count <= num_batches * batch_size
    BY CommandLineFacts
  <2>2. total_count \in Int /\ batch_size \in Nat
    BY LimitsAssumption DEF CInt
  <2>3. CASE total_count <= 0
    <3>1. Batches = {}
      BY <2>1, <2>3 DEF Batches
    <3>2. SumFunctionOnSet(Sizes, {}) = 0
      BY FiniteFacts, SameOperators, Books!SumEmpty
    <3> QED BY <2>2, <2>3, <3>1, <3>2
  <2>4. CASE total_count > 0
    <3>1. num_batches > 0
      <4>1. num_batches <= 0 => num_batches * batch_size <= 0
        BY <2>2, SMTT(30)
      <4>2. num_batches * batch_size \in Int
        BY <2>2
      <4> QED BY <2>1, <2>2, <2>4, <4>1, <4>2
    <3> DEFINE k == num_batches - 1
    <3>2. k \in Batches /\ 0..k = Batches
      BY <3>1 DEF Batches
    <3>3. TxEnd(total_count, batch_size, k) = total_count
      <4>1. k \in 0..(NumBatches(total_count, batch_size) - 1)
        BY <3>2 DEF Batches, num_batches
      <4>2. TxEnd(total_count, batch_size, k) =
               IF k * batch_size + batch_size > total_count
               THEN total_count ELSE k * batch_size + batch_size
        BY <4>1, InsideTheLoop
      <4>3. num_batches * batch_size = k * batch_size + batch_size
        BY <2>2, SMTT(30)
      <4>4. k * batch_size \in Int
        BY <2>2
      <4> HIDE DEF k
      <4> QED BY <2>1, <2>2, <2>4, <4>2, <4>3, <4>4
    <3> HIDE DEF k
    <3> QED BY <2>4, <3>2, <3>3, FirstBatches
  <2> QED BY <2>2, <2>3, <2>4
<1>2. ReportIsExact /\ ReportComesLast => QuietRunSubmitsAll
  <2> SUFFICES ASSUME ReportIsExact, ReportComesLast, phase = "done", missed = {},
                      CountFits(total_count, batch_size)
               PROVE  total_submitted = IF total_count > 0 THEN total_count ELSE 0
    BY DEF QuietRunSubmitsAll
  <2>1. Counted = Batches
    BY DEF ReportComesLast, Concluded
  <2>2. total_submitted = SumFunctionOnSet(Sizes, Counted)
    BY DEF ReportIsExact, Sizes
  <2> QED BY <1>1, <2>1, <2>2
<1> QED BY <1>2, FigureIsExact, ReportIsLast, PTL
=============================================================================
