------------------------------ MODULE Generator ------------------------------
(***************************************************************************)
(* The generator process: an OpenMP loop over the batches with dynamic     *)
(* scheduling, each thread with a REQ socket of its own, and the main      *)
(* thread that closes the sockets, sums the per-thread counters and prints *)
(* the result.  The constants are the command line; the mode is chosen in  *)
(* the initial state.                                                      *)
(***************************************************************************)
EXTENDS ReqRep, BatchPlan, Functions

CONSTANTS
    total_count,        \* <count>
    threads_arg,        \* --threads
    batch_arg           \* --batch

ASSUME CommandLineAssumption ==
    /\ total_count \in CInt
    /\ threads_arg \in CInt
    /\ batch_arg \in CInt

VARIABLES
    use_zmq,            \* FALSE with --in-process
    next,               \* the first batch no thread has claimed
    pc,                 \* where each thread is in the loop body
    cur,                \* the batch each thread works on
    thread_submitted,   \* transactions each thread counts as submitted
    phase,              \* where the main thread is
    closed,             \* how many sockets it has closed
    total_submitted     \* the sum it prints

threadVars == <<next, pc, cur, thread_submitted>>
mainVars == <<use_zmq, phase, closed, total_submitted>>
generatorVars == <<threadVars, mainVars>>

num_threads == ClampThreads(threads_arg)
batch_size == ClampBatchSize(batch_arg)
num_batches == NumBatches(total_count, batch_size)

Threads == 0..(num_threads - 1)
Batches == 0..(num_batches - 1)
NoBatch == -1

txs_in_batch(b) == BatchCount(total_count, batch_size, b)

GeneratorInit ==
    /\ use_zmq \in BOOLEAN
    /\ next = 0
    /\ pc = [t \in Threads |-> "claim"]
    /\ cur = [t \in Threads |-> NoBatch]
    /\ thread_submitted = [t \in Threads |-> 0]
    /\ phase = "parallel"
    /\ closed = 0
    /\ total_submitted = 0

-----------------------------------------------------------------------------
(* Faulty variants: a last batch counted as a full one, a timeout counted or  *)
(* never raised, a main thread that waits for one thread only, a loop over    *)
(* the sockets that runs once too often.                                      *)

RecvReplyCountsFull(t, m) ==
    /\ pc[t] = "recv"
    /\ ZmqRecv(t, m)
    /\ pc' = [pc EXCEPT ![t] = "claim"]
    /\ thread_submitted' = [thread_submitted EXCEPT ![t] = @ + batch_size]
    /\ UNCHANGED <<next, cur, mainVars>>

RecvTimeoutCounts(t) ==
    /\ pc[t] = "recv"
    /\ pc' = [pc EXCEPT ![t] = "claim"]
    /\ thread_submitted' = [thread_submitted EXCEPT ![t] = @ + txs_in_batch(cur[t])]
    /\ UNCHANGED <<netVars, next, cur, mainVars>>

RecvTimeoutNever(t) == FALSE /\ UNCHANGED <<netVars, generatorVars>>

JoinThreadsEarly ==
    /\ phase = "parallel"
    /\ \E t \in Threads : pc[t] = "barrier"
    /\ phase' = "teardown"
    /\ UNCHANGED <<netVars, threadVars, use_zmq, closed, total_submitted>>

CloseSocketOnceMore ==
    /\ phase = "teardown"
    /\ use_zmq /\ closed <= num_threads
    /\ ZmqClose(closed)
    /\ closed' = closed + 1
    /\ UNCHANGED <<threadVars, use_zmq, phase, total_submitted>>

ClaimTwice(t) ==
    /\ pc[t] = "claim" /\ next < num_batches
    /\ cur' = [cur EXCEPT ![t] = next]
    /\ next' \in {next, next + 1}
    /\ pc' = [pc EXCEPT ![t] = "send"]
    /\ UNCHANGED <<netVars, thread_submitted, mainVars>>

-----------------------------------------------------------------------------
(* The worker threads                                                       *)

(* The thread takes the next iteration of the omp for, creates the batch's   *)
(* transactions and packs them.                                              *)
Claim(t) ==
    /\ pc[t] = "claim" /\ next < num_batches
    /\ cur' = [cur EXCEPT ![t] = next]
    /\ next' = next + 1
    /\ pc' = [pc EXCEPT ![t] = "send"]
    /\ UNCHANGED <<netVars, thread_submitted, mainVars>>

(* No iteration is left: the thread waits at the barrier that ends the loop. *)
Leave(t) ==
    /\ pc[t] = "claim" /\ next >= num_batches
    /\ pc' = [pc EXCEPT ![t] = "barrier"]
    /\ UNCHANGED <<netVars, next, cur, thread_submitted, mainVars>>

(* zmq_send; the program ignores what it returns.                            *)
SendBatch(t) ==
    /\ use_zmq
    /\ pc[t] = "send"
    /\ ZmqSend(t, "batch", cur[t], txs_in_batch(cur[t]))
    /\ pc' = [pc EXCEPT ![t] = "recv"]
    /\ UNCHANGED <<next, cur, thread_submitted, mainVars>>

(* zmq_recv returns a reply, and the batch the thread works on is counted    *)
(* when it begins with "OK".                                                 *)
RecvReply(t, m) ==
    /\ pc[t] = "recv"
    /\ ZmqRecv(t, m)
    /\ pc' = [pc EXCEPT ![t] = "claim"]
    /\ thread_submitted' = IF m.at = "ok"
                           THEN [thread_submitted EXCEPT ![t] = @ + txs_in_batch(cur[t])]
                           ELSE thread_submitted
    /\ UNCHANGED <<next, cur, mainVars>>

(* zmq_recv gives up after ZMQ_RCVTIMEO: the batch is not counted, and the   *)
(* socket goes on awaiting the reply.                                        *)
RecvTimeout(t) ==
    /\ pc[t] = "recv"
    /\ pc' = [pc EXCEPT ![t] = "claim"]
    /\ UNCHANGED <<netVars, next, cur, thread_submitted, mainVars>>

(* --in-process: the callback cannot fail, and the batch is counted.         *)
SubmitInProcess(t) ==
    /\ ~use_zmq
    /\ pc[t] = "send"
    /\ pc' = [pc EXCEPT ![t] = "claim"]
    /\ thread_submitted' = [thread_submitted EXCEPT ![t] = @ + txs_in_batch(cur[t])]
    /\ UNCHANGED <<netVars, next, cur, mainVars>>

-----------------------------------------------------------------------------
(* The main thread                                                          *)

JoinThreads ==
    /\ phase = "parallel"
    /\ \A t \in Threads : pc[t] = "barrier"
    /\ phase' = "teardown"
    /\ UNCHANGED <<netVars, threadVars, use_zmq, closed, total_submitted>>

CloseSocket ==
    /\ phase = "teardown"
    /\ use_zmq /\ closed < num_threads
    /\ ZmqClose(closed)
    /\ closed' = closed + 1
    /\ UNCHANGED <<threadVars, use_zmq, phase, total_submitted>>

Report ==
    /\ phase = "teardown"
    /\ use_zmq => closed = num_threads
    /\ phase' = "done"
    /\ total_submitted' = SumFunction(thread_submitted)
    /\ UNCHANGED <<netVars, threadVars, use_zmq, closed>>
=============================================================================
