------------------------------ MODULE Simulator ------------------------------
(***************************************************************************)
(* The generator and the receiver together, with other clients of the same *)
(* receiver.  The module adds history variables to the actions of both     *)
(* processes and states what must hold of the pair.                        *)
(***************************************************************************)
EXTENDS Generator, Receiver, FiniteSets

CONSTANT Foreign        \* other REQ clients of the receiver

Clients == Threads \cup Foreign

ASSUME ForeignAssumption == Foreign \cap Int = {}

VARIABLES
    sent,               \* batches whose request was accepted by zmq_send
    deliveries,         \* how often the receiver counted each batch
    receivedFrom,       \* transactions it counted, by the thread that sent them
    credit,             \* the batch whose reply had each batch counted
    missed              \* batches whose iteration ended uncounted

historyVars == <<sent, deliveries, receivedFrom, credit, missed>>
vars == <<netVars, generatorVars, receiverVars, historyVars>>

Init ==
    /\ NetInit(Clients)
    /\ GeneratorInit
    /\ ReceiverInit
    /\ sent = {}
    /\ deliveries = [b \in Batches |-> 0]
    /\ receivedFrom = [t \in Threads |-> 0]
    /\ credit = [b \in Batches |-> NoBatch]
    /\ missed = {}

-----------------------------------------------------------------------------
(* The steps of a worker thread                                             *)

WorkerClaims(t) == Claim(t) /\ UNCHANGED <<receiverVars, historyVars>>

WorkerLeaves(t) == Leave(t) /\ UNCHANGED <<receiverVars, historyVars>>

WorkerSends(t) ==
    /\ SendBatch(t)
    /\ sent' = IF reqState[t] = "send" THEN sent \cup {cur[t]} ELSE sent
    /\ UNCHANGED <<receiverVars, deliveries, receivedFrom, credit, missed>>

WorkerReceives(t, m) ==
    /\ RecvReply(t, m)
    /\ IF m.at = "ok"
       THEN credit' = [credit EXCEPT ![cur[t]] = m.batch] /\ UNCHANGED missed
       ELSE missed' = missed \cup {cur[t]} /\ UNCHANGED credit
    /\ UNCHANGED <<receiverVars, sent, deliveries, receivedFrom>>

WorkerTimesOut(t) ==
    /\ RecvTimeout(t)
    /\ missed' = missed \cup {cur[t]}
    /\ UNCHANGED <<receiverVars, sent, deliveries, receivedFrom, credit>>

WorkerSubmits(t) ==
    /\ SubmitInProcess(t)
    /\ sent' = sent \cup {cur[t]}
    /\ deliveries' = [deliveries EXCEPT ![cur[t]] = @ + 1]
    /\ receivedFrom' = [receivedFrom EXCEPT ![t] = @ + txs_in_batch(cur[t])]
    /\ credit' = [credit EXCEPT ![cur[t]] = cur[t]]
    /\ UNCHANGED <<receiverVars, missed>>

WorkerAwakens(t) == WorkerTimesOut(t) \/ \E m \in net : WorkerReceives(t, m)

WorkerStep(t) ==
    \/ WorkerClaims(t)
    \/ WorkerLeaves(t)
    \/ WorkerSends(t)
    \/ WorkerAwakens(t)
    \/ WorkerSubmits(t)

MainJoins == JoinThreads /\ UNCHANGED <<receiverVars, historyVars>>
MainCloses == CloseSocket /\ UNCHANGED <<receiverVars, historyVars>>
MainReports == Report /\ UNCHANGED <<receiverVars, historyVars>>

MainStep == MainJoins \/ MainCloses \/ MainReports

-----------------------------------------------------------------------------
(* The steps of the receiver                                                *)

ReceiverDelivers(m) == Deliver(m) /\ UNCHANGED <<generatorVars, historyVars>>

ReceiverTakes(m) == Recv(m) /\ UNCHANGED <<generatorVars, historyVars>>

ReceiverAnswers(m) ==
    /\ Answer(m)
    /\ IF m.form = "batch"
       THEN /\ deliveries' = [deliveries EXCEPT ![m.batch] = @ + 1]
            /\ receivedFrom' = [receivedFrom EXCEPT ![m.from] = @ + m.count]
       ELSE UNCHANGED <<deliveries, receivedFrom>>
    /\ UNCHANGED <<generatorVars, sent, credit, missed>>

ReceiverCrashes == Crash /\ UNCHANGED <<generatorVars, historyVars>>
ReceiverStarts == Start /\ UNCHANGED <<generatorVars, historyVars>>

-----------------------------------------------------------------------------
(* Another client sends what the receiver cannot unpack, or does not know.  *)

ForeignSends(c) ==
    /\ reqState[c] = "send"
    /\ \E form \in {"garbled", "other"} : ZmqSend(c, form, NoBatch, 0)
    /\ UNCHANGED <<generatorVars, receiverVars, historyVars>>

ForeignReceives(c) ==
    /\ \E m \in net : ZmqRecv(c, m)
    /\ UNCHANGED <<generatorVars, receiverVars, historyVars>>

-----------------------------------------------------------------------------
(* The generator has exited and the receiver waits for the next client.     *)
Idle == phase = "done" /\ UNCHANGED vars

Next ==
    \/ \E t \in Threads : WorkerStep(t)
    \/ MainStep
    \/ \E m \in net : ReceiverDelivers(m) \/ ReceiverTakes(m) \/ ReceiverAnswers(m)
    \/ ReceiverCrashes
    \/ ReceiverStarts
    \/ \E c \in Foreign : ForeignSends(c) \/ ForeignReceives(c)
    \/ Idle

Spec == Init /\ [][Next]_vars

(* The operating system runs every thread, and a blocked zmq_recv returns    *)
(* within ZMQ_RCVTIMEO.  Nothing is assumed of the receiver.                 *)
GeneratorFairness ==
    /\ \A t \in Threads : WF_vars(WorkerStep(t))
    /\ WF_vars(MainStep)

(* A running receiver keeps working, and its REP socket takes the requests   *)
(* of all clients in turn.                                                   *)
ReceiverFairness ==
    /\ \A c \in Clients :
          /\ WF_vars(\E m \in net : m.from = c /\ ReceiverDelivers(m))
          /\ SF_vars(\E m \in net : m.from = c /\ ReceiverTakes(m))
    /\ WF_vars(\E m \in net : ReceiverAnswers(m))

GeneratorFairSpec == Spec /\ GeneratorFairness

RunningFairSpec == Spec /\ GeneratorFairness /\ ReceiverFairness

(* A receiver that has died is started again, and works.                    *)
ReceiverComesBack == ReceiverFairness /\ WF_vars(ReceiverStarts)

-----------------------------------------------------------------------------
(* Types.  No thread's counter exceeds the int it is kept in.               *)
Message ==
    [from : Clients, form : Forms, batch : Batches \cup {NoBatch},
     count : 0..MAX_BATCH_SIZE, at : Stages]

TypeOK ==
    /\ reqState \in [Clients -> {"send", "recv"}]
    /\ net \in SUBSET Message
    /\ next \in Nat
    /\ pc \in [Threads -> {"claim", "send", "recv", "barrier"}]
    /\ cur \in [Threads -> Batches \cup {NoBatch}]
    /\ thread_submitted \in [Threads -> 0..INT_MAX]
    /\ use_zmq \in BOOLEAN
    /\ phase \in {"parallel", "teardown", "done"}
    /\ closed \in 0..num_threads
    /\ up \in BOOLEAN
    /\ total_received \in Nat
    /\ crashes \in 0..MaxCrashes
    /\ sent \in SUBSET Batches
    /\ deliveries \in [Batches -> Nat]
    /\ receivedFrom \in [Threads -> Nat]
    /\ credit \in [Batches -> Batches \cup {NoBatch}]
    /\ missed \in SUBSET Batches

-----------------------------------------------------------------------------
(* Safety                                                                   *)

Counted == {b \in Batches : credit[b] # NoBatch}
Concluded == Counted \cup missed
AtWork(t) == pc[t] \in {"send", "recv"}

(* A client never has two messages on their way, whatever times out: the     *)
(* next request is refused until the reply to the last one was read.         *)
LockStep ==
    /\ \A m, n \in net : m.from = n.from => m = n
    /\ \A m \in net : reqState[m.from] = "recv"

(* The receiver counts a batch at most once, across crashes and timeouts.    *)
CountedAtMostOnce == \A b \in Batches : deliveries[b] <= 1

(* Every counted batch is backed by a batch that the receiver counted, no    *)
(* two by the same one, and by one no later and no smaller than itself.      *)
CreditSound ==
    /\ \A b \in Counted :
          /\ credit[b] <= b
          /\ deliveries[credit[b]] = 1
          /\ txs_in_batch(b) <= txs_in_batch(credit[b])
    /\ \A b, c \in Counted : credit[b] = credit[c] => b = c

(* The only way to count a batch on another batch's reply: that other batch  *)
(* was given up, and this one was never sent.                                *)
LateReplyOnly ==
    \A b \in Counted : credit[b] # b => credit[b] \in missed /\ b \notin sent

(* No thread counts more transactions than the receiver has had from it.     *)
SubmittedWithinReceived ==
    \A t \in Threads : thread_submitted[t] <= receivedFrom[t]

(* The figure printed is the sum of the counted batches, and it is not more  *)
(* than the receiver has had in all.                                         *)
ReportIsExact ==
    phase = "done" =>
        /\ total_submitted = SumFunctionOnSet([b \in Batches |-> txs_in_batch(b)], Counted)
        /\ total_submitted <= SumFunction(receivedFrom)

(* A run in which no wait timed out submits every transaction requested.     *)
QuietRunSubmitsAll ==
    phase = "done" /\ missed = {} /\ CountFits(total_count, batch_size) =>
        total_submitted = IF total_count > 0 THEN total_count ELSE 0

(* The figure is printed only when every batch has ended, one way or the     *)
(* other, and no request is still in a pipe of the generator.                *)
ReportComesLast ==
    phase = "done" =>
        /\ Concluded = Batches
        /\ \A m \in net : m.from \in Threads => m.at # "pipe"

(* A counted batch was itself sent to the receiver.                          *)
CountedBatchWasSent == Counted \subseteq sent

-----------------------------------------------------------------------------
(* The inductive invariant                                                  *)

(* Who works on which batch: every claimed batch is concluded or held by     *)
(* exactly one thread, and is sent at most once, by the thread that holds it.*)
ClaimInv ==
    /\ \A t \in Threads :
          /\ cur[t] < next
          /\ AtWork(t) => cur[t] \in Batches /\ cur[t] \notin Concluded
          /\ pc[t] = "send" => cur[t] \notin sent
          /\ pc[t] = "barrier" => next >= num_batches
          /\ phase # "parallel" => pc[t] = "barrier"
    /\ \A s, t \in Threads : AtWork(s) /\ AtWork(t) /\ cur[s] = cur[t] => s = t
    /\ \A b \in Concluded \cup sent : b < next
    /\ \A b \in Batches :
          b < next => b \in Concluded \/ \E t \in Threads : AtWork(t) /\ cur[t] = b
    /\ Counted \cap missed = {}

(* A message of a thread carries a batch that the thread sent, and either    *)
(* works on still or has given up; its reply is worth one credit.            *)
ThreadMessage(m) ==
    /\ m.form = "batch" /\ m.at # "unknown"
    /\ m.batch \in sent
    /\ m.count = txs_in_batch(m.batch)
    /\ m.batch \in missed \/ (pc[m.from] = "recv" /\ cur[m.from] = m.batch)
    /\ pc[m.from] = "recv" /\ cur[m.from] \in sent => m.batch = cur[m.from]
    /\ AtWork(m.from) => m.batch <= cur[m.from]
    /\ deliveries[m.batch] = IF m.at = "ok" THEN 1 ELSE 0
    /\ \A b \in Counted : credit[b] # m.batch

MessageInv ==
    /\ \A m \in net : m.from \in Threads => ThreadMessage(m)
    /\ \A m \in net : m.from \in Foreign => m.form # "batch"
    /\ \A m, n \in net :
          m.from \in Threads /\ n.from \in Threads /\ m.batch = n.batch => m = n

(* What a thread has counted is backed by what the receiver had from it, and *)
(* an unread reply is not part of it yet; it lies within the transactions of *)
(* the batches that the thread has left behind.                              *)
CountInv ==
    /\ \A b \in Batches : deliveries[b] > 0 => b \in sent
    /\ \A t \in Threads :
          /\ thread_submitted[t] <= receivedFrom[t]
          /\ \A m \in net : m.from = t /\ m.at = "ok" =>
                thread_submitted[t] + m.count <= receivedFrom[t]
          /\ thread_submitted[t] <=
                IF cur[t] = NoBatch THEN 0
                ELSE IF AtWork(t) THEN TxStart(batch_size, cur[t])
                ELSE TxEnd(total_count, batch_size, cur[t])

IInv ==
    /\ TypeOK
    /\ ClaimInv
    /\ LockStep
    /\ MessageInv
    /\ CountedAtMostOnce
    /\ CreditSound
    /\ LateReplyOnly
    /\ CountInv

-----------------------------------------------------------------------------
(* The run as the abstract specification sees it                            *)

Outcome == [b \in Batches |-> IF b \in Counted THEN "counted"
                              ELSE IF b \in missed THEN "missed" ELSE "open"]

S == INSTANCE Submission WITH
        Size <- [b \in Batches |-> txs_in_batch(b)],
        outcome <- Outcome,
        received <- {b \in Batches : deliveries[b] > 0},
        spent <- {credit[b] : b \in Counted},
        reported <- phase = "done"

ImplementsSubmission == S!Spec

-----------------------------------------------------------------------------
(* Liveness                                                                 *)

(* The parallel loop ends even if no receiver ever answers.                  *)
LoopEnds == <>(phase # "parallel")

(* The generator prints its figure.                                          *)
EventuallyReports == <>(phase = "done")

(* It does so, in both modes, when a receiver that dies is started again.    *)
ReportsIfRestarted == ReceiverComesBack => EventuallyReports

(* A request that outlives the last crash of a receiver that comes back is   *)
(* received, even when the generator has given it up or is tearing its       *)
(* sockets down.                                                             *)
OnItsWay(b) == \E m \in net : m.from \in Threads /\ m.batch = b

SurvivorIsReceived ==
    ReceiverComesBack =>
        \A b \in Batches :
            OnItsWay(b) /\ crashes = MaxCrashes ~> deliveries[b] > 0
=============================================================================
