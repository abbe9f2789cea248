------------------------------ MODULE Receiver ------------------------------
(***************************************************************************)
(* The receiver process: one thread that takes a request from its REP      *)
(* socket, unpacks and counts the batch, and replies.  It may be killed at *)
(* any time, which loses what it holds in memory, and be started again.    *)
(***************************************************************************)
EXTENDS ReqRep

CONSTANT MaxCrashes     \* bound on the number of times the process dies

ASSUME MaxCrashesAssumption == MaxCrashes \in Nat

VARIABLES
    up,                 \* the process runs and its socket is bound
    total_received,     \* transactions unpacked since the process started
    crashes             \* how often it died so far

receiverVars == <<up, total_received, crashes>>

ReceiverInit ==
    /\ up \in BOOLEAN
    /\ total_received = 0
    /\ crashes = 0

(* The test of the first 16 bytes.                                          *)
HasPrefix(m) == m.form \in {"batch", "garbled"}

(* What a request adds to the count: nothing unless its batch unpacks.      *)
Unpacked(m) == IF m.form = "batch" THEN m.count ELSE 0

-----------------------------------------------------------------------------
(* Faulty variant: a receiver that may keep the request it has answered.     *)

AnswerTwice(m) ==
    /\ up
    /\ m \in net /\ m.at = "working"
    /\ \/ MoveTo(m, "inbox")
       \/ MoveTo(m, IF HasPrefix(m) THEN "ok" ELSE "unknown")
    /\ total_received' = total_received + Unpacked(m)
    /\ UNCHANGED <<reqState, up, crashes>>

-----------------------------------------------------------------------------
(* libzmq moves a request from the client's pipe to the REP socket.         *)
Deliver(m) ==
    /\ up
    /\ m \in net /\ m.at = "pipe"
    /\ MoveTo(m, "inbox")
    /\ UNCHANGED <<reqState, receiverVars>>

(* zmq_recv returns a request; the process works on one at a time.          *)
Recv(m) ==
    /\ up
    /\ \A n \in net : n.at # "working"
    /\ m \in net /\ m.at = "inbox"
    /\ MoveTo(m, "working")
    /\ UNCHANGED <<reqState, receiverVars>>

(* The rest of the loop body: prefix test, unpack, count, reply.  A batch    *)
(* that does not unpack is answered OK all the same.                         *)
Answer(m) ==
    /\ up
    /\ m \in net /\ m.at = "working"
    /\ MoveTo(m, IF HasPrefix(m) THEN "ok" ELSE "unknown")
    /\ total_received' = total_received + Unpacked(m)
    /\ UNCHANGED <<reqState, up, crashes>>

(* The process dies.  Requests it had taken over are lost and so is any      *)
(* part of the replies that have not reached their client.                   *)
Crash ==
    /\ up
    /\ crashes < MaxCrashes
    /\ up' = FALSE
    /\ total_received' = 0
    /\ crashes' = crashes + 1
    /\ \E lost \in SUBSET {m \in net : IsReply(m)} :
          net' = {m \in net : m.at = "pipe" \/ IsReply(m)} \ lost
    /\ UNCHANGED reqState

Start ==
    /\ ~up
    /\ up' = TRUE
    /\ UNCHANGED <<netVars, total_received, crashes>>
=============================================================================
