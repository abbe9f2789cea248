------------------------------- MODULE ReqRep -------------------------------
(***************************************************************************)
(* The REQ and REP sockets of libzmq, as src/main.c and src/src/receiver.c *)
(* use them: one REQ socket per client, connected to one REP socket.       *)
(*                                                                         *)
(* A REQ socket alternates zmq_send and zmq_recv.  zmq_send on a socket    *)
(* that still awaits a reply fails with EFSM and sends nothing; a zmq_recv *)
(* that times out leaves the socket awaiting the same reply.  A request    *)
(* stays in the sender's pipe while the peer is away and is transferred    *)
(* when it can be, at most once; nothing in libzmq sends it again.         *)
(*                                                                         *)
(* A message is a record that names its sender, the batch it carries and   *)
(* how many transactions, whether a receiver can read it, and how far it   *)
(* has come: in the sender's pipe, in the receiver's inbox, being worked   *)
(* on by the receiver, or turned into a reply ("ok" or "unknown").         *)
(***************************************************************************)
EXTENDS Integers

VARIABLES
    reqState,   \* for each client, which call its REQ socket accepts next
    net         \* the messages that are somewhere on their way

netVars == <<reqState, net>>

Forms == {"batch", "garbled", "other"}
Stages == {"pipe", "inbox", "working", "ok", "unknown"}

IsReply(m) == m.at \in {"ok", "unknown"}

MoveTo(m, stage) == net' = (net \ {m}) \cup {[m EXCEPT !.at = stage]}

Request(c, form, batch, count) ==
    [from |-> c, form |-> form, batch |-> batch, count |-> count, at |-> "pipe"]

NetInit(clients) ==
    /\ reqState = [c \in clients |-> "send"]
    /\ net = {}

-----------------------------------------------------------------------------
(* Faulty variants: a socket that may send while it awaits a reply (as       *)
(* ZMQ_REQ_RELAXED allows), one that returns a reply again, and a close with *)
(* ZMQ_LINGER set to zero.                                                   *)

ZmqSendRelaxed(c, form, batch, count) ==
    /\ net' = net \cup {Request(c, form, batch, count)}
    /\ reqState' = [reqState EXCEPT ![c] = "recv"]

ZmqRecvKeepsReply(c, m) ==
    /\ reqState[c] = "recv"
    /\ m \in net /\ m.from = c /\ IsReply(m)
    /\ net' = net
    /\ reqState' = [reqState EXCEPT ![c] = "send"]

ZmqCloseLingerZero(c) ==
    /\ net' = {m \in net : m.from = c => ~IsReply(m) /\ m.at # "pipe"}
    /\ UNCHANGED reqState

-----------------------------------------------------------------------------
(* zmq_send: accepted, or refused with EFSM.                                *)
ZmqSend(c, form, batch, count) ==
    \/ /\ reqState[c] = "send"
       /\ net' = net \cup {Request(c, form, batch, count)}
       /\ reqState' = [reqState EXCEPT ![c] = "recv"]
    \/ /\ reqState[c] = "recv"
       /\ UNCHANGED netVars

(* zmq_recv that returns the reply m.                                       *)
ZmqRecv(c, m) ==
    /\ reqState[c] = "recv"
    /\ m \in net /\ m.from = c /\ IsReply(m)
    /\ net' = net \ {m}
    /\ reqState' = [reqState EXCEPT ![c] = "send"]

(* zmq_close and zmq_ctx_destroy.  The linger period is infinite by default, *)
(* so the call returns only when the pipe holds no request of the client; a  *)
(* reply nobody read is dropped.                                             *)
ZmqClose(c) ==
    /\ \A m \in net : m.from = c => m.at # "pipe"
    /\ net' = {m \in net : m.from = c => ~IsReply(m)}
    /\ UNCHANGED reqState
=============================================================================
