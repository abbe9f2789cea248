----------------------------- MODULE BatchWork -----------------------------
(***************************************************************************)
(* What happens to the transactions of one batch: the thread creates and   *)
(* signs them, packs them in one message and sends it; the receiver        *)
(* unpacks, verifies and counts them; the thread reads a reply, or none in *)
(* time, and frees what it holds.  Allocations and calls to OpenSSL may    *)
(* fail, and the socket may still await the reply to an earlier batch.     *)
(***************************************************************************)
EXTENDS Resources, Transaction, Sequences

CONSTANTS
    batch_count,        \* how many transactions the batch has
    RECV_BUF_SIZE,      \* the receiver's buffer
    Amounts, Nonces,    \* the amounts, and the nonces of a first transaction
    from_addr, to_addr,
    EXPIRY, FEE         \* 1000 and 1 in main

VARIABLES
    pc,                 \* where the thread is
    req_state,          \* which call its REQ socket accepts next
    stage,              \* how far the message is, in the receiver
    use_zmq,            \* FALSE with --in-process
    has_pem,            \* the wallet of the thread holds its key as PEM text
    g_verify,           \* the receiver runs with --verify
    amount, nonce,      \* the amount, and the first transaction's nonce
    raw_txs,            \* the transactions created so far
    pb_arr,             \* their protobuf messages
    pb_size,            \* the size of those messages in the batch
    message,            \* what was sent
    batch,              \* what the receiver unpacked
    received,           \* and turned back into transactions
    accepted, rejected, \* its verdicts
    submitted           \* what the thread counts

options == <<use_zmq, has_pem, g_verify, amount, nonce>>
outgoing == <<raw_txs, pb_arr, pb_size, message>>
incoming == <<batch, received, accepted, rejected>>
socket == <<req_state, stage>>
vars == <<resourceVars, pc, socket, options, outgoing, incoming, submitted>>

txs_in_batch == Len(raw_txs)

-----------------------------------------------------------------------------
(* The message                                                              *)

(* Faulty variants: the signature is sent at the length of its DER encoding;  *)
(* the fee is not copied on arrival.                                         *)
pb_of_der(tx) ==
    [to_pb(tx) EXCEPT !.signature = IF is_zero(tx.signature) THEN @ ELSE Bytes(72, @.data)]

pb_to_tx_no_fee(pb) == [from_pb(pb) EXCEPT !.fee = 0]

(* main repeats what transaction_serialize_pb does, and the receiver what    *)
(* transaction_deserialize_pb does.                                          *)
pb_of(tx) == to_pb(tx)

pb_to_tx(pb) == from_pb(pb)

PREFIX_LENGTH == 16

(* The repeated field and the count of the batch.                           *)
PackBatch(pbs) ==
    Pack(transaction_batch__field_descriptors,
         [transactions |-> [i \in DOMAIN pbs |-> Pack(transaction__field_descriptors, pbs[i])],
          count        |-> Len(pbs)])

UnpackBatch(wire) ==
    LET b == Unpack(transaction_batch__field_descriptors, wire)
    IN  [i \in DOMAIN b.transactions |->
            Unpack(transaction__field_descriptors, b.transactions[i])]

MessageSize(size, count) == PREFIX_LENGTH + size + FieldSize("UINT32", count)

(* What a transaction takes whose nonce and amount are the largest.          *)
MAX_ELEMENT ==
    ElementSize([to_pb(NewTx(from_addr, to_addr, UINT64_MAX, FEE, UINT64_MAX, EXPIRY))
                    EXCEPT !.signature = Bytes(TX_SIGNATURE_LENGTH, "any")])

ASSUME BatchWorkAssumption ==
    /\ batch_count \in uint32 \ {0}
    /\ Amounts \subseteq uint64 /\ Nonces \subseteq uint64
    /\ from_addr # COINBASE_ADDRESS
    /\ EXPIRY \in uint32 /\ FEE \in uint32
    /\ RECV_BUF_SIZE \in Nat
    /\ MessageSize(batch_count * MAX_ELEMENT, batch_count) <= RECV_BUF_SIZE - 1

-----------------------------------------------------------------------------
Init ==
    /\ ResourceInit
    /\ pc = "begin"
    /\ req_state \in {"send", "recv"} /\ stage = "unsent"
    /\ use_zmq \in BOOLEAN /\ has_pem \in BOOLEAN /\ g_verify \in BOOLEAN
    /\ amount \in Amounts /\ nonce \in Nonces
    /\ raw_txs = <<>> /\ pb_arr = <<>> /\ pb_size = 0 /\ message = <<>>
    /\ batch = <<>> /\ received = <<>> /\ accepted = 0 /\ rejected = 0
    /\ submitted = 0

Tx(i) == Res("tx", i)
AllTxs == {Tx(i) : i \in 1..txs_in_batch}
PackArrays == {One("pb_arr"), One("pb_ptrs")}

(* safe_malloc ends the process of the generator.                           *)
OutOfMemory ==
    /\ \/ pc = "begin"
       \/ pc = "create"
       \/ pc = "pack" /\ Len(pb_arr) = txs_in_batch
    /\ pc' = "exited"
    /\ UNCHANGED <<resourceVars, socket, options, outgoing, incoming, submitted>>

BeginBatch ==
    /\ pc = "begin"
    /\ Acquire({One("raw_txs")})
    /\ pc' = "create"
    /\ UNCHANGED <<socket, options, outgoing, incoming, submitted>>

CreateTx ==
    /\ pc = "create" /\ txs_in_batch < batch_count
    /\ Acquire({Tx(txs_in_batch + 1)})
    /\ raw_txs' = Append(raw_txs, NewTx(from_addr, to_addr, amount, FEE,
                            (nonce + txs_in_batch) % (UINT64_MAX + 1), EXPIRY))
    /\ pc' = "sign"
    /\ UNCHANGED <<socket, options, pb_arr, pb_size, message, incoming, submitted>>

-----------------------------------------------------------------------------
(* transaction_sign; its result is ignored.                                 *)

SignedAs(way) ==
    /\ raw_txs' = [raw_txs EXCEPT ![txs_in_batch].signature =
                      Signature(way, from_addr, raw_txs[txs_in_batch])]
    /\ pc' = "create"
    /\ UNCHANGED <<socket, options, pb_arr, pb_size, message, incoming, submitted>>

(* Without PEM text the signature is made from the address and the hash.    *)
SignWithoutKey ==
    /\ pc = "sign" /\ ~has_pem
    /\ Use({Tx(txs_in_batch)})
    /\ SignedAs("address")

(* EVP_MD_CTX_new returns NULL: the transaction stays unsigned.             *)
NoDigestContext ==
    /\ pc = "sign" /\ has_pem
    /\ pc' = "create"
    /\ UNCHANGED <<resourceVars, socket, options, outgoing, incoming, submitted>>

NewDigestContext ==
    /\ pc = "sign" /\ has_pem
    /\ Acquire({One("md_ctx")})
    /\ pc' = "digest"
    /\ UNCHANGED <<socket, options, outgoing, incoming, submitted>>

(* A call before the signature's buffer is allocated fails, or malloc does:  *)
(* the signature is made from the address after all.                         *)
DigestFails ==
    /\ pc = "digest"
    /\ Exchange({One("md_ctx")}, {Tx(txs_in_batch)}, {})
    /\ SignedAs("fallback")

AllocSignature ==
    /\ pc = "digest"
    /\ Acquire({One("sig_buf")})
    /\ pc' = "final"
    /\ UNCHANGED <<socket, options, outgoing, incoming, submitted>>

(* Faulty variant: the failing call leaves its buffer behind.                *)
FinalSignLeaks ==
    /\ pc = "final"
    /\ \E way \in {"key", "fallback"} :
          /\ Exchange({One("md_ctx")} \cup {r \in {One("sig_buf")} : way = "key"},
                      {Tx(txs_in_batch)}, {})
          /\ SignedAs(way)

(* The last call fails, or signs with the wallet's key.                     *)
FinalSign ==
    /\ pc = "final"
    /\ Exchange({One("sig_buf"), One("md_ctx")}, {Tx(txs_in_batch)}, {})
    /\ \E way \in {"key", "fallback"} : SignedAs(way)

-----------------------------------------------------------------------------
(* The thread sends                                                         *)

(* --in-process: the callback gets the transactions and they count.         *)
SubmitInProcess ==
    /\ pc = "create" /\ txs_in_batch = batch_count /\ ~use_zmq
    /\ Use(AllTxs)
    /\ submitted' = submitted + txs_in_batch
    /\ pc' = "free"
    /\ UNCHANGED <<socket, options, outgoing, incoming>>

AllocPackArrays ==
    /\ pc = "create" /\ txs_in_batch = batch_count /\ use_zmq
    /\ Acquire(PackArrays)
    /\ pc' = "pack"
    /\ UNCHANGED <<socket, options, outgoing, incoming, submitted>>

(* One turn of the loop over the transactions, with what it adds to the size *)
(* that get_packed_size will find.                                          *)
PackTx ==
    /\ pc = "pack" /\ Len(pb_arr) < txs_in_batch
    /\ Use(PackArrays \cup {Tx(Len(pb_arr) + 1)})
    /\ LET pb == pb_of(raw_txs[Len(pb_arr) + 1])
       IN  pb_arr' = Append(pb_arr, pb) /\ pb_size' = pb_size + ElementSize(pb)
    /\ UNCHANGED <<pc, socket, options, raw_txs, message, incoming, submitted>>

(* zmq_send, whose result is ignored: while the socket awaits the reply to an *)
(* earlier batch it fails with EFSM, and the message is freed unsent.        *)
SendMessage ==
    /\ pc = "pack" /\ Len(pb_arr) = txs_in_batch
    /\ Use(PackArrays \cup AllTxs)
    /\ \/ req_state = "send" /\ message' = PackBatch(pb_arr) /\ stage' = "sent"
       \/ req_state = "recv" /\ UNCHANGED <<message, stage>>
    /\ req_state' = "recv"
    /\ pc' = "recv"
    /\ UNCHANGED <<options, raw_txs, pb_arr, pb_size, incoming, submitted>>

-----------------------------------------------------------------------------
(* The receiver                                                             *)

Unpacks ==
    /\ stage = "sent"
    /\ Acquire({One("batch")})
    /\ batch' = UnpackBatch(message)
    /\ stage' = "verify"
    /\ UNCHANGED <<pc, req_state, options, outgoing, received, accepted, rejected, submitted>>

(* There is no memory to unpack in; the reply to the thread is OK all the    *)
(* same.                                                                    *)
UnpackFails ==
    /\ stage = "sent"
    /\ stage' = "answered"
    /\ UNCHANGED <<resourceVars, pc, req_state, options, outgoing, incoming, submitted>>

(* Faulty variants: a transaction that is rejected ends the loop; all are     *)
(* verified whether or not --verify was given.                               *)
FreeBatchEarly ==
    /\ stage = "verify" /\ (Len(received) = Len(batch) \/ rejected > 0)
    /\ Release({One("batch")})
    /\ stage' = "answered"
    /\ UNCHANGED <<pc, req_state, options, outgoing, incoming, submitted>>

VerifyTxAlways ==
    /\ stage = "verify" /\ Len(received) < Len(batch)
    /\ Use({One("batch")})
    /\ LET tx == pb_to_tx(batch[Len(received) + 1])
       IN  /\ received' = Append(received, tx)
           /\ IF verify(tx)
              THEN accepted' = accepted + 1 /\ UNCHANGED rejected
              ELSE rejected' = rejected + 1 /\ UNCHANGED accepted
    /\ UNCHANGED <<pc, socket, options, outgoing, batch, submitted>>

(* One turn of the loop over the batch: the verdict on the next transaction, *)
(* which without --verify is always good.                                    *)
VerifyTx ==
    /\ stage = "verify" /\ Len(received) < Len(batch)
    /\ Use({One("batch")})
    /\ LET tx == pb_to_tx(batch[Len(received) + 1])
       IN  /\ received' = Append(received, tx)
           /\ IF g_verify /\ ~verify(tx)
              THEN rejected' = rejected + 1 /\ UNCHANGED accepted
              ELSE accepted' = accepted + 1 /\ UNCHANGED rejected
    /\ UNCHANGED <<pc, socket, options, outgoing, batch, submitted>>

FreeBatch ==
    /\ stage = "verify" /\ Len(received) = Len(batch)
    /\ Release({One("batch")})
    /\ stage' = "answered"
    /\ UNCHANGED <<pc, req_state, options, outgoing, incoming, submitted>>

-----------------------------------------------------------------------------
(* The thread reads a reply and counts every transaction it packed, whatever  *)
(* the verdicts.  The reply is the receiver's to this message or, when this   *)
(* one was refused, to the earlier one, however late.                        *)
ReadReply ==
    /\ pc = "recv"
    /\ stage \in {"unsent", "answered"}
    /\ Release(PackArrays)
    /\ submitted' = submitted + txs_in_batch
    /\ req_state' = "send"
    /\ pc' = "free"
    /\ UNCHANGED <<stage, options, outgoing, incoming>>

(* No reply within ZMQ_RCVTIMEO: nothing is counted, though the message may   *)
(* be on its way or with the receiver, and the socket awaits the reply still. *)
TimeOut ==
    /\ pc = "recv"
    /\ Release(PackArrays)
    /\ pc' = "free"
    /\ UNCHANGED <<socket, options, outgoing, incoming, submitted>>

FreeTxs ==
    /\ pc = "free"
    /\ Release(AllTxs \cup {One("raw_txs")})
    /\ pc' = "done"
    /\ UNCHANGED <<socket, options, outgoing, incoming, submitted>>

Ended == pc \in {"done", "exited"} /\ UNCHANGED vars

Next ==
    \/ OutOfMemory \/ BeginBatch \/ CreateTx
    \/ SignWithoutKey \/ NoDigestContext \/ NewDigestContext
    \/ DigestFails \/ AllocSignature \/ FinalSign
    \/ SubmitInProcess \/ AllocPackArrays \/ PackTx \/ SendMessage
    \/ Unpacks \/ UnpackFails \/ VerifyTx \/ FreeBatch
    \/ ReadReply \/ TimeOut \/ FreeTxs
    \/ Ended

Spec == Init /\ [][Next]_vars

-----------------------------------------------------------------------------
UnsignedTxs == {i \in DOMAIN raw_txs : is_zero(raw_txs[i].signature)}

(* However signing fails and whenever the thread stops waiting, neither       *)
(* program uses what it released or releases it twice; when the thread is     *)
(* done it holds nothing, and once it has answered the receiver does not.     *)
ResourcesInOrder ==
    /\ misused = {}
    /\ pc = "done" => live \subseteq {One("batch")}
    /\ stage # "verify" => One("batch") \notin live

(* Whatever the amount and the nonces, the message is not longer than what   *)
(* the receiver's zmq_recv takes: it is never cut.                           *)
MessageFits == stage # "unsent" => MessageSize(pb_size, txs_in_batch) <= RECV_BUF_SIZE - 1

(* The receiver gets the transactions that were created, field by field,     *)
(* though zeros are not sent.                                                *)
ArriveIntact == \A i \in DOMAIN received : i <= txs_in_batch /\ received[i] = raw_txs[i]

(* With --verify the receiver rejects the transactions whose signing failed  *)
(* and no other; without it, it accepts all.                                 *)
RejectsTheUnsigned ==
    stage = "answered" /\ received # <<>> =>
        /\ rejected = IF g_verify THEN Cardinality(UnsignedTxs) ELSE 0
        /\ accepted = txs_in_batch - rejected

(* A batch that was sent is counted only after the receiver gave a verdict on *)
(* each of its transactions, or could not unpack it at all.  A batch that was *)
(* refused gets no verdict, and may be counted all the same on the late reply *)
(* to an earlier one.                                                        *)
CountedHaveVerdicts ==
    /\ stage = "unsent" => accepted + rejected = 0
    /\ submitted > 0 /\ stage # "unsent" =>
          /\ stage = "answered"
          /\ accepted + rejected = submitted \/ (batch = <<>> /\ accepted + rejected = 0)

(* No two transactions of a batch, which differ in the nonce alone, carry    *)
(* the same signature.                                                       *)
SignaturesDiffer ==
    \A i, k \in DOMAIN raw_txs \ UnsignedTxs :
        raw_txs[i].signature = raw_txs[k].signature => i = k

-----------------------------------------------------------------------------
(* The inductive invariant: what is held, and what the thread and the        *)
(* receiver have made of each transaction, as functions of where the batch   *)
(* is.                                                                      *)

Creating == {"begin", "create", "sign", "digest", "final"}
Freeing == {"free", "done"}
Stages == {"unsent", "sent", "verify", "answered"}

Signatures ==
    [way : {"address", "fallback", "key"}, signer : {from_addr},
     hash : uint64 \X {EXPIRY} \X {from_addr} \X {to_addr} \X uint64 \X {FEE}]

Txs ==
    [nonce : uint64, expiry_block : {EXPIRY}, source_address : {from_addr},
     dest_address : {to_addr}, value : uint64, fee : {FEE},
     signature : {ZERO} \cup Signatures]

Arrays == [len : Nat, data : {ZERO, from_addr, to_addr} \cup Signatures]

Pbs ==
    [nonce : uint64, expiry_block : {EXPIRY}, source_address : Arrays, dest_address : Arrays,
     value : uint64, fee : {FEE}, signature : Arrays]

TypeOK ==
    /\ pc \in Creating \cup {"pack", "recv"} \cup Freeing \cup {"exited"}
    /\ req_state \in {"send", "recv"} /\ stage \in Stages
    /\ use_zmq \in BOOLEAN /\ has_pem \in BOOLEAN /\ g_verify \in BOOLEAN
    /\ amount \in uint64 /\ nonce \in uint64
    /\ raw_txs \in Seq(Txs) /\ received \in Seq(Txs)
    /\ pb_arr \in Seq(Pbs) /\ batch \in Seq(Pbs)
    /\ pb_size \in Nat
    /\ accepted \in Nat /\ rejected \in Nat /\ submitted \in Nat

Held ==
    {Tx(i) : i \in {k \in 1..txs_in_batch : pc # "done"}}
        \cup {One(k) : k \in {x \in {"raw_txs"} : pc \notin {"begin", "done"}}}
        \cup {One(k) : k \in {x \in {"md_ctx"} : pc \in {"digest", "final"}}}
        \cup {One(k) : k \in {x \in {"sig_buf"} : pc = "final"}}
        \cup {One(k) : k \in {x \in {"pb_arr", "pb_ptrs"} : pc \in {"pack", "recv"}}}
        \cup {One(k) : k \in {x \in {"batch"} : stage = "verify"}}

HeldInv ==
    /\ misused = {}
    /\ pc # "exited" => live = Held
    /\ pc = "exited" => One("batch") \notin live

(* The transactions created so far, the last perhaps still unsigned.        *)
CreatedInv ==
    /\ txs_in_batch <= batch_count
    /\ pc = "begin" => txs_in_batch = 0
    /\ pc \in {"sign", "digest", "final"} => txs_in_batch > 0
    /\ pc \notin Creating \cup {"exited"} => txs_in_batch = batch_count
    /\ \A i \in DOMAIN raw_txs :
          /\ raw_txs[i].nonce = (nonce + i - 1) % (UINT64_MAX + 1)
          /\ raw_txs[i].signature # ZERO => raw_txs[i].signature.hash = compute_hash(raw_txs[i])

(* The messages packed so far, and the one that was sent.                   *)
PackedInv ==
    /\ Len(pb_arr) <= txs_in_batch
    /\ pc \in Creating => pb_arr = <<>>
    /\ pc = "recv" \/ stage # "unsent" => Len(pb_arr) = txs_in_batch
    /\ \A i \in DOMAIN pb_arr : pb_arr[i] = pb_of(raw_txs[i])
    /\ pb_size <= Len(pb_arr) * MAX_ELEMENT
    /\ pc \in Creating \cup {"pack", "exited"} => stage = "unsent"
    /\ stage = "sent" => message = PackBatch(pb_arr)

(* The receiver's verdicts so far.                                          *)
Rejected == {i \in DOMAIN received : g_verify /\ ~verify(received[i])}

VerdictInv ==
    /\ batch \in {<<>>, pb_arr}
    /\ stage \in {"unsent", "sent"} => batch = <<>>
    /\ stage = "verify" => batch = pb_arr
    /\ Len(received) <= Len(batch)
    /\ stage = "answered" => Len(received) = Len(batch)
    /\ \A i \in DOMAIN received : received[i] = raw_txs[i]
    /\ rejected = Cardinality(Rejected)
    /\ accepted + rejected = Len(received)
    /\ submitted \in {0, txs_in_batch}
    /\ submitted # 0 => pc \in Freeing /\ stage \in {"unsent", "answered"}

IInv == TypeOK /\ HeldInv /\ CreatedInv /\ PackedInv /\ VerdictInv
=============================================================================
