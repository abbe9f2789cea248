-------------------------- MODULE TransactionLife --------------------------
(***************************************************************************)
(* A transaction outside a batch, as the library offers it: created in one  *)
(* of three ways, written in one of two forms, perhaps cut short, read back, *)
(* and tested for expiry as blocks go by.                                   *)
(***************************************************************************)
EXTENDS Transaction, Hex

CONSTANTS
    NULL,
    TX_TOTAL_SIZE,  \* 112
    BytesOf(_),     \* the memory of the structure, byte by byte
    StructOf(_),    \* so many bytes of memory, read as the structure
    Misprints,      \* characters that may get into a text
    Accounts,       \* addresses of wallets
    Amounts, Fees, TxNonces,
    Lifetimes,      \* numbers of blocks that a transaction is to live
    FirstBlocks,    \* heights to start from
    MAX_BLOCKS      \* bound on the blocks that go by

VARIABLES
    height,         \* of the chain, in uint32
    blocks,         \* how many blocks have gone by
    tx,             \* the transaction, or NULL
    last_block,     \* history: the last block it was made for, or NULL for all
    form,           \* what it was serialized to, or NULL
    copy            \* what was read back, or NULL

vars == <<height, blocks, tx, last_block, form, copy>>

ASSUME TransactionLifeAssumption ==
    /\ NULL \notin Nat
    /\ COINBASE_ADDRESS \notin Accounts
    /\ Amounts \subseteq uint64 /\ Fees \subseteq uint32 /\ TxNonces \subseteq uint64
    /\ Lifetimes \subseteq uint32 /\ FirstBlocks \subseteq uint32 /\ MAX_BLOCKS \in Nat
    /\ TX_TOTAL_SIZE \in Nat

(* The packed structure has no padding: written out as memory and read as a  *)
(* structure again, a transaction that the library can make is the same.    *)
IsInMemory(t) == BytesOf(t) \in [1..TX_TOTAL_SIZE -> Byte] /\ StructOf(BytesOf(t)) = t

SignedTx(way, t) == [t EXCEPT !.signature = Signature(way, t.source_address, t)]

ASSUME MemoryAssumption ==
    /\ \A source, dest \in Accounts, value \in Amounts, fee \in Fees, nonce \in TxNonces,
          expiry \in uint32 :
          LET t == NewTx(source, dest, value, fee, nonce, expiry)
          IN  /\ IsInMemory(t)
              /\ \A way \in {"key", "address", "source"} : IsInMemory(SignedTx(way, t))
    /\ \A farmer \in Accounts, base_reward, total_fees \in Amounts, block \in uint32 :
          IsInMemory(create_coinbase(farmer, base_reward, total_fees, block))

-----------------------------------------------------------------------------
(* The two forms                                                            *)

fields == transaction__field_descriptors

serialize_pb(t) == [kind |-> "pb", fields |-> Pack(fields, to_pb(t))]

serialize(t) == [kind |-> "hex", text |-> bytes_to_hex_buf(BytesOf(t))]

(* A protobuf message cut between two fields is a message; cut within one,   *)
(* and at its beginning, it is none.                                        *)
CutPb(f) ==
    {[f EXCEPT !.fields = [id \in {k \in DOMAIN f.fields : k < first} |-> f.fields[id]]] :
        first \in DOMAIN f.fields}
    \cup {[f EXCEPT !.fields = NULL]}

(* A text loses its end, or one of its characters becomes another.           *)
CutText(f) == {[f EXCEPT !.text = SubSeq(f.text, 1, n)] : n \in 0..(Len(f.text) - 1)}

Misprinted(f) == {[f EXCEPT !.text[k] = c] : k \in DOMAIN f.text, c \in Misprints}

deserialize_pb(f) ==
    IF f.fields = NULL THEN NULL
    ELSE IF DOMAIN f.fields = {} THEN NULL
    ELSE from_pb(Unpack(fields, f.fields))

(* Text of another length, or with a character that is no digit, is refused; *)
(* a digit in place of another is not noticed.                               *)
deserialize(f) ==
    LET read == hex_to_bytes_buf(f.text, [i \in 1..TX_TOTAL_SIZE |-> 0])
    IN  IF Len(f.text) # 2 * TX_TOTAL_SIZE THEN NULL
        ELSE IF ~read.ok THEN NULL
        ELSE StructOf(read.bytes)

-----------------------------------------------------------------------------
Init ==
    /\ height \in FirstBlocks /\ blocks = 0
    /\ tx = NULL /\ last_block = NULL /\ form = NULL /\ copy = NULL

(* transaction_create; without a context for the digest nothing is signed.   *)
Create ==
    /\ tx = NULL
    /\ \E source, dest \in Accounts, value \in Amounts, fee \in Fees, nonce \in TxNonces,
          lifetime \in Lifetimes, way \in {"key", "address", "none"} :
        LET t == NewTx(source, dest, value, fee, nonce, TX_EXPIRY_FROM_NOW(height, lifetime))
        IN  /\ tx' = IF way = "none" THEN t ELSE SignedTx(way, t)
            /\ last_block' = height + lifetime
    /\ UNCHANGED <<height, blocks, form, copy>>

CreateFromAddress ==
    /\ tx = NULL
    /\ \E source, dest \in Accounts, value \in Amounts, fee \in Fees, nonce \in TxNonces,
          lifetime \in Lifetimes :
        /\ tx' = create_from_address(source, dest, value, fee, nonce,
                                     TX_EXPIRY_FROM_NOW(height, lifetime))
        /\ last_block' = height + lifetime
    /\ UNCHANGED <<height, blocks, form, copy>>

CreateCoinbase ==
    /\ tx = NULL
    /\ \E farmer \in Accounts, base_reward, total_fees \in Amounts :
        tx' = create_coinbase(farmer, base_reward, total_fees, height)
    /\ last_block' = NULL
    /\ UNCHANGED <<height, blocks, form, copy>>

Serialize ==
    /\ tx # NULL /\ form = NULL
    /\ form' \in {serialize_pb(tx), serialize(tx)}
    /\ UNCHANGED <<height, blocks, tx, last_block, copy>>

Whole == form \in {serialize_pb(tx), serialize(tx)}

(* The form loses its end, or a character of the text is misprinted, before   *)
(* it is read.                                                              *)
Damage ==
    /\ form # NULL /\ Whole /\ copy = NULL
    /\ form' \in IF form.kind = "pb" THEN CutPb(form) ELSE CutText(form) \cup Misprinted(form)
    /\ UNCHANGED <<height, blocks, tx, last_block, copy>>

Deserialize ==
    /\ form # NULL /\ copy = NULL
    /\ copy' = IF form.kind = "pb" THEN deserialize_pb(form) ELSE deserialize(form)
    /\ UNCHANGED <<height, blocks, tx, last_block, form>>

NextBlock ==
    /\ height < UINT32_MAX /\ blocks < MAX_BLOCKS
    /\ height' = height + 1 /\ blocks' = blocks + 1
    /\ UNCHANGED <<tx, last_block, form, copy>>

(* The transaction, its form and its copy are given back.                   *)
Destroy ==
    /\ tx # NULL
    /\ tx' = NULL /\ last_block' = NULL /\ form' = NULL /\ copy' = NULL
    /\ UNCHANGED <<height, blocks>>

Next ==
    \/ Create \/ CreateFromAddress \/ CreateCoinbase
    \/ Serialize \/ Damage \/ Deserialize
    \/ NextBlock \/ Destroy

Spec == Init /\ [][Next]_vars

-----------------------------------------------------------------------------
(* Properties                                                               *)

(* Whichever way a transaction was made, zeros and missing signature         *)
(* included, both forms give it back as it was: through the fields that       *)
(* protobuf leaves out, and through the digits of its memory                 *)
(* (transaction_serialize_pb, transaction_serialize and their inverses).     *)
CopiesAreFaithful == form # NULL /\ Whole /\ copy # NULL => copy = tx

(* The form has lost its end.                                               *)
CutShort ==
    IF form.kind = "pb" THEN form # serialize_pb(tx) ELSE Len(form.text) < 2 * TX_TOTAL_SIZE

(* A protobuf message that is cut between two fields still unpacks, and the   *)
(* fields that are gone read as zeros.  Of a transaction that is no coinbase *)
(* the signature is gone too, being last, so that transaction_verify refuses *)
(* what is left; of a text that is cut nothing is read.                      *)
CutSignedIsRefused ==
    form # NULL /\ CutShort /\ copy # NULL =>
        form.kind = "pb" /\ (is_coinbase(tx) \/ ~verify(copy))

(* A transaction that was made for so many blocks from some height, and its  *)
(* whole copy, is good in the last of them and in no later one, and a        *)
(* coinbase always.  Where the sum of height and lifetime is 0, or wraps to  *)
(* it, there is no expiry; where it wraps to more, the transaction has       *)
(* expired when it is made, and for good (TX_EXPIRY_FROM_NOW,                *)
(* transaction_is_expired).                                                 *)
LivesItsBlocks ==
    \A t \in {tx, IF form # NULL /\ Whole THEN copy ELSE NULL} \ {NULL} :
        is_expired(t, height) <=>
            /\ last_block # NULL
            /\ last_block \notin {0, UINT32_MAX + 1}
            /\ height > last_block \/ last_block > UINT32_MAX
=============================================================================
