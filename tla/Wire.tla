-------------------------------- MODULE Wire --------------------------------
(***************************************************************************)
(* The protobuf encoding of a Transaction and of a TransactionBatch: which *)
(* fields a message puts on the wire, how the reader restores the others,  *)
(* and how many bytes the message takes.                                   *)
(*                                                                         *)
(* A message is a record with a component for each field.  A packed message *)
(* is a function from the numbers of the fields that are present.  A byte   *)
(* array is its length and its content.                                     *)
(***************************************************************************)
EXTENDS Integers, FiniteSets

CONSTANTS
    VARINT_LIMITS,  \* the numbers from which on a varint is a byte longer:
                    \*   the first nine powers of 128
    ZERO            \* the content of a byte array that holds only zeros

ASSUME WireAssumption == VARINT_LIMITS \subseteq Nat /\ IsFiniteSet(VARINT_LIMITS)

Bytes(len, data) == [len |-> len, data |-> data]

-----------------------------------------------------------------------------
(* Fields in the order of their numbers                                     *)

(* Faulty variant: the signature comes first, in place of the nonce.         *)
signature_first ==
    << [name |-> "signature",      type |-> "BYTES"],
       [name |-> "expiry_block",   type |-> "UINT32"],
       [name |-> "source_address", type |-> "BYTES"],
       [name |-> "dest_address",   type |-> "BYTES"],
       [name |-> "value",          type |-> "UINT64"],
       [name |-> "fee",            type |-> "UINT32"],
       [name |-> "nonce",          type |-> "UINT64"] >>

transaction__field_descriptors ==
    << [name |-> "nonce",          type |-> "UINT64"],
       [name |-> "expiry_block",   type |-> "UINT32"],
       [name |-> "source_address", type |-> "BYTES"],
       [name |-> "dest_address",   type |-> "BYTES"],
       [name |-> "value",          type |-> "UINT64"],
       [name |-> "fee",            type |-> "UINT32"],
       [name |-> "signature",      type |-> "BYTES"] >>

transaction_batch__field_descriptors ==
    << [name |-> "transactions", type |-> "REPEATED"],
       [name |-> "count",        type |-> "UINT32"] >>

Default(type) ==
    CASE type = "BYTES" -> Bytes(0, ZERO) [] type = "REPEATED" -> <<>> [] OTHER -> 0

(* proto3 leaves out a number that is 0, an array of length 0 and a list of *)
(* no elements.                                                             *)
Present(type, v) ==
    CASE type = "BYTES" -> v.len # 0 [] type = "REPEATED" -> v # <<>> [] OTHER -> v # 0

Pack(fields, message) ==
    [id \in {k \in DOMAIN fields : Present(fields[k].type, message[fields[k].name])} |->
        message[fields[id].name]]

(* The message starts as its initial value; the fields found are filled in.  *)
Unpack(fields, wire) ==
    [name \in {fields[k].name : k \in DOMAIN fields} |->
        LET id == CHOOSE k \in DOMAIN fields : fields[k].name = name
        IN  IF id \in DOMAIN wire THEN wire[id] ELSE Default(fields[id].type)]

-----------------------------------------------------------------------------
(* Sizes                                                                    *)

VarintSize(n) == 1 + Cardinality({limit \in VARINT_LIMITS : n >= limit})

(* The tag of every field takes one byte.                                   *)
FieldSize(type, v) ==
    IF ~Present(type, v) THEN 0
    ELSE IF type = "BYTES" THEN 1 + VarintSize(v.len) + v.len
    ELSE 1 + VarintSize(v)

TransactionSize(pb) ==
    LET size(k) == FieldSize(transaction__field_descriptors[k].type,
                             pb[transaction__field_descriptors[k].name])
    IN  size(1) + size(2) + size(3) + size(4) + size(5) + size(6) + size(7)

(* What one transaction adds to its batch: its tag, its length and itself.   *)
ElementSize(pb) == 1 + VarintSize(TransactionSize(pb)) + TransactionSize(pb)
=============================================================================
