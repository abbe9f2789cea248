---------------------------- MODULE Transaction ----------------------------
(***************************************************************************)
(* The operations on the 112-byte Transaction, as operators on a record of *)
(* its fields.  Addresses and signatures are opaque contents of their       *)
(* arrays; hashes are injective, so that a hash is what was hashed.         *)
(***************************************************************************)
EXTENDS Wire

CONSTANTS
    UINT64_MAX,
    UINT32_MAX,
    COINBASE_ADDRESS,   \* "COINBASE" and twelve zeros
    TX_ADDRESS_LENGTH,  \* 20
    TX_SIGNATURE_LENGTH \* 48

ASSUME TransactionAssumption ==
    /\ UINT64_MAX \in Nat /\ UINT32_MAX \in 0..UINT64_MAX
    /\ COINBASE_ADDRESS # ZERO
    /\ TX_ADDRESS_LENGTH \in Nat \ {0} /\ TX_SIGNATURE_LENGTH \in Nat \ {0}

uint64 == 0..UINT64_MAX
uint32 == 0..UINT32_MAX

is_zero(content) == content = ZERO

(* The fields of a transaction before it is signed.                         *)
NewTx(source, dest, value, fee, nonce, expiry) ==
    [nonce |-> nonce, expiry_block |-> expiry,
     source_address |-> source, dest_address |-> dest,
     value |-> value, fee |-> fee, signature |-> ZERO]

(* Faulty variant: a hash that leaves the nonce out.                         *)
compute_hash_no_nonce(tx) ==
    <<tx.expiry_block, tx.source_address, tx.dest_address, tx.value, tx.fee>>

(* The signature is not hashed: it is made from the hash.                   *)
compute_hash(tx) ==
    <<tx.nonce, tx.expiry_block, tx.source_address, tx.dest_address, tx.value, tx.fee>>

(* A signature by the key of a wallet or, in one of two ways, by no key:     *)
(* from an address and the hash.  None is all zeros.                        *)
Signature(way, signer, tx) == [way |-> way, signer |-> signer, hash |-> compute_hash(tx)]

(* A transaction with a source and no wallet is signed at once, a coinbase    *)
(* never: its nonce is its block, it does not expire, and reward and fees    *)
(* are added in 64 bits.                                                    *)
create_from_address(source, dest, value, fee, nonce, expiry) ==
    LET tx == NewTx(source, dest, value, fee, nonce, expiry)
    IN  [tx EXCEPT !.signature = Signature("source", source, tx)]

create_coinbase(farmer, base_reward, total_fees, block_height) ==
    NewTx(COINBASE_ADDRESS, farmer, (base_reward + total_fees) % (UINT64_MAX + 1), 0, block_height, 0)

TX_EXPIRY_FROM_NOW(current_block, blocks) == (current_block + blocks) % (UINT32_MAX + 1)

(* Faulty variant: the last block is already too late.                      *)
is_expired_at_last(tx, current_block_height) ==
    tx.expiry_block # 0 /\ current_block_height >= tx.expiry_block

is_expired(tx, current_block_height) ==
    tx.expiry_block # 0 /\ current_block_height > tx.expiry_block

is_coinbase(tx) == tx.source_address = COINBASE_ADDRESS

(* Any signature that is not zero is accepted.                              *)
verify(tx) == is_coinbase(tx) \/ ~is_zero(tx.signature)

-----------------------------------------------------------------------------
(* To protobuf and back                                                     *)

to_pb(tx) ==
    [nonce          |-> tx.nonce,
     expiry_block   |-> tx.expiry_block,
     source_address |-> Bytes(TX_ADDRESS_LENGTH, tx.source_address),
     dest_address   |-> Bytes(TX_ADDRESS_LENGTH, tx.dest_address),
     value          |-> tx.value,
     fee            |-> tx.fee,
     signature      |-> IF is_zero(tx.signature) THEN Bytes(0, ZERO)
                        ELSE Bytes(TX_SIGNATURE_LENGTH, tx.signature)]

(* An address that is too short is not taken.  A signature that is too short *)
(* is followed by zeros, one that is too long is cut.                       *)
AddressOf(bytes) == IF bytes.len >= TX_ADDRESS_LENGTH THEN bytes.data ELSE ZERO

SignatureOf(bytes) ==
    IF bytes.len = 0 THEN ZERO
    ELSE IF bytes.len = TX_SIGNATURE_LENGTH THEN bytes.data
    ELSE [cut_or_padded |-> bytes]

from_pb(pb) ==
    [nonce          |-> pb.nonce,
     expiry_block   |-> pb.expiry_block,
     source_address |-> AddressOf(pb.source_address),
     dest_address   |-> AddressOf(pb.dest_address),
     value          |-> pb.value,
     fee            |-> pb.fee,
     signature      |-> SignatureOf(pb.signature)]
=============================================================================
