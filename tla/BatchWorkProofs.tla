-------------------------- MODULE BatchWorkProofs --------------------------
(***************************************************************************)
(* The journey of a batch is proved for every batch, amount and nonce.      *)
(***************************************************************************)
EXTENDS BatchWork, FiniteSetTheorems, TLAPS

-----------------------------------------------------------------------------
(* Sizes                                                                    *)

Reached(n) == {limit \in VARINT_LIMITS : n >= limit}

(* The limits a number has reached are a finite set.                        *)
LEMMA ReachedFinite ==
    ASSUME NEW n
    PROVE  IsFiniteSet(Reached(n)) /\ Cardinality(Reached(n)) \in Nat
<1>1. Reached(n) \subseteq VARINT_LIMITS
  BY DEF Reached
<1>2. IsFiniteSet(Reached(n))
  BY <1>1, FS_Subset, WireAssumption
<1> QED  BY <1>2, FS_CardinalityType

(* A varint takes a natural number of bytes.                                *)
LEMMA VarintSizeType ==
    ASSUME NEW n
    PROVE  VarintSize(n) \in Nat \ {0}
<1>1. VarintSize(n) = 1 + Cardinality(Reached(n))
  BY DEF VarintSize, Reached
<1> QED  BY <1>1, ReachedFinite

(* A larger number does not take fewer bytes.                               *)
LEMMA VarintSizeMonotone ==
    ASSUME NEW m \in Nat, NEW n \in Nat, m <= n
    PROVE  VarintSize(m) <= VarintSize(n)
<1>1. Reached(m) \subseteq Reached(n)
  <2>1. SUFFICES ASSUME NEW limit \in VARINT_LIMITS, m >= limit
                 PROVE  n >= limit
    BY DEF Reached
  <2>2. limit \in Nat
    BY WireAssumption
  <2> QED  BY <2>1, <2>2
<1>2. Cardinality(Reached(m)) <= Cardinality(Reached(n))
  BY <1>1, ReachedFinite, FS_Subset
<1>3. VarintSize(m) = 1 + Cardinality(Reached(m)) /\ VarintSize(n) = 1 + Cardinality(Reached(n))
  BY DEF VarintSize, Reached
<1> QED  BY <1>2, <1>3, ReachedFinite

-----------------------------------------------------------------------------
(* Messages                                                                 *)

fields == transaction__field_descriptors

(* The seven descriptors, by name and type.                                 *)
LEMMA Descriptors ==
    /\ DOMAIN fields = 1..7
    /\ fields[1] = [name |-> "nonce", type |-> "UINT64"]
    /\ fields[2] = [name |-> "expiry_block", type |-> "UINT32"]
    /\ fields[3] = [name |-> "source_address", type |-> "BYTES"]
    /\ fields[4] = [name |-> "dest_address", type |-> "BYTES"]
    /\ fields[5] = [name |-> "value", type |-> "UINT64"]
    /\ fields[6] = [name |-> "fee", type |-> "UINT32"]
    /\ fields[7] = [name |-> "signature", type |-> "BYTES"]
BY DEF fields, transaction__field_descriptors

(* A name tells which field it is.                                          *)
LEMMA FieldNumber ==
    ASSUME NEW id \in 1..7
    PROVE  (CHOOSE k \in DOMAIN fields : fields[k].name = fields[id].name) = id
<1>1. \A k \in 1..7 : fields[k].name = fields[id].name => k = id
  <2>1. id \in {1, 2, 3, 4, 5, 6, 7}
    OBVIOUS
  <2>2. \A k \in 1..7 : k \in {1, 2, 3, 4, 5, 6, 7}
    OBVIOUS
  <2> QED  BY <2>1, <2>2, Descriptors
<1> QED  BY <1>1, Descriptors

(* A field that is left out is one the reader restores.                     *)
Restorable(type, v) == Present(type, v) \/ v = Default(type)

(* What is packed is what is unpacked.                                      *)
LEMMA PackUnpack ==
    ASSUME NEW pb,
           pb = [name \in {fields[k].name : k \in 1..7} |-> pb[name]],
           \A k \in 1..7 : Restorable(fields[k].type, pb[fields[k].name])
    PROVE  Unpack(fields, Pack(fields, pb)) = pb
<1> DEFINE wire == Pack(fields, pb)
           Number(name) == CHOOSE k \in DOMAIN fields : fields[k].name = name
           Restored(id) == IF id \in DOMAIN wire THEN wire[id] ELSE Default(fields[id].type)
<1>1. ASSUME NEW id \in 1..7
      PROVE  Restored(id) = pb[fields[id].name]
  <2>1. DOMAIN wire = {k \in 1..7 : Present(fields[k].type, pb[fields[k].name])}
    BY Descriptors DEF Pack
  <2>2. id \in DOMAIN wire => wire[id] = pb[fields[id].name]
    BY Descriptors DEF Pack
  <2> QED  BY <2>1, <2>2 DEF Restorable
<1>2. \A id \in 1..7 : Number(fields[id].name) = id
  BY FieldNumber
<1> HIDE DEF Number, Restored
<1>3. [name \in {fields[k].name : k \in 1..7} |-> Restored(Number(name))]
        = [name \in {fields[k].name : k \in 1..7} |-> pb[name]]
  BY <1>1, <1>2
<1>4. Unpack(fields, wire) = [name \in {fields[k].name : k \in 1..7} |-> Restored(Number(name))]
  BY Descriptors DEF Unpack, Number, Restored
<1> QED  BY <1>3, <1>4

(* The messages of transactions arrive as they were packed.                 *)
LEMMA PbRoundTrip ==
    ASSUME NEW tx
    PROVE  Unpack(fields, Pack(fields, pb_of(tx))) = pb_of(tx)
<1> DEFINE pb == pb_of(tx)
<1>1. pb = [name \in {fields[k].name : k \in 1..7} |-> pb[name]]
  <2>1. {fields[k].name : k \in 1..7} = {"nonce", "expiry_block", "source_address",
            "dest_address", "value", "fee", "signature"}
    <3>1. 1..7 = {1, 2, 3, 4, 5, 6, 7}
      OBVIOUS
    <3> QED  BY <3>1, Descriptors
  <2>2. pb = [name \in {"nonce", "expiry_block", "source_address",
                        "dest_address", "value", "fee", "signature"} |-> pb[name]]
    BY DEF pb_of, to_pb
  <2> QED  BY <2>1, <2>2
<1>2. ASSUME NEW k \in 1..7
      PROVE  Restorable(fields[k].type, pb[fields[k].name])
  <2>1. k \in {1, 2, 3, 4, 5, 6, 7}
    OBVIOUS
  <2>2. TX_ADDRESS_LENGTH # 0 /\ TX_SIGNATURE_LENGTH # 0
    BY TransactionAssumption
  <2>3. /\ pb.source_address.len = TX_ADDRESS_LENGTH /\ pb.dest_address.len = TX_ADDRESS_LENGTH
        /\ pb.signature = Bytes(0, ZERO) \/ pb.signature.len = TX_SIGNATURE_LENGTH
    BY DEF pb_of, to_pb, is_zero, Bytes
  <2> HIDE DEF pb
  <2> QED  BY <2>1, <2>2, <2>3, Descriptors DEF Restorable, Present, Default, Bytes
<1> QED  BY <1>1, <1>2, PackUnpack

(* Turning a message back into a transaction undoes turning it into one.     *)
LEMMA TxRoundTrip ==
    ASSUME NEW tx \in Txs
    PROVE  pb_to_tx(pb_of(tx)) = tx
<1>1. TX_ADDRESS_LENGTH \in Nat \ {0} /\ TX_SIGNATURE_LENGTH \in Nat \ {0}
  BY TransactionAssumption
<1> QED  BY <1>1 DEF pb_to_tx, from_pb, pb_of, to_pb, AddressOf, SignatureOf, Bytes, is_zero, Txs

(* A message of a transaction of the generator's is well-typed.             *)
LEMMA PbType ==
    ASSUME NEW tx \in Txs
    PROVE  pb_of(tx) \in Pbs
BY TransactionAssumption DEF pb_of, to_pb, Bytes, is_zero, Txs, Pbs, Arrays

(* A batch arrives as it was packed.                                        *)
LEMMA BatchRoundTrip ==
    ASSUME NEW pbs \in Seq(Pbs), pbs # <<>>,
           \A i \in DOMAIN pbs : Unpack(fields, Pack(fields, pbs[i])) = pbs[i]
    PROVE  UnpackBatch(PackBatch(pbs)) = pbs
<1> DEFINE bf == transaction_batch__field_descriptors
           packed == [i \in DOMAIN pbs |-> Pack(fields, pbs[i])]
           m == [transactions |-> packed, count |-> Len(pbs)]
           wire == Pack(bf, m)
           b == Unpack(bf, wire)
<1>1. /\ DOMAIN bf = 1..2
      /\ bf[1] = [name |-> "transactions", type |-> "REPEATED"]
      /\ bf[2] = [name |-> "count", type |-> "UINT32"]
  BY DEF transaction_batch__field_descriptors
<1>2. packed # <<>>
  OBVIOUS
<1> HIDE DEF packed, bf
<1>3. 1 \in DOMAIN wire /\ wire[1] = packed
  BY <1>1, <1>2 DEF Pack, Present
<1>4. (CHOOSE k \in DOMAIN bf : bf[k].name = "transactions") = 1
  BY <1>1
<1>5. "transactions" \in {bf[k].name : k \in DOMAIN bf}
  BY <1>1
<1>6. b.transactions = packed
  BY <1>3, <1>4, <1>5 DEF Unpack
<1>7. UnpackBatch(PackBatch(pbs))
        = [i \in DOMAIN b.transactions |-> Unpack(fields, b.transactions[i])]
  BY DEF UnpackBatch, PackBatch, fields, packed, bf
<1>8. DOMAIN packed = DOMAIN pbs /\ \A i \in DOMAIN pbs : packed[i] = Pack(fields, pbs[i])
  BY DEF packed
<1> HIDE DEF b
<1>9. UnpackBatch(PackBatch(pbs)) = [i \in DOMAIN pbs |-> pbs[i]]
  BY <1>6, <1>7, <1>8
<1> QED  BY <1>9

-----------------------------------------------------------------------------
(* The size of a transaction                                                *)

(* The sum over the seven fields.                                           *)
LEMMA SizeIsSum ==
    ASSUME NEW pb
    PROVE  TransactionSize(pb) =
              FieldSize("UINT64", pb.nonce) + FieldSize("UINT32", pb.expiry_block)
              + FieldSize("BYTES", pb.source_address) + FieldSize("BYTES", pb.dest_address)
              + FieldSize("UINT64", pb.value) + FieldSize("UINT32", pb.fee)
              + FieldSize("BYTES", pb.signature)
BY Descriptors DEF TransactionSize, fields

(* A number takes no more room than a larger one, and an array no more than  *)
(* one of the same length or than a longer one when it is empty.            *)
LEMMA NumberSizes ==
    ASSUME NEW type \in {"UINT32", "UINT64"}, NEW m \in Nat, NEW n \in Nat, m <= n
    PROVE  /\ FieldSize(type, m) \in Nat
           /\ FieldSize(type, m) <= FieldSize(type, n)
<1>1. \A k \in Nat : FieldSize(type, k) = IF k = 0 THEN 0 ELSE 1 + VarintSize(k)
  BY DEF FieldSize, Present
<1>2. VarintSize(m) \in Nat \ {0} /\ VarintSize(n) \in Nat \ {0} /\ VarintSize(m) <= VarintSize(n)
  BY VarintSizeType, VarintSizeMonotone
<1> QED  BY <1>1, <1>2

(* The size of an array is a matter of its length.                          *)
LEMMA ArraySizes ==
    ASSUME NEW len \in Nat, NEW x, NEW y
    PROVE  /\ FieldSize("BYTES", Bytes(len, x)) \in Nat
           /\ FieldSize("BYTES", Bytes(len, x)) = FieldSize("BYTES", Bytes(len, y))
           /\ FieldSize("BYTES", Bytes(0, x)) = 0
<1>1. \A k \in Nat : \A z : FieldSize("BYTES", Bytes(k, z)) = IF k = 0 THEN 0 ELSE 1 + VarintSize(k) + k
  BY DEF FieldSize, Present, Bytes
<1>2. VarintSize(len) \in Nat
  BY VarintSizeType
<1> QED  BY <1>1, <1>2

LargestPb ==
    [to_pb(NewTx(from_addr, to_addr, UINT64_MAX, FEE, UINT64_MAX, EXPIRY))
        EXCEPT !.signature = Bytes(TX_SIGNATURE_LENGTH, "any")]

(* No transaction of the generator takes more room than MAX_ELEMENT.        *)
LEMMA ElementFits ==
    ASSUME NEW tx \in Txs
    PROVE  /\ ElementSize(pb_of(tx)) \in Nat /\ MAX_ELEMENT \in Nat
           /\ ElementSize(pb_of(tx)) <= MAX_ELEMENT
<1> DEFINE pb == pb_of(tx)
           U(m) == FieldSize("UINT64", m)
           A(b) == FieldSize("BYTES", b)
           S == TX_SIGNATURE_LENGTH
           rest == FieldSize("UINT32", EXPIRY) + A(Bytes(TX_ADDRESS_LENGTH, from_addr))
                      + A(Bytes(TX_ADDRESS_LENGTH, to_addr)) + FieldSize("UINT32", FEE)
<1>1. /\ pb.nonce = tx.nonce /\ pb.expiry_block = EXPIRY
      /\ pb.value = tx.value /\ pb.fee = FEE
      /\ pb.source_address = Bytes(TX_ADDRESS_LENGTH, from_addr)
      /\ pb.dest_address = Bytes(TX_ADDRESS_LENGTH, to_addr)
      /\ pb.signature \in {Bytes(0, ZERO), Bytes(S, tx.signature)}
  BY DEF pb_of, to_pb, is_zero, Txs
<1>2. /\ LargestPb.nonce = UINT64_MAX /\ LargestPb.expiry_block = EXPIRY
      /\ LargestPb.value = UINT64_MAX /\ LargestPb.fee = FEE
      /\ LargestPb.source_address = Bytes(TX_ADDRESS_LENGTH, from_addr)
      /\ LargestPb.dest_address = Bytes(TX_ADDRESS_LENGTH, to_addr)
      /\ LargestPb.signature = Bytes(S, "any")
  BY DEF LargestPb, to_pb, NewTx
<1>3. /\ UINT64_MAX \in Nat /\ tx.nonce \in Nat /\ tx.value \in Nat
      /\ tx.nonce <= UINT64_MAX /\ tx.value <= UINT64_MAX
      /\ EXPIRY \in Nat /\ FEE \in Nat /\ TX_ADDRESS_LENGTH \in Nat /\ S \in Nat
  BY TransactionAssumption, BatchWorkAssumption DEF Txs, uint64, uint32
<1>4. /\ U(tx.nonce) \in Nat /\ U(tx.value) \in Nat /\ U(UINT64_MAX) \in Nat
      /\ U(tx.nonce) <= U(UINT64_MAX) /\ U(tx.value) <= U(UINT64_MAX)
  BY <1>3, NumberSizes
<1>5. rest \in Nat
  BY <1>3, NumberSizes, ArraySizes
<1>6. /\ A(pb.signature) \in Nat /\ A(Bytes(S, "any")) \in Nat
      /\ A(pb.signature) <= A(Bytes(S, "any"))
  BY <1>1, <1>3, ArraySizes
<1> HIDE DEF U, A, rest, pb
<1>7. /\ TransactionSize(pb) = U(tx.nonce) + U(tx.value) + A(pb.signature) + rest
      /\ TransactionSize(LargestPb) = U(UINT64_MAX) + U(UINT64_MAX) + A(Bytes(S, "any")) + rest
  <2>1. /\ FieldSize("UINT32", EXPIRY) \in Nat /\ FieldSize("UINT32", FEE) \in Nat
        /\ FieldSize("BYTES", Bytes(TX_ADDRESS_LENGTH, from_addr)) \in Nat
        /\ FieldSize("BYTES", Bytes(TX_ADDRESS_LENGTH, to_addr)) \in Nat
    BY <1>3, NumberSizes, ArraySizes
  <2>2. TransactionSize(pb) =
              U(pb.nonce) + FieldSize("UINT32", pb.expiry_block)
              + A(pb.source_address) + A(pb.dest_address)
              + U(pb.value) + FieldSize("UINT32", pb.fee) + A(pb.signature)
    BY SizeIsSum DEF U, A
  <2>3. TransactionSize(LargestPb) =
              U(UINT64_MAX) + FieldSize("UINT32", EXPIRY)
              + A(Bytes(TX_ADDRESS_LENGTH, from_addr)) + A(Bytes(TX_ADDRESS_LENGTH, to_addr))
              + U(UINT64_MAX) + FieldSize("UINT32", FEE) + A(Bytes(S, "any"))
    BY SizeIsSum, <1>2 DEF U, A
  <2> QED  BY <2>1, <2>2, <2>3, <1>1, <1>4, <1>6 DEF rest, A
<1>8. /\ TransactionSize(pb) \in Nat /\ TransactionSize(LargestPb) \in Nat
      /\ TransactionSize(pb) <= TransactionSize(LargestPb)
  BY <1>4, <1>5, <1>6, <1>7
<1>9. /\ VarintSize(TransactionSize(pb)) \in Nat /\ VarintSize(TransactionSize(LargestPb)) \in Nat
      /\ VarintSize(TransactionSize(pb)) <= VarintSize(TransactionSize(LargestPb))
  BY <1>8, VarintSizeType, VarintSizeMonotone
<1>10. MAX_ELEMENT = ElementSize(LargestPb)
  BY DEF MAX_ELEMENT, LargestPb
<1> QED  BY <1>8, <1>9, <1>10 DEF ElementSize, pb

-----------------------------------------------------------------------------
(* Types                                                                    *)

(* The variables that each kind of step changes start out well-typed.       *)
LEMMA TypeInit == Init => TypeOK
BY BatchWorkAssumption
   DEF Init, TypeOK, Creating, Freeing, Stages

(* A new transaction is a transaction.                                      *)
LEMMA NewTxType ==
    ASSUME NEW n \in Int, TypeOK
    PROVE  NewTx(from_addr, to_addr, amount, FEE, n % (UINT64_MAX + 1), EXPIRY) \in Txs
<1>1. n % (UINT64_MAX + 1) \in uint64
  BY TransactionAssumption DEF uint64
<1> QED  BY <1>1 DEF NewTx, Txs, TypeOK

(* Signing keeps the type of the transactions and everything else.          *)
LEMMA SignedType ==
    ASSUME TypeOK, NEW way \in {"address", "fallback", "key"}, SignedAs(way),
           txs_in_batch > 0
    PROVE  TypeOK'
<1> DEFINE n == txs_in_batch
           sig == Signature(way, from_addr, raw_txs[n])
<1>1. n \in DOMAIN raw_txs /\ raw_txs[n] \in Txs
  BY DEF TypeOK, txs_in_batch
<1>2. sig \in Signatures
  BY <1>1 DEF Signature, Signatures, compute_hash, Txs
<1>3. raw_txs' = [raw_txs EXCEPT ![n] = [raw_txs[n] EXCEPT !.signature = sig]]
  BY <1>1 DEF SignedAs
<1>4. [raw_txs[n] EXCEPT !.signature = sig] \in Txs
  BY <1>1, <1>2 DEF Txs
<1>5. raw_txs' \in Seq(Txs)
  BY <1>1, <1>3, <1>4 DEF TypeOK
<1> QED  BY <1>5 DEF SignedAs, TypeOK, Creating, socket, options, incoming

(* What the receiver turns back is the transaction the thread created.       *)
LEMMA NextReceived ==
    ASSUME IInv, stage = "verify", Len(received) < Len(batch)
    PROVE  /\ Len(received) + 1 \in DOMAIN raw_txs
           /\ raw_txs[Len(received) + 1] \in Txs
           /\ pb_to_tx(batch[Len(received) + 1]) = raw_txs[Len(received) + 1]
<1> DEFINE i == Len(received) + 1
<1>1. batch = pb_arr /\ Len(pb_arr) = txs_in_batch
  BY DEF IInv, VerdictInv, PackedInv
<1>2. i \in DOMAIN raw_txs /\ i \in DOMAIN pb_arr /\ raw_txs[i] \in Txs
  BY <1>1 DEF IInv, TypeOK, txs_in_batch
<1>3. pb_arr[i] = pb_of(raw_txs[i])
  BY <1>2 DEF IInv, PackedInv
<1> QED  BY <1>1, <1>2, <1>3, TxRoundTrip

(* Every step keeps the types.                                              *)
LEMMA TypeNext == IInv /\ [Next]_vars => TypeOK'
<1> SUFFICES ASSUME IInv, [Next]_vars PROVE TypeOK'
  OBVIOUS
<1>0. TypeOK
  BY DEF IInv
<1> USE DEF Creating, Freeing, Stages, socket
<1>1. CASE OutOfMemory
  BY <1>0, <1>1 DEF OutOfMemory, TypeOK, options, outgoing, incoming
<1>2. CASE BeginBatch
  BY <1>0, <1>2 DEF BeginBatch, TypeOK, options, outgoing, incoming
<1>3. CASE CreateTx
  <2>1. txs_in_batch \in Nat
    BY <1>0 DEF TypeOK, txs_in_batch
  <2>2. NewTx(from_addr, to_addr, amount, FEE, (nonce + txs_in_batch) % (UINT64_MAX + 1), EXPIRY)
           \in Txs
    BY <1>0, <2>1, NewTxType DEF TypeOK, uint64
  <2>3. raw_txs' \in Seq(Txs)
    BY <1>0, <1>3, <2>2 DEF CreateTx, TypeOK
  <2> QED  BY <1>0, <1>3, <2>3 DEF CreateTx, TypeOK, options, incoming
<1>4. CASE SignWithoutKey \/ DigestFails \/ FinalSign
  <2>1. txs_in_batch > 0
    BY <1>4 DEF IInv, CreatedInv, SignWithoutKey, DigestFails, FinalSign
  <2>2. \E way \in {"address", "fallback", "key"} : SignedAs(way)
    BY <1>4 DEF SignWithoutKey, DigestFails, FinalSign
  <2> QED  BY <1>0, <2>1, <2>2, SignedType
<1>5. CASE NoDigestContext \/ NewDigestContext \/ AllocSignature \/ AllocPackArrays
  BY <1>0, <1>5 DEF NoDigestContext, NewDigestContext, AllocSignature, AllocPackArrays, TypeOK,
                    options, outgoing, incoming
<1>6. CASE SubmitInProcess \/ ReadReply
  <2>1. txs_in_batch \in Nat
    BY <1>0 DEF TypeOK, txs_in_batch
  <2> QED  BY <1>0, <1>6, <2>1 DEF SubmitInProcess, ReadReply, TypeOK, options, outgoing, incoming
<1>7. CASE PackTx
  <2> DEFINE tx == raw_txs[Len(pb_arr) + 1]
  <2>1. tx \in Txs
    BY <1>0, <1>7 DEF PackTx, TypeOK, txs_in_batch
  <2>2. pb_of(tx) \in Pbs /\ ElementSize(pb_of(tx)) \in Nat
    BY <2>1, PbType, ElementFits
  <2>3. pb_arr' = Append(pb_arr, pb_of(tx)) /\ pb_size' = pb_size + ElementSize(pb_of(tx))
    BY <1>7 DEF PackTx
  <2> HIDE DEF tx
  <2> QED  BY <1>0, <1>7, <2>2, <2>3 DEF PackTx, TypeOK, options, incoming
<1>8. CASE SendMessage \/ UnpackFails \/ FreeBatch \/ TimeOut \/ FreeTxs
  BY <1>0, <1>8 DEF SendMessage, UnpackFails, FreeBatch, TimeOut, FreeTxs, TypeOK, options, outgoing, incoming
<1>9. CASE Unpacks
  <2>1. batch' = pb_arr
    <3>1. message = PackBatch(pb_arr) /\ Len(pb_arr) = batch_count
      BY <1>9 DEF Unpacks, IInv, PackedInv, CreatedInv
    <3>2. pb_arr # <<>>
      BY <3>1, BatchWorkAssumption, TransactionAssumption DEF uint32
    <3>3. \A i \in DOMAIN pb_arr : Unpack(fields, Pack(fields, pb_arr[i])) = pb_arr[i]
      BY PbRoundTrip DEF IInv, PackedInv
    <3> QED  BY <1>0, <1>9, <3>1, <3>2, <3>3, BatchRoundTrip DEF Unpacks, TypeOK
  <2> QED  BY <1>0, <1>9, <2>1 DEF Unpacks, TypeOK, options, outgoing
<1>10. CASE VerifyTx
  <2>1. received' = Append(received, raw_txs[Len(received) + 1]) /\ raw_txs[Len(received) + 1] \in Txs
    BY <1>10, NextReceived DEF VerifyTx
  <2>2. accepted' \in Nat /\ rejected' \in Nat
    BY <1>0, <1>10 DEF VerifyTx, TypeOK
  <2> QED  BY <1>0, <1>10, <2>1, <2>2 DEF VerifyTx, TypeOK, options, outgoing
<1>11. CASE Ended \/ UNCHANGED vars
  BY <1>0, <1>11 DEF Ended, vars, TypeOK, options, outgoing, incoming
<1> QED
  BY <1>1, <1>2, <1>3, <1>4, <1>5, <1>6, <1>7, <1>8, <1>9, <1>10, <1>11 DEF Next

-----------------------------------------------------------------------------
(* Resources                                                                *)

(* Which resources are held, one by one.                                    *)
LEMMA HeldElements ==
    ASSUME NEW r
    PROVE  r \in Held <=>
              \/ pc # "done" /\ \E i \in 1..txs_in_batch : r = Tx(i)
              \/ pc \notin {"begin", "done"} /\ r = One("raw_txs")
              \/ pc \in {"digest", "final"} /\ r = One("md_ctx")
              \/ pc = "final" /\ r = One("sig_buf")
              \/ pc \in {"pack", "recv"} /\ r \in PackArrays
              \/ stage = "verify" /\ r = One("batch")
BY DEF Held, PackArrays

(* Resources of different kinds, or of different transactions, differ.       *)
LEMMA Distinct ==
    /\ \A i, k : Tx(i) = Tx(k) => i = k
    /\ \A i, kind : kind # "tx" => Tx(i) # One(kind)
    /\ \A kind1, kind2 : One(kind1) = One(kind2) => kind1 = kind2
BY DEF Tx, One, Res

(* Signing a transaction creates none.                                      *)
LEMMA SignedKeeps ==
    ASSUME TypeOK, NEW way, SignedAs(way)
    PROVE  txs_in_batch' = txs_in_batch /\ stage' = stage /\ pc' = "create"
BY DEF TypeOK, SignedAs, txs_in_batch, socket

(* Every step leaves exactly what is to be held, and misuses nothing.        *)
LEMMA HeldNext == IInv /\ [Next]_vars => HeldInv'
<1> SUFFICES ASSUME IInv, [Next]_vars PROVE HeldInv'
  OBVIOUS
<1>x. pc' = "exited" => One("batch") \notin live'
  <2>1. CASE OutOfMemory
    <3>1. pc # "exited" /\ stage = "unsent" /\ live' = live
      BY <2>1 DEF OutOfMemory, resourceVars, IInv, PackedInv, Creating
    <3>2. live = Held
      BY <3>1 DEF IInv, HeldInv
    <3> QED  BY <3>1, <3>2, HeldElements, Distinct DEF PackArrays
  <2>2. CASE ~OutOfMemory
    <3>1. pc' = "exited" => pc = "exited" /\ live' = live
      BY <2>2 DEF Next, BeginBatch, CreateTx, SignWithoutKey, NoDigestContext, NewDigestContext,
                DigestFails, AllocSignature, FinalSign, SignedAs, SubmitInProcess, AllocPackArrays,
                PackTx, SendMessage, Unpacks, UnpackFails, VerifyTx, FreeBatch, ReadReply, TimeOut,
                FreeTxs, Ended, vars, resourceVars, IInv, PackedInv, Creating
    <3> QED  BY <3>1 DEF IInv, HeldInv
  <2> QED  BY <2>1, <2>2
<1> SUFFICES misused' = {} /\ (pc' # "exited" => live' = Held')
  BY <1>x DEF HeldInv
<1>a. /\ misused = {} /\ (pc # "exited" => live = Held)
      /\ txs_in_batch \in Nat /\ txs_in_batch <= batch_count
      /\ pc = "begin" => txs_in_batch = 0
      /\ pc \in {"sign", "digest", "final"} => txs_in_batch \in 1..txs_in_batch
      /\ raw_txs \in Seq(Txs)
  BY DEF IInv, TypeOK, HeldInv, CreatedInv, txs_in_batch
<1>b. \A r : r \in Held' <=>
              \/ pc' # "done" /\ \E i \in 1..txs_in_batch' : r = Tx(i)
              \/ pc' \notin {"begin", "done"} /\ r = One("raw_txs")
              \/ pc' \in {"digest", "final"} /\ r = One("md_ctx")
              \/ pc' = "final" /\ r = One("sig_buf")
              \/ pc' \in {"pack", "recv"} /\ r \in PackArrays
              \/ stage' = "verify" /\ r = One("batch")
  BY DEF Held, PackArrays, Tx
<1> DEFINE SameTxs == txs_in_batch' = txs_in_batch
           Keeps == SameTxs /\ stage' = stage
<1>c. /\ outgoing' = outgoing => SameTxs
      /\ outgoing' = outgoing /\ socket' = socket => Keeps
  BY DEF outgoing, socket, txs_in_batch
<1>d. /\ pc = "exited" => stage = "unsent"
      /\ pc \in Creating \cup {"pack"} => stage = "unsent"
  BY DEF IInv, PackedInv
<1> HIDE DEF Keeps
<1> USE DEF Exchange, Acquire, Release, Use
<1>1. CASE OutOfMemory
  BY <1>1, <1>a, <1>c DEF OutOfMemory, resourceVars
<1>2. CASE BeginBatch
  <2>1. live' = live \cup {One("raw_txs")} /\ misused' = {} /\ pc = "begin" /\ pc' = "create" /\ Keeps
    BY <1>2, <1>a, <1>c DEF BeginBatch
  <2>2. \A r : r \in live' <=> r \in Held'
    BY <2>1, <1>a, <1>b, HeldElements DEF Keeps
  <2> QED  BY <2>1, <2>2
<1>3. CASE CreateTx
  <2>1. txs_in_batch' = txs_in_batch + 1
    BY <1>3, <1>a DEF CreateTx, txs_in_batch
  <2>2. /\ live' = live \cup {Tx(txs_in_batch + 1)} /\ misused' = {}
        /\ pc = "create" /\ pc' = "sign" /\ stage' = stage
    BY <1>3, <1>a DEF CreateTx, socket
  <2>3. \A i : i \in 1..txs_in_batch' <=> i \in 1..txs_in_batch \/ i = txs_in_batch + 1
    BY <2>1, <1>a
  <2>4. \A r : r \in live' <=> r \in Held'
    BY <2>2, <2>3, <1>a, <1>b, HeldElements
  <2> QED  BY <2>2, <2>4
<1>4. CASE SignWithoutKey
  <2>1. pc = "sign" /\ pc' = "create" /\ Keeps
    BY <1>4, SignedKeeps DEF SignWithoutKey, IInv, Keeps
  <2>2. Tx(txs_in_batch) \in live
    BY <2>1, <1>a, HeldElements
  <2>3. live' = live /\ misused' = {}
    BY <1>4, <2>2, <1>a DEF SignWithoutKey
  <2>4. \A r : r \in live' <=> r \in Held'
    BY <2>1, <2>3, <1>a, <1>b, HeldElements DEF Keeps
  <2> QED  BY <2>3, <2>4
<1>5. CASE DigestFails \/ FinalSign
  <2>1. pc \in {"digest", "final"} /\ pc' = "create" /\ Keeps
    BY <1>5, SignedKeeps DEF DigestFails, FinalSign, IInv, Keeps
  <2>2. /\ Tx(txs_in_batch) \in live /\ One("md_ctx") \in live
        /\ pc = "final" => One("sig_buf") \in live
    BY <2>1, <1>a, HeldElements
  <2>3. \/ pc = "digest" /\ live' = live \ {One("md_ctx")} /\ misused' = {}
        \/ pc = "final" /\ live' = live \ {One("sig_buf"), One("md_ctx")} /\ misused' = {}
    BY <1>5, <2>2, <1>a DEF DigestFails, FinalSign
  <2>4. \A r : r \in live' <=> r \in Held'
    BY <2>1, <2>3, <1>a, <1>b, HeldElements, Distinct DEF Keeps, PackArrays
  <2> QED  BY <2>3, <2>4
<1>6. CASE NoDigestContext
  <2>1. pc = "sign" /\ pc' = "create" /\ Keeps /\ live' = live /\ misused' = {}
    BY <1>6, <1>a, <1>c DEF NoDigestContext, resourceVars
  <2>2. \A r : r \in live' <=> r \in Held'
    BY <2>1, <1>a, <1>b, HeldElements DEF Keeps
  <2> QED  BY <2>1, <2>2
<1>7. CASE NewDigestContext \/ AllocSignature
  <2>1. /\ Keeps /\ misused' = {}
        /\ \/ pc = "sign" /\ pc' = "digest" /\ live' = live \cup {One("md_ctx")}
           \/ pc = "digest" /\ pc' = "final" /\ live' = live \cup {One("sig_buf")}
    BY <1>7, <1>a, <1>c DEF NewDigestContext, AllocSignature
  <2>2. \A r : r \in live' <=> r \in Held'
    BY <2>1, <1>a, <1>b, HeldElements DEF Keeps
  <2> QED  BY <2>1, <2>2
<1>8. CASE SubmitInProcess
  <2>1. pc = "create" /\ pc' = "free" /\ Keeps
    BY <1>8, <1>c DEF SubmitInProcess
  <2>2. AllTxs \subseteq live
    BY <2>1, <1>a, HeldElements DEF AllTxs
  <2>3. live' = live /\ misused' = {}
    BY <1>8, <2>2, <1>a DEF SubmitInProcess
  <2>4. \A r : r \in live' <=> r \in Held'
    BY <2>1, <2>3, <1>a, <1>b, HeldElements DEF Keeps
  <2> QED  BY <2>3, <2>4
<1>9. CASE AllocPackArrays
  <2>1. pc = "create" /\ pc' = "pack" /\ Keeps /\ live' = live \cup PackArrays /\ misused' = {}
    BY <1>9, <1>a, <1>c DEF AllocPackArrays
  <2>2. \A r : r \in live' <=> r \in Held'
    BY <2>1, <1>a, <1>b, HeldElements DEF Keeps
  <2> QED  BY <2>1, <2>2
<1>10. CASE PackTx
  <2>1. pc = "pack" /\ pc' = pc /\ Keeps
    BY <1>10 DEF PackTx, txs_in_batch, socket, Keeps
  <2>2. Len(pb_arr) + 1 \in 1..txs_in_batch
    BY <1>10, <1>a DEF PackTx, IInv, TypeOK
  <2>3. PackArrays \cup {Tx(Len(pb_arr) + 1)} \subseteq live
    BY <2>1, <2>2, <1>a, HeldElements
  <2>4. live' = live /\ misused' = {}
    BY <1>10, <2>3, <1>a DEF PackTx
  <2>5. \A r : r \in live' <=> r \in Held'
    BY <2>1, <2>4, <1>a, <1>b, HeldElements DEF Keeps
  <2> QED  BY <2>4, <2>5
<1>11. CASE SendMessage
  <2>1. pc = "pack" /\ pc' = "recv" /\ SameTxs /\ stage # "verify" /\ stage' # "verify"
    BY <1>11, <1>d DEF SendMessage, txs_in_batch
  <2>2. PackArrays \cup AllTxs \subseteq live
    BY <2>1, <1>a, HeldElements DEF AllTxs
  <2>3. live' = live /\ misused' = {}
    BY <1>11, <2>2, <1>a DEF SendMessage
  <2>4. \A r : r \in live' <=> r \in Held'
    BY <2>1, <2>3, <1>a, <1>b, HeldElements DEF SameTxs
  <2> QED  BY <2>3, <2>4
<1>12. CASE Unpacks
  <2>1. /\ stage = "sent" /\ stage' = "verify" /\ pc' = pc /\ SameTxs
        /\ live' = live \cup {One("batch")} /\ misused' = {}
    BY <1>12, <1>a, <1>c, <1>d DEF Unpacks
  <2>2. \A r : r \in live' <=> r \in Held'
    BY <2>1, <1>a, <1>b, <1>d, HeldElements DEF SameTxs
  <2> QED  BY <2>1, <2>2
<1>13. CASE UnpackFails
  <2>1. /\ stage = "sent" /\ stage' = "answered" /\ pc' = pc /\ SameTxs
        /\ live' = live /\ misused' = {}
    BY <1>13, <1>a, <1>c DEF UnpackFails, resourceVars
  <2>2. \A r : r \in live' <=> r \in Held'
    BY <2>1, <1>a, <1>b, <1>d, HeldElements DEF SameTxs
  <2> QED  BY <2>1, <2>2
<1>14. CASE VerifyTx
  <2>1. stage = "verify" /\ pc' = pc /\ Keeps
    BY <1>14, <1>c DEF VerifyTx
  <2>2. One("batch") \in live
    BY <2>1, <1>a, <1>d, HeldElements
  <2>3. live' = live /\ misused' = {}
    BY <1>14, <2>2, <1>a DEF VerifyTx
  <2>4. \A r : r \in live' <=> r \in Held'
    BY <2>1, <2>3, <1>a, <1>b, <1>d, HeldElements DEF Keeps
  <2> QED  BY <2>3, <2>4
<1>15. CASE FreeBatch
  <2>1. stage = "verify" /\ stage' = "answered" /\ pc' = pc /\ SameTxs
    BY <1>15, <1>c DEF FreeBatch
  <2>2. One("batch") \in live
    BY <2>1, <1>a, <1>d, HeldElements
  <2>3. live' = live \ {One("batch")} /\ misused' = {}
    BY <1>15, <2>2, <1>a DEF FreeBatch
  <2>4. \A r : r \in live' <=> r \in Held'
    BY <2>1, <2>3, <1>a, <1>b, <1>d, HeldElements, Distinct DEF SameTxs, PackArrays
  <2> QED  BY <2>3, <2>4
<1>16. CASE ReadReply \/ TimeOut
  <2>1. pc = "recv" /\ pc' = "free" /\ Keeps
    BY <1>16, <1>c DEF ReadReply, TimeOut, Keeps
  <2>2. PackArrays \subseteq live
    BY <2>1, <1>a, HeldElements
  <2>3. live' = live \ PackArrays /\ misused' = {}
    BY <1>16, <2>2, <1>a DEF ReadReply, TimeOut
  <2>4. \A r : r \in live' <=> r \in Held'
    BY <2>1, <2>3, <1>a, <1>b, HeldElements, Distinct DEF Keeps, PackArrays
  <2> QED  BY <2>3, <2>4
<1>17. CASE FreeTxs
  <2>1. pc = "free" /\ pc' = "done" /\ Keeps
    BY <1>17, <1>c DEF FreeTxs
  <2>2. AllTxs \cup {One("raw_txs")} \subseteq live
    BY <2>1, <1>a, HeldElements DEF AllTxs
  <2>3. live' = live \ (AllTxs \cup {One("raw_txs")}) /\ misused' = {}
    BY <1>17, <2>2, <1>a DEF FreeTxs
  <2>4. \A r : r \in live' <=> r \in Held'
    BY <2>1, <2>3, <1>a, <1>b, HeldElements, Distinct DEF Keeps, AllTxs
  <2> QED  BY <2>3, <2>4
<1>18. CASE Ended \/ UNCHANGED vars
  <2>1. pc' = pc /\ Keeps /\ live' = live /\ misused' = {}
    BY <1>18, <1>a, <1>c DEF Ended, vars, resourceVars
  <2>2. pc # "exited" => \A r : r \in live' <=> r \in Held'
    BY <2>1, <1>a, <1>b, HeldElements DEF Keeps
  <2> QED  BY <2>1, <2>2
<1> QED
  BY <1>1, <1>2, <1>3, <1>4, <1>5, <1>6, <1>7, <1>8, <1>9, <1>10, <1>11, <1>12, <1>13, <1>14,
     <1>15, <1>16, <1>17, <1>18 DEF Next

-----------------------------------------------------------------------------
(* The transactions                                                         *)

(* A transaction is created unsigned, with the nonce that is its own.        *)
LEMMA CreatedByCreateTx ==
    ASSUME IInv, CreateTx
    PROVE  CreatedInv'
<1> DEFINE n == txs_in_batch
           tx == NewTx(from_addr, to_addr, amount, FEE, (nonce + n) % (UINT64_MAX + 1), EXPIRY)
<1>1. n \in Nat /\ raw_txs \in Seq(Txs) /\ n < batch_count /\ nonce \in Int /\ batch_count \in Nat
  BY BatchWorkAssumption, TransactionAssumption
     DEF IInv, TypeOK, txs_in_batch, CreateTx, uint64, uint32
<1>2. tx \in Txs
  BY <1>1, NewTxType DEF IInv
<1>3. tx.nonce = (nonce + n) % (UINT64_MAX + 1) /\ tx.signature = ZERO
  BY DEF NewTx
<1>4. raw_txs' = Append(raw_txs, tx) /\ nonce' = nonce /\ pc' = "sign"
  BY DEF CreateTx, options
<1> HIDE DEF tx
<1>5. txs_in_batch' = n + 1
  BY <1>1, <1>2, <1>4 DEF txs_in_batch
<1>6. ASSUME NEW i \in DOMAIN raw_txs'
      PROVE  /\ raw_txs'[i].nonce = (nonce' + i - 1) % (UINT64_MAX + 1)
             /\ raw_txs'[i].signature # ZERO
                   => raw_txs'[i].signature.hash = compute_hash(raw_txs'[i])
  <2>1. CASE i \in DOMAIN raw_txs
    <3>1. raw_txs'[i] = raw_txs[i]
      BY <1>1, <1>2, <1>4, <2>1
    <3> QED  BY <3>1, <1>4, <2>1 DEF IInv, CreatedInv
  <2>2. CASE i = n + 1
    <3>1. raw_txs'[i] = tx
      BY <1>1, <1>2, <1>4, <2>2 DEF txs_in_batch
    <3>2. nonce + n = nonce + i - 1
      BY <1>1, <2>2
    <3> QED  BY <1>3, <1>4, <3>1, <3>2
  <2> QED  BY <2>1, <2>2, <1>1, <1>2, <1>4 DEF txs_in_batch
<1> QED  BY <1>1, <1>4, <1>5, <1>6 DEF CreatedInv, Creating

(* Signing puts the transaction's own hash in its signature.                *)
LEMMA CreatedBySigning ==
    ASSUME IInv, NEW way, SignedAs(way), txs_in_batch > 0, nonce' = nonce
    PROVE  CreatedInv'
<1> DEFINE n == txs_in_batch
           sig == Signature(way, from_addr, raw_txs[n])
<1>1. n \in DOMAIN raw_txs /\ raw_txs[n] \in Txs /\ raw_txs \in Seq(Txs)
  BY DEF IInv, TypeOK, txs_in_batch
<1>2. raw_txs' = [raw_txs EXCEPT ![n] = [raw_txs[n] EXCEPT !.signature = sig]]
  BY <1>1 DEF SignedAs
<1>3. sig.hash = compute_hash(raw_txs[n])
  BY DEF Signature
<1> HIDE DEF sig
<1>4. compute_hash([raw_txs[n] EXCEPT !.signature = sig]) = compute_hash(raw_txs[n])
  BY <1>1 DEF compute_hash, Txs
<1>5. /\ [raw_txs[n] EXCEPT !.signature = sig].nonce = raw_txs[n].nonce
      /\ [raw_txs[n] EXCEPT !.signature = sig].signature = sig
  BY <1>1 DEF Txs
<1>6. \A i \in DOMAIN raw_txs' :
          /\ raw_txs'[i].nonce = (nonce + i - 1) % (UINT64_MAX + 1)
          /\ raw_txs'[i].signature # ZERO => raw_txs'[i].signature.hash = compute_hash(raw_txs'[i])
  BY <1>1, <1>2, <1>3, <1>4, <1>5 DEF IInv, CreatedInv
<1>7. txs_in_batch' = txs_in_batch /\ pc' = "create"
  BY SignedKeeps DEF IInv
<1> QED  BY <1>6, <1>7 DEF IInv, CreatedInv, Creating

(* Every step keeps the transactions as they were created and signed.        *)
LEMMA CreatedNext == IInv /\ [Next]_vars => CreatedInv'
<1> SUFFICES ASSUME IInv, [Next]_vars PROVE CreatedInv'
  OBVIOUS
<1>a. txs_in_batch \in Nat /\ txs_in_batch <= batch_count
  BY DEF IInv, TypeOK, CreatedInv, txs_in_batch
<1>1. CASE CreateTx
  BY <1>1, CreatedByCreateTx
<1>2. CASE SignWithoutKey \/ DigestFails \/ FinalSign
  <2>1. txs_in_batch > 0
    BY <1>2 DEF IInv, CreatedInv, SignWithoutKey, DigestFails, FinalSign
  <2>2. \E way : SignedAs(way)
    BY <1>2 DEF SignWithoutKey, DigestFails, FinalSign
  <2>3. nonce' = nonce
    BY <2>2 DEF SignedAs, options
  <2> QED  BY <2>1, <2>2, <2>3, CreatedBySigning
<1>3. CASE raw_txs' = raw_txs /\ nonce' = nonce /\ ~CreateTx
  <2>1. /\ pc' = "begin" => pc = "begin"
        /\ pc' \in {"sign", "digest", "final"} => pc \in {"sign", "digest", "final"}
        /\ pc' \notin Creating \cup {"exited"} =>
              \/ pc \notin Creating \cup {"exited"}
              \/ txs_in_batch = batch_count
    BY <1>3 DEF Next, OutOfMemory, BeginBatch, SignWithoutKey, NoDigestContext, NewDigestContext,
                DigestFails, AllocSignature, FinalSign, SignedAs, SubmitInProcess, AllocPackArrays,
                PackTx, SendMessage, Unpacks, UnpackFails, VerifyTx, FreeBatch, ReadReply, TimeOut, FreeTxs,
                Ended, vars, Creating
  <2>2. txs_in_batch' = txs_in_batch
    BY <1>3 DEF txs_in_batch
  <2> QED  BY <1>3, <2>1, <2>2 DEF IInv, CreatedInv
<1>4. \/ CreateTx \/ SignWithoutKey \/ DigestFails \/ FinalSign
      \/ raw_txs' = raw_txs /\ nonce' = nonce
  BY DEF Next, OutOfMemory, BeginBatch, NoDigestContext, NewDigestContext,
         AllocSignature, SubmitInProcess, AllocPackArrays,
         PackTx, SendMessage, Unpacks, UnpackFails, VerifyTx, FreeBatch, ReadReply, TimeOut, FreeTxs,
         Ended, vars, outgoing, options
<1> QED  BY <1>1, <1>2, <1>3, <1>4

(* Every step keeps the messages those of the transactions, and their size   *)
(* within bounds.                                                           *)
LEMMA PackedNext == IInv /\ [Next]_vars => PackedInv'
<1> SUFFICES ASSUME IInv, [Next]_vars PROVE PackedInv'
  OBVIOUS
<1>a. /\ txs_in_batch \in Nat /\ pb_arr \in Seq(Pbs) /\ raw_txs \in Seq(Txs)
      /\ pb_size \in Nat /\ Len(pb_arr) \in Nat
  BY DEF IInv, TypeOK, txs_in_batch
<1>1. CASE pc \in Creating \cup {"exited"} /\ pb_arr' = pb_arr /\ pb_size' = pb_size
               /\ txs_in_batch' >= txs_in_batch /\ txs_in_batch' \in Nat
  <2>1. /\ pc \in Creating => pb_arr = <<>>
        /\ stage = "unsent"
    BY <1>1 DEF IInv, PackedInv
  <2>2. pc' \in Creating \cup {"pack", "free", "exited"} /\ stage' = "unsent"
    BY <1>1, <2>1 DEF Next, OutOfMemory, BeginBatch, CreateTx, SignWithoutKey, NoDigestContext,
                NewDigestContext, DigestFails, AllocSignature, FinalSign, SignedAs, SubmitInProcess,
                AllocPackArrays, PackTx, SendMessage, Unpacks, UnpackFails, VerifyTx, FreeBatch,
                ReadReply, TimeOut, FreeTxs, Ended, vars, socket, Creating
  <2>3. pc = "exited" => pc' = pc /\ raw_txs' = raw_txs
    BY <2>1 DEF Next, OutOfMemory, BeginBatch, CreateTx, SignWithoutKey, NoDigestContext,
                NewDigestContext, DigestFails, AllocSignature, FinalSign, SignedAs, SubmitInProcess,
                AllocPackArrays, PackTx, SendMessage, Unpacks, UnpackFails, VerifyTx, FreeBatch,
                ReadReply, TimeOut, FreeTxs, Ended, vars, socket, Creating, outgoing
  <2>4. CASE pc \in Creating
    BY <1>1, <1>a, <2>1, <2>2, <2>4 DEF IInv, PackedInv, Creating
  <2>5. CASE pc = "exited"
    BY <1>1, <1>a, <2>2, <2>3, <2>5 DEF IInv, PackedInv, Creating
  <2> QED  BY <1>1, <2>4, <2>5
<1>2. CASE PackTx
  <2> DEFINE i == Len(pb_arr) + 1
             tx == raw_txs[i]
  <2>1. tx \in Txs /\ i \in DOMAIN raw_txs /\ i <= txs_in_batch
    BY <1>2, <1>a DEF PackTx, txs_in_batch
  <2>2. /\ pb_arr' = Append(pb_arr, pb_of(tx)) /\ pb_size' = pb_size + ElementSize(pb_of(tx))
        /\ raw_txs' = raw_txs /\ pc' = "pack" /\ stage' = "unsent"
    BY <1>2 DEF PackTx, socket, IInv, PackedInv
  <2>3. pb_of(tx) \in Pbs
    BY <2>1, PbType
  <2>4. /\ ElementSize(pb_of(tx)) \in Nat /\ MAX_ELEMENT \in Nat
        /\ ElementSize(pb_of(tx)) <= MAX_ELEMENT
    BY <2>1, ElementFits
  <2>5. Len(pb_arr') = Len(pb_arr) + 1 /\ txs_in_batch' = txs_in_batch
    BY <2>2, <2>3, <1>a DEF txs_in_batch
  <2>6. pb_size' <= Len(pb_arr') * MAX_ELEMENT
    <3>1. pb_size <= Len(pb_arr) * MAX_ELEMENT
      BY DEF IInv, PackedInv
    <3>2. (Len(pb_arr) + 1) * MAX_ELEMENT = Len(pb_arr) * MAX_ELEMENT + MAX_ELEMENT
      BY <1>a, <2>4
    <3>3. Len(pb_arr) * MAX_ELEMENT \in Nat
      BY <1>a, <2>4
    <3> HIDE DEF tx
    <3> QED  BY <3>1, <3>2, <3>3, <2>2, <2>4, <2>5, <1>a
  <2>7. \A k \in DOMAIN pb_arr' : pb_arr'[k] = pb_of(raw_txs'[k])
    <3>1. \A k \in DOMAIN pb_arr : pb_arr[k] = pb_of(raw_txs[k])
      BY DEF IInv, PackedInv
    <3> QED  BY <3>1, <2>2, <2>3, <1>a
  <2> QED  BY <2>1, <2>2, <2>5, <2>6, <2>7, <1>a DEF PackedInv, Creating
<1>3. CASE pb_arr' = pb_arr /\ pb_size' = pb_size /\ raw_txs' = raw_txs
               /\ pc \notin Creating \cup {"exited"}
  <2>1. txs_in_batch' = txs_in_batch
    BY <1>3 DEF txs_in_batch
  <2>2. /\ pc' \notin Creating
        /\ pc' \in {"pack", "exited"} => pc = "pack" /\ stage' = stage
    BY <1>3 DEF Next, OutOfMemory, BeginBatch, CreateTx, SignWithoutKey, NoDigestContext,
                NewDigestContext, DigestFails, AllocSignature, FinalSign, SignedAs, SubmitInProcess,
                AllocPackArrays, PackTx, SendMessage, Unpacks, UnpackFails, VerifyTx, FreeBatch,
                ReadReply, TimeOut, FreeTxs, Ended, vars, socket, Creating, IInv, PackedInv
  <2>3. pc' = "recv" \/ stage' # "unsent" =>
            pc = "recv" \/ stage # "unsent" \/ Len(pb_arr) = txs_in_batch
    BY <1>3 DEF Next, OutOfMemory, BeginBatch, CreateTx, SignWithoutKey, NoDigestContext,
                NewDigestContext, DigestFails, AllocSignature, FinalSign, SignedAs, SubmitInProcess,
                AllocPackArrays, PackTx, SendMessage, Unpacks, UnpackFails, VerifyTx, FreeBatch,
                ReadReply, TimeOut, FreeTxs, Ended, vars, socket, Creating
  <2>4. stage' = "sent" => message' = PackBatch(pb_arr) \/ (stage = "sent" /\ message' = message)
    <3>1. stage' = "sent" => SendMessage \/ (stage = "sent" /\ outgoing' = outgoing)
      BY <1>3 DEF Next, OutOfMemory, BeginBatch, CreateTx, SignWithoutKey, NoDigestContext,
                NewDigestContext, DigestFails, AllocSignature, FinalSign, SignedAs, SubmitInProcess,
                AllocPackArrays, PackTx, SendMessage, Unpacks, UnpackFails, VerifyTx, FreeBatch,
                ReadReply, TimeOut, FreeTxs, Ended, vars, socket, Creating
    <3>2. SendMessage /\ stage' = "sent" => message' = PackBatch(pb_arr) \/ (stage = "sent" /\ message' = message)
      BY DEF SendMessage
    <3> QED  BY <3>1, <3>2 DEF outgoing
  <2> QED  BY <1>3, <2>1, <2>2, <2>3, <2>4 DEF IInv, PackedInv
<1>4. (pb_arr' = pb_arr /\ pb_size' = pb_size /\ raw_txs' = raw_txs) \/ PackTx
        \/ (/\ pc \in Creating /\ pb_arr' = pb_arr /\ pb_size' = pb_size
            /\ txs_in_batch' >= txs_in_batch /\ txs_in_batch' \in Nat)
  <2>1. CASE CreateTx
    <3>1. txs_in_batch' = txs_in_batch + 1
      BY <2>1, <1>a DEF CreateTx, txs_in_batch
    <3> QED  BY <2>1, <3>1, <1>a DEF CreateTx, Creating
  <2>2. CASE SignWithoutKey \/ DigestFails \/ FinalSign
    <3>1. pc \in Creating
      BY <2>2 DEF SignWithoutKey, DigestFails, FinalSign, Creating
    <3>2. \E way : SignedAs(way)
      BY <2>2 DEF SignWithoutKey, DigestFails, FinalSign
    <3>3. txs_in_batch' = txs_in_batch
      BY <3>2, SignedKeeps DEF IInv
    <3>4. pb_arr' = pb_arr /\ pb_size' = pb_size
      BY <3>2 DEF SignedAs
    <3> QED  BY <3>1, <3>3, <3>4, <1>a
  <2>3. CASE ~(CreateTx \/ SignWithoutKey \/ DigestFails \/ FinalSign \/ PackTx)
    BY <2>3 DEF Next, OutOfMemory, BeginBatch, NoDigestContext, NewDigestContext,
                AllocSignature, SubmitInProcess, AllocPackArrays,
                SendMessage, Unpacks, UnpackFails, VerifyTx, FreeBatch, ReadReply, TimeOut, FreeTxs,
                Ended, vars, outgoing
  <2> QED  BY <2>1, <2>2, <2>3
<1>5. pb_arr' = pb_arr /\ pb_size' = pb_size /\ raw_txs' = raw_txs
          => txs_in_batch' >= txs_in_batch /\ txs_in_batch' \in Nat
  BY <1>a DEF txs_in_batch
<1> QED  BY <1>1, <1>2, <1>3, <1>4, <1>5

-----------------------------------------------------------------------------
(* The verdicts                                                             *)

(* A rejected transaction is one that was not signed.                       *)
LEMMA RejectedIsUnsigned ==
    ASSUME NEW tx \in Txs
    PROVE  ~verify(tx) <=> tx.signature = ZERO
BY BatchWorkAssumption DEF verify, is_coinbase, is_zero, Txs

(* The rejected are finitely many.                                          *)
LEMMA RejectedFinite == IInv => IsFiniteSet(Rejected)
<1> SUFFICES ASSUME IInv PROVE IsFiniteSet(Rejected)
  OBVIOUS
<1>1. Len(received) \in Nat /\ Rejected \subseteq 1..Len(received)
  BY DEF IInv, TypeOK, Rejected
<1>2. IsFiniteSet(1..Len(received))
  BY <1>1, FS_Interval
<1> QED  BY <1>1, <1>2, FS_Subset

(* The verdict on the next transaction is added to the others.              *)
LEMMA VerdictByVerifyTx ==
    ASSUME IInv, VerifyTx
    PROVE  VerdictInv'
<1> DEFINE i == Len(received) + 1
           tx == raw_txs[i]
<1>1. /\ stage = "verify" /\ stage' = "verify" /\ batch' = batch /\ submitted' = submitted
      /\ raw_txs' = raw_txs /\ pb_arr' = pb_arr /\ g_verify' = g_verify
      /\ Len(received) < Len(batch)
  BY DEF VerifyTx, socket, options, outgoing
<1>2. i \in DOMAIN raw_txs /\ tx \in Txs /\ pb_to_tx(batch[i]) = tx
  BY <1>1, NextReceived
<1>3. /\ received \in Seq(Txs) /\ batch \in Seq(Pbs) /\ accepted \in Nat /\ rejected \in Nat
  BY DEF IInv, TypeOK
<1>4. /\ received' = Append(received, tx)
      /\ (g_verify /\ ~verify(tx)) => rejected' = rejected + 1 /\ accepted' = accepted
      /\ ~(g_verify /\ ~verify(tx)) => rejected' = rejected /\ accepted' = accepted + 1
  BY <1>2 DEF VerifyTx
<1> HIDE DEF tx
<1>5. /\ Len(received') = i
      /\ received'[i] = tx /\ \A k \in DOMAIN received : received'[k] = received[k]
      /\ DOMAIN received' = DOMAIN received \cup {i} /\ i \notin DOMAIN received
  BY <1>2, <1>3, <1>4
<1>6. Rejected' = IF g_verify /\ ~verify(tx) THEN Rejected \cup {i} ELSE Rejected
  BY <1>1, <1>5 DEF Rejected
<1>7. i \notin Rejected
  BY <1>5 DEF Rejected
<1>8. rejected' = Cardinality(Rejected')
  BY <1>4, <1>6, <1>7, RejectedFinite, FS_AddElement DEF IInv, VerdictInv
<1>9. accepted' + rejected' = Len(received')
  BY <1>3, <1>4, <1>5 DEF IInv, VerdictInv
<1>10. \A k \in DOMAIN received' : received'[k] = raw_txs'[k]
  BY <1>1, <1>5 DEF IInv, VerdictInv, tx
<1>11. Len(received') <= Len(batch')
  BY <1>1, <1>3, <1>5
<1>12. txs_in_batch' = txs_in_batch
  BY <1>1 DEF txs_in_batch
<1> QED
  BY <1>1, <1>8, <1>9, <1>10, <1>11, <1>12 DEF IInv, VerdictInv

(* Every step keeps the verdicts those the transactions deserve.            *)
LEMMA VerdictNext == IInv /\ [Next]_vars => VerdictInv'
<1> SUFFICES ASSUME IInv, [Next]_vars PROVE VerdictInv'
  OBVIOUS
<1> DEFINE SameVerdicts == UNCHANGED <<batch, received, accepted, rejected, g_verify>>
<1>a. /\ txs_in_batch \in Nat /\ pb_arr \in Seq(Pbs) /\ received \in Seq(Txs)
      /\ batch \in Seq(Pbs) /\ raw_txs \in Seq(Txs) /\ submitted \in Nat
  BY DEF IInv, TypeOK, txs_in_batch
<1>b. SameVerdicts => Rejected' = Rejected
  BY DEF Rejected
<1>1. CASE VerifyTx
  BY <1>1, VerdictByVerifyTx
<1>2. CASE Unpacks
  <2>1. /\ stage = "sent" /\ stage' = "verify" /\ batch' = UnpackBatch(message)
        /\ message = PackBatch(pb_arr) /\ Len(pb_arr) = txs_in_batch /\ txs_in_batch = batch_count
        /\ raw_txs' = raw_txs /\ pb_arr' = pb_arr /\ g_verify' = g_verify
        /\ UNCHANGED <<received, accepted, rejected, submitted>>
    BY <1>2 DEF Unpacks, IInv, PackedInv, CreatedInv, Creating, options, outgoing
  <2>2. pb_arr # <<>>
    BY <2>1, BatchWorkAssumption, TransactionAssumption DEF uint32
  <2>3. \A i \in DOMAIN pb_arr : Unpack(fields, Pack(fields, pb_arr[i])) = pb_arr[i]
    BY PbRoundTrip DEF IInv, PackedInv
  <2>4. batch' = pb_arr
    BY <1>a, <2>1, <2>2, <2>3, BatchRoundTrip
  <2>5. received = <<>> /\ batch = <<>>
    BY <1>a, <2>1 DEF IInv, VerdictInv
  <2>6. Rejected' = Rejected
    BY <2>1 DEF Rejected
  <2>7. txs_in_batch' = txs_in_batch
    BY <2>1 DEF txs_in_batch
  <2> QED  BY <1>a, <2>1, <2>4, <2>5, <2>6, <2>7 DEF IInv, VerdictInv
<1>3. CASE stage = "unsent" /\ SameVerdicts
  <2>1. batch = <<>> /\ received = <<>>
    BY <1>3, <1>a DEF IInv, VerdictInv
  <2>2. stage' \in {"unsent", "sent"} /\ (stage' = "unsent" \/ SendMessage)
    BY <1>3 DEF Next, OutOfMemory, BeginBatch, CreateTx, SignWithoutKey, NoDigestContext,
                NewDigestContext, DigestFails, AllocSignature, FinalSign, SignedAs, SubmitInProcess,
                AllocPackArrays, PackTx, SendMessage, Unpacks, UnpackFails, VerifyTx, FreeBatch,
                ReadReply, TimeOut, FreeTxs, Ended, vars, socket, Creating
  <2>3. submitted' \in {0, txs_in_batch'} /\ (submitted' # 0 => pc' \in Freeing /\ stage' = "unsent")
    <3>a. /\ submitted \in {0, txs_in_batch}
          /\ submitted # 0 => pc \in Freeing
      BY DEF IInv, VerdictInv
    <3>1. CASE SubmitInProcess \/ ReadReply
      <4>1. submitted = 0 /\ submitted' = submitted + txs_in_batch /\ pc' = "free" /\ stage' = stage
            /\ outgoing' = outgoing
        BY <3>1, <3>a DEF SubmitInProcess, ReadReply, Freeing, socket
      <4>2. txs_in_batch' = txs_in_batch
        BY <4>1 DEF outgoing, txs_in_batch
      <4> QED  BY <4>1, <4>2, <1>3, <1>a DEF Freeing
    <3>2. CASE ~(SubmitInProcess \/ ReadReply)
      <4>1. /\ submitted' = submitted
            /\ pc \in Freeing => pc' \in Freeing /\ stage' = stage /\ outgoing' = outgoing
        BY <3>2, <1>3 DEF Next, OutOfMemory, BeginBatch, CreateTx, SignWithoutKey, NoDigestContext,
                NewDigestContext, DigestFails, AllocSignature, FinalSign, SignedAs, SubmitInProcess,
                AllocPackArrays, PackTx, SendMessage, Unpacks, UnpackFails, VerifyTx, FreeBatch,
                ReadReply, TimeOut, FreeTxs, Ended, vars, socket, Creating, Freeing
      <4>2. outgoing' = outgoing => txs_in_batch' = txs_in_batch
        BY DEF outgoing, txs_in_batch
      <4> QED  BY <4>1, <4>2, <3>a, <1>3
    <3> QED  BY <3>1, <3>2
  <2> QED  BY <1>3, <1>b, <2>1, <2>2, <2>3 DEF IInv, VerdictInv
<1>4. CASE stage # "unsent" /\ SameVerdicts
               /\ raw_txs' = raw_txs /\ pb_arr' = pb_arr /\ ~Unpacks /\ ~VerifyTx
  <2>0. pc \notin Creating \cup {"pack", "exited"}
    BY <1>4 DEF IInv, PackedInv
  <2>1. \/ stage' = stage /\ submitted' = submitted /\ (pc' = pc \/ pc' \in Freeing)
        \/ stage = "sent" /\ stage' = "answered" /\ submitted' = submitted /\ pc' = pc
        \/ /\ stage = "verify" /\ Len(received) = Len(batch)
           /\ stage' = "answered" /\ submitted' = submitted /\ pc' = pc
        \/ /\ stage = "answered" /\ stage' = stage
           /\ pc = "recv" /\ pc' = "free" /\ submitted' = submitted + txs_in_batch
    BY <1>4, <2>0 DEF Next, OutOfMemory, BeginBatch, CreateTx, SignWithoutKey, NoDigestContext,
                NewDigestContext, DigestFails, AllocSignature, FinalSign, SignedAs, SubmitInProcess,
                AllocPackArrays, PackTx, SendMessage, Unpacks, UnpackFails, VerifyTx, FreeBatch,
                ReadReply, TimeOut, FreeTxs, Ended, vars, socket, Creating, Freeing
  <2>2. txs_in_batch' = txs_in_batch
    BY <1>4 DEF txs_in_batch
  <2>3. stage = "sent" => received = <<>> /\ batch = <<>>
    BY <1>a DEF IInv, VerdictInv
  <2>4. pc = "recv" => submitted = 0
    BY DEF IInv, VerdictInv, Freeing
  <2> QED  BY <1>4, <1>a, <1>b, <2>1, <2>2, <2>3, <2>4 DEF IInv, VerdictInv, Freeing
<1>5. \/ VerifyTx \/ Unpacks
      \/ SameVerdicts /\ (stage = "unsent" \/ (raw_txs' = raw_txs /\ pb_arr' = pb_arr))
  <2>1. pc \in Creating \cup {"pack"} => stage = "unsent"
    BY DEF IInv, PackedInv
  <2> QED
    BY <2>1 DEF Next, OutOfMemory, BeginBatch, CreateTx, SignWithoutKey, NoDigestContext,
           NewDigestContext, DigestFails, AllocSignature, FinalSign, SignedAs, SubmitInProcess,
           AllocPackArrays, PackTx, SendMessage, Unpacks, UnpackFails, VerifyTx, FreeBatch,
           ReadReply, TimeOut, FreeTxs, Ended, vars, socket, Creating,
           outgoing, incoming, options
<1> QED  BY <1>1, <1>2, <1>3, <1>4, <1>5

-----------------------------------------------------------------------------
(* The theorems                                                             *)

(* Initially nothing is held and nothing has been created.                  *)
LEMMA InvInit == Init => IInv
<1> SUFFICES ASSUME Init PROVE IInv
  OBVIOUS
<1>1. TypeOK
  BY TypeInit
<1>2. HeldInv
  <2>1. \A r : r \notin Held
    BY HeldElements DEF Init, txs_in_batch
  <2> QED  BY <2>1 DEF HeldInv, Init, ResourceInit
<1>3. CreatedInv
  BY BatchWorkAssumption DEF CreatedInv, Init, txs_in_batch, Creating, uint32
<1>4. PackedInv
  <2>1. MAX_ELEMENT \in Nat
    <3>1. NewTx(from_addr, to_addr, amount, FEE, nonce % (UINT64_MAX + 1), EXPIRY) \in Txs
      BY <1>1, NewTxType DEF TypeOK, uint64
    <3> QED  BY <3>1, ElementFits
  <2> QED  BY <2>1 DEF PackedInv, Init, txs_in_batch, Creating
<1>5. VerdictInv
  <2>1. Rejected = {}
    BY DEF Rejected, Init
  <2> QED  BY <2>1, FS_EmptySet DEF VerdictInv, Init, Freeing
<1> QED  BY <1>1, <1>2, <1>3, <1>4, <1>5 DEF IInv

(* What is held and what has become of each transaction is known at every    *)
(* step of a batch.                                                         *)
THEOREM BatchInvariance == Spec => []IInv
<1>1. IInv /\ [Next]_vars => IInv'
  BY TypeNext, HeldNext, CreatedNext, PackedNext, VerdictNext DEF IInv
<1> QED  BY <1>1, InvInit, PTL DEF Spec

(* For a batch of any length, any failure of signing, packing or unpacking   *)
(* and a reply however late, the thread releases what it holds once, and all *)
(* of it, and the receiver does before it answers.                          *)
THEOREM WorkIsTidy == Spec => []ResourcesInOrder
<1>1. IInv => ResourcesInOrder
  <2> SUFFICES ASSUME IInv
               PROVE  /\ misused = {}
                      /\ pc = "done" => live \subseteq {One("batch")}
                      /\ stage # "verify" => One("batch") \notin live
    BY DEF ResourcesInOrder
  <2>1. /\ misused = {} /\ (pc # "exited" => live = Held)
        /\ pc = "exited" => One("batch") \notin live
    BY DEF IInv, HeldInv
  <2>2. pc = "done" => \A r : r \in Held => r = One("batch")
    BY HeldElements
  <2>3. stage # "verify" => One("batch") \notin Held
    BY HeldElements, Distinct DEF PackArrays
  <2> QED  BY <2>1, <2>2, <2>3
<1> QED  BY <1>1, BatchInvariance, PTL

(* For every amount, every nonce and every batch up to the largest whose     *)
(* message the buffer holds, the receiver never gets a message that was cut. *)
THEOREM NoMessageIsCut == Spec => []MessageFits
<1>1. IInv => MessageFits
  <2> SUFFICES ASSUME IInv, stage # "unsent"
               PROVE  MessageSize(pb_size, txs_in_batch) <= RECV_BUF_SIZE - 1
    BY DEF MessageFits
  <2>1. txs_in_batch = batch_count /\ Len(pb_arr) = batch_count /\ pb_size \in Nat
        /\ pb_size <= batch_count * MAX_ELEMENT
    BY DEF IInv, TypeOK, CreatedInv, PackedInv, Creating
  <2>2. batch_count \in Nat /\ batch_count # 0 /\ batch_count <= UINT32_MAX
    BY BatchWorkAssumption, TransactionAssumption DEF uint32
  <2>3. FieldSize("UINT32", batch_count) \in Nat
    BY <2>2, NumberSizes
  <2>4. MAX_ELEMENT \in Nat
    <3>1. NewTx(from_addr, to_addr, amount, FEE, nonce % (UINT64_MAX + 1), EXPIRY) \in Txs
      BY NewTxType DEF IInv, TypeOK, uint64
    <3> QED  BY <3>1, ElementFits
  <2>5. batch_count * MAX_ELEMENT \in Nat
    BY <2>2, <2>4
  <2>6. MessageSize(batch_count * MAX_ELEMENT, batch_count) <= RECV_BUF_SIZE - 1
    BY BatchWorkAssumption
  <2> QED  BY <2>1, <2>3, <2>5, <2>6, BatchWorkAssumption DEF MessageSize, PREFIX_LENGTH
<1> QED  BY <1>1, BatchInvariance, PTL

(* Whatever the values, a transaction is received as it was created.         *)
THEOREM TransactionsArrive == Spec => []ArriveIntact
<1>1. IInv => ArriveIntact
  <2> SUFFICES ASSUME IInv, NEW i \in DOMAIN received
               PROVE  i <= txs_in_batch /\ received[i] = raw_txs[i]
    BY DEF ArriveIntact
  <2>1. Len(received) <= Len(batch) /\ batch \in {<<>>, pb_arr} /\ Len(pb_arr) <= txs_in_batch
        /\ received \in Seq(Txs) /\ txs_in_batch \in Nat /\ pb_arr \in Seq(Pbs)
    BY DEF IInv, TypeOK, PackedInv, VerdictInv, txs_in_batch
  <2> QED  BY <2>1 DEF IInv, VerdictInv
<1> QED  BY <1>1, BatchInvariance, PTL

(* However signing fails, exactly the transactions left unsigned are         *)
(* rejected, and none without --verify.                                     *)
THEOREM UnsignedAreRejected == Spec => []RejectsTheUnsigned
<1>1. IInv => RejectsTheUnsigned
  <2> SUFFICES ASSUME IInv, stage = "answered", received # <<>>
               PROVE  /\ rejected = IF g_verify THEN Cardinality(UnsignedTxs) ELSE 0
                      /\ accepted = txs_in_batch - rejected
    BY DEF RejectsTheUnsigned
  <2>1. /\ received \in Seq(Txs) /\ raw_txs \in Seq(Txs) /\ pb_arr \in Seq(Pbs)
        /\ g_verify \in BOOLEAN /\ accepted \in Nat /\ rejected \in Nat
    BY DEF IInv, TypeOK
  <2>2. Len(received) = Len(raw_txs)
    BY <2>1 DEF IInv, VerdictInv, PackedInv, txs_in_batch
  <2>3. \A i \in DOMAIN received : received[i] = raw_txs[i] /\ raw_txs[i] \in Txs
    BY <2>1, <2>2 DEF IInv, VerdictInv
  <2>4. Rejected = IF g_verify THEN UnsignedTxs ELSE {}
    BY <2>1, <2>2, <2>3, RejectedIsUnsigned DEF Rejected, UnsignedTxs, is_zero
  <2> QED  BY <2>1, <2>2, <2>4, FS_EmptySet DEF IInv, VerdictInv, txs_in_batch
<1> QED  BY <1>1, BatchInvariance, PTL

(* A batch that went to the receiver is counted only once every one of its   *)
(* transactions has a verdict, or the receiver had no memory to unpack it;   *)
(* one that was refused has none, counted on a late reply or not.           *)
THEOREM CountedAreJudged == Spec => []CountedHaveVerdicts
<1>1. IInv => CountedHaveVerdicts
  <2> SUFFICES ASSUME IInv
               PROVE  /\ stage = "unsent" => accepted + rejected = 0
                      /\ submitted > 0 /\ stage # "unsent" =>
                            /\ stage = "answered"
                            /\ \/ accepted + rejected = submitted
                               \/ batch = <<>> /\ accepted + rejected = 0
    BY DEF CountedHaveVerdicts
  <2>1. stage = "unsent" => accepted + rejected = 0
    BY DEF IInv, TypeOK, VerdictInv
  <2>2. ASSUME submitted > 0, stage # "unsent"
        PROVE  /\ stage = "answered"
               /\ accepted + rejected = submitted \/ (batch = <<>> /\ accepted + rejected = 0)
    <3>1. submitted = txs_in_batch /\ stage = "answered"
      BY <2>2 DEF IInv, VerdictInv
    <3>2. accepted + rejected = Len(batch)
      BY <3>1 DEF IInv, VerdictInv
    <3>3. batch = <<>> \/ Len(batch) = txs_in_batch
      BY <2>2 DEF IInv, VerdictInv, PackedInv
    <3> QED  BY <3>1, <3>2, <3>3
  <2> QED  BY <2>1, <2>2
<1> QED  BY <1>1, BatchInvariance, PTL

(* With a 64-bit varint of at most ten bytes, the clamp on --batch and the   *)
(* lengths of the code, the assumption that the largest message fits holds   *)
(* for the receiver's two megabytes (BatchWorkAssumption, receiver.c 27).    *)
THEOREM TwoMegabytesSuffice ==
    ASSUME Cardinality(VARINT_LIMITS) <= 9, batch_count <= 256,
           TX_ADDRESS_LENGTH = 20, TX_SIGNATURE_LENGTH = 48
    PROVE  MessageSize(batch_count * MAX_ELEMENT, batch_count) <= 2097152 - 1
<1> DEFINE E == TransactionSize(LargestPb)
<1>1. ASSUME NEW n PROVE VarintSize(n) \in 1..10
  <2>1. Reached(n) \subseteq VARINT_LIMITS /\ VarintSize(n) = 1 + Cardinality(Reached(n))
    BY DEF Reached, VarintSize
  <2>2. Cardinality(Reached(n)) <= Cardinality(VARINT_LIMITS)
    BY <2>1, FS_Subset, WireAssumption
  <2>3. Cardinality(VARINT_LIMITS) \in Nat
    BY WireAssumption, FS_CardinalityType
  <2> QED  BY <2>1, <2>2, <2>3, ReachedFinite
<1>2. ASSUME NEW type \in {"UINT32", "UINT64"}, NEW n PROVE FieldSize(type, n) \in 0..11
  <2>1. FieldSize(type, n) \in {0, 1 + VarintSize(n)}
    BY DEF FieldSize
  <2> QED  BY <2>1, <1>1
<1>3. ASSUME NEW len \in Nat, NEW x PROVE FieldSize("BYTES", Bytes(len, x)) \in 0..(11 + len)
  <2>1. FieldSize("BYTES", Bytes(len, x)) \in {0, 1 + VarintSize(len) + len}
    BY DEF FieldSize, Bytes
  <2> QED  BY <2>1, <1>1
<1>4. /\ LargestPb.source_address = Bytes(20, from_addr) /\ LargestPb.dest_address = Bytes(20, to_addr)
      /\ LargestPb.signature = Bytes(48, "any")
  BY DEF LargestPb, to_pb, NewTx
<1>5. E \in 0..165
  <2>1. E = FieldSize("UINT64", LargestPb.nonce) + FieldSize("UINT32", LargestPb.expiry_block)
            + FieldSize("BYTES", LargestPb.source_address) + FieldSize("BYTES", LargestPb.dest_address)
            + FieldSize("UINT64", LargestPb.value) + FieldSize("UINT32", LargestPb.fee)
            + FieldSize("BYTES", LargestPb.signature)
    BY SizeIsSum
  <2>2. /\ FieldSize("UINT64", LargestPb.nonce) \in 0..11 /\ FieldSize("UINT32", LargestPb.expiry_block) \in 0..11
        /\ FieldSize("UINT64", LargestPb.value) \in 0..11 /\ FieldSize("UINT32", LargestPb.fee) \in 0..11
    BY <1>2
  <2>3. /\ FieldSize("BYTES", LargestPb.source_address) \in 0..31
        /\ FieldSize("BYTES", LargestPb.dest_address) \in 0..31
        /\ FieldSize("BYTES", LargestPb.signature) \in 0..59
    BY <1>3, <1>4
  <2> HIDE DEF E
  <2> QED  BY <2>1, <2>2, <2>3
<1>6. MAX_ELEMENT \in 0..176
  <2>1. MAX_ELEMENT = 1 + VarintSize(E) + E
    BY DEF MAX_ELEMENT, ElementSize, LargestPb
  <2> QED  BY <1>1, <1>5, <2>1
<1>7. batch_count \in 0..256
  BY BatchWorkAssumption DEF uint32
<1>8. batch_count * MAX_ELEMENT <= 256 * 176
  BY <1>6, <1>7, SMTT(30)
<1>9. batch_count * MAX_ELEMENT \in Nat
  BY <1>6, <1>7
<1>10. FieldSize("UINT32", batch_count) \in 0..11
  BY <1>2
<1> QED  BY <1>8, <1>9, <1>10 DEF MessageSize, PREFIX_LENGTH

(* Two offsets below a modulus lead from one nonce to different ones.        *)
LEMMA OffsetsDiffer ==
    ASSUME NEW max \in Nat, NEW n \in 0..max, NEW i \in 0..max, NEW k \in 0..max,
           (n + i) % (max + 1) = (n + k) % (max + 1)
    PROVE  i = k
<1> DEFINE m == max + 1
           x == n + i
           y == n + k
           Reduced(z) == IF z < m THEN z ELSE z - m
<1>1. ASSUME NEW d \in Nat \ {0}, NEW z \in 0..(2 * d - 1)
      PROVE  z % d = IF z < d THEN z ELSE z - d
  BY Z3
<1>2. m \in Nat \ {0} /\ x \in 0..(2 * m - 1) /\ y \in 0..(2 * m - 1)
  OBVIOUS
<1>3. x % m = y % m
  OBVIOUS
<1>4. i = x - n /\ k = y - n /\ x - n < m /\ y - n < m /\ x - n >= 0 /\ y - n >= 0 /\ n < m
  OBVIOUS
<1> HIDE DEF m, x, y
<1>5. x % m = Reduced(x) /\ y % m = Reduced(y)
  BY <1>1, <1>2
<1>6. x = y
  BY <1>2, <1>3, <1>4, <1>5
<1> QED  BY <1>4, <1>6

(* Two transactions of a batch never carry the same signature: it is made    *)
(* from a hash that has the nonce in it.                                    *)
THEOREM NoSignatureTwice == Spec => []SignaturesDiffer
<1>1. IInv => SignaturesDiffer
  <2> SUFFICES ASSUME IInv, NEW i \in DOMAIN raw_txs \ UnsignedTxs, NEW k \in DOMAIN raw_txs \ UnsignedTxs,
                      raw_txs[i].signature = raw_txs[k].signature
               PROVE  i = k
    BY DEF SignaturesDiffer
  <2>1. raw_txs[i].signature # ZERO /\ raw_txs[k].signature # ZERO
    BY DEF UnsignedTxs, is_zero
  <2>2. compute_hash(raw_txs[i]) = compute_hash(raw_txs[k])
    BY <2>1 DEF IInv, CreatedInv
  <2>3. raw_txs[i].nonce = raw_txs[k].nonce
    BY <2>2 DEF compute_hash
  <2>4. (nonce + i - 1) % (UINT64_MAX + 1) = (nonce + k - 1) % (UINT64_MAX + 1)
    BY <2>3 DEF IInv, CreatedInv
  <2>5. /\ i \in 1..txs_in_batch /\ k \in 1..txs_in_batch
        /\ txs_in_batch \in Nat /\ batch_count \in Nat
        /\ txs_in_batch <= batch_count /\ batch_count <= UINT64_MAX
        /\ UINT64_MAX \in Nat /\ nonce \in 0..UINT64_MAX
    BY BatchWorkAssumption, TransactionAssumption
       DEF IInv, CreatedInv, TypeOK, txs_in_batch, uint32, uint64
  <2>6. /\ i \in Int /\ k \in Int /\ i - 1 \in 0..UINT64_MAX /\ k - 1 \in 0..UINT64_MAX
        /\ nonce + i - 1 = nonce + (i - 1) /\ nonce + k - 1 = nonce + (k - 1)
    BY <2>5
  <2>7. (nonce + (i - 1)) % (UINT64_MAX + 1) = (nonce + (k - 1)) % (UINT64_MAX + 1)
    BY <2>4, <2>6
  <2>8. i - 1 = k - 1
    BY <2>5, <2>6, <2>7, OffsetsDiffer
  <2> QED  BY <2>6, <2>8
<1> QED  BY <1>1, BatchInvariance, PTL
=============================================================================
