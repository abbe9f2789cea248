----------------------- MODULE TransactionLifeProofs -----------------------
(***************************************************************************)
(* What becomes of a transaction, for every account, amount, height and     *)
(* number of blocks: its copies, what is left when its form is cut, and the *)
(* blocks in which it is good.                                              *)
(***************************************************************************)
EXTENDS TransactionLife, TLAPS

-----------------------------------------------------------------------------
(* The fields of a message                                                   *)

(* The seven fields, by number, name and type.                              *)
LEMMA FieldTable ==
    /\ DOMAIN fields = 1..7
    /\ fields[1] = [name |-> "nonce", type |-> "UINT64"]
    /\ fields[2] = [name |-> "expiry_block", type |-> "UINT32"]
    /\ fields[3] = [name |-> "source_address", type |-> "BYTES"]
    /\ fields[4] = [name |-> "dest_address", type |-> "BYTES"]
    /\ fields[5] = [name |-> "value", type |-> "UINT64"]
    /\ fields[6] = [name |-> "fee", type |-> "UINT32"]
    /\ fields[7] = [name |-> "signature", type |-> "BYTES"]
BY DEF fields, transaction__field_descriptors

(* Whatever is on the wire, the reader fills in each field by its number.    *)
LEMMA UnpackedField ==
    ASSUME NEW wire, NEW id \in 1..7
    PROVE  Unpack(fields, wire)[fields[id].name] =
             IF id \in DOMAIN wire THEN wire[id] ELSE Default(fields[id].type)
<1>1. (CHOOSE k \in DOMAIN fields : fields[k].name = fields[id].name) = id
  <2>1. \A k \in 1..7 : fields[k].name = fields[id].name => k = id
    <3>1. id \in {1, 2, 3, 4, 5, 6, 7} /\ \A k \in 1..7 : k \in {1, 2, 3, 4, 5, 6, 7}
      OBVIOUS
    <3> QED BY <3>1, FieldTable
  <2> QED BY <2>1, FieldTable
<1>2. fields[id].name \in {fields[k].name : k \in DOMAIN fields}
  BY FieldTable
<1> QED BY <1>1, <1>2, Zenon DEF Unpack

(* The writer puts on the wire the fields that are present.                  *)
LEMMA PackedField ==
    ASSUME NEW pb, NEW id \in 1..7
    PROVE  /\ id \in DOMAIN Pack(fields, pb) <=> Present(fields[id].type, pb[fields[id].name])
           /\ id \in DOMAIN Pack(fields, pb) => Pack(fields, pb)[id] = pb[fields[id].name]
BY FieldTable DEF Pack

-----------------------------------------------------------------------------
(* Transactions                                                              *)

Signatures ==
    [way : {"key", "address", "source"}, signer : Accounts,
     hash : uint64 \X uint32 \X Accounts \X Accounts \X uint64 \X uint32]

Txs ==
    [nonce : uint64, expiry_block : uint32,
     source_address : Accounts \cup {COINBASE_ADDRESS}, dest_address : Accounts,
     value : uint64, fee : uint32, signature : Signatures \cup {ZERO}]

(* The message of a transaction, field by field.                            *)
LEMMA MessageFields ==
    ASSUME NEW t \in Txs
    PROVE  /\ to_pb(t).nonce = t.nonce /\ to_pb(t).expiry_block = t.expiry_block
           /\ to_pb(t).value = t.value /\ to_pb(t).fee = t.fee
           /\ to_pb(t).source_address = [len |-> TX_ADDRESS_LENGTH, data |-> t.source_address]
           /\ to_pb(t).dest_address = [len |-> TX_ADDRESS_LENGTH, data |-> t.dest_address]
           /\ to_pb(t).signature = IF t.signature = ZERO THEN [len |-> 0, data |-> ZERO]
                                   ELSE [len |-> TX_SIGNATURE_LENGTH, data |-> t.signature]
BY DEF to_pb, Bytes, is_zero

(* Every field of a transaction's message arrives as it was: what is left    *)
(* out is what the reader puts there.                                        *)
LEMMA FieldArrives ==
    ASSUME NEW t \in Txs, NEW id \in 1..7
    PROVE  LET name == fields[id].name
           IN  Unpack(fields, Pack(fields, to_pb(t)))[name] = to_pb(t)[name]
<1> DEFINE pb == to_pb(t)
           name == fields[id].name
           type == fields[id].type
<1>1. TX_ADDRESS_LENGTH # 0 /\ TX_SIGNATURE_LENGTH # 0
  BY TransactionAssumption
<1>2. Present(type, pb[name]) \/ pb[name] = Default(type)
  <2>1. id \in {1, 2, 3, 4, 5, 6, 7}
    OBVIOUS
  <2>a. /\ pb.source_address = [len |-> TX_ADDRESS_LENGTH, data |-> t.source_address]
        /\ pb.dest_address = [len |-> TX_ADDRESS_LENGTH, data |-> t.dest_address]
        /\ pb.signature = IF t.signature = ZERO THEN [len |-> 0, data |-> ZERO]
                          ELSE [len |-> TX_SIGNATURE_LENGTH, data |-> t.signature]
    BY MessageFields, Zenon
  <2>2. /\ pb.source_address.len = TX_ADDRESS_LENGTH
        /\ pb.dest_address.len = TX_ADDRESS_LENGTH
        /\ (pb.signature = [len |-> 0, data |-> ZERO] \/ pb.signature.len = TX_SIGNATURE_LENGTH)
    <3> HIDE DEF pb
    <3> QED BY <2>a
  <2> HIDE DEF pb
  <2> QED BY <1>1, <2>1, <2>2, FieldTable DEF Present, Default, Bytes
<1>3. /\ id \in DOMAIN Pack(fields, pb) <=> Present(type, pb[name])
      /\ id \in DOMAIN Pack(fields, pb) => Pack(fields, pb)[id] = pb[name]
  BY PackedField
<1>4. Unpack(fields, Pack(fields, pb))[name] =
        IF id \in DOMAIN Pack(fields, pb) THEN Pack(fields, pb)[id] ELSE Default(type)
  BY UnpackedField
<1> HIDE DEF pb, name, type
<1>5. Unpack(fields, Pack(fields, pb))[name] = pb[name]
  BY <1>2, <1>3, <1>4
<1> QED BY <1>5 DEF pb, name

(* Written to protobuf and read back, a transaction is what it was.          *)
LEMMA PbCopy ==
    ASSUME NEW t \in Txs
    PROVE  from_pb(Unpack(fields, Pack(fields, to_pb(t)))) = t
<1> DEFINE pb == to_pb(t)
           read == Unpack(fields, Pack(fields, to_pb(t)))
<1>1. \A id \in 1..7 : read[fields[id].name] = pb[fields[id].name]
  BY FieldArrives
<1>2. /\ read.nonce = pb.nonce /\ read.expiry_block = pb.expiry_block
      /\ read.source_address = pb.source_address /\ read.dest_address = pb.dest_address
      /\ read.value = pb.value /\ read.fee = pb.fee /\ read.signature = pb.signature
  <2>1. /\ 1 \in 1..7 /\ 2 \in 1..7 /\ 3 \in 1..7 /\ 4 \in 1..7 /\ 5 \in 1..7 /\ 6 \in 1..7
        /\ 7 \in 1..7
    OBVIOUS
  <2> HIDE DEF read, pb
  <2> QED BY <1>1, <2>1, FieldTable
<1>a. TX_ADDRESS_LENGTH \in Nat \ {0} /\ TX_SIGNATURE_LENGTH \in Nat \ {0}
  BY TransactionAssumption
<1>3. AddressOf(pb.source_address) = t.source_address /\ AddressOf(pb.dest_address) = t.dest_address
  <2>1. \A data : AddressOf([len |-> TX_ADDRESS_LENGTH, data |-> data]) = data
    BY <1>a DEF AddressOf
  <2> QED BY <2>1, MessageFields
<1>4. SignatureOf(pb.signature) = t.signature
  <2>1. /\ SignatureOf([len |-> 0, data |-> ZERO]) = ZERO
        /\ \A data : SignatureOf([len |-> TX_SIGNATURE_LENGTH, data |-> data]) = data
    BY <1>a DEF SignatureOf
  <2> QED BY <2>1, MessageFields
<1>5. /\ pb.nonce = t.nonce /\ pb.expiry_block = t.expiry_block
      /\ pb.value = t.value /\ pb.fee = t.fee
  BY MessageFields
<1> HIDE DEF pb, read
<1>6. from_pb(read) =
        [nonce |-> t.nonce, expiry_block |-> t.expiry_block,
         source_address |-> t.source_address, dest_address |-> t.dest_address,
         value |-> t.value, fee |-> t.fee, signature |-> t.signature]
  BY <1>2, <1>3, <1>4, <1>5 DEF from_pb
<1>7. from_pb(read) = t
  BY <1>6 DEF Txs
<1> QED BY <1>7 DEF read

(* A message that lost its end between two fields reads as a transaction      *)
(* that has no signature and, unless it was one, is no coinbase.             *)
LEMMA CutCopy ==
    ASSUME NEW t \in Txs, ~is_coinbase(t),
           NEW first \in DOMAIN Pack(fields, to_pb(t)),
           NEW wire, wire = [id \in {k \in DOMAIN Pack(fields, to_pb(t)) : k < first} |->
                                Pack(fields, to_pb(t))[id]]
    PROVE  ~verify(from_pb(Unpack(fields, wire)))
<1> DEFINE whole == Pack(fields, to_pb(t))
           read == Unpack(fields, wire)
<1>1. DOMAIN whole \subseteq 1..7
  BY FieldTable DEF Pack
<1>2. 7 \notin DOMAIN wire
  BY <1>1
<1>3. 3 \in DOMAIN wire => wire[3] = [len |-> TX_ADDRESS_LENGTH, data |-> t.source_address]
  <2>1. 3 \in DOMAIN whole => whole[3] = to_pb(t).source_address
    BY PackedField, FieldTable
  <2>2. 3 \in DOMAIN wire => 3 \in DOMAIN whole /\ wire[3] = whole[3]
    OBVIOUS
  <2> HIDE DEF whole
  <2> QED BY <2>1, <2>2, MessageFields
<1>4. /\ read.signature = IF 7 \in DOMAIN wire THEN wire[7] ELSE Default("BYTES")
      /\ read.source_address = IF 3 \in DOMAIN wire THEN wire[3] ELSE Default("BYTES")
  <2>1. 3 \in 1..7 /\ 7 \in 1..7
    OBVIOUS
  <2> QED BY <2>1, UnpackedField, FieldTable
<1>5. Default("BYTES") = [len |-> 0, data |-> ZERO]
  BY DEF Default, Bytes
<1> HIDE DEF read
<1>6. SignatureOf(read.signature) = ZERO
  BY <1>2, <1>4, <1>5 DEF SignatureOf
<1>7. AddressOf(read.source_address) # COINBASE_ADDRESS
  BY <1>3, <1>4, <1>5, TransactionAssumption DEF AddressOf, is_coinbase
<1>8. ~verify(from_pb(read))
  BY <1>6, <1>7 DEF verify, from_pb, is_coinbase, is_zero
<1> QED BY <1>8 DEF read

-----------------------------------------------------------------------------
(* Hexadecimal text                                                          *)

(* A byte is made of two digits.                                            *)
LEMMA TwoDigits ==
    ASSUME NEW b \in Byte
    PROVE  b \div 16 \in 0..15 /\ b % 16 \in 0..15 /\ 16 * (b \div 16) + (b % 16) = b
BY SMT DEF Byte

(* The text of so many bytes has two digits for each, all lower case.        *)
LEMMA TextOfBytes ==
    ASSUME NEW n \in Nat, NEW b \in [1..n -> Byte]
    PROVE  /\ bytes_to_hex_buf(b) \in Seq(HexDigit)
           /\ Len(bytes_to_hex_buf(b)) = 2 * n
           /\ \A i \in 1..n :
                 /\ bytes_to_hex_buf(b)[2 * i - 1] = b[i] \div 16 /\ b[i] \div 16 \in 0..15
                 /\ bytes_to_hex_buf(b)[2 * i] = b[i] % 16 /\ b[i] % 16 \in 0..15
<1> DEFINE hex == bytes_to_hex_buf(b)
           digit(k) == IF k % 2 = 1 THEN b[(k + 1) \div 2] \div 16 ELSE b[k \div 2] % 16
<1>1. Len(b) = n /\ 2 * n \in Nat
  OBVIOUS
<1>2. hex = [k \in 1..(2 * n) |-> digit(k)]
  BY <1>1, Zenon DEF bytes_to_hex_buf
<1>3. ASSUME NEW k \in 1..(2 * n)
      PROVE  digit(k) \in HexDigit
  <2>1. CASE k % 2 = 1
    <3>1. (k + 1) \div 2 \in 1..n
      BY <2>1, SMT
    <3>2. b[(k + 1) \div 2] \in Byte
      BY <3>1
    <3> QED BY <2>1, <3>2, TwoDigits, SMT DEF HexDigit
  <2>2. CASE k % 2 # 1
    <3>1. k \div 2 \in 1..n
      BY <2>2, SMT
    <3>2. b[k \div 2] \in Byte
      BY <3>1
    <3> QED BY <2>2, <3>2, TwoDigits, SMT DEF HexDigit
  <2> QED BY <2>1, <2>2
<1>4. hex \in [1..(2 * n) -> HexDigit]
  BY <1>2, <1>3
<1>5. hex \in Seq(HexDigit) /\ Len(hex) = 2 * n
  BY <1>1, <1>4
<1>6. ASSUME NEW i \in 1..n
      PROVE  /\ hex[2 * i - 1] = b[i] \div 16 /\ b[i] \div 16 \in 0..15
             /\ hex[2 * i] = b[i] % 16 /\ b[i] % 16 \in 0..15
  <2>1. /\ 2 * i - 1 \in 1..(2 * n) /\ (2 * i - 1) % 2 = 1 /\ ((2 * i - 1) + 1) \div 2 = i
        /\ 2 * i \in 1..(2 * n) /\ (2 * i) % 2 # 1 /\ (2 * i) \div 2 = i
    BY SMT
  <2>2. hex[2 * i - 1] = digit(2 * i - 1) /\ hex[2 * i] = digit(2 * i)
    BY <1>2, <2>1, Zenon
  <2> QED BY <2>1, <2>2, TwoDigits
<1> QED BY <1>5, <1>6

(* Every such text is read, as the bytes it was written from, whatever was   *)
(* in the memory before.                                                    *)
LEMMA BytesOfText ==
    ASSUME NEW n \in Nat, NEW b \in [1..n -> Byte], NEW old \in [1..n -> Byte]
    PROVE  /\ hex_to_bytes_buf(bytes_to_hex_buf(b), old).ok
           /\ hex_to_bytes_buf(bytes_to_hex_buf(b), old).bytes = b
<1> DEFINE hex == bytes_to_hex_buf(b)
           Good(i) == \A k \in 1..(2 * i) : hex[k] \in HexDigit
           read == [i \in 1..n |->
                       IF Good(i) THEN 16 * hex_char_value(hex[2 * i - 1]) + hex_char_value(hex[2 * i])
                       ELSE old[i]]
<1>1. Len(hex) = 2 * n /\ hex \in Seq(HexDigit) /\ Len(old) = n
  BY TextOfBytes
<1>2. Good(n)
  BY <1>1
<1>3. ASSUME NEW i \in 1..n
      PROVE  Good(i) /\ 16 * hex_char_value(hex[2 * i - 1]) + hex_char_value(hex[2 * i]) = b[i]
  <2>1. \A k \in 1..(2 * i) : k \in 1..(2 * n)
    BY SMT
  <2>2. /\ hex[2 * i - 1] = b[i] \div 16 /\ b[i] \div 16 \in 0..15
        /\ hex[2 * i] = b[i] % 16 /\ b[i] % 16 \in 0..15
    BY TextOfBytes
  <2>3. hex_char_value(hex[2 * i - 1]) = b[i] \div 16 /\ hex_char_value(hex[2 * i]) = b[i] % 16
    <3>1. \A d \in 0..15 : hex_char_value(d) = d
      BY SMT DEF hex_char_value
    <3> QED BY <2>2, <3>1, Zenon
  <2> QED BY <1>2, <2>1, <2>3, TwoDigits
<1>4. hex_to_bytes_buf(hex, old) = [ok |-> Good(n), bytes |-> read]
  BY <1>1, Zenon DEF hex_to_bytes_buf
<1>5. b = [i \in 1..n |-> b[i]]
  OBVIOUS
<1> HIDE DEF Good, hex
<1>6. read = b
  BY <1>3, <1>5, Zenon
<1> HIDE DEF read
<1>7. hex_to_bytes_buf(hex, old).ok /\ hex_to_bytes_buf(hex, old).bytes = b
  BY <1>2, <1>4, <1>6
<1> QED BY <1>7 DEF hex

(* Written to text and read back, a transaction that is the same in memory    *)
(* is what it was.                                                          *)
LEMMA TextCopy ==
    ASSUME NEW t, IsInMemory(t)
    PROVE  Len(serialize(t).text) = 2 * TX_TOTAL_SIZE /\ deserialize(serialize(t)) = t
<1> DEFINE b == BytesOf(t)
           old == [i \in 1..TX_TOTAL_SIZE |-> 0]
           read == hex_to_bytes_buf(bytes_to_hex_buf(b), old)
<1>1. TX_TOTAL_SIZE \in Nat /\ b \in [1..TX_TOTAL_SIZE -> Byte] /\ StructOf(b) = t
  BY TransactionLifeAssumption DEF IsInMemory
<1>2. old \in [1..TX_TOTAL_SIZE -> Byte]
  BY DEF Byte
<1>3. Len(bytes_to_hex_buf(b)) = 2 * TX_TOTAL_SIZE
  BY <1>1, TextOfBytes
<1>4. read.ok /\ read.bytes = b
  BY <1>1, <1>2, BytesOfText
<1>5. serialize(t).text = bytes_to_hex_buf(b)
  BY DEF serialize
<1>6. deserialize(serialize(t)) =
        IF Len(bytes_to_hex_buf(b)) # 2 * TX_TOTAL_SIZE THEN NULL
        ELSE IF ~read.ok THEN NULL ELSE StructOf(read.bytes)
  BY <1>5 DEF deserialize
<1> HIDE DEF b, old, read
<1> QED BY <1>1, <1>3, <1>4, <1>5, <1>6

-----------------------------------------------------------------------------
(* The inductive invariant                                                   *)

(* The transaction, with the last block it was made for.                     *)
Made(t, last) ==
    /\ t \in Txs /\ IsInMemory(t)
    /\ \/ last = NULL /\ t.expiry_block = 0
       \/ last \in Nat /\ t.expiry_block = last % (UINT32_MAX + 1)

(* What a transaction's form can be: whole in one way or the other, or hurt.  *)
FormOf(f, t) ==
    \/ f \in {serialize_pb(t), serialize(t)}
    \/ f \in CutPb(serialize_pb(t))
    \/ f \in CutText(serialize(t)) \cup Misprinted(serialize(t))

CopyOf(f) == IF f.kind = "pb" THEN deserialize_pb(f) ELSE deserialize(f)

LifeInv ==
    /\ height \in uint32
    /\ tx # NULL => Made(tx, last_block)
    /\ tx # NULL => last_block = NULL \/ last_block <= height + UINT32_MAX
    /\ form # NULL => tx # NULL /\ FormOf(form, tx)
    /\ copy # NULL => form # NULL /\ copy = CopyOf(form)

(* The heights and limits.                                                  *)
LEMMA LimitFacts ==
    /\ UINT32_MAX \in Nat /\ UINT64_MAX \in Nat /\ UINT32_MAX <= UINT64_MAX
    /\ \A x \in uint32 : x \in Nat /\ x <= UINT32_MAX /\ x \in uint64
    /\ \A x \in Nat : x % (UINT32_MAX + 1) \in uint32 /\ x % (UINT64_MAX + 1) \in uint64
<1>1. UINT32_MAX \in Nat /\ UINT64_MAX \in Nat /\ UINT32_MAX <= UINT64_MAX
  BY TransactionAssumption
<1>2. \A x \in Nat, m \in Nat : x % (m + 1) \in 0..m
  OBVIOUS
<1> QED BY <1>1, <1>2 DEF uint32, uint64

(* Each way of making a transaction makes one, with its last block.          *)
LEMMA NewTxMade ==
    ASSUME height \in uint32, NEW source \in Accounts, NEW dest \in Accounts,
           NEW value \in Amounts, NEW fee \in Fees, NEW nonce \in TxNonces,
           NEW lifetime \in Lifetimes
    PROVE  LET t == NewTx(source, dest, value, fee, nonce, TX_EXPIRY_FROM_NOW(height, lifetime))
           IN  /\ Made(t, height + lifetime)
               /\ \A way \in {"key", "address", "source"} : Made(SignedTx(way, t), height + lifetime)
               /\ height + lifetime <= height + UINT32_MAX
<1> DEFINE expiry == TX_EXPIRY_FROM_NOW(height, lifetime)
           t == NewTx(source, dest, value, fee, nonce, expiry)
<1>1. /\ height + lifetime \in Nat /\ height + lifetime <= height + UINT32_MAX
      /\ expiry = (height + lifetime) % (UINT32_MAX + 1) /\ expiry \in uint32
  <2>1. height \in Nat /\ lifetime \in Nat
    BY LimitFacts, TransactionLifeAssumption
  <2>2. height + lifetime \in Nat /\ height + lifetime <= height + UINT32_MAX
    <3>1. lifetime <= UINT32_MAX
      BY LimitFacts, TransactionLifeAssumption
    <3> QED BY <2>1, <3>1, LimitFacts
  <2>3. expiry = (height + lifetime) % (UINT32_MAX + 1)
    BY Zenon DEF TX_EXPIRY_FROM_NOW
  <2> HIDE DEF expiry
  <2> QED BY <2>2, <2>3, LimitFacts
<1>2. value \in uint64 /\ fee \in uint32 /\ nonce \in uint64
  BY TransactionLifeAssumption
<1> HIDE DEF expiry
<1>3. t \in Txs /\ t.expiry_block = expiry /\ t.source_address = source
  BY <1>1, <1>2 DEF NewTx, Txs
<1>m. IsInMemory(t) /\ \A way \in {"key", "address", "source"} : IsInMemory(SignedTx(way, t))
  BY <1>1, MemoryAssumption
<1>4. ASSUME NEW way \in {"key", "address", "source"}
      PROVE  SignedTx(way, t) \in Txs /\ SignedTx(way, t).expiry_block = expiry
  <2>1. compute_hash(t) = <<nonce, expiry, source, dest, value, fee>>
    BY DEF compute_hash, NewTx
  <2>2. compute_hash(t) \in uint64 \X uint32 \X Accounts \X Accounts \X uint64 \X uint32
    BY <1>1, <1>2, <2>1
  <2>3. Signature(way, source, t) \in Signatures
    BY <2>2 DEF Signature, Signatures
  <2> HIDE DEF t
  <2> QED BY <1>3, <2>3 DEF Txs, SignedTx
<1> HIDE DEF t
<1>5. /\ Made(t, height + lifetime)
      /\ \A way \in {"key", "address", "source"} : Made(SignedTx(way, t), height + lifetime)
      /\ height + lifetime <= height + UINT32_MAX
  BY <1>1, <1>3, <1>4, <1>m DEF Made
<1> QED BY <1>5 DEF t, expiry

(* A coinbase never expires.                                                *)
LEMMA CoinbaseMade ==
    ASSUME height \in uint32, NEW farmer \in Accounts,
           NEW base_reward \in Amounts, NEW total_fees \in Amounts
    PROVE  Made(create_coinbase(farmer, base_reward, total_fees, height), NULL)
<1>1. base_reward \in Nat /\ total_fees \in Nat
  BY TransactionLifeAssumption, LimitFacts DEF uint64
<1>2. (base_reward + total_fees) % (UINT64_MAX + 1) \in uint64
  <2>1. base_reward + total_fees \in Nat
    BY <1>1
  <2> QED BY <2>1, LimitFacts, Zenon
<1>3. 0 \in uint32 /\ height \in uint64
  BY LimitFacts DEF uint32
<1>4. IsInMemory(create_coinbase(farmer, base_reward, total_fees, height))
  BY MemoryAssumption
<1> QED BY <1>2, <1>3, <1>4 DEF create_coinbase, NewTx, Made, Txs

(* The invariant holds at first.                                            *)
LEMMA LifeInit == Init => LifeInv
BY TransactionLifeAssumption DEF Init, LifeInv

(* A transaction that is made has no form and no copy.                       *)
LEMMA MakingKeeps ==
    ASSUME LifeInv, tx = NULL, UNCHANGED <<height, form, copy>>,
           tx' # NULL => Made(tx', last_block'),
           last_block' = NULL \/ last_block' <= height + UINT32_MAX
    PROVE  LifeInv'
BY DEF LifeInv

(* Every step keeps the invariant.                                          *)
LEMMA LifeStep == LifeInv /\ [Next]_vars => LifeInv'
<1> SUFFICES ASSUME LifeInv, [Next]_vars PROVE LifeInv'
  OBVIOUS
<1>0. height \in uint32
  BY DEF LifeInv
<1>1. CASE Create
  <2>1. PICK source \in Accounts, dest \in Accounts, value \in Amounts, fee \in Fees,
             nonce \in TxNonces, lifetime \in Lifetimes, way \in {"key", "address", "none"} :
          LET t == NewTx(source, dest, value, fee, nonce, TX_EXPIRY_FROM_NOW(height, lifetime))
          IN  /\ tx' = IF way = "none" THEN t
                       ELSE SignedTx(way, t)
              /\ last_block' = height + lifetime
    BY <1>1 DEF Create
  <2>2. Made(tx', last_block') /\ last_block' <= height + UINT32_MAX
    BY <1>0, <2>1, NewTxMade
  <2> QED BY <1>1, <2>2, MakingKeeps DEF Create
<1>2. CASE CreateFromAddress
  <2>1. PICK source \in Accounts, dest \in Accounts, value \in Amounts, fee \in Fees,
             nonce \in TxNonces, lifetime \in Lifetimes :
          /\ tx' = create_from_address(source, dest, value, fee, nonce,
                                       TX_EXPIRY_FROM_NOW(height, lifetime))
          /\ last_block' = height + lifetime
    BY <1>2 DEF CreateFromAddress
  <2>2. create_from_address(source, dest, value, fee, nonce, TX_EXPIRY_FROM_NOW(height, lifetime)) =
          SignedTx("source", NewTx(source, dest, value, fee, nonce, TX_EXPIRY_FROM_NOW(height, lifetime)))
    BY DEF create_from_address, SignedTx, NewTx
  <2>3. Made(tx', last_block') /\ last_block' <= height + UINT32_MAX
    BY <1>0, <2>1, <2>2, NewTxMade
  <2> QED BY <1>2, <2>3, MakingKeeps DEF CreateFromAddress
<1>3. CASE CreateCoinbase
  <2>1. Made(tx', last_block')
    BY <1>0, <1>3, CoinbaseMade DEF CreateCoinbase
  <2> QED BY <1>3, <2>1, MakingKeeps DEF CreateCoinbase
<1>4. CASE Serialize
  BY <1>4 DEF Serialize, LifeInv, FormOf
<1>5. CASE Damage
  <2>1. /\ form # NULL /\ Whole /\ copy = NULL /\ tx # NULL
        /\ form' \in IF form.kind = "pb" THEN CutPb(form) ELSE CutText(form) \cup Misprinted(form)
        /\ UNCHANGED <<height, tx, last_block, copy>>
    BY <1>5 DEF Damage, LifeInv
  <2>2. \/ form = serialize_pb(tx) /\ form.kind = "pb"
        \/ form = serialize(tx) /\ form.kind # "pb"
    <3>1. serialize_pb(tx).kind = "pb" /\ serialize(tx).kind # "pb"
      BY DEF serialize_pb, serialize
    <3>2. form = serialize_pb(tx) \/ form = serialize(tx)
      BY <2>1, Zenon DEF Whole
    <3> QED BY <3>1, <3>2, Zenon
  <2>3. FormOf(form', tx)
    BY <2>1, <2>2 DEF FormOf
  <2>4. form' # NULL => tx' # NULL /\ FormOf(form', tx')
    BY <2>1, <2>3
  <2> QED BY <2>1, <2>4 DEF LifeInv
<1>6. CASE Deserialize
  BY <1>6 DEF Deserialize, LifeInv, CopyOf
<1>7. CASE NextBlock
  <2>1. height \in Nat /\ height < UINT32_MAX /\ height' = height + 1
        /\ UNCHANGED <<tx, last_block, form, copy>>
    BY <1>0, <1>7, LimitFacts DEF NextBlock
  <2>2. height' \in uint32
    BY <2>1, LimitFacts DEF uint32
  <2>3. tx # NULL => last_block = NULL \/ last_block <= height' + UINT32_MAX
    <3>1. tx # NULL => last_block = NULL \/ (last_block \in Nat /\ last_block <= height + UINT32_MAX)
      BY DEF LifeInv, Made
    <3> QED BY <2>1, <3>1, LimitFacts
  <2> QED BY <2>1, <2>2, <2>3 DEF LifeInv
<1>8. CASE Destroy
  BY <1>8 DEF Destroy, LifeInv
<1>9. CASE UNCHANGED vars
  BY <1>9 DEF vars, LifeInv
<1> QED BY <1>1, <1>2, <1>3, <1>4, <1>5, <1>6, <1>7, <1>8, <1>9 DEF Next

(* The invariant holds in every life of a transaction.                       *)
THEOREM LifeInvariance == Spec => []LifeInv
BY LifeInit, LifeStep, PTL DEF Spec

-----------------------------------------------------------------------------
(* What follows                                                              *)

(* A whole form gives back the transaction it was made from.                 *)
LEMMA WholeFormCopies ==
    ASSUME LifeInv, form # NULL, Whole, copy # NULL
    PROVE  copy = tx /\ tx # NULL
<1>1. tx # NULL /\ tx \in Txs /\ IsInMemory(tx) /\ copy = CopyOf(form)
  BY DEF LifeInv, Made
<1>2. CASE form = serialize_pb(tx)
  <2>1. form.kind = "pb" /\ form.fields = Pack(fields, to_pb(tx))
    BY <1>2 DEF serialize_pb
  <2>2. copy = NULL \/ copy = from_pb(Unpack(fields, Pack(fields, to_pb(tx))))
    BY <1>1, <2>1 DEF CopyOf, deserialize_pb
  <2> QED BY <1>1, <2>2, PbCopy
<1>3. CASE form = serialize(tx)
  <2>1. form.kind # "pb"
    BY <1>3 DEF serialize
  <2>2. copy = deserialize(serialize(tx))
    BY <1>1, <1>3, <2>1 DEF CopyOf
  <2> QED BY <1>1, <2>2, TextCopy
<1> QED BY <1>2, <1>3 DEF Whole

(* Both forms give back the transaction as it was, however it was made       *)
(* (transaction.c, the two serializers and their inverses).                  *)
THEOREM CopiesFaithful == Spec => []CopiesAreFaithful
<1>1. LifeInv => CopiesAreFaithful
  BY WholeFormCopies DEF CopiesAreFaithful
<1> QED BY <1>1, LifeInvariance, PTL

(* What is left of a cut transaction is not accepted, unless the transaction  *)
(* was a coinbase (transaction_deserialize_pb, transaction_verify).          *)
THEOREM CutIsRefused == Spec => []CutSignedIsRefused
<1>1. LifeInv => CutSignedIsRefused
  <2> SUFFICES ASSUME LifeInv, form # NULL, CutShort, copy # NULL
               PROVE  form.kind = "pb" /\ (is_coinbase(tx) \/ ~verify(copy))
    BY DEF CutSignedIsRefused
  <2>1. tx \in Txs /\ FormOf(form, tx) /\ copy = CopyOf(form)
    BY DEF LifeInv, Made
  <2>2. form.kind = "pb"
    <3>1. CASE form.kind # "pb"
      <4>1. Len(form.text) < 2 * TX_TOTAL_SIZE /\ copy = deserialize(form)
        BY <2>1, <3>1 DEF CutShort, CopyOf
      <4>2. Len(form.text) # 2 * TX_TOTAL_SIZE
        BY <4>1, TransactionLifeAssumption
      <4> QED BY <4>1, <4>2 DEF deserialize
    <3> QED BY <3>1
  <2>3. form # serialize_pb(tx)
    BY <2>2 DEF CutShort
  <2>4. form \in CutPb(serialize_pb(tx))
    <3>1. serialize(tx).kind # "pb"
      BY DEF serialize
    <3>2. \A f \in CutText(serialize(tx)) \cup Misprinted(serialize(tx)) : f.kind = serialize(tx).kind
      BY DEF CutText, Misprinted, serialize
    <3> QED BY <2>1, <2>2, <2>3, <3>1, <3>2 DEF FormOf
  <2> DEFINE whole == Pack(fields, to_pb(tx))
  <2>5. /\ form.kind = "pb"
        /\ (\/ form.fields = NULL
            \/ \E first \in DOMAIN whole :
                  form.fields = [id \in {k \in DOMAIN whole : k < first} |-> whole[id]])
    <3> DEFINE f == serialize_pb(tx)
               CutAt(w, i) == [id \in {k \in DOMAIN w : k < i} |-> w[id]]
    <3>1. f = [kind |-> "pb", fields |-> whole]
      BY Zenon DEF serialize_pb
    <3>2. \/ form = [f EXCEPT !.fields = NULL]
          \/ \E first \in DOMAIN f.fields :
                form = [f EXCEPT !.fields = CutAt(f.fields, first)]
      BY <2>4 DEF CutPb
    <3> SUFFICES /\ form.kind = "pb"
                 /\ (\/ form.fields = NULL
                     \/ \E first \in DOMAIN whole : form.fields = CutAt(whole, first))
      OBVIOUS
    <3> HIDE DEF whole, f, CutAt
    <3>3. f.fields = whole
      BY <3>1
    <3>4. CASE form = [f EXCEPT !.fields = NULL]
      BY <3>1, <3>4
    <3>5. ASSUME NEW first \in DOMAIN f.fields,
                 form = [f EXCEPT !.fields = CutAt(f.fields, first)]
          PROVE  form.kind = "pb" /\ form.fields = CutAt(whole, first) /\ first \in DOMAIN whole
      BY <3>1, <3>3, <3>5
    <3> QED BY <3>2, <3>4, <3>5
  <2>6. form.fields # NULL /\ copy = from_pb(Unpack(fields, form.fields))
    BY <2>1, <2>5 DEF CopyOf, deserialize_pb
  <2>7. PICK first \in DOMAIN whole :
              form.fields = [id \in {k \in DOMAIN whole : k < first} |-> whole[id]]
    BY <2>5, <2>6
  <2>8. ~is_coinbase(tx) => ~verify(copy)
    BY <2>1, <2>6, <2>7, CutCopy
  <2> QED BY <2>2, <2>8
<1> QED BY <1>1, LifeInvariance, PTL

(* A transaction is good in its last block and in no later one, a coinbase    *)
(* always, and one whose last block wraps never or, at 0, always             *)
(* (transaction_is_expired, TX_EXPIRY_FROM_NOW).                             *)
THEOREM LivesToItsLastBlock == Spec => []LivesItsBlocks
<1>1. LifeInv => LivesItsBlocks
  <2> SUFFICES ASSUME LifeInv,
                      NEW t \in {tx, IF form # NULL /\ Whole THEN copy ELSE NULL} \ {NULL}
               PROVE  is_expired(t, height) <=>
                          /\ last_block # NULL
                          /\ last_block \notin {0, UINT32_MAX + 1}
                          /\ height > last_block \/ last_block > UINT32_MAX
    BY DEF LivesItsBlocks
  <2>1. t = tx /\ tx # NULL
    BY WholeFormCopies
  <2>2. Made(tx, last_block) /\ height \in uint32
    BY <2>1 DEF LifeInv
  <2>3. CASE last_block = NULL
    <3>1. t.expiry_block = 0
      BY <2>1, <2>2, <2>3, TransactionLifeAssumption DEF Made
    <3> QED BY <2>3, <3>1 DEF is_expired
  <2>4. CASE last_block # NULL
    <3>1. /\ last_block \in Nat /\ t.expiry_block = last_block % (UINT32_MAX + 1)
          /\ last_block <= height + UINT32_MAX
      BY <2>1, <2>2, <2>4 DEF Made, LifeInv
    <3>2. height \in Nat /\ height <= UINT32_MAX /\ UINT32_MAX \in Nat
      BY <2>2, LimitFacts
    <3> DEFINE d == UINT32_MAX + 1
    <3>3. d \in Nat \ {0} /\ last_block \in 0..(2 * d - 1)
      BY <3>1, <3>2
    <3>4. ASSUME NEW m \in Nat \ {0}, NEW z \in 0..(2 * m - 1)
          PROVE  z % m = IF z < m THEN z ELSE z - m
      BY Z3
    <3>5. t.expiry_block = last_block % d
      BY <3>1
    <3> HIDE DEF d
    <3>6. t.expiry_block = IF last_block < d THEN last_block ELSE last_block - d
      BY <3>3, <3>4, <3>5
    <3> QED BY <2>4, <3>1, <3>2, <3>6 DEF is_expired, d
  <2> QED BY <2>3, <2>4
<1> QED BY <1>1, LifeInvariance, PTL
=============================================================================
