-------------------------- MODULE WalletFileProofs --------------------------
(***************************************************************************)
(* Theorems about WalletFile, for every name, key, hash, length of an       *)
(* address and number of nonces.                                            *)
(***************************************************************************)
EXTENDS WalletFile, WellFoundedInduction, TLAPS

-----------------------------------------------------------------------------
(* Hexadecimal text                                                         *)

(* A byte is made of two digits.                                            *)
LEMMA TwoDigits ==
    ASSUME NEW b \in Byte
    PROVE  b \div 16 \in 0..15 /\ b % 16 \in 0..15 /\ 16 * (b \div 16) + (b % 16) = b
BY SMT DEF Byte

(* The text of an address has two digits for each byte, all lower case.     *)
LEMMA AddressText ==
    ASSUME NEW b \in Address
    PROVE  /\ address_to_hex(b) \in Seq(HexDigit)
           /\ Len(address_to_hex(b)) = 2 * ADDRESS_LENGTH
           /\ \A i \in 1..ADDRESS_LENGTH :
                 /\ address_to_hex(b)[2 * i - 1] = b[i] \div 16 /\ b[i] \div 16 \in 0..15
                 /\ address_to_hex(b)[2 * i] = b[i] % 16 /\ b[i] % 16 \in 0..15
<1> DEFINE hex == address_to_hex(b)
           digit(k) == IF k % 2 = 1 THEN b[(k + 1) \div 2] \div 16 ELSE b[k \div 2] % 16
<1>1. ADDRESS_LENGTH \in Nat /\ Len(b) = ADDRESS_LENGTH
  BY WalletFileAssumption DEF Address
<1>2. hex = [k \in 1..(2 * ADDRESS_LENGTH) |-> digit(k)]
  BY <1>1, Zenon DEF address_to_hex, bytes_to_hex_buf
<1>3. ASSUME NEW k \in 1..(2 * ADDRESS_LENGTH)
      PROVE  digit(k) \in HexDigit
  <2>1. CASE k % 2 = 1
    <3>1. (k + 1) \div 2 \in 1..ADDRESS_LENGTH
      BY <1>1, <2>1, SMT
    <3>2. b[(k + 1) \div 2] \in Byte
      BY <3>1 DEF Address
    <3> QED  BY <2>1, <3>2, TwoDigits, SMT DEF HexDigit
  <2>2. CASE k % 2 # 1
    <3>1. k \div 2 \in 1..ADDRESS_LENGTH
      BY <1>1, <2>2, SMT
    <3>2. b[k \div 2] \in Byte
      BY <3>1 DEF Address
    <3> QED  BY <2>2, <3>2, TwoDigits, SMT DEF HexDigit
  <2> QED  BY <2>1, <2>2
<1>4. hex \in [1..(2 * ADDRESS_LENGTH) -> HexDigit]
  BY <1>2, <1>3
<1>5. hex \in Seq(HexDigit) /\ Len(hex) = 2 * ADDRESS_LENGTH
  <2>1. 2 * ADDRESS_LENGTH \in Nat
    BY <1>1, SMT
  <2> QED  BY <1>4, <2>1
<1>6. ASSUME NEW i \in 1..ADDRESS_LENGTH
      PROVE  /\ hex[2 * i - 1] = b[i] \div 16 /\ b[i] \div 16 \in 0..15
             /\ hex[2 * i] = b[i] % 16 /\ b[i] % 16 \in 0..15
  <2>1. /\ 2 * i - 1 \in 1..(2 * ADDRESS_LENGTH) /\ (2 * i - 1) % 2 = 1 /\ ((2 * i - 1) + 1) \div 2 = i
        /\ 2 * i \in 1..(2 * ADDRESS_LENGTH) /\ (2 * i) % 2 # 1 /\ (2 * i) \div 2 = i
    BY <1>1, SMT
  <2>2. b[i] \in Byte
    BY DEF Address
  <2>3. hex[2 * i - 1] = digit(2 * i - 1) /\ hex[2 * i] = digit(2 * i)
    BY <1>2, <2>1, Zenon
  <2> QED  BY <2>1, <2>2, <2>3, TwoDigits
<1> QED  BY <1>5, <1>6

(* The text of an address reads back as the address (address_to_hex,         *)
(* hex_to_address), and so does a recipient given by it on the command line. *)
THEOREM HexRoundTrip ==
    ASSUME NEW b \in Address
    PROVE  /\ hex_to_address(address_to_hex(b)) = b
           /\ wallet_parse_address(address_to_hex(b)) = b
<1> DEFINE hex == address_to_hex(b)
           Good(i) == \A k \in 1..(2 * i) : hex[k] \in HexDigit
<1>1. ADDRESS_LENGTH \in Nat /\ Len(hex) = 2 * ADDRESS_LENGTH /\ hex \in Seq(HexDigit)
  BY AddressText, WalletFileAssumption
<1>2. Len(ZeroAddress) = ADDRESS_LENGTH
  BY <1>1 DEF ZeroAddress
<1>3. \A k \in 1..(2 * ADDRESS_LENGTH) : hex[k] \in HexDigit
  BY <1>1
<1>4. ASSUME NEW i \in 1..ADDRESS_LENGTH
      PROVE  Good(i) /\ 16 * hex_char_value(hex[2 * i - 1]) + hex_char_value(hex[2 * i]) = b[i]
  <2>1. \A k \in 1..(2 * i) : k \in 1..(2 * ADDRESS_LENGTH)
    BY <1>1, SMT
  <2>2. b[i] \in Byte
    BY DEF Address
  <2>3. /\ hex[2 * i - 1] = b[i] \div 16 /\ b[i] \div 16 \in 0..15
        /\ hex[2 * i] = b[i] % 16 /\ b[i] % 16 \in 0..15
    BY AddressText
  <2>4. hex_char_value(hex[2 * i - 1]) = b[i] \div 16 /\ hex_char_value(hex[2 * i]) = b[i] % 16
    BY <2>3, SMT DEF hex_char_value
  <2> QED  BY <1>3, <2>1, <2>2, <2>4, TwoDigits
<1>5. hex_to_address(hex) =
        [i \in 1..ADDRESS_LENGTH |->
            IF Good(i) THEN 16 * hex_char_value(hex[2 * i - 1]) + hex_char_value(hex[2 * i])
            ELSE ZeroAddress[i]]
  BY <1>1, <1>2, Zenon DEF hex_to_address, hex_to_bytes_buf
<1>6. b = [i \in 1..ADDRESS_LENGTH |-> b[i]]
  BY DEF Address
<1> HIDE DEF Good, hex
<1>7. hex_to_address(hex) = b
  BY <1>4, <1>5, <1>6, Zenon
<1>8. wallet_is_hex_address(hex)
  BY <1>1, <1>3 DEF wallet_is_hex_address
<1> QED  BY <1>7, <1>8 DEF wallet_parse_address, hex

-----------------------------------------------------------------------------
(* Strings                                                                  *)

(* A non-empty set of positions has a first and a last one.                 *)
LEMMA FirstAndLast ==
    ASSUME NEW n \in Nat, NEW T \in SUBSET (1..n), T # {}
    PROVE  /\ \E i \in T : \A k \in T : i <= k
           /\ \E i \in T : \A k \in T : k <= i
<1>1. ASSUME NEW U \in SUBSET Nat, U # {}
      PROVE  \E i \in U : \A k \in U : i <= k
  <2> DEFINE R == {ss \in Nat \X Nat : ss[1] < ss[2]}
  <2>1. IsWellFoundedOn(R, Nat)
    BY NatLessThanWellFounded, Zenon DEF OpToRel
  <2>2. \A i, k \in Nat : k < i => <<k, i>> \in R
    BY SMT
  <2> HIDE DEF R
  <2>3. \E i \in U : \A k \in U : ~(<<k, i>> \in R)
    BY <1>1, <2>1, WFMin, Zenon
  <2>4. PICK i \in U : \A k \in U : ~(<<k, i>> \in R)
    BY <2>3, Zenon
  <2>5. ASSUME NEW k \in U PROVE i <= k
    <3>1. ~(k < i) /\ k \in Nat /\ i \in Nat
      BY <2>2, <2>4, Zenon
    <3> QED  BY <3>1, SMT
  <2> QED  BY <2>5, Zenon
<1>2. T \in SUBSET Nat
  BY SMT
<1>3. \E i \in T : \A k \in T : k <= i
  <2> DEFINE U == {n - i : i \in T}
  <2>1. U \in SUBSET Nat /\ U # {}
    <3>1. \A i \in T : n - i \in Nat
      BY SMT
    <3> QED  BY <3>1, Zenon
  <2>2. PICK u \in U : \A k \in U : u <= k
    BY <1>1, <2>1
  <2>3. PICK i \in T : u = n - i
    OBVIOUS
  <2>4. ASSUME NEW k \in T PROVE k <= i
    <3>1. n - i <= n - k
      BY <2>2, <2>3
    <3> QED  BY <1>2, <3>1, SMT
  <2> QED  BY <2>4
<1> QED  BY <1>1, <1>2, <1>3

(* What is cut from a string, and what trim leaves, are strings.            *)
LEMMA Strings ==
    ASSUME NEW S, NEW str \in Seq(S)
    PROVE  /\ trim(str) \in Seq(S)
           /\ safe_strcpy(str) \in Seq(S)
           /\ \A k \in 0..Len(str) : SubSeq(str, 1, k) \in Seq(S)
<1>1. \A m \in 1..(Len(str) + 1), k \in 0..Len(str) : SubSeq(str, m, k) \in Seq(S)
  BY SMT
<1>2. trim(str) \in Seq(S)
  <2> DEFINE kept == {i \in DOMAIN str : str[i] # BLANK}
             first == CHOOSE i \in kept : \A k \in kept : i <= k
             last == CHOOSE i \in kept : \A k \in kept : k <= i
  <2>1. CASE kept = {}
    BY <2>1 DEF trim
  <2>2. CASE kept # {}
    <3>1. kept \in SUBSET (1..Len(str)) /\ Len(str) \in Nat
      BY SMT
    <3>2. first \in kept /\ last \in kept
      BY <2>2, <3>1, FirstAndLast, Zenon
    <3>3. trim(str) = SubSeq(str, first, last)
      BY <2>2, Zenon DEF trim
    <3> HIDE DEF kept, first, last
    <3>4. first \in 1..(Len(str) + 1) /\ last \in 0..Len(str)
      BY <3>1, <3>2, SMT
    <3> QED  BY <1>1, <3>3, <3>4, Zenon
  <2> QED  BY <2>1, <2>2
<1>3. safe_strcpy(str) \in Seq(S)
  BY <1>1, WalletFileAssumption, SMT DEF safe_strcpy
<1>4. \A k \in 0..Len(str) : SubSeq(str, 1, k) \in Seq(S)
  BY <1>1, SMT
<1> QED  BY <1>2, <1>3, <1>4
-----------------------------------------------------------------------------
(* The file                                                                 *)

(* What a wallet can be saved as.                                           *)
LEMMA ContentType ==
    ASSUME NEW w \in Wallets
    PROVE  Content(w) \in Files
BY DEF Content, Wallets, Files

(* A number that loses its last digits does not grow.                       *)
LEMMA LastDigits ==
    ASSUME NEW n \in Nonces, NEW power \in POWERS_OF_TEN
    PROVE  n \div power \in Nonces /\ n \div power <= n
<1>1. n \in Nat /\ power \in Nat /\ power > 0 /\ n <= MAX_NONCE /\ MAX_NONCE \in Nat
  BY WalletFileAssumption, SMT DEF Nonces
<1>2. n \div power \in Nat /\ n \div power <= n
  BY <1>1, Z3
<1> QED  BY <1>1, <1>2, SMT DEF Nonces

(* A beginning of a file is a file; its nonce is no greater, and if it has a *)
(* key that can be read it is the whole file.                               *)
LEMMA PrefixFacts ==
    ASSUME NEW c \in Files, NEW f \in Prefixes(c)
    PROVE  /\ f \in Files /\ f.nonce <= c.nonce /\ (f.pem.whole => f = c)
           /\ f.pem.key \in {NULL, c.pem.key}
<1> DEFINE Goal == f \in Files /\ f.nonce <= c.nonce /\ (f.pem.whole => f = c) /\ f.pem.key \in {NULL, c.pem.key}
<1>1. c.name \in Seq(Char) /\ c.address \in Seq(HexDigit) /\ c.nonce \in Nonces /\ c.pem \in Pems
  BY DEF Files
<1>2. EmptyFile \in Files /\ EmptyFile.nonce = 0 /\ EmptyFile.pem = NoPem
  BY WalletFileAssumption, SMT DEF EmptyFile, Files, Nonces, Pems
<1>a. NoPem.key = NULL /\ NoPem.whole = FALSE
  BY DEF NoPem
<1> HIDE DEF NoPem
<1>3. 0 <= c.nonce
  BY <1>1, WalletFileAssumption, SMT DEF Nonces
<1>4. ASSUME NEW k \in 0..Len(c.name), f = [EmptyFile EXCEPT !.name = SubSeq(c.name, 1, k)]
      PROVE  Goal
  <2>1. SubSeq(c.name, 1, k) \in Seq(Char)
    BY <1>1, Strings, Zenon
  <2>2. f.nonce = EmptyFile.nonce /\ f.pem = EmptyFile.pem /\ f \in Files
    BY <1>2, <1>4, <2>1 DEF Files
  <2> QED  BY <1>2, <1>3, <1>a, <2>2
<1>5. ASSUME NEW k \in 0..Len(c.address),
             f = [EmptyFile EXCEPT !.name = c.name, !.address = SubSeq(c.address, 1, k)]
      PROVE  Goal
  <2>1. SubSeq(c.address, 1, k) \in Seq(HexDigit)
    BY <1>1, Strings, Zenon
  <2>2. f.nonce = EmptyFile.nonce /\ f.pem = EmptyFile.pem /\ f \in Files
    BY <1>1, <1>2, <1>5, <2>1 DEF Files
  <2> QED  BY <1>2, <1>3, <1>a, <2>2
<1>6. ASSUME NEW power \in POWERS_OF_TEN, f = [c EXCEPT !.nonce = @ \div power, !.pem = NoPem]
      PROVE  Goal
  <2>1. f = [c EXCEPT !.nonce = c.nonce \div power, !.pem = NoPem]
    BY <1>6
  <2>2. c.nonce \div power \in Nonces /\ c.nonce \div power <= c.nonce
    BY <1>1, LastDigits
  <2>3. NoPem \in Pems
    BY DEF Pems
  <2>4. f.nonce = c.nonce \div power /\ f.pem = NoPem /\ f \in Files
    BY <2>1, <2>2, <2>3 DEF Files
  <2> QED  BY <1>a, <2>2, <2>4
<1>7. ASSUME f = [c EXCEPT !.pem.whole = FALSE]
      PROVE  Goal
  <2>1. /\ [c.pem EXCEPT !.whole = FALSE] \in Pems /\ [c.pem EXCEPT !.whole = FALSE].whole = FALSE
        /\ [c.pem EXCEPT !.whole = FALSE].key = c.pem.key
    <3>1. CASE c.pem \in [key : Keys, whole : BOOLEAN]
      BY <3>1 DEF Pems
    <3>2. CASE c.pem = NoPem
      <4>1. NoPem \in [key : {NULL}, whole : {FALSE}]
        BY DEF NoPem
      <4>2. [NoPem EXCEPT !.whole = FALSE] = NoPem /\ NoPem.whole = FALSE
        BY <4>1
      <4> QED  BY <3>2, <4>2, Zenon DEF Pems
    <3> QED  BY <1>1, <3>1, <3>2 DEF Pems
  <2>2. f = [c EXCEPT !.pem = [c.pem EXCEPT !.whole = FALSE]]
    BY <1>7
  <2>3. f.nonce = c.nonce /\ f.pem = [c.pem EXCEPT !.whole = FALSE] /\ f \in Files
    BY <2>1, <2>2 DEF Files
  <2>4. c.nonce \in Int
    BY <1>1, SMT DEF Nonces
  <2> QED  BY <2>1, <2>3, <2>4
<1>8. f = c => Goal
  BY <1>1, SMT DEF Nonces
<1> QED  BY <1>4, <1>5, <1>6, <1>7, <1>8, Zenon DEF Prefixes

(* What is loaded from a file is a wallet; its key is that of the file.      *)
LEMMA LoadFacts ==
    ASSUME NEW f \in Files
    PROVE  /\ wallet_load(f) \in Wallets
           /\ [wallet_load(f) EXCEPT !.evp_key = NULL] \in Wallets
           /\ f.pem.whole => wallet_load(f).evp_key = f.pem.key /\ f.pem.key \in Keys
           /\ ~f.pem.whole => wallet_load(f).evp_key = NULL
<1>1. trim(f.name) \in Seq(Char) /\ f.address \in Seq(HexDigit) /\ f.nonce \in Nonces /\ f.pem \in Pems
  BY Strings DEF Files
<1>2. f.pem.whole \in BOOLEAN /\ (f.pem.whole => f.pem.key \in Keys)
  <2>1. CASE f.pem \in [key : Keys, whole : BOOLEAN]
    BY <2>1
  <2>2. CASE f.pem = NoPem
    BY <2>2 DEF NoPem
  <2> QED  BY <1>1, <2>1, <2>2 DEF Pems
<1>3. hex_to_address(f.address) \in Address
  <2>1. ADDRESS_LENGTH \in Nat /\ ZeroAddress \in Address /\ Len(ZeroAddress) = ADDRESS_LENGTH
    BY WalletFileAssumption, SMT DEF ZeroAddress, Address, Byte
  <2>2. CASE Len(f.address) # 2 * ADDRESS_LENGTH
    BY <2>1, <2>2 DEF hex_to_address
  <2>3. CASE Len(f.address) = 2 * ADDRESS_LENGTH
    <3> DEFINE hex == f.address
               Good(i) == \A k \in 1..(2 * i) : hex[k] \in HexDigit
               value(i) == 16 * hex_char_value(hex[2 * i - 1]) + hex_char_value(hex[2 * i])
    <3>1. ASSUME NEW i \in 1..ADDRESS_LENGTH PROVE value(i) \in Byte
      <4>1. 2 * i - 1 \in 1..Len(hex) /\ 2 * i \in 1..Len(hex)
        BY <2>1, <2>3, SMT
      <4>2. hex[2 * i - 1] \in HexDigit /\ hex[2 * i] \in HexDigit
        BY <1>1, <4>1
      <4>3. \A d \in HexDigit : hex_char_value(d) \in 0..15
        BY SMT DEF HexDigit, hex_char_value
      <4> QED  BY <4>2, <4>3, SMT DEF Byte
    <3>2. hex_to_address(hex) =
            [i \in 1..ADDRESS_LENGTH |-> IF Good(i) THEN value(i) ELSE ZeroAddress[i]]
      BY <2>1, <2>3, Zenon DEF hex_to_address, hex_to_bytes_buf
    <3>3. \A i \in 1..ADDRESS_LENGTH : ZeroAddress[i] \in Byte
      BY <2>1 DEF Address
    <3> HIDE DEF Good, value
    <3> QED  BY <3>1, <3>2, <3>3, Zenon DEF Address
  <2> QED  BY <2>2, <2>3
<1> HIDE DEF trim
<1>4. wallet_load(f) \in Wallets
  BY <1>1, <1>2, <1>3, Zenon DEF wallet_load, Wallets
<1>5. [wallet_load(f) EXCEPT !.evp_key = NULL] \in Wallets
  BY <1>4 DEF Wallets
<1> QED  BY <1>2, <1>4, <1>5 DEF wallet_load
-----------------------------------------------------------------------------
(* The invariant                                                            *)

(* The empty file.                                                          *)
LEMMA EmptyFileFacts ==
    /\ EmptyFile \in Files /\ EmptyFile.nonce = 0
    /\ EmptyFile.pem.key = NULL /\ EmptyFile.pem.whole = FALSE
<1>1. EmptyFile.nonce = 0 /\ EmptyFile.pem = NoPem
  BY DEF EmptyFile
<1>2. NoPem.key = NULL /\ NoPem.whole = FALSE
  BY DEF NoPem
<1>3. EmptyFile \in Files
  BY WalletFileAssumption, SMT DEF EmptyFile, Files, Nonces, Pems
<1> QED  BY <1>1, <1>2, <1>3

(* What the invariant says of the key of a wallet.                          *)
LEMMA KeyOfType ==
    ASSUME NEW w \in Wallets
    PROVE  /\ KeyOf(w) \in Keys \cup {NULL}
           /\ w.evp_key # NULL => KeyOf(w) = w.evp_key /\ KeyOf(w) \in Keys
           /\ w.evp_key = NULL => KeyOf(w) = w.private_key_pem.key
           /\ w.private_key_pem.whole => w.private_key_pem.key \in Keys
           /\ w.private_key_pem.key \in Keys \cup {NULL}
           /\ w.nonce \in Nonces
<1>1. w.evp_key \in Keys \cup {NULL} /\ w.private_key_pem \in Pems /\ w.nonce \in Nonces
  BY DEF Wallets
<1>2. /\ w.private_key_pem.key \in Keys \cup {NULL}
      /\ w.private_key_pem.whole => w.private_key_pem.key \in Keys
  <2>1. CASE w.private_key_pem \in [key : Keys, whole : BOOLEAN]
    BY <2>1
  <2>2. CASE w.private_key_pem = NoPem
    BY <2>2 DEF NoPem
  <2> QED  BY <1>1, <2>1, <2>2 DEF Pems
<1> QED  BY <1>1, <1>2 DEF KeyOf

(* Once there is a file, what it says of its key.                           *)
LEMMA FileType ==
    ASSUME TypeOK, FileInv, saved # NULL
    PROVE  /\ saved \in Wallets /\ file \in Files
           /\ file.pem.whole => (file.pem.key \in Keys /\ file = Content(saved))
           /\ file.nonce <= saved.nonce
<1>1. saved \in Wallets /\ Content(saved) \in Files /\ Content(saved).nonce = saved.nonce
  BY ContentType DEF TypeOK, Content
<1>2. saved.nonce \in Nat
  BY <1>1, KeyOfType, SMT DEF Nonces
<1>3. /\ file \in Files /\ file.nonce <= saved.nonce
      /\ file.pem.whole => file = Content(saved)
  <2>1. CASE file \in Prefixes(Content(saved))
    BY <1>1, <2>1, PrefixFacts
  <2>2. CASE file = EmptyFile
    BY <1>2, <2>2, EmptyFileFacts, SMT
  <2> QED  BY <2>1, <2>2 DEF FileInv
<1>4. file.pem.whole => file.pem.key \in Keys
  BY <1>3, LoadFacts
<1> QED  BY <1>1, <1>3, <1>4

(* At the start there is neither a wallet nor a file.                       *)
LEMMA InitEstablishes == Init => IInv
BY WalletFileAssumption DEF Init, IInv, TypeOK, WalletInv, FileInv

(* A new wallet, whichever way it is created.                               *)
LEMMA NewWalletPreserves ==
    ASSUME IInv, NEW name \in Seq(Char), NEW key \in fresh,
           NEW public_key \in {NO_KEY} \cup {PublicKey(k) : k \in Keys},
           NEW address \in Address, NEW has_pem \in BOOLEAN,
           NewWallet(name, key, public_key, address, has_pem)
    PROVE  IInv'
<1> DEFINE w == [name            |-> safe_strcpy(name),
                 address         |-> address,
                 address_hex     |-> address_to_hex(address),
                 public_key      |-> public_key,
                 nonce           |-> 0,
                 private_key_pem |-> IF has_pem THEN Pem(key) ELSE NoPem,
                 evp_key         |-> key]
<1>1. /\ wallet = NULL /\ wallet' = w /\ fresh' = fresh \ {key} /\ handed_out' = {}
      /\ file' = file /\ saving' = saving /\ saved' = saved /\ intact' = intact /\ recorded' = recorded
  BY DEF NewWallet
<1>2. key \in Keys /\ key # NULL /\ 0 \in Nonces /\ saving = FALSE
  BY <1>1, WalletFileAssumption, SMT DEF IInv, TypeOK, FileInv, Nonces
<1>3. safe_strcpy(name) \in Seq(Char)
  BY Strings
<1>4. address_to_hex(address) \in Seq(HexDigit) /\ hex_to_address(address_to_hex(address)) = address
  BY AddressText, HexRoundTrip
<1>5. (IF has_pem THEN Pem(key) ELSE NoPem) \in Pems
  BY <1>2 DEF Pems, Pem
<1>6. w \in Wallets
  BY <1>2, <1>3, <1>4, <1>5, Zenon DEF Wallets
<1>7. Coherent(w) /\ KeyOf(w) = key
  BY <1>2, <1>4 DEF Coherent, KeyOf, Pem, NoPem
<1> HIDE DEF w
<1>8. TypeOK'
  BY <1>1, <1>6 DEF IInv, TypeOK
<1>9. WalletInv'
  BY <1>1, <1>7 DEF IInv, WalletInv, FileInv, Coherent, KeyOf
<1>10. FileInv'
  BY <1>1, <1>2 DEF IInv, FileInv, Coherent, KeyOf
<1> QED  BY <1>8, <1>9, <1>10 DEF IInv

(* The two functions that create a wallet.                                  *)
LEMMA CreatePreserves == IInv /\ (wallet_create \/ wallet_create_named) => IInv'
<1> SUFFICES ASSUME IInv, wallet_create \/ wallet_create_named PROVE IInv'
  OBVIOUS
<1>0. fresh \in SUBSET Keys
  BY DEF IInv, TypeOK
<1>1. CASE wallet_create
  <2>0. PICK key \in fresh, has_pem \in BOOLEAN :
           \E public_key \in {PublicKey(key), NO_KEY} :
              NewWallet(<<>>, key, public_key, hash160[public_key], has_pem)
    BY <1>1 DEF wallet_create
  <2>1. PICK public_key \in {PublicKey(key), NO_KEY} :
           NewWallet(<<>>, key, public_key, hash160[public_key], has_pem)
    BY <2>0
  <2>2. public_key \in {NO_KEY} \cup {PublicKey(k) : k \in Keys} /\ <<>> \in Seq(Char)
    BY <1>0
  <2>3. hash160[public_key] \in Address
    BY <2>2, WalletFileAssumption
  <2> QED  BY <2>1, <2>2, <2>3, NewWalletPreserves
<1>2. CASE wallet_create_named
  <2>1. PICK key \in fresh, has_pem \in BOOLEAN, name \in Names :
           NewWallet(name, key, NO_KEY, hash160[name], has_pem)
    BY <1>2 DEF wallet_create_named
  <2>2. name \in Seq(Char) /\ hash160[name] \in Address
    BY WalletFileAssumption
  <2> QED  BY <2>1, <2>2, NewWalletPreserves
<1> QED  BY <1>1, <1>2

(* Handing out the next nonce.                                              *)
LEMMA NextNoncePreserves == IInv /\ wallet_get_next_nonce => IInv'
<1> SUFFICES ASSUME IInv, wallet_get_next_nonce PROVE IInv'
  OBVIOUS
<1>1. /\ wallet # NULL /\ ~saving /\ wallet.nonce < MAX_NONCE
      /\ handed_out' = handed_out \cup {wallet.nonce}
      /\ wallet' = [wallet EXCEPT !.nonce = wallet.nonce + 1]
      /\ file' = file /\ saving' = saving /\ fresh' = fresh /\ saved' = saved
      /\ intact' = intact /\ recorded' = recorded
  BY DEF wallet_get_next_nonce
<1>2. wallet \in Wallets /\ handed_out \in SUBSET Nonces /\ recorded \in [Keys -> SUBSET Nonces]
  BY <1>1 DEF IInv, TypeOK
<1>3. wallet.nonce \in Nonces /\ wallet.nonce + 1 \in Nonces /\ wallet.nonce \in Nat
  BY <1>1, <1>2, KeyOfType, WalletFileAssumption, SMT DEF Nonces
<1>4. /\ wallet' \in Wallets /\ wallet'.nonce = wallet.nonce + 1
      /\ wallet'.address = wallet.address /\ wallet'.address_hex = wallet.address_hex
      /\ wallet'.private_key_pem = wallet.private_key_pem /\ wallet'.evp_key = wallet.evp_key
  BY <1>1, <1>2, <1>3 DEF Wallets
<1>5. Coherent(wallet)' /\ KeyOf(wallet)' = KeyOf(wallet)
  BY <1>1, <1>4 DEF IInv, WalletInv, Coherent, KeyOf
<1>6. ASSUME NEW n \in Nonces, n < wallet.nonce \/ n = wallet.nonce PROVE n < wallet'.nonce
  BY <1>3, <1>4, <1>6, SMT DEF Nonces
<1>7. TypeOK'
  BY <1>1, <1>3, <1>4 DEF IInv, TypeOK
<1>8. WalletInv'
  <2>1. \A n \in handed_out' : n < wallet'.nonce
    BY <1>1, <1>2, <1>3, <1>6 DEF IInv, WalletInv
  <2>2. ASSUME wallet.evp_key # NULL \/ wallet.private_key_pem.whole, NEW n \in recorded[KeyOf(wallet)]
        PROVE  n < wallet'.nonce
    <3>1. KeyOf(wallet) \in Keys
      BY <1>1, <1>2, <2>2, KeyOfType DEF IInv, WalletInv, Coherent
    <3> QED  BY <1>1, <1>2, <1>6, <2>2, <3>1 DEF IInv, WalletInv
  <2> QED  BY <1>1, <1>4, <1>5, <2>1, <2>2 DEF IInv, WalletInv
<1>9. FileInv'
  BY <1>1 DEF IInv, FileInv, Coherent, KeyOf
<1> QED  BY <1>7, <1>8, <1>9 DEF IInv

(* Setting the nonce.                                                       *)
LEMMA SetNoncePreserves ==
    ASSUME NEW nonce \in SyncNonces, IInv, wallet_set_nonce(nonce)
    PROVE  IInv'
<1>1. /\ wallet # NULL /\ ~saving
      /\ wallet' = [wallet EXCEPT !.nonce = nonce]
      /\ handed_out' = {n \in handed_out : n < nonce}
      /\ recorded' = [key \in Keys |-> IF key = KeyOf(wallet) THEN {n \in recorded[key] : n < nonce}
                                       ELSE recorded[key]]
      /\ file' = file /\ saving' = saving /\ fresh' = fresh /\ saved' = saved /\ intact' = intact
  BY DEF wallet_set_nonce
<1>2. wallet \in Wallets /\ handed_out \in SUBSET Nonces /\ recorded \in [Keys -> SUBSET Nonces]
  BY <1>1 DEF IInv, TypeOK
<1>3. nonce \in Nonces
  BY WalletFileAssumption
<1>4. /\ wallet' \in Wallets /\ wallet'.nonce = nonce
      /\ wallet'.address = wallet.address /\ wallet'.address_hex = wallet.address_hex
      /\ wallet'.private_key_pem = wallet.private_key_pem /\ wallet'.evp_key = wallet.evp_key
  BY <1>1, <1>2, <1>3 DEF Wallets
<1>5. Coherent(wallet)' /\ KeyOf(wallet)' = KeyOf(wallet)
  BY <1>1, <1>4 DEF IInv, WalletInv, Coherent, KeyOf
<1>6. /\ recorded' \in [Keys -> SUBSET Nonces]
      /\ \A key \in Keys : recorded'[key] \subseteq recorded[key]
      /\ KeyOf(wallet) \in Keys => \A n \in recorded'[KeyOf(wallet)] : n < nonce
  BY <1>1, <1>2
<1>7. TypeOK'
  BY <1>1, <1>4, <1>6 DEF IInv, TypeOK
<1>8. WalletInv'
  <2>1. wallet.evp_key # NULL \/ wallet.private_key_pem.whole => KeyOf(wallet) \in Keys
    BY <1>1, <1>2, KeyOfType, WalletFileAssumption DEF IInv, WalletInv, Coherent
  <2>2. KeyOf(wallet)' \notin fresh'
    BY <1>1, <1>5 DEF IInv, WalletInv
  <2> QED  BY <1>1, <1>4, <1>5, <1>6, <2>1, <2>2 DEF WalletInv
<1>9. FileInv'
  <2>1. saved # NULL /\ file.pem.whole => file.pem.key \in Keys
    BY FileType DEF IInv
  <2>2. fresh \in SUBSET Keys
    BY DEF IInv, TypeOK
  <2> QED  BY <1>1, <1>6, <2>1, <2>2 DEF IInv, FileInv, Coherent, KeyOf
<1> QED  BY <1>7, <1>8, <1>9 DEF IInv

(* Opening the file empties it.                                             *)
LEMMA OpenPreserves == IInv /\ OpenToSave => IInv'
<1> SUFFICES ASSUME IInv, OpenToSave PROVE IInv'
  OBVIOUS
<1>1. /\ wallet # NULL /\ ~saving /\ saving' = TRUE /\ file' = EmptyFile /\ saved' = wallet /\ intact' = FALSE
      /\ wallet' = wallet /\ fresh' = fresh /\ handed_out' = handed_out /\ recorded' = recorded
  BY DEF OpenToSave
<1>2. wallet \in Wallets /\ NULL \notin fresh
  BY <1>1, WalletFileAssumption DEF IInv, TypeOK
<1>3. TypeOK'
  BY <1>1, <1>2, EmptyFileFacts DEF IInv, TypeOK
<1>4. WalletInv'
  BY <1>1 DEF IInv, WalletInv, Coherent, KeyOf
<1>5. FileInv'
  BY <1>1, <1>2, EmptyFileFacts DEF IInv, WalletInv, FileInv, Coherent, KeyOf
<1> QED  BY <1>3, <1>4, <1>5 DEF IInv

(* Whatever of the text reaches the file, it fits what was recorded before,  *)
(* and after if it is whole.                                                *)
LEMMA WrittenFile ==
    ASSUME IInv, saving, NEW f \in Prefixes(Content(wallet))
    PROVE  /\ wallet # NULL /\ wallet \in Wallets /\ saved = wallet /\ Coherent(saved)
           /\ f \in Files /\ f.pem.key \notin fresh
           /\ f.pem.whole => /\ f.pem.key = KeyOf(wallet) /\ f.pem.key \in Keys
                             /\ f.nonce = wallet.nonce
                             /\ \A n \in recorded[f.pem.key] : n < f.nonce
<1>1. wallet # NULL /\ saved = wallet /\ Coherent(wallet) /\ wallet \in Wallets /\ KeyOf(wallet) \notin fresh
  BY WalletFileAssumption DEF IInv, TypeOK, WalletInv, FileInv
<1>2. /\ Content(wallet) \in Files /\ Content(wallet).nonce = wallet.nonce
      /\ Content(wallet).pem = wallet.private_key_pem
  BY <1>1, ContentType DEF Content
<1>3. f \in Files /\ (f.pem.whole => f = Content(wallet)) /\ f.pem.key \in {NULL, wallet.private_key_pem.key}
  BY <1>2, PrefixFacts
<1>4. NULL \notin fresh
  BY WalletFileAssumption DEF IInv, TypeOK
<1>5. f.pem.key \notin fresh
  BY <1>1, <1>3, <1>4 DEF Coherent
<1>6. ASSUME f.pem.whole
      PROVE  /\ f.pem.key = KeyOf(wallet) /\ f.pem.key \in Keys /\ f.nonce = wallet.nonce
             /\ \A n \in recorded[f.pem.key] : n < f.nonce
  <2>1. f = Content(wallet) /\ wallet.private_key_pem.whole
    BY <1>2, <1>3, <1>6
  <2>2. f.pem.key = wallet.private_key_pem.key /\ f.pem.key \in Keys /\ f.pem.key # NULL
    BY <1>1, <1>2, <2>1, KeyOfType, WalletFileAssumption
  <2>3. f.pem.key = KeyOf(wallet)
    BY <1>1, <2>2 DEF Coherent
  <2> QED  BY <1>1, <1>2, <2>1, <2>2, <2>3 DEF IInv, WalletInv
<1> QED  BY <1>1, <1>3, <1>5, <1>6

(* Closing the file writes all or a part of it.                             *)
LEMMA ClosePreserves == IInv /\ CloseSaved => IInv'
<1> SUFFICES ASSUME IInv, CloseSaved PROVE IInv'
  OBVIOUS
<1>1. /\ saving /\ saving' = FALSE /\ file' \in Prefixes(Content(wallet))
      /\ intact' = (file' = Content(wallet))
      /\ recorded' = [key \in Keys |-> recorded[key] \cup IF key = KeyOf(wallet) THEN handed_out ELSE {}]
      /\ wallet' = wallet /\ fresh' = fresh /\ saved' = saved /\ handed_out' = handed_out
  BY DEF CloseSaved
<1>2. /\ wallet # NULL /\ wallet \in Wallets /\ saved = wallet /\ Coherent(saved)
      /\ file' \in Files /\ file'.pem.key \notin fresh
      /\ file'.pem.whole => /\ file'.pem.key = KeyOf(wallet) /\ file'.pem.key \in Keys
                            /\ file'.nonce = wallet.nonce
                            /\ \A n \in recorded[file'.pem.key] : n < file'.nonce
  BY <1>1, WrittenFile
<1>3. /\ handed_out \in SUBSET Nonces /\ recorded \in [Keys -> SUBSET Nonces]
      /\ \A n \in handed_out : n < wallet.nonce /\ KeyOf(wallet) \notin fresh
      /\ KeyOf(wallet) \notin fresh /\ fresh \in SUBSET Keys
  BY <1>2 DEF IInv, TypeOK, WalletInv
<1>4. /\ recorded' \in [Keys -> SUBSET Nonces]
      /\ \A key \in Keys : recorded'[key] = recorded[key] \cup IF key = KeyOf(wallet) THEN handed_out ELSE {}
  BY <1>1, <1>3
<1>5. TypeOK'
  BY <1>1, <1>2, <1>4 DEF IInv, TypeOK
<1>6. WalletInv'
  <2>1. wallet.evp_key # NULL \/ wallet.private_key_pem.whole => KeyOf(wallet) \in Keys
    BY <1>2, KeyOfType, WalletFileAssumption DEF Coherent
  <2>2. wallet.evp_key # NULL \/ wallet.private_key_pem.whole =>
          \A n \in recorded'[KeyOf(wallet)] : n < wallet.nonce
    BY <1>2, <1>3, <1>4, <2>1 DEF IInv, WalletInv
  <2> QED  BY <1>1, <1>2, <1>3, <2>2 DEF WalletInv, Coherent, KeyOf
<1>7. FileInv'
  <2>1. file'.pem.whole => \A n \in recorded'[file'.pem.key] : n < file'.nonce
    BY <1>2, <1>3, <1>4
  <2>2. \A key \in fresh : recorded'[key] = {}
    BY <1>3, <1>4 DEF IInv, FileInv
  <2>3. Coherent(saved)' /\ saved' # NULL /\ Content(saved)' = Content(wallet)
    BY <1>1, <1>2 DEF Coherent, KeyOf, Content
  <2>4. Prefixes(Content(saved))' = Prefixes(Content(wallet))
    <3>1. saved' = wallet
      BY <1>1, <1>2
    <3> QED  BY <3>1, Zenon DEF Content, Prefixes
  <2> QED  BY <1>1, <1>2, <2>1, <2>2, <2>3, <2>4 DEF FileInv
<1> QED  BY <1>5, <1>6, <1>7 DEF IInv

(* Loading.                                                                 *)
LEMMA LoadPreserves == IInv /\ Load => IInv'
<1> SUFFICES ASSUME IInv, Load PROVE IInv'
  OBVIOUS
<1>1. /\ wallet = NULL /\ file # NULL
      /\ wallet' \in {wallet_load(file), [wallet_load(file) EXCEPT !.evp_key = NULL]}
      /\ handed_out' = {} /\ file' = file /\ saving' = saving /\ fresh' = fresh /\ saved' = saved
      /\ intact' = intact /\ recorded' = recorded
  BY DEF Load
<1>2. /\ ~saving /\ saved # NULL /\ file \in Files /\ (file.pem.whole => file.pem.key \in Keys)
      /\ NULL \notin Keys /\ fresh \in SUBSET Keys
  BY <1>1, FileType, WalletFileAssumption DEF IInv, TypeOK, FileInv
<1>3. /\ wallet' \in Wallets
      /\ wallet'.address = hex_to_address(file.address) /\ wallet'.address_hex = file.address
      /\ wallet'.private_key_pem = file.pem /\ wallet'.nonce = file.nonce
      /\ wallet'.evp_key = NULL \/ (file.pem.whole /\ wallet'.evp_key = file.pem.key)
  <2>1. wallet_load(file) \in Wallets /\ [wallet_load(file) EXCEPT !.evp_key = NULL] \in Wallets
    BY <1>2, LoadFacts
  <2>2. /\ wallet_load(file).address = hex_to_address(file.address)
        /\ wallet_load(file).address_hex = file.address
        /\ wallet_load(file).private_key_pem = file.pem /\ wallet_load(file).nonce = file.nonce
        /\ wallet_load(file).evp_key = IF file.pem.whole THEN file.pem.key ELSE NULL
    BY Zenon DEF wallet_load
  <2> HIDE DEF wallet_load
  <2> QED  BY <1>1, <2>1, <2>2 DEF Wallets
<1>4. /\ wallet'.evp_key # NULL => KeyOf(wallet') = file.pem.key
      /\ wallet'.evp_key = NULL => KeyOf(wallet') = file.pem.key
  BY <1>3 DEF KeyOf
<1>5. TypeOK'
  BY <1>1, <1>3 DEF IInv, TypeOK
<1>6. WalletInv'
  <2>1. Coherent(wallet') /\ KeyOf(wallet') \notin fresh
    BY <1>2, <1>3, <1>4 DEF IInv, FileInv, Coherent
  <2>2. wallet'.evp_key # NULL \/ wallet'.private_key_pem.whole =>
          \A n \in recorded[KeyOf(wallet')] : n < wallet'.nonce
    BY <1>2, <1>3, <1>4 DEF IInv, FileInv
  <2> QED  BY <1>1, <2>1, <2>2 DEF WalletInv, Coherent, KeyOf
<1>7. FileInv'
  BY <1>1, <1>2 DEF IInv, FileInv, Coherent, KeyOf, Prefixes, Content
<1> QED  BY <1>5, <1>6, <1>7 DEF IInv

(* A wallet that is destroyed, or whose process dies.                       *)
LEMMA GonePreserves == IInv /\ (wallet_destroy \/ Crash) => IInv'
<1> SUFFICES ASSUME IInv, wallet_destroy \/ Crash PROVE IInv'
  OBVIOUS
<1>1. /\ wallet' = NULL /\ saving' = FALSE /\ fresh' = fresh /\ saved' = saved
      /\ handed_out' = handed_out /\ recorded' = recorded
  BY DEF wallet_destroy, Crash, history, IInv, TypeOK
<1>2. WalletInv'
  BY <1>1 DEF WalletInv
<1>3. CASE ~saving
  <2>1. file' = file /\ intact' = intact
    BY <1>3 DEF wallet_destroy, Crash, history
  <2>2. TypeOK'
    BY <1>1, <2>1 DEF IInv, TypeOK
  <2>3. FileInv'
    BY <1>1, <2>1 DEF IInv, FileInv, Coherent, KeyOf, Prefixes, Content
  <2> QED  BY <1>2, <2>2, <2>3 DEF IInv
<1>4. CASE saving
  <2>1. file' \in Prefixes(Content(wallet)) /\ intact' = (file' = Content(wallet))
    BY <1>4 DEF wallet_destroy, Crash
  <2>2. /\ wallet # NULL /\ saved = wallet /\ Coherent(saved)
        /\ file' \in Files /\ file'.pem.key \notin fresh
        /\ file'.pem.whole => \A n \in recorded[file'.pem.key] : n < file'.nonce
    BY <1>4, <2>1, WrittenFile
  <2>3. TypeOK'
    BY <1>1, <2>1, <2>2 DEF IInv, TypeOK
  <2>4. Coherent(saved)' /\ Content(saved)' = Content(wallet) /\ Prefixes(Content(saved))' = Prefixes(Content(wallet))
    BY <1>1, <2>2 DEF Coherent, KeyOf, Content, Prefixes
  <2>5. FileInv'
    BY <1>1, <2>1, <2>2, <2>4 DEF IInv, FileInv
  <2> QED  BY <1>2, <2>3, <2>5 DEF IInv
<1> QED  BY <1>3, <1>4 DEF IInv, TypeOK

(* A step that changes nothing.                                             *)
LEMMA StutterPreserves == IInv /\ UNCHANGED vars => IInv'
<1> SUFFICES ASSUME IInv, UNCHANGED vars PROVE IInv'
  OBVIOUS
<1>1. /\ wallet' = wallet /\ file' = file /\ saving' = saving /\ fresh' = fresh /\ saved' = saved
      /\ intact' = intact /\ handed_out' = handed_out /\ recorded' = recorded
  BY DEF vars, history
<1>2. TypeOK'
  BY <1>1 DEF IInv, TypeOK
<1>3. WalletInv'
  BY <1>1 DEF IInv, WalletInv, Coherent, KeyOf
<1>4. FileInv'
  BY <1>1 DEF IInv, FileInv, Coherent, KeyOf, Prefixes, Content
<1> QED  BY <1>2, <1>3, <1>4 DEF IInv

-----------------------------------------------------------------------------
(* The invariant of WalletFile: the wallet in memory and the file are types, *)
(* a file is a beginning of what was saved, and every nonce recorded for a   *)
(* key is below the next one of whoever holds the key.                      *)
THEOREM WalletInvariance == Spec => []IInv
<1>1. IInv /\ [Next]_vars => IInv'
  BY CreatePreserves, NextNoncePreserves, SetNoncePreserves, OpenPreserves, ClosePreserves,
     LoadPreserves, GonePreserves, StutterPreserves DEF Next
<1> QED  BY InitEstablishes, <1>1, PTL DEF Spec

(* Everything that was saved comes back from a file written in full.         *)
LEMMA WholeFileReturns ==
    ASSUME IInv, saved # NULL, file = Content(saved)
    PROVE  SameWallet(wallet_load(file), saved)
<1>1. Coherent(saved)
  BY DEF IInv, FileInv
<1> QED  BY <1>1, Zenon DEF SameWallet, wallet_load, Content, Coherent

(* Whoever gets a key from the file gets the address and nonce saved with it. *)
THEOREM KeyedWalletsAreWhole == Spec => []KeyedIsWhole
<1>1. IInv => KeyedIsWhole
  <2> SUFFICES ASSUME IInv, file # NULL, wallet_load(file).evp_key # NULL
               PROVE  SameWallet(wallet_load(file), saved)
    BY DEF KeyedIsWhole
  <2>1. saved # NULL
    BY DEF IInv, FileInv
  <2>2. file.pem.whole
    BY <2>1, FileType, LoadFacts DEF IInv
  <2>3. file = Content(saved)
    BY <2>1, <2>2, FileType DEF IInv
  <2> QED  BY <2>1, <2>3, WholeFileReturns
<1> QED  BY <1>1, WalletInvariance, PTL

(* Saving in full and loading gives the wallet back.                        *)
THEOREM SavedWalletsReturn == Spec => []LoadReturnsSaved
<1>1. IInv => LoadReturnsSaved
  BY WholeFileReturns DEF LoadReturnsSaved, IInv, FileInv
<1> QED  BY <1>1, WalletInvariance, PTL

(* A key never hands out a nonce again that was recorded for it.            *)
THEOREM RecordedNoncesStay == Spec => []NoRecordedNonceAgain
<1>1. IInv => NoRecordedNonceAgain
  <2> SUFFICES ASSUME IInv, wallet # NULL, wallet.evp_key # NULL,
                      wallet.nonce \in recorded[wallet.evp_key]
               PROVE  FALSE
    BY DEF NoRecordedNonceAgain
  <2>1. wallet \in Wallets
    BY DEF IInv, TypeOK
  <2>2. KeyOf(wallet) = wallet.evp_key
    BY <2>1, KeyOfType
  <2>3. wallet.nonce < wallet.nonce
    BY <2>2 DEF IInv, WalletInv
  <2> QED  BY <2>1, <2>3, KeyOfType, SMT DEF Nonces
<1> QED  BY <1>1, WalletInvariance, PTL

(* A load never skips a nonce.                                              *)
THEOREM LoadsNeverSkip == Spec => []NeverSkipsAhead
<1>1. IInv => NeverSkipsAhead
  <2> SUFFICES ASSUME IInv, file # NULL PROVE wallet_load(file).nonce <= saved.nonce
    BY DEF NeverSkipsAhead
  <2>1. file.nonce <= saved.nonce
    BY FileType DEF IInv, FileInv
  <2> QED  BY <2>1, Zenon DEF wallet_load
<1> QED  BY <1>1, WalletInvariance, PTL
=============================================================================
