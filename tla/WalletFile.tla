----------------------------- MODULE WalletFile -----------------------------
(***************************************************************************)
(* A wallet in memory and the file it is saved to and loaded from, across  *)
(* crashes of the process and writes that are cut short.  wallet_save       *)
(* truncates the file, writes name, address, nonce and key in this order,   *)
(* and does not look at the results of its writes.                          *)
(***************************************************************************)
EXTENDS Hex

CONSTANTS
    NULL,
    Char, BLANK,    \* characters of a name; BLANK is what trim removes
    Names,          \* names that are passed to wallet_create_named
    NAME_LENGTH,    \* 63
    ADDRESS_LENGTH, \* 20
    Keys,           \* the keys that OpenSSL generates, all different
    NO_KEY,         \* the public key of 65 zeros
    hash160,        \* from names and public keys to addresses
    MAX_NONCE,      \* bound on the nonces of the model
    SyncNonces,     \* nonces that are passed to wallet_set_nonce
    POWERS_OF_TEN   \* 1, 10, 100 and so on, up to more than MAX_NONCE

VARIABLES
    wallet,         \* the wallet in memory, or NULL
    file,           \* the content of the file, or NULL before the first save
    saving,         \* wallet_save has opened the file and not closed it
    fresh,          \* the keys not generated yet
    saved,          \* history: the wallet as it was at the last wallet_save,
    intact,         \* whether all of it was written,
    handed_out,     \* the nonces that the wallet in memory has handed out,
    recorded        \* and those of each key at the end of a wallet_save

history == <<saved, intact, handed_out, recorded>>
vars == <<wallet, file, saving, fresh, history>>

Address == [1..ADDRESS_LENGTH -> Byte]
Nonces == 0..MAX_NONCE
PublicKey(key) == <<"public", key>>

ASSUME WalletFileAssumption ==
    /\ BLANK \in Char /\ Names \subseteq Seq(Char)
    /\ NAME_LENGTH \in Nat /\ ADDRESS_LENGTH \in Nat \ {0} /\ MAX_NONCE \in Nat
    /\ NULL \notin Keys /\ SyncNonces \subseteq Nonces
    /\ hash160 \in [Names \cup {NO_KEY} \cup {PublicKey(key) : key \in Keys} -> Address]
    /\ POWERS_OF_TEN \subseteq Nat \ {0} /\ 1 \in POWERS_OF_TEN

-----------------------------------------------------------------------------
(* Strings and addresses                                                    *)

safe_strcpy(str) == SubSeq(str, 1, IF Len(str) <= NAME_LENGTH THEN Len(str) ELSE NAME_LENGTH)

trim(str) ==
    LET kept == {i \in DOMAIN str : str[i] # BLANK}
        first == CHOOSE i \in kept : \A k \in kept : i <= k
        last == CHOOSE i \in kept : \A k \in kept : k <= i
    IN  IF kept = {} THEN <<>> ELSE SubSeq(str, first, last)

ZeroAddress == [i \in 1..ADDRESS_LENGTH |-> 0]

address_to_hex(address) == bytes_to_hex_buf(address)

(* Into an address that is zero.                                            *)
hex_to_address(hex) ==
    IF Len(hex) # 2 * ADDRESS_LENGTH THEN ZeroAddress
    ELSE hex_to_bytes_buf(hex, ZeroAddress).bytes

wallet_is_hex_address(str) ==
    Len(str) = 2 * ADDRESS_LENGTH /\ \A k \in DOMAIN str : str[k] \in HexDigit

wallet_parse_address(str) ==
    IF wallet_is_hex_address(str) THEN hex_to_address(str) ELSE hash160[str]

-----------------------------------------------------------------------------
(* The file.  A line that is missing and a line that was cut before its     *)
(* value read alike.                                                        *)

NoPem == [key |-> NULL, whole |-> FALSE]
Pem(key) == [key |-> key, whole |-> TRUE]

EmptyFile == [name |-> <<>>, address |-> <<>>, nonce |-> 0, pem |-> NoPem]

(* Faulty variant: the nonce is printed as a one-bit type.                  *)
ContentNarrow(w) ==
    [name |-> w.name, address |-> w.address_hex, nonce |-> w.nonce % 2, pem |-> w.private_key_pem]

Content(w) ==
    [name |-> w.name, address |-> w.address_hex, nonce |-> w.nonce, pem |-> w.private_key_pem]

(* Faulty variant: the key is written before the nonce.                     *)
PrefixesKeyFirst(c) ==
    {[EmptyFile EXCEPT !.name = c.name, !.address = c.address, !.pem = c.pem], c}

(* What is in the file when the writes end early: a beginning of the text.   *)
(* A number loses its last digits, a key that is cut cannot be read.        *)
Prefixes(c) ==
    {[EmptyFile EXCEPT !.name = SubSeq(c.name, 1, k)] : k \in 0..Len(c.name)}
    \cup {[EmptyFile EXCEPT !.name = c.name, !.address = SubSeq(c.address, 1, k)] :
             k \in 0..Len(c.address)}
    \cup {[c EXCEPT !.nonce = @ \div power, !.pem = NoPem] : power \in POWERS_OF_TEN}
    \cup {[c EXCEPT !.pem.whole = FALSE], c}

(* Faulty variant: the wallet is not zeroed before it is filled in, and the  *)
(* file has no nonce to overwrite what was there.                            *)
wallet_load_garbage(f) ==
    [name            |-> trim(f.name),
     address         |-> hex_to_address(f.address),
     address_hex     |-> f.address,
     public_key      |-> NO_KEY,
     nonce           |-> IF f.address = <<>> THEN MAX_NONCE ELSE f.nonce,
     private_key_pem |-> f.pem,
     evp_key         |-> IF f.pem.whole THEN f.pem.key ELSE NULL]

wallet_load(f) ==
    [name            |-> trim(f.name),
     address         |-> hex_to_address(f.address),
     address_hex     |-> f.address,
     public_key      |-> NO_KEY,
     nonce           |-> f.nonce,
     private_key_pem |-> f.pem,
     evp_key         |-> IF f.pem.whole THEN f.pem.key ELSE NULL]

-----------------------------------------------------------------------------
(* The key that a wallet holds, in its handle or only as text.              *)
KeyOf(w) == IF w.evp_key # NULL THEN w.evp_key ELSE w.private_key_pem.key

Init ==
    /\ wallet = NULL /\ file = NULL /\ saving = FALSE /\ fresh = Keys
    /\ saved = NULL /\ intact = FALSE
    /\ handed_out = {} /\ recorded = [key \in Keys |-> {}]

NewWallet(name, key, public_key, address, has_pem) ==
    /\ wallet = NULL
    /\ wallet' = [name            |-> safe_strcpy(name),
                  address         |-> address,
                  address_hex     |-> address_to_hex(address),
                  public_key      |-> public_key,
                  nonce           |-> 0,
                  private_key_pem |-> IF has_pem THEN Pem(key) ELSE NoPem,
                  evp_key         |-> key]
    /\ fresh' = fresh \ {key}
    /\ handed_out' = {}
    /\ UNCHANGED <<file, saving, saved, intact, recorded>>

(* A public key that cannot be extracted stays zero.  A BIO that cannot be   *)
(* had leaves the wallet without the text of its key.                       *)
wallet_create ==
    \E key \in fresh, has_pem \in BOOLEAN :
        \E public_key \in {PublicKey(key), NO_KEY} :
            NewWallet(<<>>, key, public_key, hash160[public_key], has_pem)

(* The address is that of the name, the key has nothing to do with it.      *)
wallet_create_named ==
    \E key \in fresh, has_pem \in BOOLEAN, name \in Names :
        NewWallet(name, key, NO_KEY, hash160[name], has_pem)

wallet_get_next_nonce ==
    /\ wallet # NULL /\ ~saving /\ wallet.nonce < MAX_NONCE
    /\ handed_out' = handed_out \cup {wallet.nonce}
    /\ wallet' = [wallet EXCEPT !.nonce = @ + 1]
    /\ UNCHANGED <<file, saving, fresh, saved, intact, recorded>>

(* Going back hands out nonces again that had been: that is what was asked   *)
(* for, and they count no more as handed out.                                *)
wallet_set_nonce(nonce) ==
    /\ wallet # NULL /\ ~saving
    /\ wallet' = [wallet EXCEPT !.nonce = nonce]
    /\ handed_out' = {n \in handed_out : n < nonce}
    /\ recorded' = [key \in Keys |-> IF key = KeyOf(wallet) THEN {n \in recorded[key] : n < nonce}
                                     ELSE recorded[key]]
    /\ UNCHANGED <<file, saving, fresh, saved, intact>>

(* fopen for writing; what is printed stays in the buffer of the stream.     *)
OpenToSave ==
    /\ wallet # NULL /\ ~saving
    /\ saving' = TRUE
    /\ file' = EmptyFile /\ saved' = wallet /\ intact' = FALSE
    /\ UNCHANGED <<wallet, fresh, handed_out, recorded>>

(* fclose writes; wallet_save returns true however much was written.         *)
CloseSaved ==
    /\ saving
    /\ saving' = FALSE
    /\ file' \in Prefixes(Content(wallet))
    /\ intact' = (file' = Content(wallet))
    /\ recorded' = [key \in Keys |-> recorded[key] \cup IF key = KeyOf(wallet) THEN handed_out ELSE {}]
    /\ UNCHANGED <<wallet, fresh, saved, handed_out>>

(* The key is lost as well when OpenSSL has no memory to read it.            *)
Load ==
    /\ wallet = NULL /\ file # NULL
    /\ wallet' \in {wallet_load(file), [wallet_load(file) EXCEPT !.evp_key = NULL]}
    /\ handed_out' = {}
    /\ UNCHANGED <<file, saving, fresh, saved, intact, recorded>>

wallet_destroy ==
    /\ wallet # NULL /\ ~saving
    /\ wallet' = NULL
    /\ UNCHANGED <<file, saving, fresh, history>>

(* The process is killed, perhaps while fclose writes.                       *)
Crash ==
    /\ wallet # NULL
    /\ wallet' = NULL /\ saving' = FALSE
    /\ file' \in IF saving THEN Prefixes(Content(wallet)) ELSE {file}
    /\ intact' = IF saving THEN file' = Content(wallet) ELSE intact
    /\ UNCHANGED <<fresh, saved, handed_out, recorded>>

Next ==
    \/ wallet_create \/ wallet_create_named
    \/ wallet_get_next_nonce
    \/ \E nonce \in SyncNonces : wallet_set_nonce(nonce)
    \/ OpenToSave \/ CloseSaved \/ Load
    \/ wallet_destroy \/ Crash

Spec == Init /\ [][Next]_vars

-----------------------------------------------------------------------------
(* Properties                                                               *)

(* A wallet as it comes back from the file.                                 *)
SameWallet(loaded, w) ==
    /\ loaded.name = trim(w.name)
    /\ loaded.address = w.address /\ loaded.address_hex = w.address_hex
    /\ loaded.nonce = w.nonce /\ loaded.private_key_pem = w.private_key_pem

(* The key is written last: whoever loads the file, at any moment of a save  *)
(* or after a crash, and gets a key from it, gets with it the address and    *)
(* the nonce that were saved with this key (wallet_save, wallet_load).       *)
KeyedIsWhole ==
    file # NULL /\ wallet_load(file).evp_key # NULL => SameWallet(wallet_load(file), saved)

(* A file that was written in full gives back the wallet that was saved,     *)
(* though its address goes through hexadecimal text and its key may have     *)
(* been lost before.  Only blanks around the name are gone, and the public   *)
(* key, which the file does not hold.                                        *)
LoadReturnsSaved == intact => SameWallet(wallet_load(file), saved)

(* A wallet that holds a key never hands out a nonce again that this key had *)
(* handed out before the return of a wallet_save, across crashes, cut files  *)
(* and loads (wallet_get_next_nonce).                                        *)
NoRecordedNonceAgain ==
    wallet # NULL /\ wallet.evp_key # NULL => wallet.nonce \notin recorded[wallet.evp_key]

(* However the file was cut, a load never yields a nonce beyond the saved    *)
(* one, which would leave a gap that nothing fills.                          *)
NeverSkipsAhead == file # NULL => wallet_load(file).nonce <= saved.nonce

-----------------------------------------------------------------------------
(* The inductive invariant                                                  *)

Pems == [key : Keys, whole : BOOLEAN] \cup {NoPem}

Wallets ==
    [name : Seq(Char), address : Address, address_hex : Seq(HexDigit),
     public_key : {NO_KEY} \cup {PublicKey(key) : key \in Keys}, nonce : Nonces,
     private_key_pem : Pems, evp_key : Keys \cup {NULL}]

Files == [name : Seq(Char), address : Seq(HexDigit), nonce : Nonces, pem : Pems]

TypeOK ==
    /\ wallet \in Wallets \cup {NULL} /\ file \in Files \cup {NULL}
    /\ saving \in BOOLEAN /\ fresh \in SUBSET Keys
    /\ saved \in Wallets \cup {NULL} /\ intact \in BOOLEAN
    /\ handed_out \in SUBSET Nonces /\ recorded \in [Keys -> SUBSET Nonces]

(* The two forms of the address agree; the key and its text agree.          *)
Coherent(w) ==
    /\ w.address = hex_to_address(w.address_hex)
    /\ w.private_key_pem.key \in {NULL, KeyOf(w)}

WalletInv ==
    wallet # NULL =>
        /\ Coherent(wallet)
        /\ KeyOf(wallet) \notin fresh
        /\ \A n \in handed_out : n < wallet.nonce
        /\ wallet.evp_key # NULL \/ wallet.private_key_pem.whole =>
              \A n \in recorded[KeyOf(wallet)] : n < wallet.nonce

FileInv ==
    /\ saved = NULL => file = NULL /\ ~intact /\ ~saving
    /\ saved # NULL =>
        /\ Coherent(saved)
        /\ file \in Prefixes(Content(saved)) \cup {EmptyFile}
        /\ intact => file = Content(saved)
        /\ file.pem.key \notin fresh
        /\ file.pem.whole => \A n \in recorded[file.pem.key] : n < file.nonce
    /\ saving => wallet # NULL /\ saved = wallet /\ file = EmptyFile
    /\ \A key \in fresh : recorded[key] = {}

IInv == TypeOK /\ WalletInv /\ FileInv
=============================================================================
