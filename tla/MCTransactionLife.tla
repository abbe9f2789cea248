-------------------------- MODULE MCTransactionLife --------------------------
(***************************************************************************)
(* The memory of a transaction for an instance of TransactionLife: numbers   *)
(* and addresses of one byte, signatures of six, of which the first stands   *)
(* for how and by whom it was made and the others for what was hashed.       *)
(***************************************************************************)
EXTENDS TransactionLife

CONSTANTS alice, bob

MCAddresses == <<alice, bob, COINBASE_ADDRESS>>
MCWays == <<"key", "address", "source">>

CodeOf(x, codes) ==
    IF \E i \in DOMAIN codes : codes[i] = x THEN CHOOSE i \in DOMAIN codes : codes[i] = x ELSE 0

ValueOf(i, codes) == IF i = 0 THEN ZERO ELSE IF i \in DOMAIN codes THEN codes[i] ELSE <<i>>

SignatureBytes(s) ==
    IF s = ZERO THEN <<0, 0, 0, 0, 0, 0>>
    ELSE << CodeOf(s.way, MCWays) + 16 * CodeOf(s.signer, MCAddresses), s.hash[1], s.hash[2],
            CodeOf(s.hash[3], MCAddresses) + 16 * CodeOf(s.hash[4], MCAddresses),
            s.hash[5], s.hash[6] >>

SignatureIn(b) ==
    IF b = <<0, 0, 0, 0, 0, 0>> THEN ZERO
    ELSE [way |-> ValueOf(b[1] % 16, MCWays), signer |-> ValueOf(b[1] \div 16, MCAddresses),
          hash |-> << b[2], b[3], ValueOf(b[4] % 16, MCAddresses),
                      ValueOf(b[4] \div 16, MCAddresses), b[5], b[6] >>]

MCBytesOf(t) ==
    << t.nonce, t.expiry_block, CodeOf(t.source_address, MCAddresses),
       CodeOf(t.dest_address, MCAddresses), t.value, t.fee >> \o SignatureBytes(t.signature)

MCStructOf(b) ==
    [nonce |-> b[1], expiry_block |-> b[2],
     source_address |-> ValueOf(b[3], MCAddresses), dest_address |-> ValueOf(b[4], MCAddresses),
     value |-> b[5], fee |-> b[6], signature |-> SignatureIn([i \in 1..6 |-> b[6 + i]])]
=============================================================================
