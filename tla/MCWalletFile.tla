---------------------------- MODULE MCWalletFile ----------------------------
(***************************************************************************)
(* Values for the constants of WalletFile that a configuration file cannot  *)
(* state: a name that is too long and then ends in a blank, and addresses.   *)
(***************************************************************************)
EXTENDS WalletFile

CONSTANTS key1, key2

MCNames == {<<1, BLANK, 2, BLANK, 1>>}

MCHash160 ==
    [x \in MCNames \cup {NO_KEY} \cup {PublicKey(key) : key \in Keys} |->
        IF x \in MCNames THEN <<171>> ELSE IF x = NO_KEY THEN <<18>>
        ELSE IF x = PublicKey(key1) THEN <<255>> ELSE <<0>>]
=============================================================================
