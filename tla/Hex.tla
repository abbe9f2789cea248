--------------------------------- MODULE Hex ---------------------------------
(***************************************************************************)
(* Byte arrays as hexadecimal text.  A character is a number: 0..15 are the *)
(* digits as they are written, 16..21 the upper-case letters, and any other *)
(* number is a character that is no digit.                                  *)
(***************************************************************************)
EXTENDS Integers, Sequences

Byte == 0..255
HexDigit == 0..21

(* Faulty variant: the digits of a byte are swapped.                        *)
bytes_to_hex_buf_swapped(bytes) ==
    [k \in 1..(2 * Len(bytes)) |->
        IF k % 2 = 1 THEN bytes[(k + 1) \div 2] % 16 ELSE bytes[k \div 2] \div 16]

bytes_to_hex_buf(bytes) ==
    [k \in 1..(2 * Len(bytes)) |->
        IF k % 2 = 1 THEN bytes[(k + 1) \div 2] \div 16 ELSE bytes[k \div 2] % 16]

hex_char_value(c) == IF c \in 16..21 THEN c - 6 ELSE c

(* The bytes before the first character that is no digit are overwritten.   *)
hex_to_bytes_buf(hex, bytes) ==
    LET Good(i) == \A k \in 1..(2 * i) : hex[k] \in HexDigit
    IN  [ok    |-> Good(Len(bytes)),
         bytes |-> [i \in 1..Len(bytes) |->
                       IF Good(i) THEN 16 * hex_char_value(hex[2 * i - 1]) + hex_char_value(hex[2 * i])
                       ELSE bytes[i]]]
=============================================================================
