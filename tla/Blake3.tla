------------------------------- MODULE Blake3 -------------------------------
(***************************************************************************)
(* The hasher of src/blake3.c: it buffers the input in chunks, hashes each *)
(* chunk block by block, and merges the chunks' chaining values on a stack.*)
(*                                                                         *)
(* The compression function is a term of its arguments, so two values are  *)
(* equal only if they were computed from the same arguments.  The program  *)
(* never looks at the bytes it hashes, so the i-th byte of the input is    *)
(* simply named i; 0 is the zero byte of the padding.                      *)
(***************************************************************************)
EXTENDS Integers, SequencesExt

CONSTANTS
    BLAKE3_BLOCK_LEN,   \* 64 in the source
    BLAKE3_CHUNK_LEN,   \* 1024 in the source
    MaxLen              \* bound on the length of the input

ASSUME SizesAssumption ==
    /\ BLAKE3_BLOCK_LEN \in Nat \ {0}
    /\ BLAKE3_CHUNK_LEN \in Nat \ {0}
    /\ BLAKE3_CHUNK_LEN % BLAKE3_BLOCK_LEN = 0
    /\ MaxLen \in Nat

VARIABLES
    hasher,     \* the blake3_hasher
    input,      \* what the current call of update has yet to take
    length      \* how many bytes were passed to update in all

vars == <<hasher, input, length>>

Bytes(from, to) == [i \in 1..(to - from) |-> from + i]

-----------------------------------------------------------------------------
(* The compression function and what is built from it                       *)

IV == <<>>

(* Faulty variant: the length of a block is left out.                        *)
CompressNoLen(flags, counter, len, cv, block) == <<flags, counter, cv, block>>

Compress(flags, counter, len, cv, block) == <<flags, counter, len, cv, block>>

Padded(bytes) == bytes \o [i \in 1..(BLAKE3_BLOCK_LEN - Len(bytes)) |-> 0]

StartFlag(blocks_compressed) ==
    IF blocks_compressed = 0 THEN {"CHUNK_START"} ELSE {}

(* A block is compressed when the next one begins, so the last block of the  *)
(* chunk, full or not, is the one that is output.                            *)
ChunkCv(flags, counter, bytes) ==
    LET inner == IF bytes = <<>> THEN 0 ELSE (Len(bytes) - 1) \div BLAKE3_BLOCK_LEN
        last  == SubSeq(bytes, inner * BLAKE3_BLOCK_LEN + 1, Len(bytes))
        cv[k \in 0..inner] ==
            IF k = 0 THEN IV
            ELSE Compress(flags \cup StartFlag(k - 1), counter, BLAKE3_BLOCK_LEN, cv[k - 1],
                          SubSeq(bytes, (k - 1) * BLAKE3_BLOCK_LEN + 1, k * BLAKE3_BLOCK_LEN))
    IN  Compress(flags \cup StartFlag(inner) \cup {"CHUNK_END"}, counter, Len(last),
                 cv[inner], Padded(last))

ParentCv(flags, left, right) ==
    Compress(flags \cup {"PARENT"}, 0, BLAKE3_BLOCK_LEN, IV, <<left, right>>)

RootOf(flags, cv) == Compress(flags \cup {"ROOT"}, 0, 32, IV, <<cv>>)

(* The stack from its top down is merged into the value on its right.       *)
MergeAll(flags, stack, right) ==
    FoldRight(LAMBDA l, r : ParentCv(flags, l, r), stack, right)

-----------------------------------------------------------------------------
(* The hasher                                                               *)

NewHasher(flags) == [flags |-> flags, stack |-> <<>>, chunk_counter |-> 0, buf |-> <<>>]

(* Faulty variant: no value is ever merged before the end.                   *)
AddChunkCvNoMerge(h, new_cv) == Append(h.stack, new_cv)

(* Values are popped while the counter is not a multiple of 2 to the number  *)
(* of values on the stack.                                                   *)
AddChunkCv(h, new_cv) ==
    LET power[m \in 0..Len(h.stack)] == IF m = 0 THEN 1 ELSE 2 * power[m - 1]
        kept == Max({m \in 0..Len(h.stack) : h.chunk_counter % power[m] = 0})
    IN  Append(SubSeq(h.stack, 1, kept),
               MergeAll(h.flags, SubSeq(h.stack, kept + 1, Len(h.stack)), new_cv))

Flush(h) ==
    [h EXCEPT !.stack = AddChunkCv(h, ChunkCv(h.flags, h.chunk_counter, h.buf)),
              !.chunk_counter = @ + 1,
              !.buf = <<>>]

Take(h, bytes) == [h EXCEPT !.buf = @ \o bytes]

Full(h) == Len(h.buf) = BLAKE3_CHUNK_LEN

(* The digest; the hasher itself is not changed.                            *)
Finalize(h) ==
    RootOf(h.flags,
           MergeAll(h.flags, h.stack, ChunkCv(h.flags, h.chunk_counter, h.buf)))

Init ==
    /\ hasher \in {NewHasher({}), NewHasher({"KEYED_HASH"})}
    /\ input = <<>>
    /\ length = 0

(* A call of blake3_hasher_update with the next n bytes.                    *)
Update(n) ==
    /\ input = <<>> /\ length + n <= MaxLen
    /\ input' = Bytes(length, length + n)
    /\ length' = length + n
    /\ UNCHANGED hasher

(* Faulty variant: a chunk is flushed as soon as it is full, not when more    *)
(* input comes.                                                              *)
UpdateLoopEager ==
    /\ input # <<>>
    /\ LET taken == Min({Len(input), BLAKE3_CHUNK_LEN - Len(hasher.buf)})
           h     == Take(hasher, SubSeq(input, 1, taken))
       IN  /\ hasher' = IF Full(h) THEN Flush(h) ELSE h
           /\ input' = SubSeq(input, taken + 1, Len(input))
    /\ UNCHANGED length

(* One turn of its loop.                                                    *)
UpdateLoop ==
    /\ input # <<>>
    /\ LET h     == IF Full(hasher) THEN Flush(hasher) ELSE hasher
           taken == Min({Len(input), BLAKE3_CHUNK_LEN - Len(h.buf)})
       IN  /\ hasher' = Take(h, SubSeq(input, 1, taken))
           /\ input' = SubSeq(input, taken + 1, Len(input))
    /\ UNCHANGED length

Next ==
    \/ \E n \in 0..MaxLen : Update(n)
    \/ UpdateLoop

Spec == Init /\ [][Next]_vars

-----------------------------------------------------------------------------
(* The digest as a function of the input alone: the chunks are paired, and   *)
(* the pairs are merged from left to right.                                  *)
DigestOf(flags, bytes) ==
    LET chunks == IF bytes = <<>> THEN 1 ELSE ((Len(bytes) - 1) \div BLAKE3_CHUNK_LEN) + 1
        Leaf(i) == ChunkCv(flags, i, SubSeq(bytes, i * BLAKE3_CHUNK_LEN + 1,
                               Min({(i + 1) * BLAKE3_CHUNK_LEN, Len(bytes)})))
        Pair(k) == IF 2 * k + 1 < chunks THEN ParentCv(flags, Leaf(2 * k), Leaf(2 * k + 1))
                                         ELSE Leaf(2 * k)
        comb[k \in 0..((chunks - 1) \div 2)] ==
            IF k = 0 THEN Pair(0) ELSE ParentCv(flags, comb[k - 1], Pair(k))
    IN  RootOf(flags, comb[(chunks - 1) \div 2])

(* The inputs that differ from this one in one byte, or by one byte more.   *)
Neighbours(bytes) ==
    {[bytes EXCEPT ![i] = 0] : i \in 1..Len(bytes)}
        \cup {Append(bytes, x) : x \in {0, MaxLen + 1}}

(* However the input was cut into calls of update, and whether or not a      *)
(* digest was taken in between, the digest is the one of the whole input.    *)
DigestOfWholeInput ==
    input = <<>> => Finalize(hasher) = DigestOf(hasher.flags, Bytes(0, length))

(* The digest commits to every byte, to the length of the input, also where  *)
(* the last block is padded, and to the mode.                                *)
DigestCommits ==
    input = <<>> =>
        /\ \A other \in Neighbours(Bytes(0, length)) :
              DigestOf(hasher.flags, other) # Finalize(hasher)
        /\ \A flags \in {{}, {"KEYED_HASH"}} \ {hasher.flags} :
              DigestOf(flags, Bytes(0, length)) # Finalize(hasher)

(* The stack, which has room for 54 values, never holds more than two,       *)
(* however long the input is.                                                *)
StackStaysSmall == Len(hasher.stack) <= 2
=============================================================================
