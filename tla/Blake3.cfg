SPECIFICATION Spec
CONSTANTS
    BLAKE3_BLOCK_LEN = 2
    BLAKE3_CHUNK_LEN = 4
    MaxLen = 34
INVARIANTS
    DigestOfWholeInput
    DigestCommits
    StackStaysSmall
