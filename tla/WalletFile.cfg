SPECIFICATION Spec
CONSTANTS
    NULL = NULL
    Char = {0, 1, 2}
    BLANK = 0
    Names <- MCNames
    NAME_LENGTH = 4
    ADDRESS_LENGTH = 1
    key1 = key1
    key2 = key2
    Keys = {key1, key2}
    NO_KEY = NO_KEY
    hash160 <- MCHash160
    MAX_NONCE = 3
    SyncNonces = {0, 2}
    POWERS_OF_TEN = {1, 2, 4}
INVARIANTS
    KeyedIsWhole
    LoadReturnsSaved
    NoRecordedNonceAgain
    NeverSkipsAhead
\* The keys of the instance are used up in the end.
CHECK_DEADLOCK FALSE
