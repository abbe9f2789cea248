SPECIFICATION Spec
CONSTANTS
    NULL = NULL
    VARINT_LIMITS = {128, 16384}
    ZERO = ZERO
    UINT64_MAX = 255
    UINT32_MAX = 255
    COINBASE_ADDRESS = COINBASE_ADDRESS
    TX_ADDRESS_LENGTH = 1
    TX_SIGNATURE_LENGTH = 6
    TX_TOTAL_SIZE = 12
    BytesOf <- MCBytesOf
    StructOf <- MCStructOf
    Misprints = {0, 22}
    alice = alice
    bob = bob
    Accounts = {alice, bob}
    Amounts = {0, 255}
    Fees = {0, 1}
    TxNonces = {0, 255}
    Lifetimes = {0, 1, 3}
    FirstBlocks = {0, 252, 253}
    MAX_BLOCKS = 3
INVARIANTS
    CopiesAreFaithful
    CutSignedIsRefused
    LivesItsBlocks
