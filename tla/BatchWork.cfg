SPECIFICATION Spec
CONSTANTS
    VARINT_LIMITS = {128, 16384, 2097152, 268435456}
    ZERO = ZERO
    UINT64_MAX = 1073741823
    UINT32_MAX = 65535
    COINBASE_ADDRESS = COINBASE_ADDRESS
    TX_ADDRESS_LENGTH = 20
    TX_SIGNATURE_LENGTH = 48
    batch_count = 3
    RECV_BUF_SIZE = 358
    Amounts = {0, 10, 1073741823}
    Nonces = {0, 1073741821, 1073741823}
    from_addr = alice
    to_addr = bob
    EXPIRY = 1000
    FEE = 1
INVARIANTS
    ResourcesInOrder
    MessageFits
    ArriveIntact
    RejectsTheUnsigned
    CountedHaveVerdicts
    SignaturesDiffer
