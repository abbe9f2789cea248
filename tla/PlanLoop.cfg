SPECIFICATION Spec
CONSTANTS
    INT_MAX = 15
    MAX_THREADS = 2
    MAX_BATCH_SIZE = 4
    NONCES = 32
    Totals <- MCTotals
    BatchArgs <- MCBatchArgs
    BaseNonces <- MCBaseNonces
INVARIANTS
    AllCreated
    CreatedOnce
    IterationsFit
