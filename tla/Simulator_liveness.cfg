SPECIFICATION GeneratorFairSpec
CONSTANTS
    INT_MAX = 31
    MAX_THREADS = 2
    MAX_BATCH_SIZE = 2
    NONCES = 64
    total_count = 5
    threads_arg = 2
    batch_arg = 5
    MaxCrashes = 1
    Foreign = {f1}
PROPERTIES
    LoopEnds
    ReportsIfRestarted
    SurvivorIsReceived
