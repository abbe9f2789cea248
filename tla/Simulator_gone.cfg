SPECIFICATION RunningFairSpec
CONSTANTS
    INT_MAX = 31
    MAX_THREADS = 2
    MAX_BATCH_SIZE = 2
    NONCES = 64
    total_count = 3
    threads_arg = 1
    batch_arg = 5
    MaxCrashes = 1
    Foreign = {}
PROPERTIES
    EventuallyReports
