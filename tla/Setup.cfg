SPECIFICATION FairSpec
CONSTANTS
    num_threads = 3
INVARIANTS
    TypeOK
    NothingMisused
    ReturnsEmptyHanded
PROPERTIES
    EndsOrAwaitsReceiver
