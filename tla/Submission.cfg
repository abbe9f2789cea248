SPECIFICATION Spec
CONSTANTS
    Batches <- MCBatches
    Size <- MCSize
INVARIANTS
    SpentPerCounted
    CountedWithinReceived
PROPERTIES
    ReportIsFinal
CHECK_DEADLOCK FALSE
