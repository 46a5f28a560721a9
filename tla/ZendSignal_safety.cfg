\* A signal whose action is the default ends the process.
CHECK_DEADLOCK FALSE
CONSTANTS
    prof = prof
    quit = quit
    Signals <- MCSignals
    Timer = prof
    Orig <- MCOrig
    None = none
    QueueSize = 3
    MaxDepth = 2
SPECIFICATION Spec
INVARIANTS
    TypeOK
    BlockedMeansQueued
    TimeoutHeard
PROPERTIES
    LeftBehind
    DeliverySpec
