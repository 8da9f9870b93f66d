\* A queue of two frames, four DATA frames: room for a hole and what follows it.
CONSTANTS
    QueueSize = 2
    MaxData = 4
SPECIFICATION FairSpec
INVARIANTS
    TypeOK
    LateDataBound
    Attended
PROPERTIES
    ImplementsPipe
    ImplementsHandler
    ConnectionEnds
    LoopNotBlocked
CHECK_DEADLOCK FALSE
