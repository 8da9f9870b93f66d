\* Two dials with ECH, or one dial and Warmup with one relay node that comes and
\* goes.
CONSTANTS
    Dials = {d1, d2}
    Warmers = {w1}
    Nodes = {n1}
    NoNode = NoNode
    Automatic = Automatic
    Error = Error
    Settings <- MCSettings
    MaxPoolSize = 2
    Concurrency = 1
    MaxKey = 2
SPECIFICATION FairSpec
INVARIANTS
    TypeOK
    LoadAccounting
PROPERTIES
    DialsEnd
    OldKeyForgotten
CHECK_DEADLOCK FALSE
