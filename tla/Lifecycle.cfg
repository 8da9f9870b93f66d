\* Two sessions; the system takes the VPN or the service away at any moment.
CONSTANTS
    Sessions = {s1, s2}
    NoSession = NoSession
    Interruptible = TRUE
SPECIFICATION FairSpec
INVARIANTS
    TypeOK
    AllOrNothing
    PendingHasThread
    EndedIsReleased
PROPERTIES
    StopReleases
    DeadTunnelEnds
    StartEnds
CHECK_DEADLOCK FALSE
