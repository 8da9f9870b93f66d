\* Four IDs, two streams at most, three owners that come and go, one of which may
\* unregister twice.
CONSTANTS
    NumIds = 4
    MaxStreams = 2
    Owners = {o1, o2, o3}
    Requests = {o1}
    Nobody = Nobody
SPECIFICATION MCSpec
INVARIANTS
    TypeOK
    BitmapMatchesTable
    ExclusiveLease
    CountersExact
PROPERTIES
    WipeOnlyNotified
    CloseCompletes
    ReuseDistance
    ImplementsLease
CHECK_DEADLOCK FALSE
