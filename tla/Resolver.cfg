\* Two resolvers at a time.
CONSTANTS
    Resolvers = {r1, r2}
    NoResolver = NoResolver
    Settings <- MCSettings
    Sem = 1
SPECIFICATION FairSpec
INVARIANTS
    TypeOK
    AnyServerServes
    IdleUnused
    ReturnedOrStranded
PROPERTIES
    KnownHangs
CHECK_DEADLOCK FALSE
