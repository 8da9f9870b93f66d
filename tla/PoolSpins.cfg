\* Three tunnels, two streams: the third pops the full idle connection for ever.
CONSTANTS
    Conns = {c1}
    Tunnels = {t1, t2, t3}
    OneTarget = x
    Targets <- MCTargets
    TargetOf <- MCTargetOf
    NoConn = NoConn
    NoTunnel = NoTunnel
    Janitor = Janitor
    Closer = Closer
    MaxPoolSize = 1
    MaxStreams = 2
    KeepMin = 0
    EnableMultiplex = TRUE
    Faults = {}
SPECIFICATION FairSpec
PROPERTIES
    RequestEnds
CHECK_DEADLOCK FALSE
