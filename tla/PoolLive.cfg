\* Two tunnels on one connection that dies in every way but the heartbeat.
CONSTANTS
    Conns = {c1}
    Tunnels = {t1, t2}
    OneTarget = x
    Targets <- MCTargets
    TargetOf <- MCTargetOf
    NoConn = NoConn
    NoTunnel = NoTunnel
    Janitor = Janitor
    Closer = Closer
    MaxPoolSize = 1
    MaxStreams = 2
    KeepMin = 0
    EnableMultiplex = TRUE
    Faults = {"read", "write", "cull"}
SPECIFICATION FairSpec
PROPERTIES
    TunnelsEnd
    DeadIsForgotten
CHECK_DEADLOCK FALSE
