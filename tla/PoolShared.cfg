\* Three tunnels compete for two streams of a connection that dies in every way.
CONSTANTS
    Conns = {c1}
    Tunnels = {t1, t2, t3}
    OneTarget = x
    Targets <- MCTargets
    TargetOf <- MCTargetOf
    NoConn = NoConn
    NoTunnel = NoTunnel
    Janitor = Janitor
    Closer = Closer
    MaxPoolSize = 1
    MaxStreams = 2
    KeepMin = 0
    EnableMultiplex = TRUE
    Faults = {"read", "write", "heartbeat", "cull"}
SPECIFICATION Spec
SYMMETRY Symmetric
INVARIANTS
    TypeOK
    NoStreamLeak
    NoStrandedConnection
    NobodyForgotten
CHECK_DEADLOCK FALSE
