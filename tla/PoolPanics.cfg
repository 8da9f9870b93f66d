\* Close while a connection is being dialed.
CONSTANTS
    Conns = {c1}
    Tunnels = {t1}
    OneTarget = x
    Targets <- MCTargets
    TargetOf <- MCTargetOf
    NoConn = NoConn
    NoTunnel = NoTunnel
    Janitor = Janitor
    Closer = Closer
    MaxPoolSize = 1
    MaxStreams = 2
    KeepMin = 0
    EnableMultiplex = TRUE
    Faults = {"close"}
SPECIFICATION Spec
INVARIANTS
    NoPanic
CHECK_DEADLOCK FALSE
