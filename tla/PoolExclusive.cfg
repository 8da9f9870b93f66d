\* Without multiplexing: a connection replaced by another while it is
\* retired, read from or culled, and Close at any moment.
CONSTANTS
    Conns = {c1, c2}
    Tunnels = {t1, t2}
    OneTarget = x
    Targets <- MCTargets
    TargetOf <- MCTargetOf
    NoConn = NoConn
    NoTunnel = NoTunnel
    Janitor = Janitor
    Closer = Closer
    MaxPoolSize = 1
    MaxStreams = 2
    KeepMin = 0
    EnableMultiplex = FALSE
    Faults = {"read", "cull", "close"}
SPECIFICATION Spec
SYMMETRY Symmetric
INVARIANTS
    Capacity
    ExclusiveUse
    CloseClosesAll
CHECK_DEADLOCK FALSE
