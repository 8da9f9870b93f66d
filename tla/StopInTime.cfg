\* Another VPN takes over while the VPN is being started.
CONSTANTS
    Sessions = {s1}
    NoSession = NoSession
    Interruptible = TRUE
SPECIFICATION Spec
INVARIANTS
    StoppedIsDown
CHECK_DEADLOCK FALSE
