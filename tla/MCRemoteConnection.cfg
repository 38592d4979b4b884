SPECIFICATION Spec
CONSTANTS
    Client = {a, b}
    Conn = {k1, k2, k3}
    NoConn = NoConn
    MaxAttempts = 2
    MaxMissed = 2
INVARIANTS
    TypeOK
    SingleMaster
    HeartbeatHasState
PROPERTIES
    DisconnectedIsFinal
    ReconnectEndsIfMastersOpen
CHECK_DEADLOCK FALSE
