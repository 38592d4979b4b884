SPECIFICATION Spec
CONSTANTS
    Client = {a}
    Conn = {k1, k2}
    NoConn = NoConn
    MaxAttempts = 2
    MaxMissed = 2
PROPERTIES
    LostProxyIsNoticed
CHECK_DEADLOCK FALSE
