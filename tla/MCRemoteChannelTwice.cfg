SPECIFICATION Spec
CONSTANTS
    MaxSend = 2
    MaxReconnect = 2
INVARIANTS
    NothingLost
CHECK_DEADLOCK FALSE
