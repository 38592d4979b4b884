SPECIFICATION Spec
CONSTANTS
    MaxSend = 2
    MaxReconnect = 1
INVARIANTS
    IdsAssigned
    NothingLost
PROPERTIES
    EventuallyHandled
CHECK_DEADLOCK FALSE
