SPECIFICATION Spec
CONSTANTS
    Session = {s1}
    Conn = {c1, c2}
    Frame = {f1}
    NoConn = NoConn
    NoSession = NoSession
INVARIANTS
    ServedStreamKeepsEntry
CHECK_DEADLOCK FALSE
