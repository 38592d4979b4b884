SPECIFICATION Spec
CONSTANTS
    Session = {s1, s2}
    Conn = {c1, c2}
    Frame = {f1, f2}
    NoConn = NoConn
    NoSession = NoSession
INVARIANTS
    TypeOK
    EntryNamesItsOwnStream
PROPERTIES
    EveryFrameOnce
    EndedStreamCloses
    HungUpStreamFreesSession
CHECK_DEADLOCK FALSE
