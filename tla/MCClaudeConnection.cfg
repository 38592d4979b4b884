SPECIFICATION Spec
CONSTANTS
    Conn = {c1, c2}
    Request = {r1, r2}
    Pane = {p1, p2}
    TabName = {}
    NoPane = NoPane
    NoTab = NoTab
    NoRequest = NoRequest
    Selection = Selection
    Initial = Initial
    MaxSelection = 1
SYMMETRY Symmetry
INVARIANTS
    TypeOK
    RepliesInOrder
    ReplyIsFirstEvent
    PendingDiffIsCurrent
CHECK_DEADLOCK FALSE
