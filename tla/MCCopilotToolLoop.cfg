SPECIFICATION Spec
CONSTANTS
    Call = {c1, c2}
    Pane = {p1, p2}
    TabName = {t1, t2}
    NoPane = NoPane
    NoTab = NoTab
    NoCall = NoCall
INVARIANTS
    TypeOK
    ReplyIsFirstEvent
    PendingDiffIsCurrent
PROPERTIES
    AnsweredIfReviewsEnd
CHECK_DEADLOCK FALSE
