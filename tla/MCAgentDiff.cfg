SPECIFICATION DiffSpec
CONSTANTS
    Pane = {p1, p2, p3}
    TabName = {t1, t2}
    NoPane = NoPane
    NoTab = NoTab
INVARIANTS
    DiffTypeOK
    RegistrySound
    DecisionIsFirstEvent
    NoSilentEnd
PROPERTIES
    StalePaneCannotEvict
    ImplementsReview
CHECK_DEADLOCK FALSE
