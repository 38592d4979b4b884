SPECIFICATION Spec
CONSTANTS
    Terminal = {t1, t2}
    Att = {a1, a2}
    Pid = {p1, p2}
    Root = {r1, r2}
    Persistent = Persistent
    NoTerminal = NoTerminal
    NoAtt = NoAtt
    NoPid = NoPid
    NoKey = NoKey
    Outside = Outside
    Free = Free
    MaxHops = 2
INVARIANTS
    TypeOK
    LiveTerminalKeepsRoute
    RoutedHome
    AttachmentHasTerminal
    SharedByKey
PROPERTIES
    ExitedTerminalCloses
CHECK_DEADLOCK FALSE
