SPECIFICATION Spec
CONSTANTS
    Editor = {e1, e2, e3}
    Att = {a1, a2, a3}
    Pid = {p1, p2}
    Port = {q1, q2}
    None = None
SYMMETRY Symmetry
INVARIANTS
    TypeOK
    ExclusiveClaim
    FileHasServer
    CopilotFileStays
    CrashLeftoversAreSwept
CHECK_DEADLOCK FALSE
