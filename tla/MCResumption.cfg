SPECIFICATION LiveSpec
CONSTANTS
    c1 = c1
    c2 = c2
    old = old
    None = None
    Conns = {c1, c2}
    OldSessions = {old}
INVARIANTS SameCourse FailuresExplained
PROPERTY Completes
CHECK_DEADLOCK FALSE
