SPECIFICATION Spec
CONSTANTS
    c1 = c1
    c2 = c2
    old = old
    None = None
    Conns = {c1, c2}
    OldSessions = {old}
INVARIANT Unresumable
CHECK_DEADLOCK FALSE
