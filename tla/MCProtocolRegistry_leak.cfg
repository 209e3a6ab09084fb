CONSTANTS
    s1 = s1
    s2 = s2
    c1 = c1
    c2 = c2
    c3 = c3
    p1 = p1
    NoSession = NoSession
    Sessions <- MCSessions
    CallIds <- MCCallIds
    Protos = {p1}

SPECIFICATION Spec
SYMMETRY Symmetry
\* Once every client has gone the daemon waits for new ones: a legal end.
CHECK_DEADLOCK FALSE
INVARIANT NoLeakedHandler
