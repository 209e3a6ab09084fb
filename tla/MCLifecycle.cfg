CONSTANTS
    s1 = s1
    s2 = s2
    c1 = c1
    c2 = c2
    p1 = p1
    NoSession = NoSession
    Sessions <- MCSessions
    CallIds <- MCCallIds
    Protos = {p1}
    MaxTimers <- MCMaxTimers

SPECIFICATION Spec

\* The process stops when it exits, and a daemon whose clients stay
\* connected and silent waits forever: neither is a deadlock.
CHECK_DEADLOCK FALSE

INVARIANT TypeOK
INVARIANT OwnerUnique
INVARIANT OkImpliesInstalled
PROPERTY IdleExit
