CONSTANTS
    c1 = c1
    c2 = c2
    Calls <- MCCalls

SPECIFICATION Spec
\* A daemon whose peers stay silent waits forever: that is a legal end.
CHECK_DEADLOCK FALSE
INVARIANT TypeOK
PROPERTY FiredCallReturns
