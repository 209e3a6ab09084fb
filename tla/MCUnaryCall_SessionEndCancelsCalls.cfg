CONSTANTS
    c1 = c1
    c2 = c2
    Calls <- MCOneCall

SPECIFICATION Spec
CHECK_DEADLOCK FALSE
PROPERTY SessionEndCancelsCalls
