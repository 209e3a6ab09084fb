CONSTANTS
    w1 = w1
    w2 = w2
    w3 = w3
    NoWriter = NoWriter
    Garbage = Garbage
    Writers <- MCWriters
    NilMsgs <- MCNilMsgs

SPECIFICATION Spec

\* Once every writer has returned and the connection is closed nothing can
\* happen, which is the end of a session, not a deadlock.
CHECK_DEADLOCK FALSE

INVARIANT TypeOK
PROPERTY FrameRefinement
PROPERTY WriteReturns
