CONSTANTS
    t1 = t1
    t2 = t2
    i1 = i1
    i2 = i2
    r1 = r1
    r2 = r2
    NoStream = NoStream
    Streams <- MCStreams
    InCallIds <- MCInCallIds
    Replies <- MCReplies
    RemotesReuseIds = FALSE
    RemoteKinds <- MCWellBehaved

SPECIFICATION Spec
CHECK_DEADLOCK FALSE
PROPERTY UnaryResponseAnswered
