CONSTANTS
    t1 = t1
    t2 = t2
    i1 = i1
    i2 = i2
    r1 = r1
    r2 = r2
    NoStream = NoStream
    Streams <- MCStreams
    InCallIds <- MCInCallIds
    Replies <- MCReplies
    RemotesReuseIds = FALSE
    RemoteKinds <- MCAllKinds

SPECIFICATION Spec
\* A daemon with no pending input waits on its sockets: that is a legal end.
CHECK_DEADLOCK FALSE
INVARIANT TypeOK
INVARIANT CancelExcludesOk
