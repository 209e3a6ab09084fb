--------------------------- MODULE MCInboundCall ---------------------------
(* Model-checking instance of InboundCall: two inbound streams, two client *)
(* replies.                                                                *)
EXTENDS InboundCall, TLC

CONSTANTS t1, t2, i1, i2, r1, r2

MCStreams == {t1, t2}
MCInCallIds == {i1, i2}
MCReplies == {r1, r2}

(* Well-behaved peers: a CallUnary request or an undecodable frame.        *)
MCWellBehaved == {"callUnary", "garbage"}
(* Any peer, including one that sends a request of another type.          *)
MCAllKinds == Kinds
=============================================================================
