--------------------------- MODULE MCFramedDuplex ---------------------------
EXTENDS FramedDuplex

CONSTANTS w1, w2, w3

(* Two goroutines with a response to write and one whose response is nil *)
(* (the cancelled unary call of UnaryCall).                               *)
MCWriters == {w1, w2, w3}
MCNilMsgs == {w3}

=============================================================================
