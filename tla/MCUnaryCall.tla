---------------------------- MODULE MCUnaryCall ----------------------------
(* Model-checking instance of UnaryCall: two concurrent outbound calls.    *)
EXTENDS UnaryCall, TLC

CONSTANTS c1, c2

MCCalls == {c1, c2}

(* A single call: the races below need only one. *)
MCOneCall == {c1}
=============================================================================
