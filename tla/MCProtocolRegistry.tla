------------------------- MODULE MCProtocolRegistry -------------------------
(* Model-checking instance of ProtocolRegistry: two sessions competing for *)
(* one protocol, three AddUnaryHandler requests between them.              *)
EXTENDS ProtocolRegistry, TLC

CONSTANTS s1, s2, c1, c2, c3, p1

MCSessions == {s1, s2}
MCCallIds == {c1, c2, c3}

(* Sessions and call ids are interchangeable model values.                 *)
Symmetry == Permutations(MCSessions) \cup Permutations(MCCallIds)
=============================================================================
