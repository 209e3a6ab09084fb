---------------------------- MODULE MCLifecycle -----------------------------
(* Model-checking instance of Lifecycle: two clients, one protocol they   *)
(* compete for, two AddUnaryHandler requests between them.              *)
EXTENDS Lifecycle

CONSTANTS s1, s2, c1, c2, p1

MCSessions == {s1, s2}
MCCallIds == {c1, c2}

(* KillOnTimeout arms one timer and every return of the counter to 0 one  *)
(* more; each session can end only once, so this many never run out.      *)
MCMaxTimers == Cardinality(MCSessions) + 1

=============================================================================
