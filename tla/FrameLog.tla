------------------------------ MODULE FrameLog ------------------------------
(***************************************************************************)
(* What the framed control connection promises its reader (spec section   *)
(* 4.4): the client sees a sequence of whole messages, each written once, *)
(* never two of them interleaved, until the connection is closed.          *)
(***************************************************************************)
EXTENDS Sequences, SequencesExt

CONSTANT Msgs       \* messages the daemon's goroutines write

VARIABLES
    frames,         \* whole messages the client can read, in wire order
    open            \* the control connection still carries writes

Init ==
    /\ frames = <<>>
    /\ open = TRUE

(* One message is written as a whole frame. *)
Deliver(m) ==
    /\ open
    /\ m \notin ToSet(frames)
    /\ frames' = Append(frames, m)
    /\ UNCHANGED open

(* The connection goes away; nothing more reaches the client. *)
Close ==
    /\ open
    /\ open' = FALSE
    /\ UNCHANGED frames

Next == (\E m \in Msgs : Deliver(m)) \/ Close

Spec == Init /\ [][Next]_<<frames, open>>

=============================================================================
