---------------------------- MODULE FramedDuplex ----------------------------
(***************************************************************************)
(* The write side of the control connection: safeWriter.WriteMsg in       *)
(* src/persistent_stream.go (lines 301-310) around the delimited writer   *)
(* it wraps.  The delimited writer marshals the message (a nil message is *)
(* refused before anything is written), writes the varint length and then *)
(* the body: two separate writes on the connection.  safeWriter's mutex   *)
(* is what keeps the two writes of one goroutine together.                 *)
(*                                                                         *)
(* Each writer is one goroutine writing one message (the message is named *)
(* by its writer).  The wire is the sequence of writes that reached the   *)
(* connection; the client's reader parses it back into frames.            *)
(***************************************************************************)
EXTENDS Sequences, SequencesExt

CONSTANTS
    Writers,    \* goroutines calling w.WriteMsg, one message each
    NilMsgs,    \* writers whose message is nil (the encoder refuses it)
    NoWriter,   \* the mutex is free
    Garbage     \* what the reader makes of bytes that are not a frame

ASSUME NilMsgs \subseteq Writers /\ NoWriter \notin Writers /\ Garbage \notin Writers

VARIABLES
    wpc,        \* writer -> "idle" | "lock" | "len" | "body" | "done" | "failed"
    holder,     \* goroutine holding sw.m, or NoWriter
    wire,       \* writes that reached the connection: [part, msg]
    connOpen    \* the control connection accepts writes

vars == <<wpc, holder, wire, connOpen>>

Part(kind, w) == [part |-> kind, msg |-> w]

(* Every write on the wire is part of a non-nil message. *)
TypeOK ==
    /\ wpc \in [Writers -> {"idle", "lock", "len", "body", "done", "failed"}]
    /\ holder \in Writers \cup {NoWriter}
    /\ wire \in Seq([part : {"len", "body"}, msg : Writers \ NilMsgs])
    /\ connOpen \in BOOLEAN

(* safeWriter{w: unsafeW}: the mutex starts unlocked. *)
Init ==
    /\ wpc = [w \in Writers |-> "idle"]
    /\ holder = NoWriter
    /\ wire = <<>>
    /\ connOpen = TRUE

(* A goroutine of the session reaches w.WriteMsg(resp). *)
Call(w) ==
    /\ wpc[w] = "idle"
    /\ wpc' = [wpc EXCEPT ![w] = "lock"]
    /\ UNCHANGED <<holder, wire, connOpen>>

(* Mutant of Lock: WriteMsg called on the unsafe writer, no mutex.        *)
LockUnguarded(w) ==
    /\ wpc[w] = "lock"
    /\ holder' = w
    /\ wpc' = [wpc EXCEPT ![w] = "len"]
    /\ UNCHANGED <<wire, connOpen>>

(* sw.m.Lock(): blocks while another goroutine holds the mutex. *)
Lock(w) ==
    /\ wpc[w] = "lock"
    /\ holder = NoWriter
    /\ holder' = w
    /\ wpc' = [wpc EXCEPT ![w] = "len"]
    /\ UNCHANGED <<wire, connOpen>>

(* An error return of sw.w.WriteMsg; the deferred Unlock runs. *)
Fail(w) ==
    /\ wpc' = [wpc EXCEPT ![w] = "failed"]
    /\ holder' = NoWriter
    /\ UNCHANGED <<wire, connOpen>>

(* Mutant of WriteLen: the marshal error is not checked, so the nil       *)
(* message's length prefix is written.                                     *)
WriteLenNoMarshalCheck(w) ==
    /\ wpc[w] = "len"
    /\ IF connOpen
       THEN /\ wire' = Append(wire, Part("len", w))
            /\ wpc' = [wpc EXCEPT ![w] = "body"]
            /\ UNCHANGED <<holder, connOpen>>
       ELSE Fail(w)

(* Mutant of WriteLen: the error return leaves the mutex locked.          *)
WriteLenNoUnlock(w) ==
    /\ wpc[w] = "len"
    /\ IF w \notin NilMsgs /\ connOpen
       THEN /\ wire' = Append(wire, Part("len", w))
            /\ wpc' = [wpc EXCEPT ![w] = "body"]
            /\ UNCHANGED <<holder, connOpen>>
       ELSE /\ wpc' = [wpc EXCEPT ![w] = "failed"]
            /\ UNCHANGED <<holder, wire, connOpen>>

(* Marshal the message and write its varint length.  A nil message and a  *)
(* closed connection are errors returned to the caller.                    *)
WriteLen(w) ==
    /\ wpc[w] = "len"
    /\ IF w \notin NilMsgs /\ connOpen
       THEN /\ wire' = Append(wire, Part("len", w))
            /\ wpc' = [wpc EXCEPT ![w] = "body"]
            /\ UNCHANGED <<holder, connOpen>>
       ELSE Fail(w)

(* Write the body; WriteMsg returns and the deferred Unlock runs.          *)
WriteBody(w) ==
    /\ wpc[w] = "body"
    /\ IF connOpen
       THEN /\ wire' = Append(wire, Part("body", w))
            /\ wpc' = [wpc EXCEPT ![w] = "done"]
            /\ holder' = NoWriter
            /\ UNCHANGED connOpen
       ELSE Fail(w)

(* The client disconnects or the transport fails; later writes fail.      *)
ConnFail ==
    /\ connOpen
    /\ connOpen' = FALSE
    /\ UNCHANGED <<wpc, holder, wire>>

Next ==
    \/ \E w \in Writers : Call(w) \/ Lock(w) \/ WriteLen(w) \/ WriteBody(w)
    \/ ConnFail

(* The Go mutex hands itself to a waiter eventually (starvation mode), and *)
(* the runtime runs a runnable goroutine: weak fairness on every step of a *)
(* goroutine that has called WriteMsg.  Callers and the transport are not  *)
(* fair.                                                                   *)
Fairness == \A w \in Writers : WF_vars(Lock(w) \/ WriteLen(w) \/ WriteBody(w))

Spec == Init /\ [][Next]_vars /\ Fairness

-----------------------------------------------------------------------------
(* The client's delimited reader: a length followed by the body of the    *)
(* same message is a frame; anything else is read as garbage, after which *)
(* nothing on the stream can be trusted.                                   *)
RECURSIVE Parse(_)
Parse(s) ==
    IF Len(s) < 2 THEN <<>>
    ELSE IF s[1] = Part("len", s[1].msg) /\ s[2] = Part("body", s[1].msg)
         THEN <<s[1].msg>> \o Parse(SubSeq(s, 3, Len(s)))
         ELSE <<Garbage>>

FL == INSTANCE FrameLog WITH Msgs <- Writers, frames <- Parse(wire), open <- connOpen

(* Spec section 4.4: concurrent WriteMsg calls of the session's goroutines *)
(* reach the client as whole frames, each once, never interleaved: the    *)
(* wire parsed by the client implements the abstract frame log.            *)
FrameRefinement == FL!Spec

(* Every WriteMsg call returns, whether it wrote its frame or failed, so  *)
(* no goroutine of the session is left blocked on the mutex.              *)
WriteReturns == \A w \in Writers : wpc[w] = "lock" ~> wpc[w] \in {"done", "failed"}

=============================================================================
