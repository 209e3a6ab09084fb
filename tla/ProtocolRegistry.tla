-------------------------- MODULE ProtocolRegistry --------------------------
(***************************************************************************)
(* Registration of unary protocol handlers by persistent control sessions. *)
(* Source: src/persistent_stream.go, handleUpgradedConn (the read loop,    *)
(* the AddUnaryHandler goroutine and the deferred cleanup) and             *)
(* doAddUnaryHandler.                                                      *)
(*                                                                         *)
(* Each session keeps its own streamHandlers slice; the daemon keeps the   *)
(* process-wide map registeredUnaryProtocols and the host keeps its stream *)
(* handler table, whose entries are closures bound to one session's        *)
(* writer.  All three are guarded by d.mx, but the AddUnaryHandler         *)
(* goroutine takes d.mx twice: once inside doAddUnaryHandler and once to   *)
(* append to streamHandlers.  Each critical section is one atomic step.    *)
(***************************************************************************)
EXTENDS Naturals, FiniteSets

CONSTANTS
    Sessions,   \* accepted persistent control connections
    Protos,     \* protocol ids a client may ask to handle
    CallIds,    \* client-chosen call ids of AddUnaryHandler requests
    NoSession   \* marks a host table entry with no handler installed

ASSUME NoSession \notin Sessions

VARIABLES
    sessPc,          \* session -> "idle" | "reading" | "ending" | "closed"
    streamHandlers,  \* session -> protocols appended to its streamHandlers
    registered,      \* d.registeredUnaryProtocols
    handler,         \* host handler table: proto -> session whose writer it uses
    add,             \* call id -> the AddUnaryHandler goroutine for it
    reply            \* call id -> frame the client received for it

vars == <<sessPc, streamHandlers, registered, handler, add, reply>>

AddPcs == {"unsent", "register", "append", "write", "done"}

Results == {"none", "ok", "error"}

TypeOK ==
    /\ sessPc \in [Sessions -> {"idle", "reading", "ending", "closed"}]
    /\ streamHandlers \in [Sessions -> SUBSET Protos]
    /\ registered \in [Protos -> BOOLEAN]
    /\ handler \in [Protos -> Sessions \cup {NoSession}]
    /\ add \in [CallIds -> [s : Sessions \cup {NoSession}, p : Protos,
                            pc : AddPcs, res : Results]]
    /\ reply \in [CallIds -> Results]

Init ==
    /\ sessPc = [s \in Sessions |-> "idle"]
    /\ streamHandlers = [s \in Sessions |-> {}]
    /\ registered = [p \in Protos |-> FALSE]
    /\ handler = [p \in Protos |-> NoSession]
    /\ add = [c \in CallIds |-> [s |-> NoSession, p |-> CHOOSE p \in Protos : TRUE,
                                 pc |-> "unsent", res |-> "none"]]
    /\ reply = [c \in CallIds |-> "none"]

(* The connection is upgraded to a persistent one: handleUpgradedConn      *)
(* starts and enters its read loop.                                        *)
Start(s) ==
    /\ sessPc[s] = "idle"
    /\ sessPc' = [sessPc EXCEPT ![s] = "reading"]
    /\ UNCHANGED <<streamHandlers, registered, handler, add, reply>>

(* The read loop reads an AddUnaryHandler request with a well-formed call  *)
(* id c (each id is a fresh UUID) and spawns its goroutine.                *)
ReadAddUnaryHandler(s, c, p) ==
    /\ sessPc[s] = "reading"
    /\ add[c].pc = "unsent"
    /\ add' = [add EXCEPT ![c] = [s |-> s, p |-> p, pc |-> "register", res |-> "none"]]
    /\ UNCHANGED <<sessPc, streamHandlers, registered, handler, reply>>

(* Mutant of DoAddUnaryHandler: the already-registered check is dropped,   *)
(* so a second session silently replaces the first one's host handler.     *)
DoAddUnaryHandlerNoCheck(c) ==
    LET w == add[c] IN
    /\ w.pc = "register"
    /\ handler' = [handler EXCEPT ![w.p] = w.s]
    /\ registered' = [registered EXCEPT ![w.p] = TRUE]
    /\ add' = [add EXCEPT ![c].pc = "append", ![c].res = "ok"]
    /\ UNCHANGED <<sessPc, streamHandlers, reply>>

(* Mutant of DoAddUnaryHandler: the conflict branch returns a nil         *)
(* response instead of the DaemonError.                                    *)
DoAddUnaryHandlerNilError(c) ==
    LET w == add[c] IN
    /\ w.pc = "register"
    /\ IF registered[w.p]
       THEN /\ add' = [add EXCEPT ![c].pc = "append", ![c].res = "nil"]
            /\ UNCHANGED <<registered, handler>>
       ELSE /\ handler' = [handler EXCEPT ![w.p] = w.s]
            /\ registered' = [registered EXCEPT ![w.p] = TRUE]
            /\ add' = [add EXCEPT ![c].pc = "append", ![c].res = "ok"]
    /\ UNCHANGED <<sessPc, streamHandlers, reply>>

(* doAddUnaryHandler, under d.mx: refuse a protocol that is registered,    *)
(* otherwise install a host handler bound to this session's writer.        *)
DoAddUnaryHandler(c) ==
    LET w == add[c] IN
    /\ w.pc = "register"
    /\ IF registered[w.p]
       THEN /\ add' = [add EXCEPT ![c].pc = "append", ![c].res = "error"]
            /\ UNCHANGED <<registered, handler>>
       ELSE /\ handler' = [handler EXCEPT ![w.p] = w.s]
            /\ registered' = [registered EXCEPT ![w.p] = TRUE]
            /\ add' = [add EXCEPT ![c].pc = "append", ![c].res = "ok"]
    /\ UNCHANGED <<sessPc, streamHandlers, reply>>

(* Second critical section of the goroutine: unless the response is a      *)
(* DaemonError, append the protocol to the session's streamHandlers.       *)
AppendStreamHandler(c) ==
    LET w == add[c] IN
    /\ w.pc = "append"
    /\ streamHandlers' = IF w.res = "ok"
                         THEN [streamHandlers EXCEPT ![w.s] = @ \cup {w.p}]
                         ELSE streamHandlers
    /\ add' = [add EXCEPT ![c].pc = "write"]
    /\ UNCHANGED <<sessPc, registered, handler, reply>>

(* w.WriteMsg(resp): the frame reaches the client only while the control   *)
(* connection is open; after handleUpgradedConn returned the write fails.  *)
WriteAddResponse(c) ==
    LET w == add[c] IN
    /\ w.pc = "write"
    /\ reply' = IF sessPc[w.s] = "reading"
                THEN [reply EXCEPT ![c] = w.res]
                ELSE reply
    /\ add' = [add EXCEPT ![c].pc = "done"]
    /\ UNCHANGED <<sessPc, streamHandlers, registered, handler>>

(* r.ReadMsg fails (EOF or a broken frame) and handleUpgradedConn returns. *)
(* Its deferred calls run last-registered first: terminateWG.Done (the    *)
(* Watchdog module), then the cleanup below.                               *)
ReadFail(s) ==
    /\ sessPc[s] = "reading"
    /\ sessPc' = [sessPc EXCEPT ![s] = "ending"]
    /\ UNCHANGED <<streamHandlers, registered, handler, add, reply>>

(* The deferred cleanup, under d.mx: remove the host handler of every      *)
(* protocol in streamHandlers and mark it unregistered.  Goroutines the    *)
(* loop spawned keep running.                                              *)
Cleanup(s) ==
    /\ sessPc[s] = "ending"
    /\ sessPc' = [sessPc EXCEPT ![s] = "closed"]
    /\ handler' = [p \in Protos |->
                     IF p \in streamHandlers[s] THEN NoSession ELSE handler[p]]
    /\ registered' = [p \in Protos |->
                        IF p \in streamHandlers[s] THEN FALSE ELSE registered[p]]
    /\ UNCHANGED <<streamHandlers, add, reply>>

Next ==
    \/ \E s \in Sessions : Start(s) \/ ReadFail(s) \/ Cleanup(s)
    \/ \E s \in Sessions, c \in CallIds, p \in Protos : ReadAddUnaryHandler(s, c, p)
    \/ \E c \in CallIds :
          \/ DoAddUnaryHandler(c)
          \/ AppendStreamHandler(c)
          \/ WriteAddResponse(c)

Spec == Init /\ [][Next]_vars

-----------------------------------------------------------------------------
(* Properties                                                              *)

(* Spec section 8: a protocol is in the streamHandlers of at most one live *)
(* session.  doAddUnaryHandler's registered check and the append run in    *)
(* different critical sections, so this relies on no other session being  *)
(* able to register p between them.                                        *)
OwnerUnique ==
    \A p \in Protos :
        Cardinality({s \in Sessions : sessPc[s] = "reading" /\ p \in streamHandlers[s]}) <= 1

(* Spec section 5: an Ok to AddUnaryHandler implies the host handler for   *)
(* the protocol is installed and bound to the session that asked, for as   *)
(* long as that session is open (no later request may take it over).      *)
OkImpliesInstalled ==
    \A c \in CallIds :
        (reply[c] = "ok" /\ sessPc[add[c].s] = "reading") => handler[add[c].p] = add[c].s

(* Spec section 4.2 and scenario 4: when a session ends its protocols are  *)
(* deregistered, so no host handler stays bound to the writer of a closed  *)
(* session (and the protocol can be registered again).                     *)
NoLeakedHandler ==
    \A p \in Protos : handler[p] # NoSession => sessPc[handler[p]] # "closed"

=============================================================================
