---------------------------- MODULE InboundCall ----------------------------
(***************************************************************************)
(* Inbound unary calls on a protocol one session has registered.  Source: *)
(* src/persistent_stream.go, getPersistentStreamHandler, awaitReadFail,    *)
(* the UnaryResponse goroutine of handleUpgradedConn and                   *)
(* doSendReponseToRemote.                                                  *)
(*                                                                         *)
(* A remote peer opens stream t and sends one framed request carrying a    *)
(* call id it chose.  The handler stores a fresh unbuffered channel under  *)
(* that id in d.responseWaiters (waiters), notifies the client with        *)
(* RequestHandling and then selects on the remote read side failing        *)
(* (Cancel{} to the client) or on the channel (the response goes to the    *)
(* peer).  A client UnaryResponse loads the channel and sends into it,     *)
(* then answers Ok; if no channel is stored it answers a DaemonError.      *)
(***************************************************************************)
EXTENDS Naturals, Sequences, FiniteSets

CONSTANTS
    Streams,       \* inbound p2p streams
    InCallIds,     \* call ids remote peers put in their requests
    Replies,       \* UnaryResponse requests of the client
    NoStream,      \* no channel stored under a call id
    RemotesReuseIds, \* may two streams carry the same call id?
    RemoteKinds    \* what peers may send: a subset of Kinds

Kinds == {"callUnary", "other", "garbage"}

ASSUME NoStream \notin Streams /\ RemotesReuseIds \in BOOLEAN /\ RemoteKinds \subseteq Kinds

VARIABLES
    sessionOpen,  \* the control connection of the owning session is open
    crashed,      \* the daemon process panicked
    hnd,          \* stream -> pc of its handler goroutine
    callId,       \* stream -> call id in the peer's request
    kind,         \* stream -> what the peer sent
    peerOpen,     \* stream -> the peer has not closed or reset its side
    outcome,      \* stream -> how its handler ended
    waiters,      \* d.responseWaiters: call id -> stream whose channel is stored
    rep,          \* reply -> the UnaryResponse goroutine
    toClient      \* frames written to the client, in order

vars == <<sessionOpen, crashed, hnd, callId, kind, peerOpen, outcome, waiters, rep, toClient>>

HndPcs == {"idle", "read", "notify", "select", "done"}
RepPcs == {"unsent", "load", "send", "write", "done"}
Frame(k, id) == [kind |-> k, id |-> id]
FrameKinds == {"handling", "cancel", "ok", "error"}

TypeOK ==
    /\ sessionOpen \in BOOLEAN /\ crashed \in BOOLEAN
    /\ hnd \in [Streams -> HndPcs]
    /\ callId \in [Streams -> InCallIds]
    /\ kind \in [Streams -> Kinds]
    /\ peerOpen \in [Streams -> BOOLEAN]
    /\ outcome \in [Streams -> {"none", "responded", "cancelled", "failed"}]
    /\ waiters \in [InCallIds -> Streams \cup {NoStream}]
    /\ rep \in [Replies -> [id : InCallIds, pc : RepPcs, ch : Streams \cup {NoStream},
                             res : {"none", "ok", "error"}]]
    /\ toClient \in Seq([kind : FrameKinds, id : InCallIds])

Init ==
    /\ sessionOpen = TRUE
    /\ crashed = FALSE
    /\ hnd = [t \in Streams |-> "idle"]
    /\ callId = [t \in Streams |-> CHOOSE i \in InCallIds : TRUE]
    /\ kind = [t \in Streams |-> "callUnary"]
    /\ peerOpen = [t \in Streams |-> FALSE]
    /\ outcome = [t \in Streams |-> "none"]
    /\ waiters = [i \in InCallIds |-> NoStream]
    /\ rep = [r \in Replies |-> [id |-> CHOOSE i \in InCallIds : TRUE, pc |-> "unsent",
                                 ch |-> NoStream, res |-> "none"]]
    /\ toClient = <<>>

(* Frames of one kind and call id the client has received.                 *)
Received(k, id) == {n \in 1..Len(toClient) : toClient[n] = Frame(k, id)}

(* cw.WriteMsg(f): a frame reaches the client only while it is connected.  *)
WriteToClient(f) ==
    toClient' = IF sessionOpen THEN Append(toClient, f) ELSE toClient

-----------------------------------------------------------------------------
(* The remote peer.                                                        *)

(* The peer opens stream t on the protocol and writes its request: a      *)
(* CallUnary, another request type, or bytes that do not decode (or a bad  *)
(* call id).                                                               *)
RemoteOpen(t, i, k) ==
    /\ hnd[t] = "idle"
    /\ RemotesReuseIds \/ \A u \in Streams : hnd[u] # "idle" => callId[u] # i
    /\ hnd' = [hnd EXCEPT ![t] = "read"]
    /\ callId' = [callId EXCEPT ![t] = i]
    /\ kind' = [kind EXCEPT ![t] = k]
    /\ peerOpen' = [peerOpen EXCEPT ![t] = TRUE]
    /\ UNCHANGED <<sessionOpen, crashed, outcome, waiters, rep, toClient>>

(* The peer closes or resets its side (or writes more bytes): the one-byte *)
(* read of awaitReadFail returns.                                          *)
RemoteHangUp(t) ==
    /\ peerOpen[t]
    /\ peerOpen' = [peerOpen EXCEPT ![t] = FALSE]
    /\ UNCHANGED <<sessionOpen, crashed, hnd, callId, kind, outcome, waiters, rep, toClient>>

-----------------------------------------------------------------------------
(* The stream handler.                                                     *)

(* ReadMsg; then req.GetCallUnary().Peer is assigned, which dereferences a *)
(* nil pointer unless the request is a CallUnary; then the call id is      *)
(* parsed and a fresh channel is stored under it, replacing any other.     *)
HandlerRead(t) ==
    /\ hnd[t] = "read"
    /\ CASE kind[t] = "garbage" ->
              /\ hnd' = [hnd EXCEPT ![t] = "done"]
              /\ outcome' = [outcome EXCEPT ![t] = "failed"]
              /\ UNCHANGED <<crashed, waiters>>
         [] kind[t] = "other" ->
              /\ crashed' = TRUE
              /\ UNCHANGED <<hnd, outcome, waiters>>
         [] kind[t] = "callUnary" ->
              /\ waiters' = [waiters EXCEPT ![callId[t]] = t]
              /\ hnd' = [hnd EXCEPT ![t] = "notify"]
              /\ UNCHANGED <<crashed, outcome>>
    /\ UNCHANGED <<sessionOpen, callId, kind, peerOpen, rep, toClient>>

(* The handler's deferred cleanup: responseWaiters.Delete(callID) removes  *)
(* whatever is stored under the id, and the stream is closed.              *)
HandlerReturn(t, how) ==
    /\ hnd' = [hnd EXCEPT ![t] = "done"]
    /\ outcome' = [outcome EXCEPT ![t] = how]
    /\ waiters' = [waiters EXCEPT ![callId[t]] = NoStream]

(* Write RequestHandling to the client; on a write error return.           *)
Notify(t) ==
    /\ hnd[t] = "notify"
    /\ WriteToClient(Frame("handling", callId[t]))
    /\ IF sessionOpen
       THEN /\ hnd' = [hnd EXCEPT ![t] = "select"]
            /\ UNCHANGED <<outcome, waiters>>
       ELSE HandlerReturn(t, "failed")
    /\ UNCHANGED <<sessionOpen, crashed, callId, kind, peerOpen, rep>>

(* The select takes awaitReadFail: write Cancel{} to the client, return.   *)
HandlerCancel(t) ==
    /\ hnd[t] = "select"
    /\ ~peerOpen[t]
    /\ WriteToClient(Frame("cancel", callId[t]))
    /\ HandlerReturn(t, "cancelled")
    /\ UNCHANGED <<sessionOpen, crashed, callId, kind, peerOpen, rep>>

-----------------------------------------------------------------------------
(* The client and the UnaryResponse goroutine.                             *)

(* The client answers a RequestHandling it received (once per frame); the  *)
(* loop spawns the UnaryResponse goroutine.                                *)
ClientReply(r, i) ==
    /\ sessionOpen
    /\ rep[r].pc = "unsent"
    /\ Cardinality({q \in Replies : rep[q].pc # "unsent" /\ rep[q].id = i})
         < Cardinality(Received("handling", i))
    /\ rep' = [rep EXCEPT ![r] = [id |-> i, pc |-> "load", ch |-> NoStream, res |-> "none"]]
    /\ UNCHANGED <<sessionOpen, crashed, hnd, callId, kind, peerOpen, outcome, waiters, toClient>>

(* Mutant of LoadWaiter: the not-found branch returns a nil response      *)
(* instead of the DaemonError.                                             *)
LoadWaiterNilError(r) ==
    /\ rep[r].pc = "load"
    /\ rep' = [rep EXCEPT ![r] =
                 IF waiters[rep[r].id] = NoStream
                 THEN [@ EXCEPT !.pc = "write"]
                 ELSE [@ EXCEPT !.pc = "send", !.ch = waiters[rep[r].id]]]
    /\ UNCHANGED <<sessionOpen, crashed, hnd, callId, kind, peerOpen, outcome, waiters, toClient>>

(* doSendReponseToRemote: d.responseWaiters.Load; absent gives a          *)
(* DaemonError, present goes on to the channel send.                       *)
LoadWaiter(r) ==
    /\ rep[r].pc = "load"
    /\ rep' = [rep EXCEPT ![r] =
                 IF waiters[rep[r].id] = NoStream
                 THEN [@ EXCEPT !.pc = "write", !.res = "error"]
                 ELSE [@ EXCEPT !.pc = "send", !.ch = waiters[rep[r].id]]]
    /\ UNCHANGED <<sessionOpen, crashed, hnd, callId, kind, peerOpen, outcome, waiters, toClient>>

(* Mutant of DeliverResponse: rc has a buffer of one, so the send returns *)
(* and Ok is answered whether or not the handler still selects on rc.      *)
DeliverResponseBuffered(r) ==
    LET t == rep[r].ch IN
    /\ rep[r].pc = "send"
    /\ rep' = [rep EXCEPT ![r].pc = "write", ![r].res = "ok"]
    /\ IF hnd[t] = "select" THEN HandlerReturn(t, "responded")
       ELSE UNCHANGED <<hnd, outcome, waiters>>
    /\ UNCHANGED <<sessionOpen, crashed, callId, kind, peerOpen, toClient>>

(* rc <- req on the unbuffered channel: a rendezvous with the handler's    *)
(* select, which writes the response to the peer and returns.  Nothing     *)
(* bounds the send: once the handler has left, the goroutine blocks.       *)
DeliverResponse(r) ==
    LET t == rep[r].ch IN
    /\ rep[r].pc = "send"
    /\ hnd[t] = "select"
    /\ rep' = [rep EXCEPT ![r].pc = "write", ![r].res = "ok"]
    /\ HandlerReturn(t, "responded")
    /\ UNCHANGED <<sessionOpen, crashed, callId, kind, peerOpen, toClient>>

(* w.WriteMsg of the Ok or DaemonError for the reply's call id.            *)
WriteReply(r) ==
    /\ rep[r].pc = "write"
    /\ WriteToClient(Frame(rep[r].res, rep[r].id))
    /\ rep' = [rep EXCEPT ![r].pc = "done"]
    /\ UNCHANGED <<sessionOpen, crashed, hnd, callId, kind, peerOpen, outcome, waiters>>

(* The client disconnects; the handler stays installed (ProtocolRegistry   *)
(* models its removal) but writes to this client fail from now on.         *)
Disconnect ==
    /\ sessionOpen
    /\ sessionOpen' = FALSE
    /\ UNCHANGED <<crashed, hnd, callId, kind, peerOpen, outcome, waiters, rep, toClient>>

-----------------------------------------------------------------------------
DaemonStep ==
    \/ \E t \in Streams : HandlerRead(t) \/ Notify(t) \/ HandlerCancel(t)
    \/ \E r \in Replies : LoadWaiter(r) \/ DeliverResponse(r) \/ WriteReply(r)

Next ==
    /\ ~crashed
    /\ \/ DaemonStep
       \/ Disconnect
       \/ \E t \in Streams : RemoteHangUp(t) \/ \E i \in InCallIds, k \in RemoteKinds : RemoteOpen(t, i, k)
       \/ \E r \in Replies, i \in InCallIds : ClientReply(r, i)

(* Goroutines of the daemon are scheduled eventually; peers and the client *)
(* are not obliged to act.                                                 *)
Fairness ==
    /\ \A t \in Streams : WF_vars(HandlerRead(t)) /\ WF_vars(Notify(t)) /\ WF_vars(HandlerCancel(t))
    /\ \A r \in Replies : WF_vars(LoadWaiter(r)) /\ WF_vars(DeliverResponse(r)) /\ WF_vars(WriteReply(r))

Spec == Init /\ [][Next]_vars /\ Fairness

-----------------------------------------------------------------------------
(* Properties                                                              *)

(* Spec scenario 3: once the client got Cancel{} for an inbound call (the  *)
(* peer went away), its UnaryResponse for that call is not answered Ok: a  *)
(* call ends either by the response reaching the handler or by the        *)
(* cancel, never both.                                                     *)
CancelExcludesOk ==
    \A i \in InCallIds : Received("cancel", i) = {} \/ Received("ok", i) = {}

(* Spec section 4.2: every UnaryResponse the client sends is answered,     *)
(* with Ok or a DaemonError; its goroutine returns.                        *)
UnaryResponseAnswered ==
    \A r \in Replies : rep[r].pc = "load" ~> rep[r].pc = "done"

(* Spec section 7: a peer's malformed or unexpected request is dropped;    *)
(* nothing a remote peer sends terminates the daemon.                      *)
NoRemoteCrash == ~crashed

(* Spec section 4.3: the task that inserts a responseWaiters entry owns it *)
(* until its own delete, so a handler waiting for the client's response    *)
(* can be reached under its call id.  Remote peers choose the ids, and     *)
(* Store replaces, and the deferred Delete removes, whatever is stored.    *)
WaitingHandlerReachable ==
    \A t \in Streams : hnd[t] = "select" => waiters[callId[t]] = t

=====
