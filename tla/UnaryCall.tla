----------------------------- MODULE UnaryCall -----------------------------
(***************************************************************************)
(* Outbound unary calls of one persistent session.  Source:               *)
(* src/persistent_stream.go, the CallUnary and Cancel goroutines of        *)
(* handleUpgradedConn, doUnaryCall and exchangeMessages.                   *)
(*                                                                         *)
(* Per call id c the model has three goroutines:                           *)
(*   worker[c]  the CallUnary goroutine running doUnaryCall;               *)
(*   ex[c]      the goroutine exchangeMessages starts, talking to the peer *)
(*              and handing the result over the unbuffered channel rc;     *)
(*   canceller[c] the goroutine of a Cancel request for c.                 *)
(* ctxDone[c] is the call's context; d.cancelUnary is cancelUnary.  A Go   *)
(* select that finds no case ready parks ("parked"); the first event that  *)
(* makes a case ready then completes it, which is why a cancel or a send   *)
(* resolves a parked worker in the same step.                              *)
(***************************************************************************)
EXTENDS Naturals

CONSTANTS Calls   \* client-chosen call ids of CallUnary requests (fresh UUIDs)

VARIABLES
    sessionOpen,  \* the control connection is open (reads and writes work)
    worker,       \* call -> pc of the CallUnary goroutine
    result,       \* call -> response doUnaryCall returned
    ctxDone,      \* call -> the call's context is cancelled
    cancelUnary,  \* keys of d.cancelUnary
    ex,           \* call -> pc of the exchangeMessages goroutine
    remote,       \* call -> what the remote peer did on the stream
    canceller,    \* call -> pc of the Cancel goroutine for it
    frame         \* call -> frame the client received for it

vars == <<sessionOpen, worker, result, ctxDone, cancelUnary, ex, remote, canceller, frame>>

WorkerPcs == {"unsent", "store", "dial", "select", "parked", "write", "done"}
ExPcs == {"none", "write", "read", "senderr", "sendresp", "exited"}
Results == {"none", "response", "error", "cancel", "nil"}

TypeOK ==
    /\ sessionOpen \in BOOLEAN
    /\ worker \in [Calls -> WorkerPcs]
    /\ result \in [Calls -> Results]
    /\ ctxDone \in [Calls -> BOOLEAN]
    /\ cancelUnary \in SUBSET Calls
    /\ ex \in [Calls -> ExPcs]
    /\ remote \in [Calls -> {"idle", "asked", "replied", "reset"}]
    /\ canceller \in [Calls -> {"unsent", "load", "done"}]
    /\ frame \in [Calls -> Results \ {"nil"}]

Init ==
    /\ sessionOpen = TRUE
    /\ worker = [c \in Calls |-> "unsent"]
    /\ result = [c \in Calls |-> "none"]
    /\ ctxDone = [c \in Calls |-> FALSE]
    /\ cancelUnary = {}
    /\ ex = [c \in Calls |-> "none"]
    /\ remote = [c \in Calls |-> "idle"]
    /\ canceller = [c \in Calls |-> "unsent"]
    /\ frame = [c \in Calls |-> "none"]

(* doUnaryCall's select is waiting on rc and ctx.Done().                   *)
Selecting(c) == worker[c] \in {"select", "parked"}

-----------------------------------------------------------------------------
(* Client requests, read by the session loop.                              *)

(* A CallUnary request: the loop spawns the CallUnary goroutine.           *)
ReadCallUnary(c) ==
    /\ sessionOpen
    /\ worker[c] = "unsent"
    /\ worker' = [worker EXCEPT ![c] = "store"]
    /\ UNCHANGED <<sessionOpen, result, ctxDone, cancelUnary, ex, remote, canceller, frame>>

(* A Cancel request for a call the client started: the loop spawns the    *)
(* Cancel goroutine.                                                       *)
ReadCancel(c) ==
    /\ sessionOpen
    /\ worker[c] # "unsent"
    /\ canceller[c] = "unsent"
    /\ canceller' = [canceller EXCEPT ![c] = "load"]
    /\ UNCHANGED <<sessionOpen, worker, result, ctxDone, cancelUnary, ex, remote, frame>>

(* The client disconnects: the read loop ends and later writes fail.  The  *)
(* call contexts derive from context.Background(), so nothing is          *)
(* cancelled.                                                              *)
Disconnect ==
    /\ sessionOpen
    /\ sessionOpen' = FALSE
    /\ UNCHANGED <<worker, result, ctxDone, cancelUnary, ex, remote, canceller, frame>>

-----------------------------------------------------------------------------
(* The CallUnary goroutine.                                                *)

(* context.WithCancel and d.cancelUnary.Store(callID, cancel).            *)
StoreCancel(c) ==
    /\ worker[c] = "store"
    /\ cancelUnary' = cancelUnary \cup {c}
    /\ worker' = [worker EXCEPT ![c] = "dial"]
    /\ UNCHANGED <<sessionOpen, result, ctxDone, ex, remote, canceller, frame>>

(* doUnaryCall up to the select: parsing the peer id or NewStream can fail *)
(* (a cancelled context makes NewStream fail too), giving a DaemonError;   *)
(* otherwise exchangeMessages starts its goroutine.                        *)
NewStream(c) ==
    /\ worker[c] = "dial"
    /\ \/ /\ result' = [result EXCEPT ![c] = "error"]
          /\ worker' = [worker EXCEPT ![c] = "write"]
          /\ UNCHANGED ex
       \/ /\ ex' = [ex EXCEPT ![c] = "write"]
          /\ worker' = [worker EXCEPT ![c] = "select"]
          /\ UNCHANGED result
    /\ UNCHANGED <<sessionOpen, ctxDone, cancelUnary, remote, canceller, frame>>

(* Entering the select: Go picks any ready case; with none ready it parks. *)
(* A closed rc yields a nil response.                                      *)
EnterSelect(c) ==
    /\ worker[c] = "select"
    /\ \/ /\ ctxDone[c]
          /\ result' = [result EXCEPT ![c] = "cancel"]
          /\ worker' = [worker EXCEPT ![c] = "write"]
          /\ UNCHANGED ex
       \/ /\ ex[c] = "exited"
          /\ result' = [result EXCEPT ![c] = "nil"]
          /\ worker' = [worker EXCEPT ![c] = "write"]
          /\ UNCHANGED ex
       \/ /\ ~ctxDone[c] /\ ex[c] \in {"write", "read"}
          /\ worker' = [worker EXCEPT ![c] = "parked"]
          /\ UNCHANGED <<result, ex>>
    /\ UNCHANGED <<sessionOpen, ctxDone, cancelUnary, remote, canceller, frame>>

(* Mutant of WriteCallResponse: the encoder writes a nil response as a    *)
(* frame instead of refusing it.                                           *)
WriteCallResponseNilFrame(c) ==
    /\ worker[c] = "write"
    /\ frame' = IF sessionOpen THEN [frame EXCEPT ![c] = result[c]] ELSE frame
    /\ cancelUnary' = cancelUnary \ {c}
    /\ ctxDone' = [ctxDone EXCEPT ![c] = TRUE]
    /\ worker' = [worker EXCEPT ![c] = "done"]
    /\ UNCHANGED <<sessionOpen, result, ex, remote, canceller>>

(* w.WriteMsg(resp), then the deferred d.cancelUnary.Delete and cancel(). *)
(* doUnaryCall's deferred remoteStream.Close() ran before.  The write is   *)
(* lost on a closed connection; a nil response is refused by the encoder   *)
(* (proto.Marshal of a nil message fails), so nothing is written.          *)
WriteCallResponse(c) ==
    /\ worker[c] = "write"
    /\ frame' = IF sessionOpen /\ result[c] # "nil"
                THEN [frame EXCEPT ![c] = result[c]]
                ELSE frame
    /\ cancelUnary' = cancelUnary \ {c}
    /\ ctxDone' = [ctxDone EXCEPT ![c] = TRUE]
    /\ worker' = [worker EXCEPT ![c] = "done"]
    /\ UNCHANGED <<sessionOpen, result, ex, remote, canceller>>

-----------------------------------------------------------------------------
(* The exchangeMessages goroutine.  Returning closes rc.                   *)

(* WriteMsg(req) to the peer, then the ctx.Err() check, then the error.    *)
ExWriteRequest(c) ==
    /\ ex[c] = "write"
    /\ \/ /\ ctxDone[c]
          /\ ex' = [ex EXCEPT ![c] = "exited"]
          /\ UNCHANGED remote
       \/ /\ ~ctxDone[c]
          /\ ex' = [ex EXCEPT ![c] = "senderr"]
          /\ UNCHANGED remote
       \/ /\ ~ctxDone[c]
          /\ ex' = [ex EXCEPT ![c] = "read"]
          /\ remote' = [remote EXCEPT ![c] = "asked"]
    /\ UNCHANGED <<sessionOpen, worker, result, ctxDone, cancelUnary, canceller, frame>>

(* ReadMsg returns once the peer replied or the stream failed (a reset by  *)
(* the peer, or the Close after doUnaryCall returned); then ctx.Err().     *)
ExReadResponse(c) ==
    /\ ex[c] = "read"
    /\ remote[c] \in {"replied", "reset"} \/ worker[c] \in {"write", "done"}
    /\ ex' = [ex EXCEPT ![c] =
                 IF ctxDone[c] THEN "exited"
                 ELSE IF remote[c] = "replied" THEN "sendresp" ELSE "senderr"]
    /\ UNCHANGED <<sessionOpen, worker, result, ctxDone, cancelUnary, remote, canceller, frame>>

(* rc <- response: a rendezvous with doUnaryCall's select.  The error path *)
(* sends unconditionally; the response path also waits on ctx.Done().     *)
ExDeliver(c) ==
    /\ ex[c] \in {"senderr", "sendresp"}
    /\ Selecting(c)
    /\ result' = [result EXCEPT ![c] = IF ex[c] = "senderr" THEN "error" ELSE "response"]
    /\ worker' = [worker EXCEPT ![c] = "write"]
    /\ ex' = [ex EXCEPT ![c] = "exited"]
    /\ UNCHANGED <<sessionOpen, ctxDone, cancelUnary, remote, canceller, frame>>

(* The response path's select takes ctx.Done() and returns.                *)
ExAbandon(c) ==
    /\ ex[c] = "sendresp"
    /\ ctxDone[c]
    /\ ex' = [ex EXCEPT ![c] = "exited"]
    /\ UNCHANGED <<sessionOpen, worker, result, ctxDone, cancelUnary, remote, canceller, frame>>

-----------------------------------------------------------------------------
(* Mutant of CancelCall: doUnaryCall's select has no ctx.Done() case, so  *)
(* cancelling does not wake a parked select.                               *)
CancelCallNoWake(c) ==
    /\ canceller[c] = "load"
    /\ ctxDone' = IF c \in cancelUnary THEN [ctxDone EXCEPT ![c] = TRUE] ELSE ctxDone
    /\ canceller' = [canceller EXCEPT ![c] = "done"]
    /\ UNCHANGED <<sessionOpen, worker, result, cancelUnary, ex, remote, frame>>

(* The Cancel goroutine: d.cancelUnary.Load, and the cancel func if found. *)
(* Cancelling wakes a parked select on its ctx.Done() case.                *)
CancelCall(c) ==
    /\ canceller[c] = "load"
    /\ IF c \in cancelUnary
       THEN /\ ctxDone' = [ctxDone EXCEPT ![c] = TRUE]
            /\ IF worker[c] = "parked"
               THEN /\ worker' = [worker EXCEPT ![c] = "write"]
                    /\ result' = [result EXCEPT ![c] = "cancel"]
               ELSE UNCHANGED <<worker, result>>
       ELSE UNCHANGED <<ctxDone, worker, result>>
    /\ canceller' = [canceller EXCEPT ![c] = "done"]
    /\ UNCHANGED <<sessionOpen, cancelUnary, ex, remote, frame>>

-----------------------------------------------------------------------------
(* The remote peer answers the request, or resets the stream; it may also *)
(* never do either.                                                        *)
RemoteReply(c) ==
    /\ remote[c] = "asked"
    /\ remote' = [remote EXCEPT ![c] = "replied"]
    /\ UNCHANGED <<sessionOpen, worker, result, ctxDone, cancelUnary, ex, canceller, frame>>

RemoteReset(c) ==
    /\ remote[c] = "asked"
    /\ remote' = [remote EXCEPT ![c] = "reset"]
    /\ UNCHANGED <<sessionOpen, worker, result, ctxDone, cancelUnary, ex, canceller, frame>>

-----------------------------------------------------------------------------
(* Goroutine steps of the daemon for call c.                               *)
DaemonStep(c) ==
    \/ StoreCancel(c) \/ NewStream(c) \/ EnterSelect(c) \/ WriteCallResponse(c)
    \/ ExWriteRequest(c) \/ ExReadResponse(c) \/ ExDeliver(c) \/ ExAbandon(c)
    \/ CancelCall(c)

Next ==
    \/ Disconnect
    \/ \E c \in Calls :
          \/ ReadCallUnary(c) \/ ReadCancel(c)
          \/ DaemonStep(c)
          \/ RemoteReply(c) \/ RemoteReset(c)

(* The Go scheduler runs every runnable goroutine eventually; the client   *)
(* and the remote peer owe the daemon nothing.                             *)
Fairness ==
    \A c \in Calls :
        /\ WF_vars(StoreCancel(c)) /\ WF_vars(NewStream(c))
        /\ WF_vars(EnterSelect(c)) /\ WF_vars(WriteCallResponse(c))
        /\ WF_vars(ExWriteRequest(c)) /\ WF_vars(ExReadResponse(c))
        /\ WF_vars(ExDeliver(c)) /\ WF_vars(ExAbandon(c))
        /\ WF_vars(CancelCall(c))

Spec == Init /\ [][Next]_vars /\ Fairness

-----------------------------------------------------------------------------
(* Properties                                                              *)

(* Once a call's context is cancelled, its CallUnary goroutine returns     *)
(* even if the peer never answers: doUnaryCall's select must see           *)
(* ctx.Done() whether it is already parked or not yet entered.             *)
FiredCallReturns ==
    \A c \in Calls : (ctxDone[c] /\ worker[c] # "unsent") ~> (worker[c] = "done")

(* Spec scenario 2: a Cancel the client sends after its CallUnary ends the *)
(* call even when the peer never replies.  The Cancel goroutine's Load can *)
(* run before the CallUnary goroutine's Store.                             *)
CancelledCallReturns ==
    \A c \in Calls : (canceller[c] # "unsent") ~> (worker[c] = "done")

(* Spec section 5: a call's goroutine writes exactly one terminal frame    *)
(* for it; while the connection is open, a returned goroutine has written *)
(* one (a Cancel{} if it was cancelled).                                   *)
TerminalFrameWritten ==
    \A c \in Calls : (worker[c] = "done" /\ sessionOpen) => frame[c] # "none"

(* No exchangeMessages goroutine blocks forever: when it sends on rc,      *)
(* doUnaryCall is still selecting on rc.                                   *)
ExchangeNotStranded ==
    \A c \in Calls : ex[c] = "senderr" => worker[c] \notin {"write", "done"}

(* Spec sections 4.2, 5 and 9: session shutdown implicitly cancels every   *)
(* outbound call the session owns, so once the client's connection is     *)
(* gone each call it started returns even if the peer never answers.  The *)
(* CallUnary goroutine derives its context from context.Background().     *)
SessionEndCancelsCalls ==
    \A c \in Calls : (~sessionOpen /\ worker[c] # "unsent") ~> (worker[c] = "done")

=============================================================================
