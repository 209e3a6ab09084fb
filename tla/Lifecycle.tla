----------------------------- MODULE Lifecycle ------------------------------
(***************************************************************************)
(* The daemon process: main's startup (Startup), the termination watchdog *)
(* (Watchdog) and the protocol registry (ProtocolRegistry) composed.      *)
(*  - main arms the idle timer with KillOnTimeout when -idleTimeout is    *)
(*    positive, before pubsub, bootstrap and Serve;                        *)
(*  - clients open sessions only once main has entered d.Serve();          *)
(*  - a session runs lines 32-39 (Watchdog) before its read loop          *)
(*    (ProtocolRegistry) starts, and when the loop ends its deferred      *)
(*    terminateWG.Done runs before its deferred registry cleanup.         *)
(* Either a fatal error of main or the idle timer ends the process.       *)
(***************************************************************************)
EXTENDS Startup, Watchdog

CONSTANTS Protos, CallIds, NoSession

VARIABLES sessPc, streamHandlers, registered, handler, add, reply

Reg == INSTANCE ProtocolRegistry

regVars == <<sessPc, streamHandlers, registered, handler, add, reply>>

vars == <<startupVars, watchdogVars, regVars>>

Exited == mainExit \/ idleKill

TypeOK == StartupTypeOK /\ WatchdogTypeOK /\ Reg!TypeOK

Init == StartupInit /\ WatchdogInit /\ Reg!Init

(* main's if *idleTimeout > 0 { d.KillOnTimeout(idleTimeout) }.           *)
ArmIdleTimer ==
    /\ IdleTimeoutStep
    /\ \E idleTimeoutSet \in BOOLEAN :
          IF idleTimeoutSet THEN KillOnTimeout ELSE UNCHANGED watchdogVars
    /\ UNCHANGED regVars

(* A client connects to the listener d.Serve() accepts on.                *)
Accept(s) ==
    /\ mainPc = "serving"
    /\ Connect(s)
    /\ UNCHANGED <<startupVars, regVars>>

(* Lines 32-41: the timer cancel and terminateWG.Add, then the            *)
(* terminateOnce start of awaitTermination and the entry to the loop.     *)
SessionStart(s) ==
    /\ \/ (CancelTimer(s) \/ AddSession(s)) /\ UNCHANGED regVars
       \/ StartAwait(s) /\ Reg!Start(s)
    /\ UNCHANGED startupVars

(* The read fails and the loop returns; the deferred Done runs first.     *)
SessionEnd(s) ==
    /\ Reg!ReadFail(s)
    /\ EndSession(s)
    /\ UNCHANGED startupVars

(* The goroutines of an AddUnaryHandler request, and the deferred cleanup. *)
RegistryStep ==
    /\ \/ \E c \in CallIds :
             Reg!DoAddUnaryHandler(c) \/ Reg!AppendStreamHandler(c) \/ Reg!WriteAddResponse(c)
       \/ \E s \in Sessions : Reg!Cleanup(s)
    /\ UNCHANGED <<startupVars, watchdogVars>>

(* The client of a live session sends AddUnaryHandler.                    *)
ClientRequest ==
    /\ \E s \in Sessions, c \in CallIds, p \in Protos : Reg!ReadAddUnaryHandler(s, c, p)
    /\ UNCHANGED <<startupVars, watchdogVars>>

Next ==
    /\ ~Exited
    /\ \/ StartupStep /\ UNCHANGED <<watchdogVars, regVars>>
       \/ ArmIdleTimer
       \/ ServeFail /\ UNCHANGED <<watchdogVars, regVars>>
       \/ \E s \in Sessions : Accept(s) \/ SessionStart(s) \/ SessionEnd(s)
       \/ RegistryStep
       \/ ClientRequest
       \/ (Rearm \/ \E k \in Timers : Fire(k)) /\ UNCHANGED <<startupVars, regVars>>

(* main and the daemon's goroutines are scheduled eventually, and an armed *)
(* timer fires unless it is cancelled first.  Clients (Accept, requests,  *)
(* SessionEnd) and a failing listener (ServeFail) are not obliged to act.  *)
Fairness ==
    /\ WF_vars(~Exited /\ StartupStep /\ UNCHANGED <<watchdogVars, regVars>>)
    /\ WF_vars(~Exited /\ ArmIdleTimer)
    /\ \A s \in Sessions : WF_vars(~Exited /\ SessionStart(s))
    /\ WF_vars(~Exited /\ RegistryStep)
    /\ WF_vars(~Exited /\ Rearm /\ UNCHANGED <<startupVars, regVars>>)
    /\ \A k \in Timers : WF_vars(~Exited /\ Fire(k) /\ UNCHANGED <<startupVars, regVars>>)

Spec == Init /\ [][Next]_vars /\ Fairness

-----------------------------------------------------------------------------
(* Properties                                                              *)

(* Spec section 4.5 and scenario 5: with an idle timeout configured, a     *)
(* daemon that has no session eventually exits, unless a client connects: *)
(* the timer armed by KillOnTimeout, or rearmed when the last session      *)
(* ended, fires although sessions came and went and cancelled timers.     *)
IdleExit ==
    (Configured /\ \A s \in Sessions : sess[s] \in {"idle", "gone"})
        ~> (Exited \/ \E s \in Sessions : sess[s] \notin {"idle", "gone"})

(* Spec section 8: a protocol is in the streamHandlers of at most one live *)
(* session, although doAddUnaryHandler's check and the append to          *)
(* streamHandlers are separate d.mx sections, and a session that has      *)
(* ended keeps its protocols until its deferred cleanup runs.              *)
OwnerUnique == Reg!OwnerUnique

(* Spec section 5: an Ok to AddUnaryHandler implies the host handler is    *)
(* installed for the session that asked, for as long as that session      *)
(* reads, whatever other sessions start, register and end meanwhile.      *)
OkImpliesInstalled == Reg!OkImpliesInstalled

=============================================================================
