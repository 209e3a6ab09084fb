------------------------------ MODULE Watchdog ------------------------------
(***************************************************************************)
(* The termination watchdog.  From src/persistent_stream.go, the start of *)
(* handleUpgradedConn (lines 32-39): every new session cancels the timer  *)
(* stored in d.cancelTerminateTimer, then adds itself to d.terminateWG,   *)
(* then starts awaitTermination once; its deferred Done (line 37) runs    *)
(* when the read loop ends.  KillOnTimeout and awaitTermination live in   *)
(* daemon.go, outside src/, and are modelled from spec section 4.5: the   *)
(* idle timer is armed at startup, rearmed when the counter returns to 0, *)
(* and when it fires while the counter is 0 the process exits.             *)
(*                                                                         *)
(* Timers are numbered in the order they are armed; d.cancelTerminateTimer *)
(* holds the number of the last one (0 for nil).                           *)
(***************************************************************************)
EXTENDS Naturals, FiniteSets

CONSTANTS
    Sessions,   \* persistent control connections clients open
    MaxTimers   \* bound on timers armed in one run

Timers == 1..MaxTimers

VARIABLES
    sess,          \* session -> "idle" | "cancel" | "add" | "once" | "live" | "gone"
    counter,       \* the counter of d.terminateWG
    stored,        \* d.cancelTerminateTimer: number of the timer it cancels, 0 = nil
    timer,         \* timer -> "unarmed" | "armed" | "cancelled" | "fired"
    awaitStarted,  \* d.terminateOnce has run: awaitTermination exists
    rearmDue,      \* the counter went back to 0 and the timer is not yet rearmed
    idleKill       \* the idle timer exited the process

watchdogVars == <<sess, counter, stored, timer, awaitStarted, rearmDue, idleKill>>

SessPcs == {"idle", "cancel", "add", "once", "live", "gone"}

(* Spec section 4.5 and 8: the counter is never negative and never exceeds *)
(* the sessions that exist.                                                *)
WatchdogTypeOK ==
    /\ sess \in [Sessions -> SessPcs]
    /\ counter \in 0..Cardinality(Sessions)
    /\ stored \in 0..MaxTimers
    /\ timer \in [Timers -> {"unarmed", "armed", "cancelled", "fired"}]
    /\ awaitStarted \in BOOLEAN /\ rearmDue \in BOOLEAN /\ idleKill \in BOOLEAN

WatchdogInit ==
    /\ sess = [s \in Sessions |-> "idle"]
    /\ counter = 0
    /\ stored = 0
    /\ timer = [k \in Timers |-> "unarmed"]
    /\ awaitStarted = FALSE
    /\ rearmDue = FALSE
    /\ idleKill = FALSE

(* The watchdog was configured (KillOnTimeout armed the first timer).      *)
Configured == timer[1] # "unarmed"

(* Arm the next timer and store its cancel func.                           *)
ArmTimer ==
    LET k == Cardinality({j \in Timers : timer[j] # "unarmed"}) + 1 IN
    /\ k <= MaxTimers
    /\ timer' = [timer EXCEPT ![k] = "armed"]
    /\ stored' = k

(* d.KillOnTimeout(idleTimeout), called from main: arm the first timer.    *)
KillOnTimeout ==
    /\ ArmTimer
    /\ UNCHANGED <<sess, counter, awaitStarted, rearmDue, idleKill>>

(* The daemon accepts a connection and upgrades it to a persistent one.   *)
Connect(s) ==
    /\ sess[s] = "idle"
    /\ sess' = [sess EXCEPT ![s] = "cancel"]
    /\ UNCHANGED <<counter, stored, timer, awaitStarted, rearmDue, idleKill>>

(* if d.cancelTerminateTimer != nil { d.cancelTerminateTimer() }: cancel   *)
(* the stored timer; cancelling one that fired or was cancelled is a no-op. *)
CancelTimer(s) ==
    /\ sess[s] = "cancel"
    /\ timer' = IF stored # 0 /\ timer[stored] = "armed"
                THEN [timer EXCEPT ![stored] = "cancelled"] ELSE timer
    /\ sess' = [sess EXCEPT ![s] = "add"]
    /\ UNCHANGED <<counter, stored, awaitStarted, rearmDue, idleKill>>

(* Mutant of AddSession: the session never joins the WaitGroup.           *)
AddSessionMissing(s) ==
    /\ sess[s] = "add"
    /\ sess' = [sess EXCEPT ![s] = "once"]
    /\ UNCHANGED <<counter, stored, timer, awaitStarted, rearmDue, idleKill>>

(* d.terminateWG.Add(1).                                                   *)
AddSession(s) ==
    /\ sess[s] = "add"
    /\ counter' = counter + 1
    /\ sess' = [sess EXCEPT ![s] = "once"]
    /\ UNCHANGED <<stored, timer, awaitStarted, rearmDue, idleKill>>

(* Mutant of StartAwait: awaitTermination is never started.               *)
StartAwaitMissing(s) ==
    /\ sess[s] = "once"
    /\ sess' = [sess EXCEPT ![s] = "live"]
    /\ UNCHANGED <<counter, stored, timer, awaitStarted, rearmDue, idleKill>>

(* d.terminateOnce.Do(func() { go d.awaitTermination() }); the session     *)
(* then serves requests.                                                   *)
StartAwait(s) ==
    /\ sess[s] = "once"
    /\ awaitStarted' = TRUE
    /\ sess' = [sess EXCEPT ![s] = "live"]
    /\ UNCHANGED <<counter, stored, timer, rearmDue, idleKill>>

(* The read loop ends and the deferred terminateWG.Done() runs; when the   *)
(* counter reaches 0 the timer is due to be rearmed (spec section 4.5).    *)
EndSession(s) ==
    /\ sess[s] = "live"
    /\ counter' = counter - 1
    /\ rearmDue' = (rearmDue \/ counter = 1)
    /\ sess' = [sess EXCEPT ![s] = "gone"]
    /\ UNCHANGED <<stored, timer, awaitStarted, idleKill>>

(* awaitTermination rearms the idle timer after the last session ended.    *)
Rearm ==
    /\ awaitStarted /\ rearmDue /\ Configured
    /\ ArmTimer
    /\ rearmDue' = FALSE
    /\ UNCHANGED <<sess, counter, awaitStarted, idleKill>>

(* An armed timer fires; the process exits if the counter is 0 then.       *)
Fire(k) ==
    /\ timer[k] = "armed"
    /\ timer' = [timer EXCEPT ![k] = "fired"]
    /\ idleKill' = (counter = 0)
    /\ UNCHANGED <<sess, counter, stored, awaitStarted, rearmDue>>

=============================================================================
