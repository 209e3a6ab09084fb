# TLA+ models of the persistent control stream of go-libp2p-daemon

These modules model `src/persistent_stream.go`, the daemon's persistent
control connection. A client upgrades one control connection to a long-lived,
multiplexed session. On that session it:

- registers unary protocol handlers (`AddUnaryHandler`);
- calls remote peers (`CallUnary`, `Cancel`);
- answers calls that remote peers make to it (`UnaryResponse`).

The models also cover the termination watchdog at the start of every session,
and the control flow of `src/p2pd/main.go`: the startup steps, every fatal
exit, and the idle timer armed before `Serve`.

## The system and its parts

### Session read loop (`handleUpgradedConn`, lines 18-110)

The loop reads one framed `PersistentConnectionRequest` at a time and starts
one goroutine per request. Its deferred cleanup runs when a read fails. That
cleanup removes the host stream handler of every protocol in the session's
`streamHandlers` and unregisters them. Goroutines the loop started are not
stopped by the cleanup.

Every write to the client goes through `safeWriter.WriteMsg` (lines 301-310).
The delimited writer it wraps writes a varint length and then the body, as two
writes. The mutex keeps a frame's two writes together.

### Termination watchdog (lines 32-39, and `daemon.go`)

A new session does three things, in this order:

1. cancels the timer stored in `d.cancelTerminateTimer`;
2. joins `d.terminateWG`;
3. starts `awaitTermination` once.

Its deferred `Done` runs when the read loop ends. `KillOnTimeout` (called by
`main`) and `awaitTermination` are in `daemon.go`, which is not part of the
source tree here. Per spec section 4.5, the timer is armed at startup and
rearmed when the counter returns to 0. If it fires while the counter is 0,
the process exits.

### Startup (`main.go`)

`main` runs these steps in order, and each can end the process with
`log.Fatal` or a panic:

1. load the config;
2. parse the addresses;
3. check the relay flags;
4. `Validate` (which starts pprof when enabled);
5. read the identity;
6. build the options;
7. check the security and reachability flags;
8. `NewDaemon`;
9. `KillOnTimeout`;
10. pubsub;
11. bootstrap;
12. announce (which starts metrics when enabled);
13. `Serve`.

### Protocol registry (`doAddUnaryHandler`, lines 113-131)

`d.registeredUnaryProtocols` and the host handler table are process-wide and
shared by every session. Each session also keeps its own `streamHandlers`.

### Outbound call (lines 75-89, 100-108, 133-194)

Three goroutines cooperate on one call:

- the `CallUnary` goroutine stores its cancel func in `d.cancelUnary`, runs
  `doUnaryCall` and writes the response;
- `doUnaryCall` opens a stream, starts `exchangeMessages` and selects on
  `ctx.Done()` and the result channel `rc`;
- a `Cancel` goroutine loads `d.cancelUnary` and calls the cancel func.

### Inbound call (lines 91-98, 197-298)

The host runs `getPersistentStreamHandler`'s handler for a stream a remote
peer opens. The handler:

1. reads the request;
2. stores a response channel in `d.responseWaiters` under the remote's call id;
3. forwards the request to the client;
4. selects on `awaitReadFail` (the remote hanging up) and on the response
   channel.

The client's `UnaryResponse` is delivered by `doSendReponseToRemote`, which
loads the channel and sends on it.

## Modules

| Module | Models | State ↔ code |
|---|---|---|
| `ProtocolRegistry` | AddUnaryHandler, cleanup | `sessPc` is the read loop of each session ("ending" between the read failure and the deferred cleanup). `streamHandlers`, `registered` and `handler` are the session slice, `registeredUnaryProtocols` and the host table. `add[c]` is the goroutine of request `c`. `reply` holds the frames the client got. |
| `UnaryCall` | CallUnary, Cancel, doUnaryCall, exchangeMessages | `worker[c]` is the CallUnary goroutine and its place in `doUnaryCall`. `ex[c]` is `exchangeMessages`. `canceller[c]` is the Cancel goroutine. `cancelUnary` is `d.cancelUnary`. `ctxDone` says whether the context was cancelled. `result` is the value `doUnaryCall` returns. `remote` is the peer's behaviour. `frame` holds what the client received. |
| `FramedDuplex` | safeWriter.WriteMsg and the delimited writer | `wpc[w]` is a goroutine inside `WriteMsg`. `holder` is the owner of `sw.m`. `wire` is the sequence of length and body writes on the connection. `connOpen` says whether writes still succeed. `Parse` is the client's reader. |
| `FrameLog` | abstract: what the client reads | `frames` are whole messages, each appended once. `open` says whether the connection is open. `FramedDuplex` maps `Parse(wire)` onto `frames`. |
| `Watchdog` | lines 32-39, plus the timer from spec 4.5 | `sess[s]` is where session `s` is in those lines. `counter` is `terminateWG`. `stored` is `cancelTerminateTimer`. `timer[k]` is the k-th timer armed. `rearmDue` records a 1→0 transition that has not been rearmed yet. `idleKill` says whether the timer exited the process. |
| `Startup` | main() | `mainPc` is the step main is at. `background` holds the pprof and metrics goroutines. `mainExit` records a fatal exit. Each flag is chosen at the one step that reads it. |
| `Lifecycle` | Startup, Watchdog and ProtocolRegistry composed | `ArmIdleTimer` joins main's `KillOnTimeout` step with arming the timer. Sessions are accepted only while main is in `Serve`. `Reg == INSTANCE ProtocolRegistry` shares the sessions: `SessionStart` runs lines 32-41 and enters the read loop. `SessionEnd` is the read failure with the deferred `Done`, and the registry's `Cleanup` runs after it, as the defers do. |
| `InboundCall` | stream handler, awaitReadFail, UnaryResponse | `hnd[t]` is the handler of remote stream `t`. `waiters` is `d.responseWaiters`. `rep[r]` is a UnaryResponse goroutine. `toClient` is the sequence of frames written to the control connection. `crashed` records a panic. |

Each `MC*.tla` module declares model values and small sets. The `.cfg` files
give the constants values and choose the properties.

Conventions used in every module:

- Each critical section under `d.mx` is one step. So is each `sync.Map`
  operation.
- Each `WriteMsg` is one step too. `FramedDuplex` checks that this
  abstraction is sound: under the mutex, the two writes of a frame refine an
  atomic append.
- A send on an unbuffered channel is a rendezvous action of the two
  goroutines.
- A Go `select` on entry takes any ready case, and parks if none is ready. The
  event that makes a case ready wakes a parked select in the same step.
- A receive from a closed channel yields nil. `WriteMsg(nil)` fails to encode,
  so nothing is written.

## Runs

| Run | Checks | Result |
|---|---|---|
| `registry_leak` | NoLeakedHandler | **violated**: AddUnaryHandler registers after cleanup, leaking the protocol |
| `unary_pass` | TypeOK, FiredCallReturns | holds (2 calls) |
| `unary_lost_cancel` | CancelledCallReturns | **violated**: Cancel loads before the Store, so a silent peer hangs the call |
| `unary_nil_response` | TerminalFrameWritten | **violated**: closed `rc` read by a late select gives a nil response and no Cancel{} |
| `unary_stranded_exchange` | ExchangeNotStranded | **violated**: exchangeMessages blocks forever on `rc <- err` |
| `unary_session_end` | SessionEndCancelsCalls | **violated**: the call context derives from `context.Background()`, so a session's end never cancels its calls |
| `inbound_pass` | TypeOK, CancelExcludesOk | holds (2 streams, 2 ids, 2 replies) |
| `inbound_stranded_reply` | UnaryResponseAnswered | **violated**: UnaryResponse blocks on a channel nobody reads |
| `inbound_crash` | NoRemoteCrash | **violated**: a non-CallUnary request dereferences nil |
| `inbound_id_reuse` | WaitingHandlerReachable | **violated**: two streams with one remote-chosen call id make each other's channel unreachable |
| `duplex_pass` | TypeOK, FrameRefinement, WriteReturns | holds (3 writers, one with a nil message); the wire refines `FrameLog` |
| `lifecycle_pass` | TypeOK, OwnerUnique, OkImpliesInstalled, IdleExit | holds (startup, 2 sessions, 2 AddUnaryHandler requests, 1 protocol; 192k states) |

`PROJECT.json` lists the findings with source lines. Every property of a
passing run has a mutant, a plausible bug in the action it depends on, which
TLC must detect:

- the registered check dropped, or a nil error returned;
- the cancel not waking a parked select;
- a buffered response channel;
- a nil response written as a frame;
- `WriteMsg` without the mutex, or without unlocking on an error;
- a missing `terminateWG.Add`;
- a missing `terminateOnce` start of `awaitTermination`.

The `TypeOK` mutants of `UnaryCall` and `FramedDuplex` are of a different
kind. They change the protobuf encoder's refusal of a nil message. That is
library behaviour the models rely on, not code of this repository.

`FrameRefinement` is checked the way a refinement is checked:
`FL == INSTANCE FrameLog WITH frames <- Parse(wire), open <- connOpen`, with
`FL!Spec` as a `PROPERTY`.

### Bounds

- Two sessions and one protocol are enough for the register/cleanup races.
  In `registry_leak`, three call ids let one session both win and lose a
  registration. In the composed `lifecycle_pass`, two call ids are used.
  That is enough for both sessions to compete for the protocol while either
  one starts or ends. Three would give 3M states, too many for one run.
- Two outbound calls share the `cancelUnary` map, and every interleaving of
  Store, Load and Delete for each call is explored.
- Two inbound streams with two call ids and two replies cover a reply racing a
  hang-up, and a reply for a call that has already ended.
  With three streams and three ids, `TypeOK` and `CancelExcludesOk` were
  checked once and hold: 3.3M states in 95 s,
  too close to a run's time limit to be the configured run.
- Calls are independent apart from the shared map, so a third outbound call
  adds no new kind of interleaving. It multiplies the state space beyond
  what finishes in ten minutes.
- Three writers let a third goroutine queue on the mutex while two
  interleave. One of them has a nil message.
- Two sessions in `Lifecycle` let one session start while the other ends,
  which is where the timer races happen. `MaxTimers` is the number of sessions
  plus one: one timer from `KillOnTimeout`, plus at most one rearm per
  session end. So the bound never disables a rearm.
- The violation runs use one call where one is enough, so their traces stay
  short.

### Fairness

Weak fairness applies to the daemon's own goroutines only, since the Go
scheduler eventually runs a runnable goroutine. The client and the remote
peers get no fairness: they may stay silent forever, and the code has to cope
with that. So a daemon may legitimately wait forever, and the UnaryCall and
InboundCall runs set `CHECK_DEADLOCK FALSE`. So does `registry_leak`: once
every client has gone, the daemon waits for new ones.

- **FramedDuplex** gives weak fairness to the steps of a writer inside
  `WriteMsg`. Go's mutex switches to FIFO hand-off in starvation mode, and
  every writer writes once, so a waiter is eventually granted the lock.
- **Lifecycle** gives weak fairness to main's steps, to the daemon's steps of
  a session start, to the AddUnaryHandler goroutines and the cleanup, to the
  rearm, and to each armed timer (time passes). Clients connecting, sending
  requests or leaving, and `Serve` failing, are not fair.

## Not modelled

- **`KillOnTimeout` and `awaitTermination`** are in `daemon.go`, which is not
  part of this source tree. They are modelled from spec 4.5 (marked
  `spec_modelled` in `PROJECT.json`).
- **The race at line 32 has no run.** A session cancels the timer, the last
  other session ends, and the timer is rearmed before the first session's
  `Add(1)`. `Lifecycle` reaches an idle kill in that window in 22 steps. It
  is not a run for three reasons:
  - the model has no time, so it lets the new timer fire within three lines,
    which in reality needs the goroutine to stall for the whole idle timeout;
  - the rearm and the kill are in `daemon.go` and are modelled from the spec;
  - the twelve runs are taken by findings that need no timing argument.
- **Frame sizes.** The size limit of the reader is in the protobuf library,
  not here.
- **`main.go` data.** The flag declarations, and the copying of flag values
  into the config and options, carry no control and are abstracted away.
  `pprofHTTP`'s port scan is not modelled; its help text promises ports up to
  7800 but the loop stops at 7080 (a hazard without a run).
- **The host, DHT, pubsub and relay** are external libraries. Their calls
  are single steps with nondeterministic outcomes.
- **The idle timer firing before `Serve`** (main.go line 378) is not a
  hazard. `KillOnTimeout` arms the timer before pubsub and bootstrap, and
  spec scenario 5 measures the timeout from launch.
- **Call-id collisions across sessions.** `d.cancelUnary` is keyed by the
  call id the client chose (line 78). It has the same Store/Delete flaw as
  `responseWaiters`, which `inbound_id_reuse` shows. The `UnaryCall` model
  gives calls fresh ids.
- **The outbound and inbound calls** are not composed into `Lifecycle`.
  `UnaryCall` shares no state with the registry or the watchdog. The inbound
  handler depends on the registry only through the host handler table.
  `InboundCall` starts with the handler already installed. A stream that
  would arrive after the cleanup is simply one that never opens in that
  model. Both models have the session connection closing (`Disconnect`).

## Where the project stops

- **No property about the registries' deletes.** The deferred `Delete` of
  `d.cancelUnary` (line 81) and of `d.responseWaiters` (line 240) runs on
  every return. Each model performs it in the step in which the goroutine
  returns. So an invariant or refinement saying "no entry outlives its
  goroutine" would only restate the `defer`. The maps really grow through
  goroutines that never return: `unary_lost_cancel`, `unary_session_end` and
  `inbound_stranded_reply` show those. They also grow through entries
  overwritten under a reused id, which `inbound_id_reuse` shows.

- The session's outbound and inbound calls are not composed with
  `Lifecycle`. `Lifecycle` already has 192k states with two sessions. Adding
  per-session calls would multiply that by the size of each call model, and
  the calls share no state with the watchdog or the registry.
- There is no abstract "one terminal response per call" specification for
  `UnaryCall`. The code does not implement one: `unary_nil_response` and
  `unary_session_end` show calls that end with no terminal frame, or that
  never end. A refinement would only hold on a restricted model.
- `pprofHTTP` and the uint-to-int conversion of its port (main.go 293) are
  left out. They interact with nothing else, and the only properties about
  them compare the loop with its help text.
