------------------------------ MODULE Startup -------------------------------
(***************************************************************************)
(* The daemon's main goroutine: src/p2pd/main.go, main() from loading the *)
(* configuration to d.Serve().  Flag values, file contents and the        *)
(* outcome of library calls are inputs: each step that reads one chooses  *)
(* it, which is faithful because main reads each of them once.  What a    *)
(* step only copies into the config or the libp2p options is left out;    *)
(* what it decides (the order of the steps, every log.Fatal and panic,    *)
(* the goroutines it starts) is kept.  A fatal error ends the process.     *)
(***************************************************************************)
EXTENDS Naturals

VARIABLES
    mainPc,      \* the step main() is at
    background,  \* goroutines main started: subset of {"pprof", "metrics"}
    mainExit     \* the process exited from main (log.Fatal or panic)

startupVars == <<mainPc, background, mainExit>>

MainPcs == {"config", "addrs", "relays", "validate", "identity", "opts",
            "security", "newDaemon", "idle", "pubsub", "bootstrap",
            "announce", "serving"}

StartupTypeOK ==
    /\ mainPc \in MainPcs
    /\ background \subseteq {"pprof", "metrics"}
    /\ mainExit \in BOOLEAN

StartupInit ==
    /\ mainPc = "config"
    /\ background = {}
    /\ mainExit = FALSE

(* Go to the next step when ok, otherwise log.Fatal / panic.               *)
Proceed(ok, next) ==
    IF ok THEN mainPc' = next /\ UNCHANGED mainExit
          ELSE mainExit' = TRUE /\ UNCHANGED mainPc

(* -i reads the JSON config from stdin, -f from a file, otherwise the      *)
(* defaults; a read or unmarshal error is fatal.                           *)
LoadConfig ==
    /\ mainPc = "config"
    /\ \E source \in {"stdin", "file", "default"}, readOk, jsonOk \in BOOLEAN :
          Proceed(source = "default" \/ (readOk /\ jsonOk), "addrs")
    /\ UNCHANGED background

(* -listen, -hostAddrs and -announceAddrs are parsed as multiaddrs; any   *)
(* that does not parse is fatal.  The flags after them up to the relay     *)
(* checks are copied into the config.                                      *)
ParseAddrs ==
    /\ mainPc = "addrs"
    /\ \E allParse \in BOOLEAN : Proceed(allParse, "relays")
    /\ UNCHANGED background

(* The relay flag checks: trusted relays need -relay and -autoRelay, and   *)
(* -autoRelay needs relay discovery or trusted relays; each is a panic.    *)
(* Then the flags are copied into the config, -bootstrapPeers parsed      *)
(* (fatal if one does not parse) and the DHT mode chosen.                 *)
CheckRelays ==
    /\ mainPc = "relays"
    /\ \E relay, autoRelay, discovery, trusted, peersParse \in BOOLEAN :
          Proceed(/\ trusted => relay
                  /\ trusted => autoRelay
                  /\ autoRelay /\ ~discovery => trusted
                  /\ peersParse, "validate")
    /\ UNCHANGED background

(* c.Validate(); then, with -pprof, the pprof goroutine is started.        *)
Validate ==
    /\ mainPc = "validate"
    /\ \E valid, pprof \in BOOLEAN :
          /\ Proceed(valid, "identity")
          /\ background' = IF valid /\ pprof THEN background \cup {"pprof"} ELSE background

(* -id: p2pd.ReadIdentity of the key file; an error is fatal.              *)
ReadIdentity ==
    /\ mainPc = "identity"
    /\ \E id, readOk \in BOOLEAN : Proceed(~id \/ readOk, "opts")
    /\ UNCHANGED background

(* The host options; only connmgr.NewConnManager can fail (fatal).         *)
CollectOpts ==
    /\ mainPc = "opts"
    /\ \E connMgr, cmOk \in BOOLEAN : Proceed(~connMgr \/ cmOk, "security")
    /\ UNCHANGED background

(* At least one of -noise and -tls, and not both forced reachabilities.    *)
CheckSecurity ==
    /\ mainPc = "security"
    /\ \E noise, tls, forcePublic, forcePrivate \in BOOLEAN :
          Proceed((noise \/ tls) /\ ~(forcePublic /\ forcePrivate), "newDaemon")
    /\ UNCHANGED background

(* p2pd.NewDaemon builds the host and the control listener.               *)
NewDaemon ==
    /\ mainPc = "newDaemon"
    /\ \E ok \in BOOLEAN : Proceed(ok, "idle")
    /\ UNCHANGED background

(* if *idleTimeout > 0 { d.KillOnTimeout(idleTimeout) }; whether the      *)
(* timer is armed is decided by the composition (Lifecycle).               *)
IdleTimeoutStep ==
    /\ mainPc = "idle"
    /\ mainPc' = "pubsub"
    /\ UNCHANGED <<background, mainExit>>

(* With pubsub enabled, d.EnablePubsub; an error is fatal.                 *)
EnablePubsub ==
    /\ mainPc = "pubsub"
    /\ \E pubsub, ok \in BOOLEAN : Proceed(~pubsub \/ ok, "bootstrap")
    /\ UNCHANGED background

(* With -b, d.Bootstrap connects to the bootstrap peers; an error is fatal. *)
Bootstrap ==
    /\ mainPc = "bootstrap"
    /\ \E bootstrap, ok \in BOOLEAN : Proceed(~bootstrap \/ ok, "announce")
    /\ UNCHANGED background

(* Print the addresses unless -q; with -metricsAddr start the metrics      *)
(* server goroutine; ignore SIGINT; enter d.Serve().                       *)
Announce ==
    /\ mainPc = "announce"
    /\ \E metrics \in BOOLEAN :
          background' = IF metrics THEN background \cup {"metrics"} ELSE background
    /\ mainPc' = "serving"
    /\ UNCHANGED mainExit

(* d.Serve() returns an error (the listener failed): fatal.                *)
ServeFail ==
    /\ mainPc = "serving"
    /\ mainExit' = TRUE
    /\ UNCHANGED <<mainPc, background>>

StartupStep ==
    \/ LoadConfig \/ ParseAddrs \/ CheckRelays \/ Validate \/ ReadIdentity
    \/ CollectOpts \/ CheckSecurity \/ NewDaemon \/ EnablePubsub \/ Bootstrap
    \/ Announce

=============================================================================
