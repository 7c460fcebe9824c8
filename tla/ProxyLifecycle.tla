--------------------------- MODULE ProxyLifecycle ---------------------------
(***************************************************************************)
(* Starting, stopping and restarting the proxy server (ProxyRuntime) and   *)
(* the restart a configuration save triggers (sync_runtime_config).        *)
(*                                                                         *)
(* The slot `server: Mutex<Option<RunningServer>>` is locked only for each *)
(* single access; binding a listener and waiting for a graceful shutdown   *)
(* are awaits between accesses.  Calls come from the desktop commands and  *)
(* from HTTP handlers that run inside the very server they control: such a *)
(* call keeps its own server from draining, and is dropped at an await     *)
(* when its client disconnects.                                            *)
(***************************************************************************)
EXTENDS Naturals

CONSTANTS
    Callers,      \* concurrent calls of start, stop and save
    HttpCallers,  \* those made through the server's own HTTP API
    Ports,        \* server.host/port a configuration may ask for
    Addresses,    \* socket addresses
    Candidates,   \* bind_candidates: the addresses tried for each of Ports
    MaxCalls,     \* bound on the calls made
    None

ASSUME LifecycleAssumption ==
    /\ HttpCallers \subseteq Callers
    /\ Candidates \in [Ports -> SUBSET Addresses]
    /\ MaxCalls \in Nat
    /\ None \notin Nat

Servers == 1..MaxCalls    \* each call starts at most one server

VARIABLES
    config,   \* server.host/port of the shared configuration
    slot,     \* the advertised RunningServer
    phase,    \* life of each server task
    bound,    \* the address each server is bound to
    uptime,   \* uptime_started_at is set
    pc, held, \* each caller: its place, the server it starts or stops
    want,     \* the server settings a caller binds, or the ones it saves
    prev,     \* the settings a save read before installing its own
    then,     \* what follows stop(): "return", or "start" in a restart
    carrier,  \* the server whose connection carries an HTTP caller
    calls

vars == <<config, slot, phase, bound, uptime, pc, held, want, prev, then,
          carrier, calls>>
callerVars == <<held, want, prev, then, carrier>>
serverVars == <<slot, phase, bound>>

goto(c, l) == pc' = [pc EXCEPT ![c] = l]
listening(s) == phase[s] \in {"bound", "serving", "signalled"}
quiet == \A c \in Callers : pc[c] = "idle"

Init ==
    /\ config \in Ports
    /\ slot = None
    /\ phase = [s \in Servers |-> "unborn"]
    /\ bound = [s \in Servers |-> None]
    /\ uptime = FALSE
    /\ pc = [c \in Callers |-> "idle"]
    /\ held = [c \in Callers |-> None]
    /\ want = [c \in Callers |-> config]
    /\ prev = [c \in Callers |-> config]
    /\ then = [c \in Callers |-> "return"]
    /\ carrier = [c \in Callers |-> None]
    /\ calls = 0

-----------------------------------------------------------------------------
(* A call begins.  An HTTP call comes in over a connection of a server     *)
(* that is serving.                                                        *)
call(c, l) ==
    /\ pc[c] = "idle" /\ calls < MaxCalls
    /\ calls' = calls + 1
    /\ goto(c, l)
    /\ IF c \in HttpCallers
         THEN \E s \in Servers : /\ phase[s] = "serving"
                                 /\ carrier' = [carrier EXCEPT ![c] = s]
         ELSE UNCHANGED carrier

return(c) == /\ goto(c, "idle")
             /\ held' = [held EXCEPT ![c] = None]
             /\ carrier' = [carrier EXCEPT ![c] = None]

CallStart(c) ==
    /\ call(c, "check")
    /\ UNCHANGED <<config, serverVars, uptime, held, want, prev, then>>

CallStop(c) ==
    /\ call(c, "take")
    /\ then' = [then EXCEPT ![c] = "return"]
    /\ UNCHANGED <<config, serverVars, uptime, held, want, prev>>

(* save_config reads the previous configuration, then saves the next.      *)
CallSave(c) ==
    /\ call(c, "install")
    /\ \E p \in Ports : want' = [want EXCEPT ![c] = p]
    /\ prev' = [prev EXCEPT ![c] = config]
    /\ UNCHANGED <<config, serverVars, uptime, held, then>>

InstallConfig(c) ==
    /\ pc[c] = "install"
    /\ config' = want[c]
    /\ goto(c, "sync")
    /\ UNCHANGED <<serverVars, uptime, callerVars, calls>>

(* sync_runtime_config: restart if the server runs and its settings differ *)
(* from the ones read before the save: the address, or authentication,     *)
(* which has no other effect here.                                         *)
SyncNeverRestarts(c) ==
    /\ pc[c] = "sync"
    /\ return(c)
    /\ UNCHANGED <<config, serverVars, uptime, want, prev, then, calls>>

SyncRuntimeConfig(c) ==
    /\ pc[c] = "sync"
    /\ \/ /\ slot # None
          /\ \E authChanged \in BOOLEAN : prev[c] # want[c] \/ authChanged
          /\ then' = [then EXCEPT ![c] = "start"]
          /\ goto(c, "take")
          /\ UNCHANGED <<held, carrier>>
       \/ /\ slot = None \/ prev[c] = want[c]
          /\ return(c)
          /\ UNCHANGED then
    /\ UNCHANGED <<config, serverVars, uptime, want, prev, calls>>

-----------------------------------------------------------------------------
(* ProxyRuntime::start.                                                    *)
CheckRunning(c) ==
    /\ pc[c] = "check"
    /\ \/ /\ slot # None
          /\ return(c)
          /\ UNCHANGED want
       \/ /\ slot = None
          /\ want' = [want EXCEPT ![c] = config]
          /\ goto(c, "bind")
          /\ UNCHANGED <<held, carrier>>
    /\ UNCHANGED <<config, serverVars, uptime, prev, then, calls>>

(* bind_proxy_listener: a wildcard host and "localhost" have an IPv4 and   *)
(* an IPv6 candidate, tried in turn.  An address can be bound when no      *)
(* server still listens there, and binding it may fail anyway (it belongs  *)
(* to another process).                                                    *)
Bind(c) ==
    /\ pc[c] = "bind"
    /\ \E a \in Candidates[want[c]], s \in Servers :
         /\ \A q \in Servers : listening(q) => bound[q] # a
         /\ phase[s] = "unborn"
         /\ \A q \in Servers : phase[q] = "unborn" => s <= q
         /\ phase' = [phase EXCEPT ![s] = "bound"]
         /\ bound' = [bound EXCEPT ![s] = a]
         /\ held' = [held EXCEPT ![c] = s]
    /\ goto(c, "mark")
    /\ UNCHANGED <<config, slot, uptime, want, prev, then, carrier, calls>>

BindFails(c) ==
    /\ pc[c] = "bind"
    /\ return(c)
    /\ UNCHANGED <<config, serverVars, uptime, want, prev, then, calls>>

(* mark_started, and the server task is spawned.                           *)
SpawnServer(c) ==
    /\ pc[c] = "mark"
    /\ uptime' = TRUE
    /\ phase' = [phase EXCEPT ![held[c]] = "serving"]
    /\ goto(c, "publish")
    /\ UNCHANGED <<config, slot, bound, callerVars, calls>>

(* server.lock().replace(running): a RunningServer already there is        *)
(* dropped, and with it the sender its server waits on: it shuts down.     *)
PublishLeakingOld(c) ==
    /\ pc[c] = "publish"
    /\ slot' = held[c]
    /\ return(c)
    /\ UNCHANGED <<config, phase, bound, uptime, want, prev, then, calls>>

PublishServer(c) ==
    /\ pc[c] = "publish"
    /\ slot' = held[c]
    /\ phase' = [s \in Servers |-> IF s = slot THEN "signalled" ELSE phase[s]]
    /\ return(c)
    /\ UNCHANGED <<config, bound, uptime, want, prev, then, calls>>

-----------------------------------------------------------------------------
(* ProxyRuntime::stop: take the server under the lock of the slot, signal  *)
(* it, wait for its task for at most 2.5 s, mark the runtime stopped.      *)
TakeKeepingSlot(c) ==
    /\ pc[c] = "take"
    /\ held' = [held EXCEPT ![c] = slot]
    /\ goto(c, IF slot = None THEN "stopped" ELSE "signal")
    /\ UNCHANGED <<config, serverVars, uptime, want, prev, then, carrier, calls>>

TakeServer(c) ==
    /\ pc[c] = "take"
    /\ slot' = None
    /\ held' = [held EXCEPT ![c] = slot]
    /\ goto(c, IF slot = None THEN "stopped" ELSE "signal")
    /\ UNCHANGED <<config, phase, bound, uptime, want, prev, then, carrier, calls>>

SignalServer(c) ==
    /\ pc[c] = "signal"
    /\ phase' = [phase EXCEPT ![held[c]] = "signalled"]
    /\ goto(c, "wait")
    /\ UNCHANGED <<config, slot, bound, uptime, callerVars, calls>>

AwaitWithoutTimeout(c) ==
    /\ pc[c] = "wait"
    /\ phase[held[c]] = "closed"
    /\ goto(c, "stopped")
    /\ UNCHANGED <<config, serverVars, uptime, callerVars, calls>>

(* The task has ended, or the timeout fires first.                         *)
AwaitShutdown(c) ==
    /\ pc[c] = "wait"
    /\ goto(c, "stopped")
    /\ UNCHANGED <<config, serverVars, uptime, callerVars, calls>>

MarkStopped(c) ==
    /\ pc[c] = "stopped"
    /\ uptime' = FALSE
    /\ \/ then[c] = "start" /\ goto(c, "check") /\ UNCHANGED <<held, carrier>>
       \/ then[c] = "return" /\ return(c)
    /\ UNCHANGED <<config, serverVars, want, prev, then, calls>>

(* The client of an HTTP call disconnects while the handler awaits: the    *)
(* rest of the handler never runs.                                         *)
Disconnect(c) ==
    /\ c \in HttpCallers /\ pc[c] \in {"bind", "wait"}
    /\ return(c)
    /\ UNCHANGED <<config, serverVars, uptime, want, prev, then, calls>>

-----------------------------------------------------------------------------
(* The server task: on the signal it stops listening, then ends once the   *)
(* connections it still carries are done: those of the calls above, and    *)
(* those of proxied requests, which keep it for as long as they please (an *)
(* upload that stalls, a stream that goes on) and are not followed here.   *)
(* So a server may drain for good.                                         *)
StopListening(s) ==
    /\ phase[s] = "signalled"
    /\ phase' = [phase EXCEPT ![s] = "draining"]
    /\ UNCHANGED <<config, slot, bound, uptime, pc, callerVars, calls>>

Drained(s) ==
    /\ phase[s] = "draining"
    /\ \A c \in Callers : carrier[c] # s
    /\ phase' = [phase EXCEPT ![s] = "closed"]
    /\ UNCHANGED <<config, slot, bound, uptime, pc, callerVars, calls>>

CallerStep(c) ==
    \/ InstallConfig(c) \/ SyncRuntimeConfig(c) \/ CheckRunning(c)
    \/ Bind(c) \/ BindFails(c) \/ SpawnServer(c) \/ PublishServer(c)
    \/ TakeServer(c) \/ SignalServer(c) \/ AwaitShutdown(c) \/ MarkStopped(c)

ServerStep(s) == StopListening(s) \/ Drained(s)

Next ==
    \/ \E c \in Callers : \/ CallStart(c) \/ CallStop(c) \/ CallSave(c)
                          \/ CallerStep(c) \/ Disconnect(c)
    \/ \E s \in Servers : ServerStep(s)

Spec == Init /\ [][Next]_vars

(* A running call makes progress: its awaits end (binding answers, the     *)
(* timer fires).  Nothing is assumed of server tasks: their connections,   *)
(* and with them their end, are in the hands of clients and upstreams.     *)
Fairness == \A c \in Callers : WF_vars(CallerStep(c))

-----------------------------------------------------------------------------
(* The type invariant of the runtime, its servers and its callers.         *)
TypeOK ==
    /\ config \in Ports
    /\ slot \in Servers \cup {None}
    /\ phase \in [Servers -> {"unborn", "bound", "serving", "signalled",
                              "draining", "closed"}]
    /\ bound \in [Servers -> Addresses \cup {None}]
    /\ uptime \in BOOLEAN
    /\ pc \in [Callers -> {"idle", "install", "sync", "check", "bind", "mark",
                           "publish", "take", "signal", "wait", "stopped"}]
    /\ held \in [Callers -> Servers \cup {None}]
    /\ want \in [Callers -> Ports]
    /\ prev \in [Callers -> Ports]
    /\ then \in [Callers -> {"return", "start"}]
    /\ carrier \in [Callers -> Servers \cup {None}]
    /\ calls \in 0..MaxCalls

(* The server that status and address advertise is really serving: no      *)
(* interleaving of starts, stops, restarts and dropped handlers leaves a   *)
(* server in the slot that was told to shut down.                          *)
AdvertisedIsServing == slot # None => phase[slot] = "serving"

(* No server goes on serving outside the slot, where no stop could reach   *)
(* it, except while the start that spawned it is about to publish it, or   *)
(* the stop that took it is about to signal it.                            *)
NoOrphanServer ==
    \A s \in Servers :
        phase[s] = "serving" =>
            \/ s = slot
            \/ \E c \in Callers : pc[c] \in {"publish", "signal"} /\ held[c] = s

(* A server that is being started or stopped belongs to one caller, and    *)
(* the server in the slot to none: with the two properties above, the      *)
(* inductive invariant.                                                    *)
OwnershipOfServers ==
    /\ \A c \in Callers :
          /\ pc[c] = "mark" => held[c] # None /\ phase[held[c]] = "bound"
          /\ pc[c] \in {"publish", "signal"} =>
                held[c] # None /\ held[c] # slot /\ phase[held[c]] = "serving"
    /\ \A c, d \in Callers :
          c # d /\ {pc[c], pc[d]} \subseteq {"mark", "publish", "signal"}
              => held[c] # held[d]

IndInv == TypeOK /\ AdvertisedIsServing /\ NoOrphanServer /\ OwnershipOfServers

(* Every call returns, also an HTTP call that stops the server carrying it *)
(* and that waits for a shutdown which waits for its own connection, and   *)
(* though the server it waits for may never be done with its connections.  *)
EveryCallReturns == \A c \in Callers : pc[c] # "idle" ~> pc[c] = "idle"
=============================================================================
