------------------------ MODULE ProxyLifecycleProofs ------------------------
(***************************************************************************)
(* However many starts, stops, restarts and dropped handlers interleave,   *)
(* the advertised server is serving and no server is orphaned.             *)
(***************************************************************************)
EXTENDS ProxyHistory, TLAPS

USE LifecycleAssumption

(* Every step of a caller or of a server task preserves the types.         *)
LEMMA TypeStep == TypeOK /\ OwnershipOfServers /\ [Next]_vars => TypeOK'
<1> SUFFICES ASSUME TypeOK, OwnershipOfServers, [Next]_vars PROVE TypeOK'
  OBVIOUS
<1> USE DEF TypeOK, goto, return, call, callerVars, serverVars
<1>1. ASSUME NEW c \in Callers, CallStart(c) PROVE TypeOK'
  BY <1>1 DEF CallStart
<1>2. ASSUME NEW c \in Callers, CallStop(c) PROVE TypeOK'
  BY <1>2 DEF CallStop
<1>3. ASSUME NEW c \in Callers, CallSave(c) PROVE TypeOK'
  BY <1>3 DEF CallSave
<1>4. ASSUME NEW c \in Callers, InstallConfig(c) PROVE TypeOK'
  BY <1>4 DEF InstallConfig
<1>5. ASSUME NEW c \in Callers, SyncRuntimeConfig(c) PROVE TypeOK'
  BY <1>5 DEF SyncRuntimeConfig
<1>6. ASSUME NEW c \in Callers, CheckRunning(c) PROVE TypeOK'
  BY <1>6 DEF CheckRunning
<1>7. ASSUME NEW c \in Callers, Bind(c) PROVE TypeOK'
  BY <1>7 DEF Bind
<1>8. ASSUME NEW c \in Callers, BindFails(c) PROVE TypeOK'
  BY <1>8 DEF BindFails
<1>9. ASSUME NEW c \in Callers, SpawnServer(c) PROVE TypeOK'
  BY <1>9 DEF SpawnServer
<1>10. ASSUME NEW c \in Callers, PublishServer(c) PROVE TypeOK'
  BY <1>10 DEF PublishServer
<1>11. ASSUME NEW c \in Callers, TakeServer(c) PROVE TypeOK'
  BY <1>11 DEF TakeServer
<1>12. ASSUME NEW c \in Callers, AwaitShutdown(c) PROVE TypeOK'
  BY <1>12 DEF AwaitShutdown
<1>13. ASSUME NEW c \in Callers, MarkStopped(c) PROVE TypeOK'
  <2>1. uptime' \in BOOLEAN
    BY <1>13, Zenon DEF MarkStopped
  <2>2. CASE then[c] = "start" /\ goto(c, "check") /\ UNCHANGED <<held, carrier>>
    BY <1>13, <2>1, <2>2 DEF MarkStopped
  <2>3. CASE then[c] = "return" /\ return(c)
    BY <1>13, <2>1, <2>3 DEF MarkStopped
  <2>4. QED
    BY <1>13, <2>2, <2>3 DEF MarkStopped
<1>14. ASSUME NEW c \in Callers, Disconnect(c) PROVE TypeOK'
  BY <1>14 DEF Disconnect
<1>18. ASSUME NEW c \in Callers, SignalServer(c) PROVE TypeOK'
  BY <1>18 DEF SignalServer
<1>15. ASSUME NEW s \in Servers, ServerStep(s) PROVE TypeOK'
  BY <1>15 DEF ServerStep, StopListening, Drained
<1>16. CASE UNCHANGED vars
  BY <1>16 DEF vars
<1>17. QED
  BY <1>1, <1>2, <1>3, <1>4, <1>5, <1>6, <1>7, <1>8, <1>9, <1>10, <1>11,
     <1>12, <1>13, <1>14, <1>15, <1>16, <1>18 DEF Next, CallerStep

(* A step that moves one caller away from the places where it owns a       *)
(* server, or between others, and touches no server keeps the invariant.   *)
LEMMA CallerOnlyStep ==
    ASSUME IndInv, TypeOK', NEW c \in Callers,
           UNCHANGED <<slot, phase>>,
           pc[c] \notin {"mark", "publish", "signal"},
           pc'[c] \notin {"mark", "publish", "signal"},
           \A d \in Callers \ {c} : pc'[d] = pc[d] /\ held'[d] = held[d]
    PROVE  IndInv'
<1> USE DEF IndInv, TypeOK
<1>1. AdvertisedIsServing'
  BY DEF AdvertisedIsServing
<1>2. NoOrphanServer'
  BY DEF NoOrphanServer
<1>3. OwnershipOfServers'
  BY DEF OwnershipOfServers
<1>4. QED
  BY <1>1, <1>2, <1>3

(* Every step preserves the inductive invariant.                           *)
LEMMA NextPreserves == IndInv /\ [Next]_vars => IndInv'
<1> SUFFICES ASSUME IndInv, [Next]_vars PROVE IndInv'
  OBVIOUS
<1>0. TypeOK /\ TypeOK'
  BY TypeStep DEF IndInv
<1> USE DEF goto, return, call, callerVars, serverVars
<1>1. ASSUME NEW c \in Callers,
             CallStart(c) \/ CallStop(c) \/ CallSave(c) \/ InstallConfig(c)
               \/ SyncRuntimeConfig(c) \/ CheckRunning(c) \/ BindFails(c)
               \/ AwaitShutdown(c) \/ MarkStopped(c) \/ Disconnect(c)
      PROVE  IndInv'
  <2>1. /\ UNCHANGED <<slot, phase>>
        /\ pc[c] \notin {"mark", "publish", "signal"}
        /\ pc'[c] \notin {"mark", "publish", "signal"}
        /\ \A d \in Callers \ {c} : pc'[d] = pc[d] /\ held'[d] = held[d]
    BY <1>0, <1>1 DEF TypeOK, CallStart, CallStop, CallSave, InstallConfig,
       SyncRuntimeConfig, CheckRunning, BindFails, AwaitShutdown,
       MarkStopped, Disconnect
  <2>2. QED
    BY <1>0, <2>1, CallerOnlyStep
<1>2. ASSUME NEW c \in Callers, Bind(c) PROVE IndInv'
  <2> PICK s \in Servers : /\ phase[s] = "unborn"
                           /\ phase' = [phase EXCEPT ![s] = "bound"]
                           /\ held' = [held EXCEPT ![c] = s]
    BY <1>2 DEF Bind
  <2>1. slot' = slot /\ pc' = [pc EXCEPT ![c] = "mark"] /\ pc[c] = "bind"
    BY <1>2 DEF Bind
  <2>2. AdvertisedIsServing'
    BY <1>0, <2>1 DEF IndInv, AdvertisedIsServing, TypeOK
  <2>3. NoOrphanServer'
    BY <1>0, <2>1 DEF IndInv, NoOrphanServer, TypeOK
  <2>4. OwnershipOfServers'
    BY <1>0, <2>1 DEF IndInv, OwnershipOfServers, TypeOK, Servers
  <2>5. QED
    BY <1>0, <2>2, <2>3, <2>4 DEF IndInv
<1>3. ASSUME NEW c \in Callers, SpawnServer(c) PROVE IndInv'
  <2>1. /\ held[c] \in Servers /\ phase[held[c]] = "bound"
        /\ held[c] # slot
    BY <1>0, <1>3 DEF IndInv, OwnershipOfServers, AdvertisedIsServing, TypeOK,
       SpawnServer
  <2>2. AdvertisedIsServing'
    BY <1>0, <1>3, <2>1 DEF IndInv, AdvertisedIsServing, TypeOK, SpawnServer
  <2>3. NoOrphanServer'
    BY <1>0, <1>3, <2>1 DEF IndInv, NoOrphanServer, TypeOK, SpawnServer
  <2>4. OwnershipOfServers'
    BY <1>0, <1>3, <2>1 DEF IndInv, OwnershipOfServers, TypeOK, SpawnServer
  <2>5. QED
    BY <1>0, <2>2, <2>3, <2>4 DEF IndInv
<1>4. ASSUME NEW c \in Callers, PublishServer(c) PROVE IndInv'
  <2>1. /\ held[c] \in Servers /\ phase[held[c]] = "serving"
        /\ held[c] # slot
    BY <1>0, <1>4 DEF IndInv, OwnershipOfServers, TypeOK, PublishServer
  <2>2. AdvertisedIsServing'
    BY <1>0, <1>4, <2>1 DEF AdvertisedIsServing, TypeOK, PublishServer
  <2>3. NoOrphanServer'
    BY <1>0, <1>4, <2>1 DEF IndInv, NoOrphanServer, TypeOK, PublishServer
  <2>4. OwnershipOfServers'
    BY <1>0, <1>4, <2>1 DEF IndInv, OwnershipOfServers, TypeOK, PublishServer,
       AdvertisedIsServing
  <2>5. QED
    BY <1>0, <2>2, <2>3, <2>4 DEF IndInv
<1>5. ASSUME NEW c \in Callers, TakeServer(c) PROVE IndInv'
  <2>1. AdvertisedIsServing'
    BY <1>5 DEF AdvertisedIsServing, TakeServer
  <2>2. NoOrphanServer'
    BY <1>0, <1>5 DEF IndInv, NoOrphanServer, TypeOK, TakeServer
  <2>3. OwnershipOfServers'
    BY <1>0, <1>5 DEF IndInv, OwnershipOfServers, AdvertisedIsServing, TypeOK,
       TakeServer
  <2>4. QED
    BY <1>0, <2>1, <2>2, <2>3 DEF IndInv
<1>6. ASSUME NEW s \in Servers, ServerStep(s) PROVE IndInv'
  <2>1. /\ UNCHANGED <<slot, pc, held>>
        /\ phase[s] \in {"signalled", "draining"}
        /\ \E p \in {"draining", "closed"} : phase' = [phase EXCEPT ![s] = p]
    BY <1>6 DEF ServerStep, StopListening, Drained
  <2>2. AdvertisedIsServing'
    BY <1>0, <2>1 DEF IndInv, AdvertisedIsServing, TypeOK
  <2>3. NoOrphanServer'
    BY <1>0, <2>1 DEF IndInv, NoOrphanServer, TypeOK
  <2>4. OwnershipOfServers'
    BY <1>0, <2>1 DEF IndInv, OwnershipOfServers, TypeOK
  <2>5. QED
    BY <1>0, <2>2, <2>3, <2>4 DEF IndInv
<1>9. ASSUME NEW c \in Callers, SignalServer(c) PROVE IndInv'
  <2>1. /\ held[c] \in Servers /\ phase[held[c]] = "serving"
        /\ held[c] # slot
    BY <1>0, <1>9 DEF IndInv, OwnershipOfServers, TypeOK, SignalServer
  <2>2. AdvertisedIsServing'
    BY <1>0, <1>9, <2>1 DEF IndInv, AdvertisedIsServing, TypeOK, SignalServer
  <2>3. NoOrphanServer'
    BY <1>0, <1>9, <2>1 DEF IndInv, NoOrphanServer, TypeOK, SignalServer
  <2>4. OwnershipOfServers'
    BY <1>0, <1>9, <2>1 DEF IndInv, OwnershipOfServers, TypeOK, SignalServer
  <2>5. QED
    BY <1>0, <2>2, <2>3, <2>4 DEF IndInv
<1>7. CASE UNCHANGED vars
  BY <1>7 DEF vars, IndInv, TypeOK, AdvertisedIsServing, NoOrphanServer,
     OwnershipOfServers
<1>8. QED
  BY <1>1, <1>2, <1>3, <1>4, <1>5, <1>6, <1>7, <1>9 DEF Next, CallerStep

\* No server runs and no call is in progress when the application starts.
LEMMA InitIsGood == Init => IndInv
<1>1. ASSUME Init PROVE TypeOK
  <2>0. uptime \in BOOLEAN
    BY <1>1, Zenon DEF Init
  <2>1. calls \in 0..MaxCalls /\ config \in Ports
    BY <1>1 DEF Init
  <2>2. /\ bound \in [Servers -> Addresses \cup {None}]
        /\ want \in [Callers -> Ports]
        /\ prev \in [Callers -> Ports]
    BY <1>1, <2>1 DEF Init
  <2>3. QED
    BY <1>1, <2>0, <2>1, <2>2 DEF Init, TypeOK
<1>2. Init => AdvertisedIsServing /\ NoOrphanServer
  BY DEF Init, AdvertisedIsServing, NoOrphanServer
<1>3. Init => OwnershipOfServers
  BY DEF Init, OwnershipOfServers
<1>4. QED
  BY <1>1, <1>2, <1>3 DEF IndInv

(* The inductive invariant of the lifecycle holds in every reachable state.*)
THEOREM Invariance == Spec => []IndInv
BY InitIsGood, NextPreserves, PTL DEF Spec

(* The server that status and address advertise is serving: no             *)
(* interleaving leaves a server in the slot that was told to shut down.    *)
THEOREM AdvertisedServerServes == Spec => []AdvertisedIsServing
<1>1. IndInv => AdvertisedIsServing
  BY DEF IndInv
<1>2. QED
  BY <1>1, Invariance, PTL

(* No server goes on serving where stop cannot reach it.                   *)
THEOREM NoServerIsOrphaned == Spec => []NoOrphanServer
<1>1. IndInv => NoOrphanServer
  BY DEF IndInv
<1>2. QED
  BY <1>1, Invariance, PTL

-----------------------------------------------------------------------------
(* The server settles where the configuration says.                        *)

Fits(s, p) == s # None => bound[s] \in Candidates[p]

(* While calls do not overlap, the call in progress is the only one, and   *)
(* its place says what the slot holds.                                     *)
Place(c) ==
    /\ pc[c] = "install" => prev[c] = config
    /\ pc[c] \in {"install", "check"} => Fits(slot, config)
    /\ pc[c] = "sync" => want[c] = config /\ Fits(slot, prev[c])
    /\ pc[c] \in {"signal", "wait", "stopped", "bind", "mark", "publish"} => slot = None
    /\ pc[c] \in {"bind", "mark", "publish"} => want[c] = config
    /\ pc[c] \in {"mark", "publish"} => Fits(held[c], config)

Alone(c) == \A d \in Callers \ {c} : pc[d] = "idle"

SettledInv ==
    ~overlapped =>
        /\ \A c, d \in Callers : busy(c) /\ busy(d) => c = d
        /\ quiet => Fits(slot, config)
        /\ \A c \in Callers : Place(c)

HistoryInv == IndInv /\ SettledInv

(* The step of a call that is the only one leaves a good state behind.     *)
LEMMA SoloStep ==
    ASSUME HistoryInv, ~overlapped, TypeOK', NEW c \in Callers, NEW l, pc' = [pc EXCEPT ![c] = l],
           Alone(c) => Place(c)' /\ (l = "idle" => Fits(slot, config)'),
           \A d, e \in Callers : busy(d)' /\ busy(e)' => d = e,
           busy(c) \/ l # "idle"
    PROVE  SettledInv'
<1>1. pc \in [Callers -> {"idle", "install", "sync", "check", "bind", "mark",
                          "publish", "take", "signal", "wait", "stopped"}]
  BY DEF HistoryInv, IndInv, TypeOK
<1>2. pc'[c] = l /\ \A d \in Callers \ {c} : pc'[d] = pc[d]
  BY <1>1
<1>3. Alone(c)
  <2>1. CASE busy(c)
    BY <2>1 DEF HistoryInv, SettledInv, Alone, busy
  <2>2. CASE l # "idle"
    BY <1>2, <2>2 DEF Alone, busy
  <2>3. QED
    BY <2>1, <2>2
<1>4. \A d \in Callers \ {c} : Place(d)'
  BY <1>2, <1>3 DEF Alone, Place
<1>5. quiet' => Fits(slot, config)'
  BY <1>2, <1>3 DEF quiet
<1>6. QED
  BY <1>3, <1>4, <1>5 DEF SettledInv

\* Every step keeps it: a call that is alone carries the configuration to the server.
LEMMA SettledStep ==
    ASSUME HistoryInv, HistoryNext
    PROVE  SettledInv'
<1>. SUFFICES ASSUME ~overlapped' PROVE SettledInv'
  BY DEF SettledInv
<1>0. /\ ~overlapped /\ TypeOK /\ TypeOK' /\ Next /\ IndInv
      /\ \A d, e \in Callers : busy(d)' /\ busy(e)' => d = e
  BY TypeStep DEF HistoryNext, HistoryInv, IndInv
<1>p. ASSUME NEW c \in Callers PROVE Place(c) /\ (pc[c] = "idle" /\ Alone(c) => Fits(slot, config))
  BY <1>0 DEF HistoryInv, SettledInv, quiet, Alone
<1> USE DEF goto, return, call, callerVars, serverVars
<1>1. ASSUME NEW c \in Callers, CallStart(c) PROVE SettledInv'
  <2>1. pc[c] = "idle" /\ pc' = [pc EXCEPT ![c] = "check"] /\ UNCHANGED <<config, slot, bound>> /\ pc'[c] = "check"
    BY <1>0, <1>1 DEF CallStart, TypeOK
  <2>2. Alone(c) => Place(c)'
    BY <1>p, <2>1 DEF Place, Fits
  <2>3. QED
    BY <1>0, <2>1, <2>2, SoloStep
<1>2. ASSUME NEW c \in Callers, CallStop(c) PROVE SettledInv'
  <2>1. pc' = [pc EXCEPT ![c] = "take"] /\ pc'[c] = "take"
    BY <1>0, <1>2 DEF CallStop, TypeOK
  <2>2. Place(c)'
    BY <2>1 DEF Place
  <2>3. QED
    BY <1>0, <2>1, <2>2, SoloStep
<1>3. ASSUME NEW c \in Callers, CallSave(c) PROVE SettledInv'
  <2>1. /\ pc[c] = "idle" /\ pc' = [pc EXCEPT ![c] = "install"] /\ UNCHANGED <<config, slot, bound>>
        /\ pc'[c] = "install" /\ prev'[c] = config
    BY <1>0, <1>3 DEF CallSave, TypeOK
  <2>2. Alone(c) => Place(c)'
    BY <1>p, <2>1 DEF Place, Fits
  <2>3. QED
    BY <1>0, <2>1, <2>2, SoloStep
<1>4. ASSUME NEW c \in Callers, InstallConfig(c) PROVE SettledInv'
  <2>1. /\ pc[c] = "install" /\ pc' = [pc EXCEPT ![c] = "sync"] /\ UNCHANGED <<slot, bound, want, prev>>
        /\ pc'[c] = "sync" /\ config' = want[c]
    BY <1>0, <1>4 DEF InstallConfig, TypeOK
  <2>2. Place(c)'
    BY <1>p, <2>1 DEF Place, Fits
  <2>3. QED
    BY <1>0, <2>1, <2>2, SoloStep
<1>5. ASSUME NEW c \in Callers, SyncRuntimeConfig(c) PROVE SettledInv'
  <2>1. pc[c] = "sync" /\ UNCHANGED <<config, slot, bound, want, prev>> /\ busy(c)
    BY <1>5 DEF SyncRuntimeConfig, busy
  <2>2. CASE pc' = [pc EXCEPT ![c] = "take"]
    <3>1. Place(c)'
      BY <1>0, <2>2 DEF Place, TypeOK
    <3>2. QED
      BY <1>0, <2>1, <2>2, <3>1, SoloStep
  <2>3. CASE pc' = [pc EXCEPT ![c] = "idle"] /\ (slot = None \/ prev[c] = want[c])
    (* No restart: nothing runs, or the address did not change.            *)
    <3>1. Place(c)'
      BY <1>0, <2>3 DEF Place, TypeOK
    <3>2. Fits(slot, config)'
      BY <1>p, <2>1, <2>3 DEF Place, Fits
    <3>3. QED
      BY <1>0, <2>1, <2>3, <3>1, <3>2, SoloStep
  <2>4. QED
    BY <1>5, <2>2, <2>3 DEF SyncRuntimeConfig
<1>6. ASSUME NEW c \in Callers, CheckRunning(c) PROVE SettledInv'
  <2>1. pc[c] = "check" /\ UNCHANGED <<config, slot, bound>> /\ busy(c) /\ Fits(slot, config)
    BY <1>p, <1>6 DEF CheckRunning, Place, busy
  <2>2. CASE pc' = [pc EXCEPT ![c] = "idle"]
    <3>1. Place(c)' /\ Fits(slot, config)'
      BY <1>0, <2>1, <2>2 DEF Place, Fits, TypeOK
    <3>2. QED
      BY <1>0, <2>1, <2>2, <3>1, SoloStep
  <2>3. CASE slot = None /\ want' = [want EXCEPT ![c] = config] /\ pc' = [pc EXCEPT ![c] = "bind"]
    <3>1. Place(c)'
      BY <1>0, <2>1, <2>3 DEF Place, TypeOK
    <3>2. QED
      BY <1>0, <2>1, <2>3, <3>1, SoloStep
  <2>4. QED
    BY <1>6, <2>2, <2>3 DEF CheckRunning
<1>7. ASSUME NEW c \in Callers, Bind(c) PROVE SettledInv'
  <2>1. PICK a \in Candidates[want[c]], s \in Servers :
           bound' = [bound EXCEPT ![s] = a] /\ held' = [held EXCEPT ![c] = s]
    BY <1>7 DEF Bind
  <2>2. /\ pc[c] = "bind" /\ busy(c) /\ pc' = [pc EXCEPT ![c] = "mark"] /\ pc'[c] = "mark"
        /\ UNCHANGED <<config, slot, want>>
    BY <1>0, <1>7 DEF Bind, busy, TypeOK
  <2>3. held'[c] = s /\ bound'[s] = a
    BY <1>0, <2>1 DEF TypeOK
  <2>4. Place(c)'
    BY <1>p, <2>2, <2>3 DEF Place, Fits
  <2>5. QED
    BY <1>0, <2>2, <2>4, SoloStep
<1>8. ASSUME NEW c \in Callers, BindFails(c) \/ Disconnect(c) PROVE SettledInv'
  <2>1. pc[c] \in {"bind", "wait"} /\ busy(c) /\ pc' = [pc EXCEPT ![c] = "idle"] /\ slot' = slot
    BY <1>8 DEF BindFails, Disconnect, busy
  <2>2. Place(c)' /\ Fits(slot, config)'
    BY <1>0, <1>p, <2>1 DEF Place, Fits, TypeOK
  <2>3. QED
    BY <1>0, <2>1, <2>2, SoloStep
<1>9. ASSUME NEW c \in Callers, SpawnServer(c) PROVE SettledInv'
  <2>1. /\ pc[c] = "mark" /\ busy(c) /\ pc' = [pc EXCEPT ![c] = "publish"] /\ pc'[c] = "publish"
        /\ UNCHANGED <<config, slot, want, held, bound>>
    BY <1>0, <1>9 DEF SpawnServer, busy, TypeOK
  <2>2. Place(c)'
    BY <1>p, <2>1 DEF Place, Fits
  <2>3. QED
    BY <1>0, <2>1, <2>2, SoloStep
<1>10. ASSUME NEW c \in Callers, PublishServer(c) PROVE SettledInv'
  <2>1. /\ pc[c] = "publish" /\ busy(c) /\ pc' = [pc EXCEPT ![c] = "idle"]
        /\ UNCHANGED <<config, bound>> /\ slot' = held[c]
    BY <1>10 DEF PublishServer, busy
  <2>2. Place(c)' /\ Fits(slot, config)'
    BY <1>0, <1>p, <2>1 DEF Place, Fits, TypeOK
  <2>3. QED
    BY <1>0, <2>1, <2>2, SoloStep
<1>11. ASSUME NEW c \in Callers, TakeServer(c) PROVE SettledInv'
  <2>1. PICK l \in {"stopped", "signal"} : pc' = [pc EXCEPT ![c] = l]
    BY <1>11 DEF TakeServer
  <2>2. slot' = None /\ busy(c) /\ pc'[c] = l
    BY <1>0, <1>11, <2>1 DEF TakeServer, busy, TypeOK
  <2>3. Place(c)'
    BY <2>2 DEF Place
  <2>4. QED
    BY <1>0, <2>1, <2>2, <2>3, SoloStep
<1>12. ASSUME NEW c \in Callers, AwaitShutdown(c) PROVE SettledInv'
  <2>1. pc[c] = "wait" /\ busy(c) /\ pc' = [pc EXCEPT ![c] = "stopped"] /\ slot' = slot /\ pc'[c] = "stopped"
    BY <1>0, <1>12 DEF AwaitShutdown, busy, TypeOK
  <2>2. Place(c)'
    BY <1>p, <2>1 DEF Place
  <2>3. QED
    BY <1>0, <2>1, <2>2, SoloStep
<1>13. ASSUME NEW c \in Callers, MarkStopped(c) PROVE SettledInv'
  <2>1. PICK l \in {"check", "idle"} : pc' = [pc EXCEPT ![c] = l]
    BY <1>13 DEF MarkStopped
  <2>2. pc[c] = "stopped" /\ busy(c) /\ slot' = slot /\ pc'[c] = l
    BY <1>0, <1>13, <2>1 DEF MarkStopped, busy, TypeOK
  <2>3. Place(c)' /\ Fits(slot, config)'
    BY <1>p, <2>2 DEF Place, Fits
  <2>4. QED
    BY <1>0, <2>1, <2>2, <2>3, SoloStep
<1>16. ASSUME NEW c \in Callers, SignalServer(c) PROVE SettledInv'
  <2>1. pc[c] = "signal" /\ busy(c) /\ pc' = [pc EXCEPT ![c] = "wait"] /\ slot' = slot /\ pc'[c] = "wait"
    BY <1>0, <1>16 DEF SignalServer, busy, TypeOK
  <2>2. Place(c)'
    BY <1>p, <2>1 DEF Place
  <2>3. QED
    BY <1>0, <2>1, <2>2, SoloStep
<1>14. ASSUME NEW s \in Servers, ServerStep(s) PROVE SettledInv'
  <2>1. UNCHANGED <<config, slot, bound, pc, held, want, prev>>
    BY <1>14 DEF ServerStep, StopListening, Drained
  <2>2. QED
    BY <1>0, <2>1 DEF HistoryInv, SettledInv, Place, Fits, quiet, busy
<1>15. QED
  BY <1>0, <1>1, <1>2, <1>3, <1>4, <1>5, <1>6, <1>7, <1>8, <1>9, <1>10, <1>11, <1>12, <1>13, <1>14, <1>16
     DEF Next, CallerStep

(* If calls never overlapped, a server that runs between calls listens     *)
(* where the configuration says, though handlers were dropped, binding     *)
(* failed and shutdowns timed out on the way (sync_runtime_config).        *)
THEOREM ServerRunsAsConfigured == HistorySpec => []RunningAsConfigured
<1>1. HistoryInit => HistoryInv
  <2>. SUFFICES ASSUME HistoryInit PROVE HistoryInv
    OBVIOUS
  <2>1. IndInv
    BY InitIsGood DEF HistoryInit
  <2>2. slot = None /\ \A c \in Callers : pc[c] = "idle"
    BY DEF HistoryInit, Init
  <2>3. SettledInv
    BY <2>2 DEF SettledInv, Place, Fits, busy
  <2>4. QED
    BY <2>1, <2>3 DEF HistoryInv
<1>2. HistoryInv /\ [HistoryNext]_<<vars, overlapped>> => HistoryInv'
  <2>. SUFFICES ASSUME HistoryInv, [HistoryNext]_<<vars, overlapped>> PROVE HistoryInv'
    OBVIOUS
  <2>1. IndInv'
    BY NextPreserves DEF HistoryInv, HistoryNext
  <2>2. CASE HistoryNext
    BY <2>1, <2>2, SettledStep DEF HistoryInv
  <2>3. CASE UNCHANGED <<vars, overlapped>>
    BY <2>1, <2>3 DEF HistoryInv, SettledInv, Place, Fits, quiet, busy, vars
  <2>4. QED
    BY <2>2, <2>3
<1>3. HistoryInv => RunningAsConfigured
  BY DEF HistoryInv, SettledInv, RunningAsConfigured, Fits
<1>4. QED
  BY <1>1, <1>2, <1>3, PTL DEF HistorySpec
=============================================================================
