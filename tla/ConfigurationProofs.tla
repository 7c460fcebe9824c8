------------------------ MODULE ConfigurationProofs -------------------------
(***************************************************************************)
(* The configuration and the route index built from it, for any number of  *)
(* threads, saves and configurations.                                      *)
(*                                                                         *)
(* ConfigStore: whatever saves, imports, failures and crashes interleave,  *)
(* only validated configurations are in use or on disk, a start keeps the  *)
(* groups, and the three stores agree after a save that ran alone.         *)
(*                                                                         *)
(* RouteIndex: the lazy refresh is never skipped while the index is out of *)
(* date, and a request is routed by a table older than its arrival only    *)
(* when another refresh overtook its own.                                  *)
(***************************************************************************)
EXTENDS ConfigStore, RouteIndex, TLAPS

-----------------------------------------------------------------------------
(* The configuration store.                                                *)

USE ConfigAssumption

(* Every step preserves the types.                                         *)
LEMMA TypeStep == TypeOK /\ [Next]_vars => TypeOK'
<1> SUFFICES ASSUME TypeOK, [Next]_vars PROVE TypeOK'
  OBVIOUS
<1> USE DEF TypeOK, goto, Threads, Config, Default
<1>1. ASSUME NEW w \in Writers, BeginSave(w) \/ BeginImport(w) PROVE TypeOK'
  <2>1. PICK k \in {"save", "import"}, c \in Config : start(w, k, c)
    BY <1>1 DEF BeginSave, BeginImport
  <2>2. normalized(c) \in Config
    BY DEF normalized
  <2>3. next' \in [Threads -> Config] /\ op' \in [Threads -> {"save", "import"}]
    BY <2>1, <2>2 DEF start
  <2>4. solo' \in [Threads -> BOOLEAN]
    BY <2>1 DEF start
  <2>5. QED
    BY <2>1, <2>3, <2>4 DEF start
<1>2. ASSUME NEW t \in Threads, Validate(t) PROVE TypeOK'
  BY <1>2 DEF Validate
<1>3. ASSUME NEW t \in Threads, SaveConfigToDb(t) PROVE TypeOK'
  BY <1>3 DEF SaveConfigToDb
<1>4. ASSUME NEW t \in Threads, TruncateFile(t) PROVE TypeOK'
  BY <1>4 DEF TruncateFile
<1>5. ASSUME NEW t \in Threads, FillFile(t) PROVE TypeOK'
  BY <1>5 DEF FillFile
<1>6. ASSUME NEW t \in Threads, SetInMemory(t) PROVE TypeOK'
  <2>1. clean' \in BOOLEAN
    BY <1>6, Zenon DEF SetInMemory
  <2>2. QED
    BY <1>6, <2>1 DEF SetInMemory
<1>7. ASSUME NEW t \in Threads, FailStep(t) PROVE TypeOK'
  <2>1. clean' \in BOOLEAN
    BY <1>7, Zenon DEF FailStep
  <2>2. QED
    BY <1>7, <2>1 DEF FailStep
<1>8. ASSUME Initialize PROVE TypeOK'
  BY <1>8 DEF Initialize
<1>9. ASSUME Crash PROVE TypeOK'
  <2>1. clean' \in BOOLEAN
    BY <1>9, Zenon DEF Crash
  <2>2. QED
    BY <1>9, <2>1 DEF Crash
<1>10. CASE UNCHANGED vars
  BY <1>10 DEF vars
<1>11. QED
  BY <1>1, <1>2, <1>3, <1>4, <1>5, <1>6, <1>7, <1>8, <1>9, <1>10
     DEF Next, SaveSteps

(* Every step preserves the inductive invariant.                           *)
LEMMA NextPreserves == IndInv /\ [Next]_vars => IndInv'
<1> SUFFICES ASSUME IndInv, [Next]_vars PROVE IndInv'
  OBVIOUS
<1>0. TypeOK /\ TypeOK'
  BY TypeStep DEF IndInv
<1> SUFFICES OnlyValidatedData' /\ WritesAreValid' /\ BootRunsAlone'
  BY <1>0 DEF IndInv
<1> USE <1>0 DEF IndInv, TypeOK, OnlyValidatedData, WritesAreValid,
        BootRunsAlone, goto, valid, Threads, Config
<1>1. ASSUME NEW w \in Writers, BeginSave(w) \/ BeginImport(w)
      PROVE  OnlyValidatedData' /\ WritesAreValid' /\ BootRunsAlone'
  <2>1. PICK k \in {"save", "import"}, c \in Config : start(w, k, c)
    BY <1>1 DEF BeginSave, BeginImport
  <2>2. \A t \in Threads : /\ pc'[t] = (IF t = w THEN "validate" ELSE pc[t])
                           /\ t # w => next'[t] = next[t]
    BY <2>1 DEF start
  <2>3. QED
    BY <2>1, <2>2 DEF start
<1>2. ASSUME NEW t \in Threads, Validate(t)
      PROVE  OnlyValidatedData' /\ WritesAreValid' /\ BootRunsAlone'
  <2>1. /\ pc[t] = "validate"
        /\ UNCHANGED <<db, file, mem, status, next>>
        /\ \A u \in Threads : u # t => pc'[u] = pc[u]
        /\ pc'[t] = "idle" \/ (pc'[t] = "db" /\ valid(next[t]))
    BY <1>2 DEF Validate
  <2>2. t # Boot => status = "up"
    BY <2>1
  <2>3. t # Boot
    BY <2>1
  <2>4. QED
    BY <2>1, <2>2, <2>3
<1>3. ASSUME NEW t \in Threads, SaveConfigToDb(t)
      PROVE  OnlyValidatedData' /\ WritesAreValid' /\ BootRunsAlone'
  BY <1>3 DEF SaveConfigToDb
<1>4. ASSUME NEW t \in Threads, TruncateFile(t)
      PROVE  OnlyValidatedData' /\ WritesAreValid' /\ BootRunsAlone'
  BY <1>4 DEF TruncateFile
<1>5. ASSUME NEW t \in Threads, FillFile(t)
      PROVE  OnlyValidatedData' /\ WritesAreValid' /\ BootRunsAlone'
  BY <1>5 DEF FillFile
<1>6. ASSUME NEW t \in Threads, SetInMemory(t)
      PROVE  OnlyValidatedData' /\ WritesAreValid' /\ BootRunsAlone'
  BY <1>6 DEF SetInMemory
<1>7. ASSUME NEW t \in Threads, FailStep(t)
      PROVE  OnlyValidatedData' /\ WritesAreValid' /\ BootRunsAlone'
  BY <1>7 DEF FailStep
<1>8. ASSUME Initialize
      PROVE  OnlyValidatedData' /\ WritesAreValid' /\ BootRunsAlone'
  BY <1>8 DEF Initialize, Default
<1>9. ASSUME Crash
      PROVE  OnlyValidatedData' /\ WritesAreValid' /\ BootRunsAlone'
  BY <1>9 DEF Crash, Default
<1>10. CASE UNCHANGED vars
  BY <1>10 DEF vars
<1>11. QED
  BY <1>1, <1>2, <1>3, <1>4, <1>5, <1>6, <1>7, <1>8, <1>9, <1>10
     DEF Next, SaveSteps

(* A fresh installation satisfies the inductive invariant.                 *)
LEMMA InitIsGood == Init => IndInv
<1> SUFFICES ASSUME Init PROVE IndInv
  OBVIOUS
<1>1. clean \in BOOLEAN
  BY Zenon DEF Init
<1>2. TypeOK
  BY <1>1 DEF Init, TypeOK, Threads, Config, Default
<1>3. QED
  BY <1>2 DEF Init, IndInv, OnlyValidatedData, WritesAreValid,
     BootRunsAlone, valid, Default, Threads

(* The inductive invariant holds in every reachable state.                 *)
THEOREM Invariance == Spec => []IndInv
BY InitIsGood, NextPreserves, PTL DEF Spec

(* Every configuration in use, and every half on disk that a start reads,  *)
(* has passed validate_config, through any interleaving, failure or crash. *)
THEOREM DataIsValidated == Spec => []OnlyValidatedData
<1>1. IndInv => OnlyValidatedData
  BY DEF IndInv
<1>2. QED
  BY <1>1, Invariance, PTL

(* Once config.json exists, no start rewrites the database of groups and   *)
(* providers.                                                              *)
THEOREM StartKeepsGroups == Spec => BootKeepsGroups
<1>1. IndInv /\ [Next]_vars => [status # "up" /\ file # Missing => db' = db]_vars
  <2> SUFFICES ASSUME IndInv, Next, status # "up", file # Missing
               PROVE  db' = db
    BY DEF vars
  <2> USE DEF IndInv, TypeOK, BootRunsAlone, Threads
  <2>1. ASSUME NEW w \in Writers, BeginSave(w) \/ BeginImport(w)
        PROVE  db' = db
    BY <2>1 DEF BeginSave, BeginImport, start
  <2>2. ASSUME NEW t \in Threads, SaveSteps(t) PROVE db' = db
    BY <2>2 DEF SaveSteps, Validate, SaveConfigToDb, TruncateFile, FillFile,
       SetInMemory, FailStep
  <2>3. QED
    BY <2>1, <2>2 DEF Next, Initialize, Crash
<1>2. QED
  BY <1>1, Invariance, PTL DEF Spec, BootKeepsGroups

-----------------------------------------------------------------------------
(* A thread that has written to the disk, or is about to write the file.   *)
Writing(t) == pc[t] \in {"truncate", "fill", "install"}

(* While no other save has overlapped a save, nobody else is at work and   *)
(* the disk holds what the save has written so far.                        *)
SoloOwnsStores ==
    \A t \in Threads : solo[t] =>
        /\ pc[t] # "idle" => \A u \in Threads \ {t} : pc[u] = "idle"
        /\ Writing(t) => db = next[t].grp
        /\ pc[t] = "fill" => file = Empty
        /\ pc[t] = "install" => file = next[t].set

(* After a complete solo save the stores agree until somebody writes.      *)
CleanUntilWritten ==
    clean /\ (\A t \in Threads : ~Writing(t)) => mem = [set |-> file, grp |-> db]

AgreeInv == IndInv /\ SoloOwnsStores /\ CleanUntilWritten

(* Every step preserves the ownership of the stores by a solo save.        *)
LEMMA SoloStep == IndInv /\ SoloOwnsStores /\ [Next]_vars => SoloOwnsStores'
<1> SUFFICES ASSUME IndInv, SoloOwnsStores, [Next]_vars PROVE SoloOwnsStores'
  OBVIOUS
<1>t. /\ pc \in [Threads -> {"idle", "validate", "db", "truncate", "fill", "install"}]
      /\ next \in [Threads -> Config] /\ solo \in [Threads -> BOOLEAN]
  BY DEF IndInv, TypeOK
<1> USE <1>t DEF SoloOwnsStores, Writing, goto
<1>1. ASSUME NEW w \in Writers, BeginSave(w) \/ BeginImport(w) PROVE SoloOwnsStores'
  <2>1. PICK k, c : start(w, k, c)
    BY <1>1 DEF BeginSave, BeginImport
  <2>2. \A t \in Threads : solo'[t] => t = w /\ quiet
    BY <2>1 DEF start
  <2>3. /\ w \in Threads /\ pc'[w] = "validate"
        /\ \A t \in Threads \ {w} : pc'[t] = pc[t]
    BY <2>1 DEF start, Threads
  <2>4. QED
    BY <2>2, <2>3 DEF quiet
<1>2. ASSUME NEW t \in Threads, Validate(t) PROVE SoloOwnsStores'
  BY <1>2 DEF Validate
<1>3. ASSUME NEW t \in Threads, SaveConfigToDb(t) PROVE SoloOwnsStores'
  BY <1>3 DEF SaveConfigToDb
<1>4. ASSUME NEW t \in Threads, TruncateFile(t) PROVE SoloOwnsStores'
  BY <1>4 DEF TruncateFile
<1>5. ASSUME NEW t \in Threads, FillFile(t) PROVE SoloOwnsStores'
  BY <1>5 DEF FillFile
<1>6. ASSUME NEW t \in Threads, SetInMemory(t) PROVE SoloOwnsStores'
  BY <1>6 DEF SetInMemory
<1>7. ASSUME NEW t \in Threads, FailStep(t) PROVE SoloOwnsStores'
  BY <1>7 DEF FailStep
<1>8. ASSUME Initialize PROVE SoloOwnsStores'
  <2>1. /\ \A t \in Threads : solo'[t] => t = Boot
        /\ \A w \in Writers : pc[w] = "idle"
        /\ pc'[Boot] \in {"truncate", "db"} /\ UNCHANGED db
        /\ \A t \in Threads \ {Boot} : pc'[t] = pc[t]
    BY <1>8 DEF Initialize, IndInv, BootRunsAlone, Threads
  <2>2. pc'[Boot] = "truncate" => next'[Boot].grp = db
    BY <1>8 DEF Initialize, Threads
  <2>3. QED
    BY <2>1, <2>2 DEF Threads
<1>9. ASSUME Crash PROVE SoloOwnsStores'
  BY <1>9 DEF Crash
<1>10. CASE UNCHANGED vars
  BY <1>10 DEF vars
<1>11. QED
  BY <1>1, <1>2, <1>3, <1>4, <1>5, <1>6, <1>7, <1>8, <1>9, <1>10
     DEF Next, SaveSteps

(* Every step preserves the agreement of the stores: the save that ends it *)
(* was solo and owned them, or leaves them marked as unclean.              *)
LEMMA CleanStep == AgreeInv /\ [Next]_vars => CleanUntilWritten'
<1> SUFFICES ASSUME AgreeInv, [Next]_vars PROVE CleanUntilWritten'
  OBVIOUS
<1>t. /\ pc \in [Threads -> {"idle", "validate", "db", "truncate", "fill", "install"}]
      /\ next \in [Threads -> Config]
  BY DEF AgreeInv, IndInv, TypeOK
<1>n. (* The stores are unchanged and nobody who was writing stops.        *)
      ASSUME UNCHANGED <<clean, mem, file, db>>,
             \A t \in Threads : Writing(t) => Writing(t)'
      PROVE  CleanUntilWritten'
  BY <1>n DEF AgreeInv, CleanUntilWritten
<1>w. (* Somebody is writing.                                              *)
      ASSUME NEW t \in Threads, Writing(t)' PROVE CleanUntilWritten'
  BY <1>w DEF CleanUntilWritten
<1>1. ASSUME NEW w \in Writers, BeginSave(w) \/ BeginImport(w) PROVE CleanUntilWritten'
  <2>1. PICK k, c : start(w, k, c)
    BY <1>1 DEF BeginSave, BeginImport
  <2>2. QED
    BY <1>t, <1>n, <2>1 DEF start, Writing, goto, Threads
<1>2. ASSUME NEW t \in Threads, Validate(t) PROVE CleanUntilWritten'
  BY <1>2, <1>t, <1>n DEF Validate, Writing, goto
<1>3. ASSUME NEW t \in Threads, SaveConfigToDb(t) PROVE CleanUntilWritten'
  BY <1>3, <1>t, <1>w DEF SaveConfigToDb, Writing, goto
<1>4. ASSUME NEW t \in Threads, TruncateFile(t) PROVE CleanUntilWritten'
  BY <1>4, <1>t, <1>w DEF TruncateFile, Writing, goto
<1>5. ASSUME NEW t \in Threads, FillFile(t) PROVE CleanUntilWritten'
  BY <1>5, <1>t, <1>w DEF FillFile, Writing, goto
<1>6. ASSUME NEW t \in Threads, SetInMemory(t) PROVE CleanUntilWritten'
  <2>1. clean' = solo[t] /\ mem' = next[t] /\ UNCHANGED <<db, file>> /\ pc[t] = "install"
    BY <1>6 DEF SetInMemory
  <2>2. solo[t] => db = next[t].grp /\ file = next[t].set
    BY <2>1 DEF AgreeInv, SoloOwnsStores, Writing
  <2>3. next[t] = [set |-> next[t].set, grp |-> next[t].grp]
    BY <1>t DEF Config
  <2>4. QED
    BY <2>1, <2>2, <2>3 DEF CleanUntilWritten
<1>7. ASSUME NEW t \in Threads, FailStep(t) PROVE CleanUntilWritten'
  BY <1>7 DEF FailStep, CleanUntilWritten
<1>8. ASSUME Initialize PROVE CleanUntilWritten'
  <2>1. \A t \in Threads : ~Writing(t)
    BY <1>8 DEF Initialize, AgreeInv, IndInv, BootRunsAlone, Writing, Threads
  <2>2. QED
    BY <1>8, <1>n, <2>1 DEF Initialize
<1>9. ASSUME Crash PROVE CleanUntilWritten'
  BY <1>9 DEF Crash, CleanUntilWritten
<1>10. CASE UNCHANGED vars
  BY <1>10, <1>n DEF vars, Writing
<1>11. QED
  BY <1>1, <1>2, <1>3, <1>4, <1>5, <1>6, <1>7, <1>8, <1>9, <1>10
     DEF Next, SaveSteps

(* After a save or a start that no other save overlapped and that did not  *)
(* fail, memory, config.json and the database hold one configuration,      *)
(* whatever earlier saves, failures and crashes left behind.               *)
THEOREM StoresAgree == Spec => []StoresAgreeAfterSoloSave
<1>1. Init => AgreeInv
  <2>1. Init => IndInv
    BY InitIsGood
  <2>2. Init => SoloOwnsStores
    BY DEF Init, SoloOwnsStores, Writing
  <2>3. Init => CleanUntilWritten
    BY DEF Init, CleanUntilWritten
  <2>4. QED
    BY <2>1, <2>2, <2>3 DEF AgreeInv
<1>2. AgreeInv /\ [Next]_vars => AgreeInv'
  BY NextPreserves, SoloStep, CleanStep DEF AgreeInv
<1>3. AgreeInv => StoresAgreeAfterSoloSave
  BY DEF AgreeInv, CleanUntilWritten, StoresAgreeAfterSoloSave, quiet, Writing
<1>4. QED
  BY <1>1, <1>2, <1>3, PTL DEF Spec

-----------------------------------------------------------------------------
(* The route index.                                                        *)

USE BodiesAssumption, BoundAssumption, NoneAssumption

(* build_route_index gives an index of the configuration's version.        *)
LEMMA BuildRouteIndexType ==
    ASSUME NEW c \in [ver : 0..MaxVersion, body : Bodies]
    PROVE  /\ BuildRouteIndex(c) \in Index
           /\ BuildRouteIndex(c).ver = c.ver
BY DEF BuildRouteIndex, Index

(* The initial state, built by ProxyRuntime::new, satisfies the invariant. *)
LEMMA RouteInitEstablishes == RouteInit => RouteInv
<1> SUFFICES ASSUME RouteInit PROVE RouteInv
  OBVIOUS
<1>1. config \in [ver : 0..MaxVersion, body : Bodies]
  BY DEF RouteInit
<1>2. routeIndex \in Index /\ routeIndex.ver = 0
  BY <1>1, BuildRouteIndexType DEF RouteInit
<1>3. RouteTypeOK
  BY <1>1, <1>2 DEF RouteInit, RouteTypeOK, NoRoute, Table, Statuses
<1>4. QED
  BY <1>1, <1>2, <1>3 DEF RouteInit, RouteInv, RevisionTracksConfig,
     SnapshotsAreGenuine, SnapshotOf, ObservedBeforeBuilt,
     IndexLockHeldByRecorder, RecordedAtMostIndexed, ArrivedBeforeObserved,
     BehindOnlyIfOvertaken, StaleOnlyIfOvertaken

(* Every step of a saver or of a request preserves the types.              *)
LEMMA RouteTypeStep == RouteTypeOK /\ RevisionTracksConfig /\ [RouteNext]_routeVars => RouteTypeOK'
<1> SUFFICES ASSUME RouteTypeOK, RevisionTracksConfig, [RouteNext]_routeVars PROVE RouteTypeOK'
  OBVIOUS
<1> USE DEF RouteTypeOK, routeGoto, answer, sharedConfig, sharedIndex
<1>1. ASSUME NEW s \in Savers, NEW b \in Bodies, InstallConfig(s, b)
      PROVE  RouteTypeOK'
  BY <1>1 DEF InstallConfig
<1>2. ASSUME NEW s \in Savers, BumpRevision(s) PROVE RouteTypeOK'
  BY <1>2 DEF BumpRevision, RevisionTracksConfig
<1>3. ASSUME NEW r \in Requests, Arrive(r) PROVE RouteTypeOK'
  BY <1>3 DEF Arrive, NoRoute, Table, Statuses
<1>4. ASSUME NEW r \in Requests, LoadRevision(r) PROVE RouteTypeOK'
  BY <1>4 DEF LoadRevision
<1>5. ASSUME NEW r \in Requests, CompareRevisions(r) PROVE RouteTypeOK'
  BY <1>5 DEF CompareRevisions
<1>6. ASSUME NEW r \in Requests, BuildIndex(r) PROVE RouteTypeOK'
  BY <1>6, BuildRouteIndexType DEF BuildIndex
<1>7. ASSUME NEW r \in Requests, WriteIndex(r) PROVE RouteTypeOK'
  BY <1>7 DEF WriteIndex
<1>8. ASSUME NEW r \in Requests, RecordRevision(r) PROVE RouteTypeOK'
  BY <1>8 DEF RecordRevision
<1>9. ASSUME NEW r \in Requests, ReadSettings(r) PROVE RouteTypeOK'
  BY <1>9 DEF ReadSettings, Statuses
<1>10. ASSUME NEW r \in Requests, ReadIndex(r) PROVE RouteTypeOK'
  <2>1. routeIndex.tables[group[r]] \in Table
    BY DEF Index
  <2>2. outcome' \in [Requests -> Statuses]
    BY <1>10, <2>1 DEF ReadIndex, Table, Statuses
  <2>3. route' \in [Requests -> [ver : 0..MaxVersion, table : Table]]
    BY <1>10, <2>1 DEF ReadIndex, Index
  <2>4. QED
    BY <1>10, <2>2, <2>3 DEF ReadIndex
<1>11. ASSUME NEW r \in Requests, ReadBody(r) PROVE RouteTypeOK'
  BY <1>11 DEF ReadBody, Statuses
<1>12. ASSUME NEW r \in Requests, ResolveProvider(r) PROVE RouteTypeOK'
  BY <1>12 DEF ResolveProvider, Statuses
<1>13. CASE UNCHANGED routeVars
  BY <1>13 DEF routeVars
<1>14. QED
  BY <1>1, <1>2, <1>3, <1>4, <1>5, <1>6, <1>7, <1>8, <1>9, <1>10, <1>11,
     <1>12, <1>13 DEF RouteNext, SaveStep, RefreshStep, RouteStep

(* Every step preserves the inductive invariant.                           *)
LEMMA RouteNextPreserves == RouteInv /\ [RouteNext]_routeVars => RouteInv'
<1> SUFFICES ASSUME RouteInv, [RouteNext]_routeVars PROVE RouteInv'
  OBVIOUS
<1>0. RouteTypeOK /\ RouteTypeOK'
  BY RouteTypeStep DEF RouteInv
<1>a. SUFFICES (/\ RevisionTracksConfig
                /\ SnapshotsAreGenuine
                /\ ObservedBeforeBuilt
                /\ IndexLockHeldByRecorder
                /\ RecordedAtMostIndexed
                /\ ArrivedBeforeObserved
                /\ BehindOnlyIfOvertaken
                /\ StaleOnlyIfOvertaken)'
  BY <1>0 DEF RouteInv
<1> USE <1>0 DEF RouteInv, RouteTypeOK, routeGoto, answer, sharedConfig, sharedIndex,
    RevisionTracksConfig, SnapshotsAreGenuine, SnapshotOf,
    ObservedBeforeBuilt, IndexLockHeldByRecorder, RecordedAtMostIndexed,
    ArrivedBeforeObserved, BehindOnlyIfOvertaken, StaleOnlyIfOvertaken
<1>1. ASSUME NEW s \in Savers, NEW b \in Bodies, InstallConfig(s, b)
      PROVE  RouteInv'
  BY <1>1 DEF InstallConfig, Index
<1>2. ASSUME NEW s \in Savers, BumpRevision(s) PROVE RouteInv'
  BY <1>2 DEF BumpRevision, Index
<1>3. ASSUME NEW r \in Requests, Arrive(r) PROVE RouteInv'
  BY <1>3 DEF Arrive, Index
<1>4. ASSUME NEW r \in Requests, LoadRevision(r) PROVE RouteInv'
  BY <1>4 DEF LoadRevision, Index
<1>5. ASSUME NEW r \in Requests, CompareRevisions(r) PROVE RouteInv'
  BY <1>5 DEF CompareRevisions, Index
<1>6. ASSUME NEW r \in Requests, BuildIndex(r) PROVE RouteInv'
  BY <1>6, BuildRouteIndexType DEF BuildIndex
<1>7. ASSUME NEW r \in Requests, WriteIndex(r) PROVE RouteInv'
  BY <1>7 DEF WriteIndex, Index
<1>8. ASSUME NEW r \in Requests, RecordRevision(r) PROVE RouteInv'
  <2>1. /\ indexLock = r /\ routeIndex = nextIndex[r]
        /\ observed[r] <= nextIndex[r].ver /\ arrived[r] <= observed[r]
    BY <1>8 DEF RecordRevision
  <2>2. RecordedAtMostIndexed' /\ SnapshotsAreGenuine' /\ RevisionTracksConfig'
    BY <1>8, <2>1 DEF RecordRevision
  <2>3. ObservedBeforeBuilt' /\ ArrivedBeforeObserved'
    BY <1>8 DEF RecordRevision
  <2>4. IndexLockHeldByRecorder'
    BY <1>8, <2>1 DEF RecordRevision
  <2>5. BehindOnlyIfOvertaken'
    <3> SUFFICES ASSUME NEW q \in Requests,
                        at'[q] \in {"settings", "lookup"},
                        routeIndex'.ver < arrived'[q]
                 PROVE  overtaken'[q]
      OBVIOUS
    <3>1. /\ routeIndex' = routeIndex /\ arrived' = arrived
          /\ overtaken'[q] = (overtaken[q] \/ observed[r] < arrived[q])
      BY <1>8 DEF RecordRevision
    <3>2. CASE q = r
      BY <2>1, <3>1, <3>2 DEF Index
    <3>3. CASE q # r
      <4>1. at[q] \in {"settings", "lookup"}
        BY <1>8, <3>3 DEF RecordRevision
      <4>2. QED
        BY <2>1, <3>1, <4>1
    <3>4. QED
      BY <3>2, <3>3
  <2>6. StaleOnlyIfOvertaken'
    BY <1>8 DEF RecordRevision
  <2>7. QED
    BY <2>2, <2>3, <2>4, <2>5, <2>6
<1>9. ASSUME NEW r \in Requests, ReadSettings(r) PROVE RouteInv'
  BY <1>9 DEF ReadSettings, Index
<1>10. ASSUME NEW r \in Requests, ReadIndex(r) PROVE RouteInv'
  BY <1>10 DEF ReadIndex, Index
<1>11. ASSUME NEW r \in Requests, ReadBody(r) PROVE RouteInv'
  BY <1>11 DEF ReadBody, Index
<1>12. ASSUME NEW r \in Requests, ResolveProvider(r) PROVE RouteInv'
  BY <1>12 DEF ResolveProvider, Index
<1>13. CASE UNCHANGED routeVars
  BY <1>13 DEF routeVars
<1>14. QED
  BY <1>1, <1>2, <1>3, <1>4, <1>5, <1>6, <1>7, <1>8, <1>9, <1>10, <1>11,
     <1>12, <1>13 DEF RouteNext, SaveStep, RefreshStep, RouteStep

(* The inductive invariant holds in every reachable state.                 *)
THEOREM RouteInvariance == RouteSpec => []RouteInv
BY RouteInitEstablishes, RouteNextPreserves, PTL DEF RouteSpec

(* Every reachable state of the index, its locks and its requests is well  *)
(* typed.                                                                  *)
THEOREM RouteTypeCorrect == RouteSpec => []RouteTypeOK
<1>1. RouteInv => RouteTypeOK
  BY DEF RouteInv
<1>2. QED
  BY RouteInvariance, <1>1, PTL

(* refresh_route_index_if_needed skips the rebuild only when the index is  *)
(* the index of the current configuration.                                 *)
THEOREM RefreshIsHonest == RouteSpec => []UpToDateMeansCurrent
<1>1. RouteInv => UpToDateMeansCurrent
  <2> SUFFICES ASSUME RouteInv, indexRevision = revision, configLock = None,
                      indexLock = None
               PROVE  routeIndex = BuildRouteIndex(config)
    BY DEF UpToDateMeansCurrent
  <2>1. config.ver = revision /\ revision \in Nat /\ routeIndex.ver \in Nat
    BY DEF RouteInv, RevisionTracksConfig, RouteTypeOK, Index
  <2>2. revision <= routeIndex.ver
    BY DEF RouteInv, RecordedAtMostIndexed
  <2>3. routeIndex.ver <= config.ver
    BY DEF RouteInv, SnapshotsAreGenuine, SnapshotOf
  <2>4. routeIndex.ver = config.ver
    BY <2>1, <2>2, <2>3
  <2>5. QED
    BY <2>4 DEF RouteInv, SnapshotsAreGenuine, SnapshotOf
<1>2. QED
  BY RouteInvariance, <1>1, PTL

(* A request is routed by a table older than its arrival only when an      *)
(* older refresh was recorded meanwhile.                                   *)
THEOREM StaleRoutesExplained == RouteSpec => []StaleOnlyIfOvertaken
<1>1. RouteInv => StaleOnlyIfOvertaken
  BY DEF RouteInv
<1>2. QED
  BY RouteInvariance, <1>1, PTL
=============================================================================
