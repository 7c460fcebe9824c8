----------------------------- MODULE RouteIndex -----------------------------
(***************************************************************************)
(* The route index of the proxy: a table group -> route that every request *)
(* reads, rebuilt lazily from the shared configuration.                    *)
(*                                                                         *)
(* A save installs a configuration and bumps `revision` under the write    *)
(* lock of the configuration (ConfigStore::set_in_memory).  Every request  *)
(* first runs refresh_route_index_if_needed: it compares `revision` with   *)
(* the revision recorded for the index, without any lock, and rebuilds the *)
(* index when they differ.  Later in the same request the server settings, *)
(* the index and the provider are read in three separate lock sections, so *)
(* saves and the refreshes of other requests fall between them.            *)
(*                                                                         *)
(* Configurations carry a ghost version, the number of saves before them.  *)
(***************************************************************************)
EXTENDS Naturals

CONSTANTS
    Requests,     \* concurrent executions of handle_proxy_request
    Savers,       \* concurrent callers of ConfigStore::save_config
    Bodies,       \* what a configuration may say: see BodiesAssumption
    Groups,       \* group ids a request path may name
    Providers,    \* provider ids
    MaxVersion,   \* bound on the number of saves
    None          \* nobody holds the lock

(* What the routing path tells apart in a configuration: whether the       *)
(* request's access token is accepted, which providers exist, which are    *)
(* ready (they have a name and an address, which validation does not ask   *)
(* for), and for each group whether it is absent, has an empty table, a    *)
(* table without default entry, or a table whose matching entry names a    *)
(* provider.  (Which entry of the table matches is a pure function of it   *)
(* and of the request.)                                                    *)
Table == {"absent", "no_table", "no_default"} \cup Providers

ASSUME BodiesAssumption ==
    /\ Bodies # {}
    /\ Bodies \subseteq [admits : BOOLEAN, providers : SUBSET Providers,
                         ready : SUBSET Providers, tables : [Groups -> Table]]

ASSUME BoundAssumption == MaxVersion \in Nat

ASSUME NoneAssumption == None \notin Requests \cup Savers

VARIABLES
    config,        \* the shared configuration: ghost version and body
    configLock,    \* the saver inside set_in_memory, or None
    revision,      \* config_revision
    routeIndex,    \* route_index: ghost version of its configuration, tables
    indexLock,     \* the request holding the write lock of route_index
    indexRevision, \* route_index_revision
    at,            \* where each request is
    observed,      \* observed_revision of each request's refresh
    nextIndex,     \* next_index of each request's refresh
    group,         \* the group the request names
    route,         \* the route the request took from the index, with version
    outcome,       \* how the routing of the request ended
    arrived,       \* ghost: revision when the request entered the refresh
    overtaken      \* ghost: an older refresh was recorded since it arrived

routeVars == <<config, configLock, revision, routeIndex, indexLock, indexRevision,
               at, observed, nextIndex, group, route, outcome, arrived, overtaken>>

sharedConfig == <<config, configLock, revision>>
sharedIndex == <<routeIndex, indexLock, indexRevision>>

(* build_route_index over a configuration.                                 *)
BuildRouteIndex(c) == [ver |-> c.ver, tables |-> c.body.tables]

NoRoute == [ver |-> 0, table |-> "absent"]

-----------------------------------------------------------------------------
(* ProxyRuntime::new builds the index and records the revision before any  *)
(* request or save runs.                                                   *)
RouteInit ==
    /\ \E b \in Bodies : config = [ver |-> 0, body |-> b]
    /\ configLock = None
    /\ revision = 0
    /\ routeIndex = BuildRouteIndex(config)
    /\ indexLock = None
    /\ indexRevision = 0
    /\ at = [r \in Requests |-> "idle"]
    /\ observed = [r \in Requests |-> 0]
    /\ nextIndex = [r \in Requests |-> routeIndex]
    /\ group \in [Requests -> Groups]
    /\ route = [r \in Requests |-> NoRoute]
    /\ outcome = [r \in Requests |-> "none"]
    /\ arrived = [r \in Requests |-> 0]
    /\ overtaken = [r \in Requests |-> FALSE]

-----------------------------------------------------------------------------
(* ConfigStore::set_in_memory: the assignment under the write lock ...     *)
InstallConfig(s, b) ==
    /\ configLock = None
    /\ config.ver < MaxVersion
    /\ configLock' = s
    /\ config' = [ver |-> config.ver + 1, body |-> b]
    /\ UNCHANGED <<revision, sharedIndex, at, observed, nextIndex, group,
                   route, outcome, arrived, overtaken>>

(* ... and the increment of the revision, after which the lock is freed.   *)
BumpRevision(s) ==
    /\ configLock = s
    /\ revision' = revision + 1
    /\ configLock' = None
    /\ UNCHANGED <<config, sharedIndex, at, observed, nextIndex, group,
                   route, outcome, arrived, overtaken>>

-----------------------------------------------------------------------------
(* refresh_route_index_if_needed.                                          *)
routeGoto(r, l) == at' = [at EXCEPT ![r] = l]

Arrive(r) ==
    /\ at[r] \in {"idle", "done"}
    /\ routeGoto(r, "observe")
    /\ \E g \in Groups : group' = [group EXCEPT ![r] = g]
    /\ arrived' = [arrived EXCEPT ![r] = revision]
    /\ overtaken' = [overtaken EXCEPT ![r] = FALSE]
    /\ route' = [route EXCEPT ![r] = NoRoute]
    /\ outcome' = [outcome EXCEPT ![r] = "none"]
    /\ UNCHANGED <<sharedConfig, sharedIndex, observed, nextIndex>>

LoadRevision(r) ==
    /\ at[r] = "observe"
    /\ observed' = [observed EXCEPT ![r] = revision]
    /\ routeGoto(r, "compare")
    /\ UNCHANGED <<sharedConfig, sharedIndex, nextIndex, group, route,
                   outcome, arrived, overtaken>>

CompareRevisions(r) ==
    /\ at[r] = "compare"
    /\ routeGoto(r, IF observed[r] = indexRevision THEN "settings" ELSE "build")
    /\ UNCHANGED <<sharedConfig, sharedIndex, observed, nextIndex, group,
                   route, outcome, arrived, overtaken>>

BuildIndex(r) ==
    /\ at[r] = "build"
    /\ configLock = None
    /\ nextIndex' = [nextIndex EXCEPT ![r] = BuildRouteIndex(config)]
    /\ routeGoto(r, "write")
    /\ UNCHANGED <<sharedConfig, sharedIndex, observed, group, route,
                   outcome, arrived, overtaken>>

(* The index is replaced as soon as its write lock is free; the revision   *)
(* is recorded before the lock is released.  Requests that compare         *)
(* revisions take no lock and run between the two.                         *)
WriteIndex(r) ==
    /\ at[r] = "write"
    /\ indexLock = None
    /\ indexLock' = r
    /\ routeIndex' = nextIndex[r]
    /\ routeGoto(r, "record")
    /\ UNCHANGED <<sharedConfig, indexRevision, observed, nextIndex, group,
                   route, outcome, arrived, overtaken>>

(* A deviation a slip in that code would give: the revision of now is      *)
(* recorded, not the one loaded before the configuration was read.         *)
RecordLatestRevision(r) ==
    /\ at[r] = "record"
    /\ indexRevision' = revision
    /\ indexLock' = None
    /\ routeGoto(r, "settings")
    /\ overtaken' = [q \in Requests |->
                        overtaken[q] \/ observed[r] < arrived[q]]
    /\ UNCHANGED <<sharedConfig, routeIndex, observed, nextIndex, group,
                   route, outcome, arrived>>

RecordRevision(r) ==
    /\ at[r] = "record"
    /\ indexRevision' = observed[r]
    /\ indexLock' = None
    /\ routeGoto(r, "settings")
    /\ overtaken' = [q \in Requests |->
                        overtaken[q] \/ observed[r] < arrived[q]]
    /\ UNCHANGED <<sharedConfig, routeIndex, observed, nextIndex, group,
                   route, outcome, arrived>>

-----------------------------------------------------------------------------
(* The rest of handle_proxy_request up to the choice of the provider.      *)
answer(r, status) ==
    /\ outcome' = [outcome EXCEPT ![r] = status]
    /\ routeGoto(r, "done")

ReadSettings(r) ==
    /\ at[r] = "settings"
    /\ configLock = None
    /\ \/ /\ config.body.admits
          /\ routeGoto(r, "lookup")
          /\ UNCHANGED outcome
       \/ /\ ~config.body.admits
          /\ answer(r, "unauthorized")
    /\ UNCHANGED <<sharedConfig, sharedIndex, observed, nextIndex, group,
                   route, arrived, overtaken>>

ReadIndex(r) ==
    /\ at[r] = "lookup"
    /\ indexLock = None
    /\ LET t == routeIndex.tables[group[r]] IN
         /\ route' = [route EXCEPT ![r] = [ver |-> routeIndex.ver, table |-> t]]
         /\ \/ /\ t \in Providers
               /\ routeGoto(r, "body")
               /\ UNCHANGED outcome
            \/ /\ t \notin Providers
               /\ answer(r, t)
    /\ UNCHANGED <<sharedConfig, sharedIndex, observed, nextIndex, group,
                   arrived, overtaken>>

(* The request body is awaited: it arrives and parses, or the request ends *)
(* here (too large, not JSON, or dropped with its connection).  Nothing    *)
(* bounds the wait for a client that stops sending.                        *)
ReadBody(r) ==
    /\ at[r] = "body"
    /\ \/ routeGoto(r, "resolve") /\ UNCHANGED outcome
       \/ answer(r, "bad_body")
    /\ UNCHANGED <<sharedConfig, sharedIndex, observed, nextIndex, group,
                   route, arrived, overtaken>>

(* resolve_runtime_active_route looks the provider up in the configuration *)
(* of this moment, not in the one the index was built from, and            *)
(* assert_rule_ready refuses one without name or address.                  *)
ResolveProvider(r) ==
    /\ at[r] = "resolve"
    /\ configLock = None
    /\ answer(r, IF route[r].table \notin config.body.providers
                   THEN "provider_not_found"
                   ELSE IF route[r].table \in config.body.ready
                          THEN "forwarded" ELSE "provider_not_ready")
    /\ UNCHANGED <<sharedConfig, sharedIndex, observed, nextIndex, group,
                   route, arrived, overtaken>>

-----------------------------------------------------------------------------
SaveStep(s) == (\E b \in Bodies : InstallConfig(s, b)) \/ BumpRevision(s)

RefreshStep(r) ==
    \/ LoadRevision(r) \/ CompareRevisions(r) \/ BuildIndex(r)
    \/ WriteIndex(r) \/ RecordRevision(r)

RouteStep(r) == ReadSettings(r) \/ ReadIndex(r) \/ ResolveProvider(r)

RouteNext ==
    \/ \E s \in Savers : SaveStep(s)
    \/ \E r \in Requests :
          Arrive(r) \/ RefreshStep(r) \/ RouteStep(r) \/ ReadBody(r)

RouteSpec == RouteInit /\ [][RouteNext]_routeVars

(* Every handler and every saver that was started keeps running: the steps *)
(* are synchronous code of tasks the runtime polls.  Nothing obliges       *)
(* clients to send requests or the rest of one, or users to save.          *)
Fairness ==
    /\ \A r \in Requests : WF_routeVars(RefreshStep(r) \/ RouteStep(r))
    /\ \A s \in Savers : WF_routeVars(BumpRevision(s))

FairSpec == RouteSpec /\ Fairness

-----------------------------------------------------------------------------
Index == [ver : 0..MaxVersion, tables : [Groups -> Table]]

Statuses == {"none", "unauthorized", "absent", "no_table", "no_default",
             "bad_body", "forwarded", "provider_not_found",
             "provider_not_ready"}

(* The type invariant of the shared index, its locks and the requests.     *)
RouteTypeOK ==
    /\ config \in [ver : 0..MaxVersion, body : Bodies]
    /\ configLock \in Savers \cup {None}
    /\ revision \in 0..MaxVersion
    /\ routeIndex \in Index
    /\ indexLock \in Requests \cup {None}
    /\ indexRevision \in 0..MaxVersion
    /\ at \in [Requests -> {"idle", "observe", "compare", "build", "write",
                            "record", "settings", "lookup", "body", "resolve",
                            "done"}]
    /\ observed \in [Requests -> 0..MaxVersion]
    /\ nextIndex \in [Requests -> Index]
    /\ group \in [Requests -> Groups]
    /\ route \in [Requests -> [ver : 0..MaxVersion, table : Table]]
    /\ outcome \in [Requests -> Statuses]
    /\ arrived \in [Requests -> 0..MaxVersion]
    /\ overtaken \in [Requests -> BOOLEAN]

(* The recorded revision is honest: when refresh_route_index_if_needed     *)
(* would find the index up to date and no writer is active, the index is   *)
(* exactly the one build_route_index gives for the current configuration,  *)
(* whatever slow refreshes ran in between.                                 *)
UpToDateMeansCurrent ==
    indexRevision = revision /\ configLock = None /\ indexLock = None
        => routeIndex = BuildRouteIndex(config)

(* A request routed by a table older than the last save that completed     *)
(* before it arrived was overtaken: another request, whose refresh had     *)
(* loaded an older revision, recorded its index in the meantime.           *)
StaleOnlyIfOvertaken ==
    \A r \in Requests :
        at[r] \in {"body", "resolve"} /\ route[r].ver < arrived[r]
            => overtaken[r]

(* The inductive invariant behind the properties above.                    *)

(* The revision lags the installed configuration only inside a save.       *)
RevisionTracksConfig ==
    config.ver = IF configLock = None THEN revision ELSE revision + 1

(* An index is never newer than the configuration, and equals its index    *)
(* when it has its version.                                                *)
SnapshotOf(i) ==
    /\ i.ver <= config.ver
    /\ i.ver = config.ver => i = BuildRouteIndex(config)

SnapshotsAreGenuine ==
    SnapshotOf(routeIndex) /\ \A r \in Requests : SnapshotOf(nextIndex[r])

(* The revision is loaded before the configuration is read, so a refresh   *)
(* builds an index at least as new as the revision it will record.         *)
ObservedBeforeBuilt ==
    \A r \in Requests :
        /\ observed[r] <= revision
        /\ at[r] \in {"write", "record"} => observed[r] <= nextIndex[r].ver

IndexLockHeldByRecorder ==
    \A r \in Requests :
        /\ at[r] = "record" <=> indexLock = r
        /\ at[r] = "record" => routeIndex = nextIndex[r]

RecordedAtMostIndexed == indexLock = None => indexRevision <= routeIndex.ver

ArrivedBeforeObserved ==
    \A r \in Requests :
        /\ arrived[r] <= revision
        /\ at[r] \in {"compare", "build", "write", "record"}
              => arrived[r] <= observed[r]

BehindOnlyIfOvertaken ==
    \A r \in Requests :
        at[r] \in {"settings", "lookup"} /\ routeIndex.ver < arrived[r]
            => \/ overtaken[r]
               \/ indexLock # None /\ observed[indexLock] < arrived[r]

RouteInv ==
    /\ RouteTypeOK
    /\ RevisionTracksConfig
    /\ SnapshotsAreGenuine
    /\ ObservedBeforeBuilt
    /\ IndexLockHeldByRecorder
    /\ RecordedAtMostIndexed
    /\ ArrivedBeforeObserved
    /\ BehindOnlyIfOvertaken
    /\ StaleOnlyIfOvertaken

(* If requests keep coming, the index settles on the last saved            *)
(* configuration, however the refreshes of the requests in flight          *)
(* interleave (saves are finitely many here).                              *)
IndexSettles ==
    []<>(\E r \in Requests : at[r] = "observe")
        => <>[](routeIndex = BuildRouteIndex(config))
=============================================================================
