--------------------------- MODULE ConfigDocument ---------------------------
(***************************************************************************)
(* The life of a configuration document: it is saved, edited, saved again, *)
(* read back at a restart, and used to route requests and to test          *)
(* providers.  Saves are whole here; how their steps interleave and fail   *)
(* is the subject of ConfigStore.                                          *)
(***************************************************************************)
EXTENDS ProviderStorage

CONSTANTS
    Documents,     \* documents that may be saved: [version, settings, groups, providers]
    RequestModels, \* models that requests ask for
    Default,       \* the pattern "default" of a routing table
    MaxSaves       \* bound on saves

ASSUME DocumentAssumption == MaxSaves \in Nat

VARIABLES
    mem,      \* the configuration in memory
    db,       \* group_records and provider_records
    file,     \* the settings in config.json
    index,    \* the route index of the proxy
    document, \* the last document that was saved, None before and after an edit
    served,   \* how the last request, or test of a provider, was answered
    saves

vars == <<mem, db, file, index, document, served, saves>>

config(settings, lists) ==
    [settings |-> settings, groups |-> lists.groups, providers |-> lists.providers]
lists(c) == [groups |-> c.groups, providers |-> c.providers]
NoLists == [groups |-> << >>, providers |-> << >>]
Defaults == config(default_config, NoLists)

validate_config(c) == validate_settings(c.settings) /\ validate_lists(c)

-----------------------------------------------------------------------------
(* Routing.                                                                *)

(* build_route_index: groups with a table that has a default entry.        *)
build_route_index(c) ==
    LET hasDefault(g) == \E k \in 1..Len(g.table) : g.table[k].model = Default
        ready == SelectSeq(c.groups, hasDefault)
    IN [id \in toSet(ids(ready)) |-> byId(ready, id)[1].table]

(* request_model.contains(pattern)                                         *)
contains(m, pattern) ==
    \E i \in 0..Len(m) : i + Len(pattern) <= Len(m) /\ SubSeq(m, i + 1, i + Len(pattern)) = pattern

(* Mutated form: the first pattern that matches.                           *)
first_match(table, m) ==
    LET matches == SelectSeq(table, LAMBDA e : contains(m, e.model))
    IN IF matches # << >> THEN matches[1] ELSE SelectSeq(table, LAMBDA e : e.model = Default)[1]

(* max_by_key: the last of the longest patterns that the model contains;   *)
(* else the first default entry.                                           *)
resolve_entry(table, m) ==
    LET matches == SelectSeq(table, LAMBDA e : contains(m, e.model))
        best == {k \in 1..Len(matches) : \A j \in 1..Len(matches) :
                    Len(matches[j].model) <= Len(matches[k].model)}
    IN IF matches = << >> THEN SelectSeq(table, LAMBDA e : e.model = Default)[1]
       ELSE matches[CHOOSE k \in best : \A j \in best : j <= k]

(* resolve_runtime_active_route: the entry is taken from the index, the    *)
(* provider from the configuration of now; << >> if it is not there.       *)
resolve_runtime_active_route(table, m) ==
    byId(mem.providers, resolve_entry(table, m).provider)

(* resolve_provider_for_test: the copy the group carries, or the provider  *)
(* of the global list if a route of the group names it.                    *)
resolve_provider_for_test(c, group, id) ==
    LET g == byId(c.groups, group)
        own == byId(listed(g[1].own), id)
        routed == \E k \in 1..Len(g[1].table) : g[1].table[k].provider = id
    IN IF g = << >> THEN << >>
       ELSE IF own # << >> THEN own
       ELSE IF routed THEN byId(c.providers, id) ELSE << >>

-----------------------------------------------------------------------------
Init ==
    /\ mem = Defaults
    /\ db = NoLists
    /\ file = default_config
    /\ index = build_route_index(Defaults)
    /\ document = None /\ served = None
    /\ saves = 0

(* The end of every save: a configuration that is invalid, or that the     *)
(* tables refuse, changes nothing.                                         *)
store(c) ==
    IF validate_config(c) /\ storable(c)
      THEN mem' = c /\ db' = lists(c) /\ file' = c.settings
      ELSE UNCHANGED <<mem, db, file>>

migrate_config(d) ==
    IF orElse(d.version, 1) < CURRENT_CONFIG_VERSION THEN migrate_v4_to_v5(lists(d)) ELSE lists(d)

(* ConfigStore::save: a document from the client.  One of a version that   *)
(* the program does not support is refused.                                *)
Save ==
    /\ saves = 0
    /\ saves' = 1
    /\ \E d \in Documents, ordered \in BOOLEAN :
          IF ~supported(d.version)
            THEN UNCHANGED <<mem, db, file, document>>
            ELSE LET l == normalize_config_for_storage(normalize_lists(migrate_config(d)), ordered)
                     s == normalize_settings(migrate_settings(d.version, d.settings))
                 IN /\ store(config(s, l))
                    /\ document' = IF validate_config(config(s, l)) /\ storable(l) THEN d ELSE None
    /\ served' = None
    /\ UNCHANGED index

(* ConfigStore::save_config: the configuration in memory as it is, or with *)
(* a group or a provider removed.                                          *)
Removed(s) == {RemoveAt(s, i) : i \in 1..Len(s)}

SaveConfig ==
    /\ 0 < saves /\ saves < MaxSaves
    /\ saves' = saves + 1
    /\ \E ordered \in BOOLEAN :
          \/ /\ store(config(mem.settings, normalize_config_for_storage(lists(mem), ordered)))
             /\ UNCHANGED document
          \/ /\ \E l \in {[lists(mem) EXCEPT !.groups = g] : g \in Removed(mem.groups)} \cup
                          {[lists(mem) EXCEPT !.providers = p] : p \in Removed(mem.providers)} :
                    store(config(mem.settings, normalize_config_for_storage(l, ordered)))
             /\ document' = None
    /\ served' = None
    /\ UNCHANGED index

(* ConfigStore::initialize after a start.                                  *)
Restart ==
    /\ LET loaded == config(normalize_settings(migrate_settings(CURRENT_CONFIG_VERSION, file)),
                            load_groups_and_providers_from_relational_tables(db))
           c == IF validate_config(loaded) THEN loaded ELSE Defaults
       IN /\ mem' = c /\ file' = c.settings
          /\ db' = IF validate_config(loaded) THEN db ELSE NoLists
          /\ index' = build_route_index(c)
    /\ served' = None
    /\ UNCHANGED <<document, saves>>

(* migrate_provider_records_schema_if_needed, at the first start after the *)
(* tables of providers per group: the rows a group lists become its own    *)
(* providers, which are merged, written to the new tables and read back.   *)
load_groups_from_legacy_relational_tables(groups) ==
    [i \in 1..Len(groups) |->
        LET rows == filled(listed(groups[i].own))
        IN [groups[i] EXCEPT !.table = << >>, !.ids = listed(@),
               !.own = FlattenSeq([k \in 1..Len(listed(groups[i].ids)) |-> byId(rows, groups[i].ids[k])])]]

StartFromLegacyTables ==
    /\ saves = 0
    /\ saves' = 1
    /\ \E d \in {d \in Documents : d.providers = << >> /\ d.groups # << >>}, ordered \in BOOLEAN :
          LET legacy == [groups |-> load_groups_from_legacy_relational_tables(d.groups), providers |-> << >>]
              c == config(file, normalize_groups_and_providers(legacy, ordered))
          IN /\ storable(c)
             /\ mem' = IF validate_config(c) THEN c ELSE Defaults
             /\ db' = IF validate_config(c) THEN lists(c) ELSE NoLists
             /\ document' = IF validate_config(c) THEN [d EXCEPT !.version = 5, !.settings = file,
                                                               !.groups = legacy.groups] ELSE None
             /\ index' = build_route_index(mem')
    /\ served' = None
    /\ UNCHANGED file

RefreshRouteIndex ==
    /\ index' = build_route_index(mem)
    /\ served' = None
    /\ UNCHANGED <<mem, db, file, document, saves>>

(* A request for a model to a group, while the index may be of an earlier  *)
(* configuration.                                                          *)
Request ==
    /\ \E g \in DOMAIN index, m \in RequestModels :
          served' = [group |-> g, model |-> m,
                     provider |-> resolve_runtime_active_route(index[g], m)]
    /\ UNCHANGED <<mem, db, file, index, document, saves>>

Next ==
    \/ Save \/ SaveConfig \/ StartFromLegacyTables \/ Restart
    \/ RefreshRouteIndex \/ Request

Spec == Init /\ [][Next]_vars

-----------------------------------------------------------------------------
hollowOwn(c) == \E i \in 1..Len(c.groups) : \E p \in toSet(c.groups[i].own) : hollow(p)

(* A restart reads back exactly the configuration that was in memory, for  *)
(* every document validate_config accepted and every edit after it.  (For  *)
(* groups that carry a provider without any model see SavedIsReadBack.)    *)
RestartKeepsConfig == [][Restart => mem' = mem \/ hollowOwn(mem)]_vars

(* "Ensures persisted and imported config data is internally consistent    *)
(* before runtime use" (validator.rs): what passed validation when it was  *)
(* saved passes it when it is read back.                                   *)
SavedIsReadBack ==
    validate_config(config(file, load_groups_and_providers_from_relational_tables(db)))

firstOf(s) == IF s = << >> THEN s ELSE <<s[1]>>

(* The providers a group of the document asks for: its own where it has    *)
(* one with the id, else the global one.                                   *)
wanted(d, g) ==
    LET l == normalize_lists(migrate_config(d))
        own == byId(l.groups, g.id)[1].own
        has_global == SelectSeq(l.providers, LAMBDA p : p.id # << >>) # << >>
        find(id) == LET mine == byId(listed(own), id) IN
                    firstOf(IF mine # << >> THEN mine ELSE byId(l.providers, id))
        asked == SelectSeq(distinct(raw_provider_ids([g EXCEPT !.own = own], has_global)),
                           LAMBDA id : id # << >>)
    IN FlattenSeq([k \in 1..Len(asked) |-> find(asked[k])])

content(providers) == [k \in 1..Len(providers) |-> [providers[k] EXCEPT !.id = None]]

(* However providers of several groups are merged and renamed, every group *)
(* keeps the providers its document gave it, in its order, with their      *)
(* prices, through saves and restarts; and routes stay what they were.     *)
GroupsKeepTheirProviders ==
    document # None /\ mem # Defaults /\ ~hollowOwn(mem) =>
        /\ \A g \in toSet(migrate_config(document).groups) :
              listed(g.table) # << >> => Contains(ids(mem.groups), g.id)
        /\ \A i \in 1..Len(mem.groups) :
            \E g \in toSet(document.groups) :
                /\ g.id = mem.groups[i].id /\ listed(g.table) = mem.groups[i].table
                /\ content(mem.groups[i].own) = content(wanted(document, g))

(* A request that was served is served by the provider a test of the same  *)
(* group and provider would use, and the entry is the most specific one of *)
(* the group's table: no other pattern the model contains is longer.       *)
ServedAsTested ==
    served # None /\ served.provider # << >> =>
        LET rule == served.provider[1]
            table == index[served.group]
        IN /\ \E k \in 1..Len(table) :
                 /\ table[k].provider = rule.id
                 /\ table[k].model = Default \/ contains(served.model, table[k].model)
                 /\ \A j \in 1..Len(table) : contains(served.model, table[j].model) =>
                       Len(table[j].model) <= Len(table[k].model)
           /\ (served.group \in DOMAIN build_route_index(mem)
                 /\ build_route_index(mem)[served.group] = table) =>
                 resolve_provider_for_test(mem, served.group, rule.id) = <<rule>>

(* What the migrator fills in for an old document is what normalization    *)
(* would have put there, and the result is stable: it is read from         *)
(* config.json as it was written.                                          *)
MigrationFillsDefaults ==
    /\ document # None => mem.settings = normalize_settings(document.settings) \/ mem = Defaults
    /\ normalize_settings(file) = file
=============================================================================
