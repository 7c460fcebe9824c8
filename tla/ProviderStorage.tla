--------------------------- MODULE ProviderStorage --------------------------
(***************************************************************************)
(* Groups and providers of a configuration: how normalization brings the   *)
(* providers that groups carry into one list, how the two lists are stored *)
(* in tables and read back, and what validation asks of them.              *)
(*                                                                         *)
(* An identifier is a sequence: <<"p", 2>> is "p-2", << >> is blank.       *)
(* Identifiers and model names are trimmed.  A provider has an id, a body  *)
(* (everything that is not named here), its models (None if the document   *)
(* has no such field), its prices (one legacy price and one per model) and *)
(* whether it has a default model.  A group has an id, a routing table, an *)
(* optional list of provider ids, an optional list of own providers, and   *)
(* the active one.                                                         *)
(***************************************************************************)
EXTENDS ConfigSettings, Sequences, SequencesExt, FiniteSets, Functions

ids(providers) == [i \in 1..Len(providers) |-> providers[i].id]
listed(s) == IF s = None THEN << >> ELSE s
toSet(s) == {s[i] : i \in 1..Len(s)}
byId(providers, id) == SelectSeq(providers, LAMBDA p : p.id = id)

(* normalize_provider_for_storage and normalize_provider_model_costs: only *)
(* prices of declared models stay, and the legacy price is used for every  *)
(* model when there are none.                                              *)
normalize_provider_for_storage(p) ==
    LET kept == Restrict(p.costs, DOMAIN p.costs \cap p.models)
    IN [p EXCEPT !.costs = IF kept = << >> /\ p.cost # None
                             THEN [m \in p.models |-> p.cost] ELSE kept]

(* Mutated form: the first provider with an id wins.                       *)
never_conflicting(p, q, ordered) == FALSE

(* Two providers are compared by their JSON text.  The prices per model    *)
(* are a hash map, so equal providers with several prices may be written   *)
(* in different orders: ordered says whether the orders happen to agree.   *)
conflicting(p, q, ordered) == p # q \/ (~ordered /\ Cardinality(DOMAIN p.costs) > 1)

alloc_unique_provider_id(id, map) ==
    Append(id, CHOOSE n \in 2..1000 :
                   /\ Append(id, n) \notin DOMAIN map
                   /\ \A m \in 2..(n - 1) : Append(id, m) \in DOMAIN map)

insert(s, p) == [s EXCEPT !.map = @ @@ (p.id :> p), !.order = Append(@, p.id)]

(* A provider a group carries joins the map; under another id when the map *)
(* has a different one with its id.                                        *)
addRenamed(s, p, id) == [insert(s, [p EXCEPT !.id = id]) EXCEPT !.remap = (p.id :> id) @@ @]

addOwn(s, p, ordered) ==
    CASE p.id = << >> \/ p.id \notin s.scoped -> s
      [] p.id # << >> /\ p.id \in s.scoped /\ p.id \notin DOMAIN s.map -> insert(s, p)
      [] OTHER -> IF conflicting(s.map[p.id], p, ordered)
                    THEN addRenamed(s, p, alloc_unique_provider_id(p.id, s.map))
                    ELSE s

distinct(s) == FoldLeft(LAMBDA acc, x : IF Contains(acc, x) THEN acc ELSE Append(acc, x), << >>, s)

(* The ids a group lists, or those of its own providers.                   *)
raw_provider_ids(group, has_global) ==
    IF has_global /\ group.ids # None THEN group.ids ELSE ids(listed(group.own))

withProviders(s, group, kept) ==
    [s EXCEPT !.groups = Append(@,
        [group EXCEPT !.ids = kept, !.own = [i \in 1..Len(kept) |-> s.map[kept[i]]],
                      !.active = IF Contains(kept, @) THEN @ ELSE None])]

(* The group's ids after the renaming, where a provider has them.          *)
remapped(s, raw) ==
    distinct(SelectSeq([i \in 1..Len(raw) |->
                           IF raw[i] \in DOMAIN s.remap THEN s.remap[raw[i]] ELSE raw[i]],
                       LAMBDA id : id # << >> /\ id \in DOMAIN s.map))

addGroup(s, group, raw) == withProviders(s, group, remapped(s, raw))

normalizeGroup(s, group, raw, ordered) ==
    addGroup(FoldLeft(LAMBDA acc, p : addOwn(acc, normalize_provider_for_storage(p), ordered),
                      [s EXCEPT !.scoped = toSet(raw) \ {<< >>}, !.remap = << >>],
                      listed(group.own)),
             group, raw)

(* Of providers with one id in the global list the first is kept.          *)
addGlobal(s, p) == IF p.id = << >> \/ p.id \in DOMAIN s.map THEN s ELSE insert(s, p)

globalProviders(providers) ==
    FoldLeft(LAMBDA s, p : addGlobal(s, normalize_provider_for_storage(p)),
             [map |-> << >>, order |-> << >>, groups |-> << >>, scoped |-> {}, remap |-> << >>],
             providers)

normalizeGroups(s, groups, has_global, ordered) ==
    FoldLeft(LAMBDA acc, g : normalizeGroup(acc, g, raw_provider_ids(g, has_global), ordered), s, groups)

collected(s) ==
    [groups |-> s.groups, providers |-> [i \in 1..Len(s.order) |-> s.map[s.order[i]]]]

withGlobal(s, groups, ordered) == collected(normalizeGroups(s, groups, s.order # << >>, ordered))

normalize_groups_and_providers(c, ordered) ==
    withGlobal(globalProviders(c.providers), c.groups, ordered)

(* Groups without routes and providers, and providers without any model,   *)
(* are not stored.                                                         *)
hollow(p) == p.models = {} /\ ~p.default

withoutHollow(c) ==
    [groups |-> SelectSeq(c.groups, LAMBDA g : g.table # << >> \/ g.ids # << >> \/ g.own # << >>),
     providers |-> SelectSeq(c.providers, LAMBDA p : ~hollow(p))]

normalize_config_for_storage(c, ordered) ==
    withoutHollow(normalize_groups_and_providers(c, ordered))

-----------------------------------------------------------------------------
(* The version 4 to 5 step of the migrator, on groups and providers of the *)
(* document: those without a routing table, or models, are dropped, and    *)
(* the legacy price becomes a price for every declared model.              *)
migrate_legacy_provider_cost(p) ==
    IF p.cost # None /\ p.models \notin {None, {}} /\ p.costs = None
      THEN [p EXCEPT !.costs = [m \in p.models |-> p.cost]] ELSE p

migrate_provider_costs(providers) ==
    [i \in 1..Len(providers) |-> migrate_legacy_provider_cost(providers[i])]

migrate_v4_to_v5(c) ==
    LET groups == SelectSeq(c.groups, LAMBDA g : g.table # None)
    IN [groups |-> [i \in 1..Len(groups) |->
            IF groups[i].own = None THEN groups[i]
            ELSE [groups[i] EXCEPT !.own = migrate_provider_costs(@)]],
        providers |-> SelectSeq(migrate_provider_costs(c.providers), LAMBDA p : p.models # None)]

(* normalize_config: missing fields get their defaults.                    *)
filledProvider(p) ==
    normalize_provider_for_storage(
        [p EXCEPT !.models = IF @ = None THEN {} ELSE @, !.costs = IF @ = None THEN << >> ELSE @])
filled(providers) == [i \in 1..Len(providers) |-> filledProvider(providers[i])]

normalize_lists(c) ==
    [groups |-> [i \in 1..Len(c.groups) |->
        [c.groups[i] EXCEPT !.table = listed(@),
                            !.own = IF @ = None THEN None ELSE filled(@)]],
     providers |-> filled(c.providers)]

-----------------------------------------------------------------------------
(* The rules of validate_config on groups and providers.  It has none on   *)
(* the providers that routes name.                                         *)
effective_provider_ids(g) == IF listed(g.ids) # << >> THEN g.ids ELSE ids(listed(g.own))

validate_lists(c) ==
    /\ \A i \in 1..Len(c.providers) : c.providers[i].id # << >> /\ c.providers[i].default
    /\ IsInjective(ids(c.providers))
    /\ \A i \in 1..Len(c.groups) :
          LET g == c.groups[i] IN
          /\ \A id \in toSet(effective_provider_ids(g)) :
                /\ id # << >>
                /\ byId(c.providers, id) # << >> \/ byId(listed(g.own), id) # << >>
          /\ g.active # None => Contains(effective_provider_ids(g), g.active)

(* persist_groups_and_providers: the group id is a primary key.            *)
storable(c) == IsInjective(ids(c.groups))

(* Mutated form: the providers of a group in the order of the table.       *)
load_in_table_order(db) ==
    [groups |-> [i \in 1..Len(db.groups) |->
        [db.groups[i] EXCEPT !.own =
            SelectSeq(db.providers, LAMBDA p : Contains(db.groups[i].ids, p.id))]],
     providers |-> db.providers]

(* load_groups_and_providers_from_relational_tables: the providers a group *)
(* carries are looked up in the provider table.                            *)
load_groups_and_providers_from_relational_tables(db) ==
    [groups |-> [i \in 1..Len(db.groups) |->
        [db.groups[i] EXCEPT !.own =
            FlattenSeq([k \in 1..Len(db.groups[i].ids) |->
                           byId(db.providers, db.groups[i].ids[k])])]],
     providers |-> db.providers]
=============================================================================
