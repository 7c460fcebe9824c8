---------------------- MODULE ClientIntegrationsProofs ----------------------
(***************************************************************************)
(* Integration targets stay distinct, the clients' files keep what the     *)
(* user has in them, and what a write reports is what is read back, for    *)
(* any number of callers, groups, directories, calls and provider entries, *)
(* whatever the files hold.                                                *)
(*                                                                         *)
(* TargetsDistinct is not inductive: the store compares a directory with   *)
(* those of the saved targets as they are, so these must be canonical, and *)
(* a restart brings back the file, so the same must hold of what was       *)
(* written.                                                                *)
(*                                                                         *)
(* UserFilesKept compares a file with what it was when the call came to    *)
(* it; what is written was made by an earlier step, from the file as it    *)
(* was read then, and stays in memory while the file is truncated and      *)
(* filled.  FilesInv takes the facts along: what a call has in its buffer  *)
(* at each of its places, which files are still as they were, and that     *)
(* while a call is alone no other one writes.                              *)
(*                                                                         *)
(* WrittenIsReadBack speaks of a call that has ended, many steps after it  *)
(* wrote.  BackInv says at each place of a call that is alone what its     *)
(* buffer, its two files and the store hold: the entry that was written is *)
(* the one the readers resolve, in both files, and the targets of the      *)
(* snapshot have the configurations of the saved ones.  A target may be    *)
(* saved with the configuration of a stale snapshot, so the last part is   *)
(* known only while no other call comes in between, and without a window   *)
(* only because no target is then saved with one.                          *)
(***************************************************************************)
EXTENDS ClientIntegrations, TLAPS

Distinct(S) == \A s, t \in S : s # t => s.id # t.id /\ canonicalize(s.dir) # canonicalize(t.dir)
Canonical(S) == \A t \in S : canonicalize(t.dir) = t.dir
AreTargets(S) == \A t \in S : t = target(t.id, t.dir, t.config, t.group)
Good(S) == Distinct(S) /\ Canonical(S) /\ AreTargets(S)

IndInv == Good(saved) /\ Good(persisted)

\* put_target of the store keeps the targets distinct when its check let the
\* directory pass.
LEMMA PutKeepsGood ==
    ASSUME Good(saved), NEW id, NEW dir, NEW cfg, ~put_taken(id, dir)
    PROVE  Good(put_target(id, dir, cfg))
<1> DEFINE c == canonicalize(dir)
<1>0. canonicalize(c) = c
  BY DEF canonicalize
<1>1. CASE byId(saved, id) = {}
  <2> DEFINE n == target(id, c, cfg, None)
  <2>1. put_target(id, dir, cfg) = saved \cup {n}
    BY <1>1 DEF put_target
  <2>2. n = target(n.id, n.dir, n.config, n.group) /\ n.id = id /\ n.dir = c
    BY DEF target
  <2>3. \A t \in saved : t.id # id /\ t.dir # c
    BY <1>1 DEF byId, put_taken
  <2> HIDE DEF n, c
  <2>4. QED
    BY <1>0, <2>1, <2>2, <2>3 DEF Good, Distinct, Canonical, AreTargets
<1>2. CASE byId(saved, id) # {}
  <2> DEFINE upd(t) == IF t.id # id THEN t
                       ELSE [t EXCEPT !.dir = c, !.config = orElse(cfg, @)]
  <2>1. put_target(id, dir, cfg) = {upd(t) : t \in saved}
    BY <1>2 DEF put_target
  <2>2. ASSUME NEW t \in saved
        PROVE  /\ upd(t).id = t.id
               /\ upd(t).dir = IF t.id # id THEN t.dir ELSE c
               /\ upd(t) = target(upd(t).id, upd(t).dir, upd(t).config, upd(t).group)
    <3>1. t = target(t.id, t.dir, t.config, t.group)
      BY DEF Good, AreTargets
    <3>2. CASE t.id # id
      BY <3>1, <3>2
    <3>3. CASE t.id = id
      <4>1. upd(t) = target(t.id, c, orElse(cfg, t.config), t.group)
        BY <3>1, <3>3 DEF target
      <4> HIDE DEF upd
      <4>2. QED
        BY <3>3, <4>1 DEF target
    <3>4. QED
      BY <3>2, <3>3
  <2>3. \A t \in saved : t.id # id => t.dir # c
    BY DEF put_taken
  <2> HIDE DEF upd, c
  <2>4. Distinct({upd(t) : t \in saved})
    <3>1. SUFFICES ASSUME NEW s \in saved, NEW t \in saved, upd(s) # upd(t)
                   PROVE  /\ upd(s).id # upd(t).id
                          /\ canonicalize(upd(s).dir) # canonicalize(upd(t).dir)
      BY DEF Distinct
    <3>2. s # t /\ s.id # t.id /\ canonicalize(s.dir) # canonicalize(t.dir)
          /\ canonicalize(s.dir) = s.dir /\ canonicalize(t.dir) = t.dir
      BY <3>1 DEF Good, Distinct, Canonical
    <3>3. QED
      BY <1>0, <2>2, <2>3, <3>2
  <2>5. Canonical({upd(t) : t \in saved})
    BY <1>0, <2>2 DEF Good, Canonical
  <2>6. AreTargets({upd(t) : t \in saved})
    BY <2>2 DEF AreTargets
  <2>7. QED
    BY <2>1, <2>4, <2>5, <2>6 DEF Good
<1>3. QED
  BY <1>1, <1>2

\* set_target_group_id changes nothing the targets are told apart by.
LEMMA BindKeepsGood ==
    ASSUME Good(saved), NEW id, NEW g
    PROVE  Good(set_target_group_id(id, g))
<1> DEFINE upd(t) == IF t.id # id THEN t ELSE [t EXCEPT !.group = g]
<1>1. set_target_group_id(id, g) = {upd(t) : t \in saved}
  BY DEF set_target_group_id
<1>2. ASSUME NEW t \in saved
      PROVE  /\ upd(t).id = t.id /\ upd(t).dir = t.dir
             /\ upd(t) = target(upd(t).id, upd(t).dir, upd(t).config, upd(t).group)
  <2>1. t = target(t.id, t.dir, t.config, t.group)
    BY DEF Good, AreTargets
  <2>2. CASE t.id # id
    BY <2>1, <2>2
  <2>3. CASE t.id = id
    <3>1. upd(t) = target(t.id, t.dir, t.config, g)
      BY <2>1, <2>3 DEF target
    <3> HIDE DEF upd
    <3>2. QED
      BY <2>3, <3>1 DEF target
  <2>4. QED
    BY <2>2, <2>3
<1> HIDE DEF upd
<1>3. QED
  BY <1>1, <1>2 DEF Good, Distinct, Canonical, AreTargets

\* An operation of the store that ends with good targets, written or not.
LEMMA PersistKeeps ==
    ASSUME IndInv, NEW S, Good(S), NEW written, persist(S, written)
    PROVE  IndInv'
BY DEF IndInv, persist, Good, Distinct, Canonical, AreTargets, canonicalize, target

\* The invariant holds initially: at most one target is saved, under the
\* canonical name of its directory.
LEMMA InitGood == Init => IndInv
<1> SUFFICES ASSUME Init PROVE IndInv
  OBVIOUS
<1>1. CASE saved = {}
  BY <1>1 DEF Init, IndInv, Good, Distinct, Canonical, AreTargets
<1>2. ASSUME NEW d \in Dirs, saved = {target(MaxCalls + 1, d, None, None)}
      PROVE  IndInv
  <2>1. canonicalize(d) = d
    BY DirsAssumption DEF canonicalize
  <2>2. Good(saved)
    BY <1>2, <2>1 DEF Good, Distinct, Canonical, AreTargets, target
  <2>3. QED
    BY <2>2 DEF Init, IndInv
<1>3. QED
  BY <1>1, <1>2 DEF Init

\* Every step keeps the invariant: a call changes the targets by one
\* operation of the store, a restart brings back what was written.
LEMMA NextGood == IndInv /\ [Next]_vars => IndInv'
<1> SUFFICES ASSUME IndInv, [Next]_vars PROVE IndInv'
  OBVIOUS
<1>1. ASSUME UNCHANGED <<saved, persisted>> PROVE IndInv'
  BY <1>1 DEF IndInv, Good, Distinct, Canonical, AreTargets, canonicalize, target
<1>2. CASE UNCHANGED vars
  BY <1>1, <1>2 DEF vars
<1>3. CASE Restart
  BY <1>3 DEF Restart, IndInv, Good, Distinct, Canonical, AreTargets, canonicalize, target
<1>4. ASSUME NEW c \in Callers, Step(c) PROVE IndInv'
  <2>1. CASE BeginAdd(c) \/ BeginUpdate(c) \/ BeginWriteGroupEntry(c) \/ NextTarget(c)
             \/ BeginWriteAgentConfig(c) \/ BeginWriteSource(c)
    BY <1>1, <2>1 DEF BeginAdd, BeginUpdate, BeginWriteGroupEntry, NextTarget,
                      BeginWriteAgentConfig, BeginWriteSource
  <2>2. CASE \/ ReadPrimary(c) \/ ReadSecond(c) \/ CheckSource(c) \/ RereadSource(c)
             \/ \E which \in Files : TruncateFile(c, which) \/ FillFile(c, which)
    BY <1>1, <2>2 DEF ReadPrimary, ReadSecond, CheckSource, RereadSource, TruncateFile, FillFile
  <2>3. CASE AddTarget(c)
    <3> DEFINE t == call[c].target
    <3>1. CASE UNCHANGED <<saved, persisted>>
      BY <1>1, <3>1
    <3>2. ASSUME ~put_taken(t.id, t.dir), NEW written \in BOOLEAN,
                 persist(put_target(t.id, t.dir, None), written)
          PROVE  IndInv'
      BY <3>2, PutKeepsGood, PersistKeeps DEF IndInv
    <3>3. QED
      BY <2>3, <3>1, <3>2 DEF AddTarget
  <2>4. CASE RemoveTarget(c)
    <3>1. PICK t \in saved, written \in BOOLEAN : persist(saved \ {t}, written)
      BY <2>4 DEF RemoveTarget
    <3>2. Good(saved \ {t})
      BY DEF IndInv, Good, Distinct, Canonical, AreTargets
    <3>3. QED
      BY <3>1, <3>2, PersistKeeps
  <2>5. CASE PutTarget(c)
    <3> DEFINE t == call[c].target
               cfg == IF call[c].op = "config" THEN call[c].config
                      ELSE IF call[c].op = "source" THEN call[c].parsed ELSE t.config
    <3>1. CASE UNCHANGED <<saved, persisted>>
      BY <1>1, <3>1
    <3>2. ASSUME ~put_taken(t.id, t.dir), NEW written \in BOOLEAN,
                 persist(put_target(t.id, t.dir, cfg), written)
          PROVE  IndInv'
      BY <3>2, PutKeepsGood, PersistKeeps DEF IndInv
    <3>3. QED
      BY <2>5, <3>1, <3>2 DEF PutTarget
  <2>6. CASE BindGroup(c)
    <3> DEFINE id == call[c].target.id
    <3>1. CASE UNCHANGED <<saved, persisted>>
      BY <1>1, <3>1
    <3>2. ASSUME NEW written \in BOOLEAN,
                 persist(set_target_group_id(id, call[c].group), written)
          PROVE  IndInv'
      BY <3>2, BindKeepsGood, PersistKeeps DEF IndInv
    <3>3. QED
      BY <2>6, <3>1, <3>2 DEF BindGroup
  <2>7. QED
    BY <1>4, <2>1, <2>2, <2>3, <2>4, <2>5, <2>6 DEF Step
<1>5. QED
  BY <1>2, <1>3, <1>4 DEF Next

\* However many calls of add_target, update_target, write_group_entry and
\* the others overlap, and whichever of them fail, no two saved targets have
\* one id or stand for one directory.
THEOREM TargetsStayDistinct == Spec => []TargetsDistinct
<1>1. IndInv => TargetsDistinct
  BY DEF IndInv, Good, Distinct, TargetsDistinct
<1>2. QED
  BY <1>1, InitGood, NextGood, PTL DEF Spec

----------------------------------------------------------------------------
\* Documents.  What the edits of the clients' files keep.

\* A missing file reads as a document.
LEMMA EmptyIsDocument == Empty \in Document
<1>1. << >> \in [{} -> Entry]
  OBVIOUS
<1>2. {} \in SUBSET Names
  OBVIOUS
<1>3. QED
  BY <1>1, <1>2 DEF Empty, Document

\* The parts of a document, and that it is none of the other values of a file.
LEMMA DocumentShape ==
    ASSUME NEW doc \in Document
    PROVE  /\ doc = [providers |-> doc.providers, named |-> doc.named]
           /\ doc.providers \in [DOMAIN doc.providers -> Entry]
           /\ DOMAIN doc.providers \in SUBSET Names
           /\ doc.named \in BOOLEAN
           /\ doc \notin {None, Missing, Broken}
<1>1. /\ doc.providers \in UNION {[S -> Entry] : S \in SUBSET Names} /\ doc.named \in BOOLEAN
      /\ doc = [providers |-> doc.providers, named |-> doc.named]
  BY DEF Document
<1>2. PICK S \in SUBSET Names : doc.providers \in [S -> Entry]
  BY <1>1
<1>3. DOMAIN doc.providers = S
  BY <1>2
<1>4. QED
  BY <1>1, <1>2, <1>3, FilesAssumption

\* An entry that is not there reads as an entry.
LEMMA BlankIsEntry == Blank \in Entry
BY DEF Blank, entry, Entry, Tokens

\* Whatever is looked up in a document is an entry.
LEMMA AtIsEntry ==
    ASSUME NEW doc \in Document, NEW p
    PROVE  at(doc, p) \in Entry
BY DocumentShape, BlankIsEntry DEF at

\* A document with one entry more, or one entry replaced.
LEMMA WithFacts ==
    ASSUME NEW doc \in Document, NEW p \in Names, NEW e \in Entry
    PROVE  /\ with(doc, p, e) \in Document
           /\ DOMAIN with(doc, p, e).providers = DOMAIN doc.providers \cup {p}
           /\ with(doc, p, e).named = doc.named
           /\ \A q : at(with(doc, p, e), q) = IF q = p THEN e ELSE at(doc, q)
<1>. DEFINE old == doc.providers
            new == [q \in DOMAIN old \cup {p} |-> IF q = p THEN e ELSE old[q]]
<1>1. /\ doc = [providers |-> old, named |-> doc.named] /\ old \in [DOMAIN old -> Entry]
      /\ DOMAIN old \in SUBSET Names /\ doc.named \in BOOLEAN
  BY DocumentShape
<1>2. DOMAIN new = DOMAIN old \cup {p}
  OBVIOUS
<1>3. \A q \in DOMAIN new : new[q] = IF q = p THEN e ELSE old[q]
  OBVIOUS
<1>4. new \in [DOMAIN old \cup {p} -> Entry]
  BY <1>1
<1>5. with(doc, p, e) = [providers |-> new, named |-> doc.named]
  BY <1>1 DEF with
<1>. HIDE DEF new
<1>6. with(doc, p, e).providers = new /\ with(doc, p, e).named = doc.named
  BY <1>5
<1>7. DOMAIN old \cup {p} \in SUBSET Names
  BY <1>1
<1>8. with(doc, p, e) \in Document
  BY <1>1, <1>4, <1>5, <1>7 DEF Document
<1>9. \A q : at(with(doc, p, e), q) = IF q = p THEN e ELSE at(doc, q)
  BY <1>2, <1>3, <1>6 DEF at
<1>10. QED
  BY <1>2, <1>6, <1>8, <1>9

\* The parts of an entry.
LEMMA EntryShape ==
    ASSUME NEW e \in Entry
    PROVE  e = entry(e.url, e.token, e.legacy) /\ e.url \in Url \cup {None} /\ e.token \in Tokens /\ e.legacy \in Tokens
BY DEF Entry, entry

\* An entry made of its parts.
LEMMA MadeEntry ==
    ASSUME NEW u \in Url \cup {None}, NEW t \in Tokens, NEW l \in Tokens
    PROVE  entry(u, t, l) \in Entry /\ entry(u, t, l).url = u /\ entry(u, t, l).token = t
           /\ entry(u, t, l).legacy = l
BY DEF Entry, entry

\* The parts of a form.
LEMMA ConfigShape ==
    ASSUME NEW cfg \in Config
    PROVE  /\ cfg # None /\ cfg.provider \in Names \cup {None}
           /\ cfg.url \in Url \cup {None} /\ cfg.token \in Tokens
BY FilesAssumption DEF Config

\* A form made of its parts.
LEMMA MadeConfig ==
    ASSUME NEW p \in Names \cup {None}, NEW u \in Url \cup {None}, NEW t \in Tokens
    PROVE  config(p, u, t) \in Config
BY DEF Config, config

\* merge_openclaw_provider keeps the key where the other entry has none.
LEMMA OverlayFacts ==
    ASSUME NEW e \in Entry, NEW f \in Entry
    PROVE  /\ overlay(e, f) \in Entry
           /\ f.token = None => overlay(e, f).token = e.token
           /\ overlay(e, f).legacy = e.legacy
<1>1. orElse(f.url, e.url) \in Url \cup {None} /\ orElse(f.token, e.token) \in Tokens /\ e.legacy \in Tokens
  BY EntryShape DEF orElse
<1>2. f.token = None => orElse(f.token, e.token) = e.token
  BY DEF orElse
<1>3. LET o == entry(orElse(f.url, e.url), orElse(f.token, e.token), e.legacy)
      IN  o \in Entry /\ o.token = orElse(f.token, e.token) /\ o.legacy = e.legacy
  BY <1>1, MadeEntry
<1>4. QED
  BY <1>2, <1>3 DEF overlay

\* The names the service itself uses.
LEMMA NamesFacts == Shared \in Names /\ Auth \in Names /\ None \in Tokens
BY DEF Names, Tokens

\* resolve_openclaw_provider_name always finds a provider.
LEMMA ResolvedName ==
    ASSUME NEW primary \in Document, NEW models \in Document, NEW cfg \in Config \cup {None}
    PROVE  resolve_openclaw_provider_name(primary, models, cfg) \in Names
<1>1. ASSUME NEW doc \in Document, DOMAIN doc.providers # {} PROVE firstOf(doc) \in Names
  BY <1>1, DocumentShape, NamesFacts DEF firstOf
<1>2. cfg # None => cfg.provider \in Names \cup {None}
  BY ConfigShape
<1>3. QED
  BY <1>1, <1>2, NamesFacts DEF resolve_openclaw_provider_name

\* Replacing an entry edits no other one, and changes no key if the new entry
\* has those of the old one.
LEMMA WithKeeps ==
    ASSUME NEW doc \in Document, NEW p \in Names, NEW e \in Entry
    PROVE  /\ entriesKept(doc, with(doc, p, e))
           /\ e.token = at(doc, p).token /\ e.legacy = at(doc, p).legacy => keysKept(doc, with(doc, p, e))
<1>. DEFINE new == with(doc, p, e)
<1>1. /\ DOMAIN new.providers = DOMAIN doc.providers \cup {p} /\ new.named = doc.named
      /\ \A q : at(new, q) = IF q = p THEN e ELSE at(doc, q)
  BY WithFacts
<1>2. \A q \in DOMAIN doc.providers : doc.providers[q] = at(doc, q)
  BY DEF at
<1>. HIDE DEF new
<1>3. \A q \in DOMAIN doc.providers : new.providers[q] = at(new, q)
  BY <1>1 DEF at
<1>4. entriesKept(doc, new)
  BY <1>1, <1>2, <1>3 DEF entriesKept
<1>5. ASSUME e.token = at(doc, p).token, e.legacy = at(doc, p).legacy PROVE keysKept(doc, new)
  BY <1>1, <1>2, <1>3, <1>5 DEF keysKept
<1>6. QED
  BY <1>4, <1>5 DEF new

\* The one-click write of an address.
LEMMA TargetEntryFacts ==
    ASSUME NEW k, NEW doc \in Document, NEW cfg \in Config \cup {None}, NEW g \in Groups
    PROVE  /\ write_target_entry(k, doc, cfg, EntryUrl(g)) \in Document
           /\ entriesKept(doc, write_target_entry(k, doc, cfg, EntryUrl(g)))
           /\ k # "openclaw" => keysKept(doc, write_target_entry(k, doc, cfg, EntryUrl(g)))
<1>1. EntryUrl(g) \in Url /\ build_openclaw_entry_url(EntryUrl(g)) \in Url
  BY CallsAssumption DEF EntryUrl, build_openclaw_entry_url, Url
<1>2. CASE k = "openclaw"
  <2>. DEFINE p == resolve_openclaw_provider_name(doc, Empty, cfg)
              e == entry(build_openclaw_entry_url(EntryUrl(g)), None, None)
  <2>1. p \in Names
    BY ResolvedName, EmptyIsDocument
  <2>2. e \in Entry
    BY <1>1, MadeEntry, NamesFacts
  <2>3. write_target_entry(k, doc, cfg, EntryUrl(g)) = with(doc, p, e)
    BY <1>2 DEF write_target_entry, write_openclaw_config
  <2>. HIDE DEF p, e
  <2>4. QED
    BY <1>2, <2>1, <2>2, <2>3, WithFacts, WithKeeps
<1>3. CASE k # "openclaw"
  <2>. DEFINE e == [at(doc, Shared) EXCEPT !.url = EntryUrl(g)]
  <2>1. at(doc, Shared) \in Entry
    BY AtIsEntry
  <2>2. e \in Entry /\ e.token = at(doc, Shared).token /\ e.legacy = at(doc, Shared).legacy
    BY <1>1, <2>1 DEF Entry
  <2>3. write_target_entry(k, doc, cfg, EntryUrl(g)) = with(doc, Shared, e)
    BY <1>3 DEF write_target_entry
  <2>. HIDE DEF e
  <2>4. QED
    BY <2>2, <2>3, WithFacts, WithKeeps, NamesFacts
<1>4. QED
  BY <1>2, <1>3

\* The full form.
LEMMA FullConfigFacts ==
    ASSUME NEW k \in Kinds, NEW doc \in Document, NEW cfg \in Config
    PROVE  /\ write_full_config(k, doc, cfg) \in Document
           /\ entriesKept(doc, write_full_config(k, doc, cfg))
<1>1. ASSUME NEW p \in Names, NEW e \in Entry, write_full_config(k, doc, cfg) = with(doc, p, e)
      PROVE  /\ write_full_config(k, doc, cfg) \in Document
             /\ entriesKept(doc, write_full_config(k, doc, cfg))
  BY <1>1, WithFacts, WithKeeps
<1>2. /\ at(doc, Shared) \in Entry /\ cfg.url \in Url \cup {None} /\ cfg.token \in Tokens
      /\ cfg.provider \in Names \cup {None}
  BY AtIsEntry, ConfigShape
<1>3. /\ at(doc, Shared).url \in Url \cup {None} /\ at(doc, Shared).token \in Tokens
      /\ at(doc, Shared).legacy \in Tokens
      /\ orElse(cfg.url, at(doc, Shared).url) \in Url \cup {None}
      /\ orElse(cfg.token, at(doc, Shared).token) \in Tokens
      /\ orElse(cfg.provider, Shared) \in Names
  BY <1>2, EntryShape, NamesFacts DEF orElse
<1>4. CASE k = "claude"
  <2>. DEFINE e == [at(doc, Shared) EXCEPT !.url = orElse(cfg.url, @), !.token = orElse(cfg.token, @)]
  <2>1. e \in Entry
    BY <1>2, <1>3 DEF Entry
  <2>2. write_full_config(k, doc, cfg) = with(doc, Shared, e)
    BY <1>4 DEF write_full_config, write_claude_full_config
  <2>3. QED
    BY <1>1, <2>1, <2>2, NamesFacts
<1>5. CASE k = "opencode"
  <2>. DEFINE e == [at(doc, Shared) EXCEPT !.url = orElse(cfg.url, @), !.token = cfg.token]
  <2>1. e \in Entry
    BY <1>2, <1>3 DEF Entry
  <2>2. write_full_config(k, doc, cfg) = with(doc, Shared, e)
    BY <1>5 DEF write_full_config, write_opencode_full_config
  <2>3. QED
    BY <1>1, <2>1, <2>2, NamesFacts
<1>6. CASE k = "codex"
  <2>. DEFINE e == [at(doc, Shared) EXCEPT !.url = orElse(cfg.url, @), !.legacy = None]
  <2>1. e \in Entry
    BY <1>2, <1>3, NamesFacts DEF Entry
  <2>2. write_full_config(k, doc, cfg) = with(doc, Shared, e)
    BY <1>6 DEF write_full_config, write_codex_full_config
  <2>3. QED
    BY <1>1, <2>1, <2>2, NamesFacts
<1>7. CASE k = "openclaw"
  <2>. DEFINE e == entry(cfg.url, cfg.token, None)
  <2>1. e \in Entry
    BY <1>2, NamesFacts, MadeEntry
  <2>2. write_full_config(k, doc, cfg) = with(doc, orElse(cfg.provider, Shared), e)
    BY <1>7 DEF write_full_config, write_openclaw_full_config
  <2>3. QED
    BY <1>1, <1>3, <2>1, <2>2
<1>8. QED
  BY <1>4, <1>5, <1>6, <1>7, CallsAssumption

\* The second file: the key of Codex, or the registry of OpenClaw.  A
\* one-click write merges an entry without a key into the registry.
LEMMA SecondFacts ==
    ASSUME NEW doc \in Document
    PROVE  /\ \A cfg \in Config :
                 /\ write_codex_auth(doc, cfg) \in Document
                 /\ entriesKept(doc, write_codex_auth(doc, cfg))
           /\ \A p \in Names, e \in Entry, preserve \in BOOLEAN :
                 /\ sync_openclaw_provider_to_models_file(doc, p, e, preserve) \in Document
                 /\ entriesKept(doc, sync_openclaw_provider_to_models_file(doc, p, e, preserve))
           /\ \A p \in Names, e \in Entry :
                 e.token = None => keysKept(doc, sync_openclaw_provider_to_models_file(doc, p, e, TRUE))
<1>1. ASSUME NEW cfg \in Config
      PROVE  write_codex_auth(doc, cfg) \in Document /\ entriesKept(doc, write_codex_auth(doc, cfg))
  <2>1. entry(None, cfg.token, None) \in Entry
    BY ConfigShape, NamesFacts, MadeEntry
  <2>2. QED
    BY <2>1, NamesFacts, WithFacts, WithKeeps DEF write_codex_auth
<1>2. ASSUME NEW p \in Names, NEW e \in Entry
      PROVE  /\ with(doc, p, e) \in Document /\ entriesKept(doc, with(doc, p, e))
             /\ with(doc, p, overlay(at(doc, p), e)) \in Document
             /\ entriesKept(doc, with(doc, p, overlay(at(doc, p), e)))
             /\ e.token = None => keysKept(doc, with(doc, p, overlay(at(doc, p), e)))
  <2>1. at(doc, p) \in Entry
    BY AtIsEntry
  <2>2. /\ overlay(at(doc, p), e) \in Entry /\ overlay(at(doc, p), e).legacy = at(doc, p).legacy
        /\ e.token = None => overlay(at(doc, p), e).token = at(doc, p).token
    BY <2>1, OverlayFacts
  <2>3. QED
    BY <2>2, WithFacts, WithKeeps
<1>3. QED
  BY <1>1, <1>2 DEF sync_openclaw_provider_to_models_file, merge_openclaw_provider

\* A file that parses, or is missing, reads as a document.
LEMMA ContentIsDocument ==
    ASSUME NEW f \in File, f # Broken
    PROVE  content(f) \in Document
BY EmptyIsDocument DEF File, content

\* What the service reads from a pair of files is a form, or nothing.
LEMMA ParsedIsConfig ==
    ASSUME NEW k \in Kinds, NEW pair \in Pair, NEW cfg \in Config \cup {None}
    PROVE  parse_agent_config(k, pair, cfg) \in Config \cup {None}
<1>. DEFINE primary == content(pair.primary)
            second == IF pair.second = Broken THEN Empty ELSE content(pair.second)
<1>. SUFFICES ASSUME pair.primary # Broken PROVE parse_agent_config(k, pair, cfg) \in Config
  BY DEF parse_agent_config
<1>1. pair.primary \in File /\ pair.second \in File
  BY DEF Pair
<1>2. primary \in Document /\ second \in Document
  BY <1>1, ContentIsDocument, EmptyIsDocument
<1>. HIDE DEF primary, second
<1>3. ASSUME NEW p PROVE at(primary, p) \in Entry /\ at(second, p) \in Entry
  BY <1>2, AtIsEntry
<1>4. parse_claude_config(primary) \in Config
  BY <1>3, EntryShape, MadeConfig DEF parse_claude_config
<1>5. parse_opencode_config(primary) \in Config
  BY <1>3, EntryShape, NamesFacts, MadeConfig DEF parse_opencode_config, orElse
<1>6. parse_codex_config_with_auth(primary, second) \in Config
  <2>. DEFINE e == IF primary.named THEN at(primary, Shared) ELSE Blank
  <2>1. e \in Entry
    BY <1>3, BlankIsEntry
  <2>. HIDE DEF e
  <2>2. orElse(at(second, Auth).token, e.legacy) \in Tokens /\ e.url \in Url \cup {None}
    BY <1>3, <2>1, EntryShape DEF orElse
  <2>3. QED
    BY <2>2, NamesFacts, MadeConfig DEF parse_codex_config_with_auth, e
<1>7. parse_openclaw_config_with_sources(primary, second, cfg) \in Config
  <2>. DEFINE p == resolve_openclaw_provider_name(primary, second, cfg)
  <2>1. p \in Names
    BY <1>2, ResolvedName
  <2>2. overlay(at(primary, p), at(second, p)) \in Entry
    BY <1>3, OverlayFacts
  <2>3. QED
    BY <2>1, <2>2, EntryShape, MadeConfig DEF parse_openclaw_config_with_sources
<1>8. QED
  BY <1>4, <1>5, <1>6, <1>7, CallsAssumption DEF parse_agent_config, primary, second

----------------------------------------------------------------------------
\* The calls, and what each may rely on.

Pcs == {"idle", "end", "between", "add", "read", "write", "fill", "read second", "write second", "fill second",
        "put", "bind", "source", "reread"}
WritePcs == {"write", "fill", "write second", "fill second"}
Target == [id : Nat, dir : Paths, config : Config \cup {None}, group : Groups \cup {None}]
Call == [pc : Pcs, op : {None, "add", "update", "remove", "group", "config", "source"},
         target : Target \cup {None}, rest : Seq(Target), group : Groups \cup {None},
         config : Config \cup {None}, doc : Document \cup {Broken, None}, source : {"primary", "second", None},
         parsed : Config \cup {None}, buffer : Document \cup {None}, ok : BOOLEAN, alone : BOOLEAN,
         before : Pair \cup {None}, torn : Files \cup {None}]

\* The values of the variables.
TypeOK ==
    /\ kind \in Kinds /\ headless \in BOOLEAN /\ home \in Paths
    /\ fs \in [Dirs -> Pair \cup {None}]
    /\ saved \subseteq Target /\ persisted \subseteq Target
    /\ call \in [Callers -> Call] /\ calls \in Nat

working(c) == call[c].pc \notin {"idle", "end"}

\* Call r edits the files, for the one-click write or for the full form.
Edits(r) == (r.op = "group" /\ r.group \in Groups) \/ (r.op = "config" /\ r.config \in Config)

\* The fields that are set at each place of a call.
PlaceAt(k, r) ==
    /\ r.pc \notin {"idle", "end"} => r.target \in Target
    /\ r.pc \in {"read", "read second"} => Edits(r)
    /\ r.pc \in WritePcs => Edits(r) \/ (r.op = "source" /\ r.doc \in Document)
    /\ r.pc \in WritePcs \cup {"read second"} => r.buffer \in Document
    /\ r.pc \in {"read second", "write second", "fill second"} => r.op = "source" \/ hasSecond(k, r.op)
    /\ r.pc \in {"between", "bind"} => r.op = "group" /\ r.group \in Groups
    /\ r.pc = "put" => r.op # "group" \/ r.group \in Groups
    /\ r.pc = "between" => r.rest # << >>
    /\ r.pc \notin {"idle", "end"} /\ r.rest # << >> => r.op = "group" /\ r.group \in Groups
    /\ r.pc = "source" => r.op = "source" /\ r.doc \in Document \cup {Broken}
    /\ r.pc = "reread" => r.op = "source" /\ r.doc \in Document
    /\ k = "openclaw" /\ r.op = "group" /\ r.pc \in {"write", "fill", "read second"} =>
          at(r.buffer, resolve_openclaw_provider_name(r.buffer, Empty, r.target.config)).token = None

PlaceInv(c) == PlaceAt(kind, call[c])

\* fileKept, of a call by operation op.
Survives(k, op, which, old, new) ==
    /\ old = Broken => new = Broken
    /\ old \notin {Missing, Broken} =>
          /\ new \notin {Missing, Broken} /\ entriesKept(old, new)
          /\ op = "group" /\ (which = "second" \/ k # "openclaw") => keysKept(old, new)

\* What a call that is alone has done to the files f of its target: the ones
\* it has not come to are as they were, the ones it has written keep what was
\* in them, and so does what it is about to write.
KeptAt(k, r, f) == r.alone /\ r.op \in {"group", "config"} =>
    LET kept(which) == Survives(k, r.op, which, r.before[which], f[which])
        buffered(which) == Survives(k, r.op, which, r.before[which], r.buffer)
    IN  /\ r.pc \notin {"idle", "add", "source", "reread"} /\ r.before \in Pair
        /\ r.pc \in {"read", "write"} => f = r.before
        /\ r.pc \in {"fill", "read second", "write second"} => f["second"] = r.before["second"]
        /\ r.pc \in {"write", "fill"} => buffered("primary")
        /\ r.pc \in {"write second", "fill second"} => buffered("second")
        /\ r.pc \in {"read second", "write second", "fill second", "put", "bind"} => kept("primary")
        /\ r.pc \in {"put", "bind"} => kept("second")
        /\ r.pc \in {"between", "end"} => \A which \in Files : r.torn = which \/ kept(which)

KeptInv(c) == KeptAt(kind, call[c], files(dirOf(c)))

\* No other call is in progress beside one that is, or was, alone.
LoneInv == \A c, d \in Callers : call[c].alone /\ working(d) => d = c

FilesInv == TypeOK /\ LoneInv /\ \A c \in Callers : PlaceInv(c) /\ KeptInv(c)

\* What is known of a call in progress.
LEMMA WorkingFacts ==
    ASSUME FilesInv, NEW c \in Callers, working(c)
    PROVE  /\ TypeOK /\ call[c] \in Call /\ call[c].target \in Target
           /\ call[c].target.config \in Config \cup {None}
           /\ call[c].target.dir \in Paths /\ dirOf(c) \in Dirs
           /\ PlaceInv(c) /\ KeptInv(c)
<1>1. TypeOK /\ call[c] \in Call /\ call[c].target \in Target /\ PlaceInv(c) /\ KeptInv(c)
  BY DEF FilesInv, TypeOK, PlaceInv, PlaceAt, working
<1>2. call[c].target.config \in Config \cup {None} /\ call[c].target.dir \in Paths
  BY <1>1 DEF Target
<1>3. dirOf(c) \in Dirs
  BY <1>2, CallsAssumption DEF dirOf, canonicalize, Paths
<1>4. QED
  BY <1>1, <1>2, <1>3

\* A directory that does not exist reads as one without files.
LEMMA FilesArePair ==
    ASSUME TypeOK, NEW d \in Dirs
    PROVE  files(d) \in Pair /\ files(d).primary \in File /\ files(d).second \in File
<1>1. files(d) \in Pair
  BY DEF TypeOK, files, Pair, File
<1>2. QED
  BY <1>1 DEF Pair

\* A file is put in place of another.
LEMMA FilesPut ==
    ASSUME TypeOK, NEW d \in Dirs, NEW doc \in File, NEW which \in Files,
           fs' = [fs EXCEPT ![d] = [files(d) EXCEPT ![which] = doc]]
    PROVE  /\ fs' \in [Dirs -> Pair \cup {None}] /\ files(d)' \in Pair
           /\ which = "primary" => files(d)'.primary = doc /\ files(d)'.second = files(d).second
           /\ which = "second" => files(d)'.second = doc /\ files(d)'.primary = files(d).primary
<1>. DEFINE new == [files(d) EXCEPT ![which] = doc]
<1>1. files(d) \in Pair /\ which \in {"primary", "second"}
  BY FilesArePair DEF Files
<1>2. /\ new \in Pair /\ (which = "primary" => new.primary = doc /\ new.second = files(d).second)
      /\ (which = "second" => new.second = doc /\ new.primary = files(d).primary)
  BY <1>1 DEF Pair
<1>. HIDE DEF new
<1>3. fs' \in [Dirs -> Pair \cup {None}] /\ fs'[d] = new
  BY <1>2 DEF TypeOK, new
<1>4. files(d)' = new
  BY <1>2, <1>3, FilesAssumption DEF files
<1>5. QED
  BY <1>2, <1>3, <1>4

\* The directory is created, or not even that.
LEMMA FilesCreated ==
    ASSUME TypeOK, NEW d \in Dirs, fs' \in {fs, [fs EXCEPT ![d] = files(d)]}
    PROVE  fs' \in [Dirs -> Pair \cup {None}] /\ files(d)' = files(d)
<1>1. files(d) \in Pair
  BY FilesArePair
<1>2. CASE fs' = fs
  BY <1>2 DEF TypeOK, files
<1>3. CASE fs' = [fs EXCEPT ![d] = files(d)]
  <2>1. fs'[d] = files(d) /\ fs' \in [Dirs -> Pair \cup {None}]
    BY <1>1, <1>3 DEF TypeOK
  <2>2. files(d) # None
    BY <1>1, FilesAssumption
  <2>3. QED
    BY <2>1, <2>2 DEF files
<1>4. QED
  BY <1>2, <1>3

\* An untouched file keeps everything.
LEMMA SameSurvives ==
    ASSUME NEW k, NEW op, NEW which, NEW f \in File
    PROVE  Survives(k, op, which, f, f)
<1>1. f \notin {Missing, Broken} => f \in Document
  BY DEF File
<1>2. entriesKept(f, f) /\ keysKept(f, f)
  BY NamesFacts DEF entriesKept, keysKept
<1>3. QED
  BY <1>1, <1>2 DEF Survives

\* A file that was read is replaced by one made from its content.
LEMMA EditSurvives ==
    ASSUME NEW k, NEW op, NEW which, NEW f \in File, f # Broken, NEW new \in Document,
           entriesKept(content(f), new),
           op = "group" /\ (which = "second" \/ k # "openclaw") => keysKept(content(f), new)
    PROVE  Survives(k, op, which, f, new)
<1>1. new \notin {Missing, Broken}
  BY DocumentShape
<1>2. QED
  BY <1>1 DEF Survives, content

----------------------------------------------------------------------------
\* How a step leaves its call.

\* What stays the same of call r.
SameCall(r, v) == v.op = r.op /\ v.group = r.group /\ v.config = r.config /\ v.alone = r.alone
SameTarget(r, v) == SameCall(r, v) /\ v.target = r.target /\ v.rest = r.rest /\ v.before = r.before

\* A call goes on to place l with buffer b and parsed form q.
Moves(c, l, b, q) ==
    \/ call' = [call EXCEPT ![c].pc = l] /\ b = call[c].buffer /\ q = call[c].parsed
    \/ call' = [call EXCEPT ![c].pc = l, ![c].buffer = b] /\ q = call[c].parsed
    \/ call' = [call EXCEPT ![c].parsed = q, ![c].pc = l] /\ b = call[c].buffer
    \/ call' = [call EXCEPT ![c].parsed = q, ![c].buffer = b, ![c].pc = l]

\* A call is done with a target, of which it may have torn a file.
Ends(c, ok, torn) == call' = [call EXCEPT ![c] = [ended(c, ok) EXCEPT !.torn = torn]]

\* A call is updated.
LEMMA CallUpdate ==
    ASSUME TypeOK, NEW c \in Callers, NEW v \in Call, call' = [call EXCEPT ![c] = v]
    PROVE  /\ call' \in [Callers -> Call] /\ call'[c] = v
           /\ \A d \in Callers \ {c} : call'[d] = call[d]
BY DEF TypeOK

\* The call as a step that goes on leaves it.
LEMMA MoveShape ==
    ASSUME FilesInv, NEW c \in Callers, working(c), NEW l, NEW b, NEW q, Moves(c, l, b, q)
    PROVE  /\ \A d \in Callers \ {c} : call'[d] = call[d]
           /\ SameTarget(call[c], call'[c]) /\ call'[c].pc = l /\ call'[c].buffer = b
           /\ call'[c].doc = call[c].doc
           /\ l \in Pcs /\ b \in Document \cup {None} /\ q \in Config \cup {None} => call' \in [Callers -> Call]
<1>. DEFINE v == [call[c] EXCEPT !.pc = l, !.buffer = b, !.parsed = q]
<1>1. TypeOK /\ call[c] \in Call
  BY WorkingFacts
<1>2. call' = [call EXCEPT ![c] = v]
  <2>1. CASE call' = [call EXCEPT ![c].pc = l] /\ b = call[c].buffer /\ q = call[c].parsed
    BY <1>1, <2>1 DEF Call, TypeOK
  <2>2. CASE call' = [call EXCEPT ![c].pc = l, ![c].buffer = b] /\ q = call[c].parsed
    BY <1>1, <2>2 DEF Call, TypeOK
  <2>3. CASE call' = [call EXCEPT ![c].parsed = q, ![c].pc = l] /\ b = call[c].buffer
    BY <1>1, <2>3 DEF Call, TypeOK
  <2>4. CASE call' = [call EXCEPT ![c].parsed = q, ![c].buffer = b, ![c].pc = l]
    BY <1>1, <2>4 DEF Call, TypeOK
  <2>5. QED
    BY <2>1, <2>2, <2>3, <2>4 DEF Moves
<1>3. /\ SameTarget(call[c], v) /\ v.pc = l /\ v.buffer = b /\ v.doc = call[c].doc
      /\ l \in Pcs /\ b \in Document \cup {None} /\ q \in Config \cup {None} => v \in Call
  BY <1>1 DEF SameTarget, SameCall, Call
<1>. HIDE DEF v
<1>4. call'[c] = v /\ \A d \in Callers \ {c} : call'[d] = call[d]
  BY <1>1, <1>2 DEF TypeOK
<1>5. v \in Call => call' \in [Callers -> Call]
  BY <1>1, <1>2, CallUpdate
<1>6. QED
  BY <1>3, <1>4, <1>5

\* end tears no file.
LEMMA EndIsEnds ==
    ASSUME FilesInv, NEW c \in Callers, working(c), NEW ok \in BOOLEAN, end(c, ok)
    PROVE  Ends(c, ok, call[c].torn)
<1>1. call[c] \in Call
  BY WorkingFacts
<1>2. [ended(c, ok) EXCEPT !.torn = call[c].torn] = ended(c, ok)
  BY <1>1 DEF ended, Call
<1>3. QED
  BY <1>2 DEF Ends, end

\* The call as a step that ends it leaves it, with a file torn or not.
LEMMA TornShape ==
    ASSUME FilesInv, NEW c \in Callers, working(c), NEW ok \in BOOLEAN, NEW torn, Ends(c, ok, torn)
    PROVE  /\ \A d \in Callers \ {c} : call'[d] = call[d]
           /\ SameTarget(call[c], call'[c]) /\ call'[c].ok = ok /\ call'[c].torn = torn
           /\ call'[c].pc = IF call[c].rest = << >> THEN "end" ELSE "between"
           /\ torn \in Files \cup {None} => call' \in [Callers -> Call]
<1>. DEFINE e == ended(c, ok)
            v == [e EXCEPT !.torn = torn]
            p == [call[c] EXCEPT !.pc = IF call[c].rest = << >> THEN "end" ELSE "between", !.ok = ok]
            q == [p EXCEPT !.doc = None, !.source = None]
<1>1. TypeOK /\ call[c] \in Call
  BY WorkingFacts
<1>2. call' = [call EXCEPT ![c] = v]
  BY DEF Ends
<1>3. /\ SameTarget(call[c], e) /\ e.ok = ok /\ e \in Call
      /\ e.pc = IF call[c].rest = << >> THEN "end" ELSE "between"
  <2>1. e = [[q EXCEPT !.buffer = None] EXCEPT !.parsed = None]
    BY <1>1 DEF ended, Call
  <2>. DEFINE l == IF call[c].rest = << >> THEN "end" ELSE "between"
              o == [call[c] EXCEPT !.pc = l]
  <2>2. /\ SameTarget(call[c], p) /\ p.ok = ok /\ p \in Call
        /\ p.pc = IF call[c].rest = << >> THEN "end" ELSE "between"
    <3>1. l \in Pcs
      BY DEF Pcs
    <3>2. p = [o EXCEPT !.ok = ok]
      BY <1>1 DEF Call
    <3>. HIDE DEF l, p
    <3>3. /\ o.pc = l /\ o \in Call /\ o.op = call[c].op /\ o.group = call[c].group /\ o.config = call[c].config
          /\ o.alone = call[c].alone /\ o.target = call[c].target /\ o.rest = call[c].rest
          /\ o.before = call[c].before
      BY <1>1, <3>1 DEF Call
    <3>. HIDE DEF o
    <3>4. p.pc = l /\ p.ok = ok /\ p \in Call /\ SameTarget(call[c], p)
      BY <3>2, <3>3 DEF SameTarget, SameCall, Call
    <3>5. QED
      BY <3>4 DEF l
  <2>. HIDE DEF e, p
  <2>. DEFINE w == [p EXCEPT !.doc = None]
  <2>3. SameTarget(call[c], q) /\ q.ok = p.ok /\ q.pc = p.pc /\ q \in Call
    <3>1. q = [w EXCEPT !.source = None]
      BY <2>2 DEF Call
    <3>. HIDE DEF q
    <3>2. SameTarget(call[c], w) /\ w.ok = p.ok /\ w.pc = p.pc /\ w \in Call
      BY <2>2 DEF SameTarget, SameCall, Call
    <3>. HIDE DEF w
    <3>3. QED
      BY <3>1, <3>2 DEF SameTarget, SameCall, Call
  <2>. DEFINE u == [q EXCEPT !.buffer = None]
  <2>. HIDE DEF q
  <2>4. SameTarget(call[c], u) /\ u.ok = q.ok /\ u.pc = q.pc /\ u \in Call
    BY <2>3 DEF SameTarget, SameCall, Call
  <2>5. e = [u EXCEPT !.parsed = None]
    BY <2>1
  <2>. HIDE DEF u
  <2>6. SameTarget(call[c], e) /\ e.ok = u.ok /\ e.pc = u.pc /\ e \in Call
    BY <2>4, <2>5 DEF SameTarget, SameCall, Call
  <2>7. QED
    BY <2>2, <2>3, <2>4, <2>6
<1>. HIDE DEF e
<1>4. /\ v.ok = e.ok /\ v.torn = torn /\ v.pc = e.pc /\ (torn \in Files \cup {None} => v \in Call)
      /\ v.op = e.op /\ v.group = e.group /\ v.config = e.config /\ v.alone = e.alone
      /\ v.target = e.target /\ v.rest = e.rest /\ v.before = e.before
  BY <1>3 DEF Call
<1>5. SameTarget(call[c], v)
  BY <1>3, <1>4 DEF SameTarget, SameCall
<1>. HIDE DEF v
<1>6. call'[c] = v /\ \A d \in Callers \ {c} : call'[d] = call[d]
  BY <1>1, <1>2 DEF TypeOK
<1>7. v \in Call => call' \in [Callers -> Call]
  BY <1>1, <1>2, CallUpdate
<1>8. QED
  BY <1>3, <1>4, <1>5, <1>6, <1>7

\* The call as a step that ends it leaves it.
LEMMA EndShape ==
    ASSUME FilesInv, NEW c \in Callers, working(c), NEW ok \in BOOLEAN, end(c, ok)
    PROVE  /\ \A d \in Callers \ {c} : call'[d] = call[d]
           /\ SameTarget(call[c], call'[c]) /\ call'[c].ok = ok /\ call'[c].torn = call[c].torn
           /\ call'[c].pc = IF call[c].rest = << >> THEN "end" ELSE "between"
           /\ call' \in [Callers -> Call]
<1>1. Ends(c, ok, call[c].torn)
  BY EndIsEnds
<1>2. call[c].torn \in Files \cup {None}
  BY WorkingFacts DEF Call
<1>3. QED
  BY <1>1, <1>2, TornShape

\* The files of a call that keeps its target, as long as none is written.
LEMMA SameFilesOf ==
    ASSUME NEW c \in Callers, SameTarget(call[c], call'[c]), UNCHANGED fs
    PROVE  dirOf(c)' = dirOf(c) /\ files(dirOf(c))' = files(dirOf(c))
BY DEF SameTarget, dirOf, files

\* The files of a call that keeps its target, one of them being written.
LEMMA PutFilesOf ==
    ASSUME FilesInv, NEW c \in Callers, working(c), SameTarget(call[c], call'[c]),
           NEW doc \in File, NEW which \in Files, put(c, which, doc)
    PROVE  /\ fs' \in [Dirs -> Pair \cup {None}] /\ files(dirOf(c))' \in Pair
           /\ which = "primary" => files(dirOf(c))'.primary = doc /\ files(dirOf(c))'.second = files(dirOf(c)).second
           /\ which = "second" => files(dirOf(c))'.second = doc /\ files(dirOf(c))'.primary = files(dirOf(c)).primary
<1>1. TypeOK /\ dirOf(c) \in Dirs /\ dirOf(c)' = dirOf(c)
  BY WorkingFacts DEF SameTarget, dirOf
<1>2. PICK d \in Dirs : d = dirOf(c)
  BY <1>1
<1>3. fs' = [fs EXCEPT ![d] = [files(d) EXCEPT ![which] = doc]]
  BY <1>2 DEF put
<1>4. /\ fs' \in [Dirs -> Pair \cup {None}] /\ files(d)' \in Pair
      /\ which = "primary" => files(d)'.primary = doc /\ files(d)'.second = files(d).second
      /\ which = "second" => files(d)'.second = doc /\ files(d)'.primary = files(d).primary
  BY <1>1, <1>3, FilesPut
<1>5. files(dirOf(c))' = files(d)'
  BY <1>1, <1>2 DEF files
<1>6. QED
  BY <1>2, <1>4, <1>5

\* A step of a call in progress keeps the invariant if it keeps the part of
\* that call: no other one is alone.
LEMMA OthersKeep ==
    ASSUME FilesInv, TypeOK', NEW c \in Callers, working(c),
           \A d \in Callers \ {c} : call'[d] = call[d],
           call'[c].alone = call[c].alone,
           UNCHANGED kind, PlaceInv(c)', KeptInv(c)'
    PROVE  FilesInv'
<1>1. \A d \in Callers : call'[d].alone = call[d].alone /\ (working(d)' => working(d))
  BY DEF working
<1>2. LoneInv'
  BY <1>1 DEF FilesInv, LoneInv
<1>3. ASSUME NEW d \in Callers \ {c} PROVE PlaceInv(d)' /\ KeptInv(d)'
  <2>1. call'[d] = call[d] /\ PlaceInv(d) /\ ~call[d].alone
    BY DEF FilesInv, LoneInv
  <2>2. QED
    BY <2>1 DEF PlaceInv, KeptInv, KeptAt
<1>4. QED
  BY <1>2, <1>3 DEF FilesInv

\* A call that ends, or goes on to the next target: either it has not
\* touched the files, or it has torn one, or it has written them all.
LEMMA EndStep ==
    ASSUME FilesInv, NEW c \in Callers, working(c), call[c].pc # "between", NEW torn \in Files \cup {None},
           \A d \in Callers \ {c} : call'[d] = call[d],
           SameTarget(call[c], call'[c]), call'[c].torn = torn, call' \in [Callers -> Call],
           call'[c].pc = IF call[c].rest = << >> THEN "end" ELSE "between",
           call[c].pc \in Pcs \ {"fill", "fill second"} =>
              files(dirOf(c))' = files(dirOf(c)),
           call[c].pc = "fill" => torn = "primary" /\ files(dirOf(c))'.second = files(dirOf(c)).second,
           call[c].pc = "fill second" => torn = "second" /\ files(dirOf(c))'.primary = files(dirOf(c)).primary,
           fs' \in [Dirs -> Pair \cup {None}], saved' \subseteq Target, persisted' \subseteq Target,
           UNCHANGED <<kind, headless, home, calls>>
    PROVE  FilesInv'
<1>. DEFINE r == call[c]
            v == call'[c]
            f == files(dirOf(c))
            g == files(dirOf(c))'
<1>1. /\ TypeOK /\ r \in Call /\ PlaceInv(c) /\ KeptInv(c) /\ f \in Pair /\ f.primary \in File /\ f.second \in File
  BY WorkingFacts, FilesArePair
<1>2. /\ \A d \in Callers \ {c} : call'[d] = call[d]
      /\ SameTarget(r, v) /\ v.torn = torn /\ call' \in [Callers -> Call]
      /\ v.pc = IF r.rest = << >> THEN "end" ELSE "between"
  OBVIOUS
<1>3. TypeOK'
  BY <1>1, <1>2 DEF TypeOK
<1>4. PlaceInv(c)'
  <2>1. PlaceAt(kind, r)
    BY <1>1 DEF PlaceInv
  <2>2. PlaceAt(kind, v)
    BY <1>2, <2>1 DEF PlaceAt, SameTarget, SameCall, working, WritePcs
  <2>3. QED
    BY <2>2 DEF PlaceInv
<1>5. KeptInv(c)'
  <2>1. KeptAt(kind, r, f)
    BY <1>1 DEF KeptInv
  <2>2. KeptAt(kind, v, g)
    <3>. SUFFICES ASSUME v.alone, v.op \in {"group", "config"} PROVE KeptAt(kind, v, g)
      BY DEF KeptAt
    <3>1. r.alone /\ r.op = v.op /\ r.before = v.before /\ v.pc \in {"end", "between"}
      BY <1>2 DEF SameTarget, SameCall
    <3>2. r.before \in Pair /\ r.pc \in Pcs \ {"idle", "add", "source", "reread"}
      BY <1>1, <2>1, <3>1 DEF KeptAt, Call
    <3>3. ASSUME NEW which \in Files, torn # which
          PROVE  Survives(kind, r.op, which, r.before[which], g[which])
      <4>1. which = "primary" \/ which = "second"
        BY DEF Files
      <4>2. CASE r.pc \in {"read", "write"}
        <5>1. g = r.before
          BY <2>1, <3>1, <4>2 DEF KeptAt, Pcs
        <5>2. QED
          BY <1>1, <2>1, <3>1, <4>1, <4>2, <5>1, SameSurvives DEF KeptAt, Pair
      <4>3. CASE r.pc \in {"read second", "write second"}
        <5>1. g = f
          BY <4>3 DEF Pcs
        <5>2. f["second"] = r.before["second"] /\ Survives(kind, r.op, "primary", r.before["primary"], f["primary"])
          BY <2>1, <3>1, <4>3 DEF KeptAt
        <5>3. Survives(kind, r.op, "second", f["second"], f["second"])
          BY <1>1, SameSurvives
        <5>4. QED
          BY <4>1, <5>1, <5>2, <5>3
      <4>4. CASE r.pc \in {"put", "bind"}
        <5>1. g = f
          BY <4>4 DEF Pcs
        <5>2. QED
          BY <2>1, <3>1, <4>1, <4>4, <5>1 DEF KeptAt
      <4>5. CASE r.pc = "fill"
        <5>1. which = "second" /\ g["second"] = f["second"] /\ f["second"] = r.before["second"]
          BY <2>1, <3>1, <3>3, <4>1, <4>5 DEF KeptAt
        <5>2. QED
          BY <1>1, <5>1, SameSurvives
      <4>6. CASE r.pc = "fill second"
        <5>1. which = "primary" /\ g["primary"] = f["primary"]
          BY <3>3, <4>1, <4>6
        <5>2. QED
          BY <2>1, <3>1, <4>6, <5>1 DEF KeptAt
      <4>7. r.pc \notin {"between", "end"}
        BY DEF working
      <4>8. QED
        BY <3>2, <4>2, <4>3, <4>4, <4>5, <4>6, <4>7 DEF Pcs
    <3>5. QED
      BY <1>2, <3>1, <3>2, <3>3 DEF KeptAt
  <2>3. QED
    BY <2>2 DEF KeptInv
<1>6. QED
  BY <1>2, <1>3, <1>4, <1>5, OthersKeep DEF SameTarget, SameCall

\* A call that ends and leaves the files as they are.
LEMMA EndQuietly ==
    ASSUME FilesInv, NEW c \in Callers, working(c), call[c].pc \notin {"between", "fill", "fill second"},
           NEW ok \in BOOLEAN, end(c, ok),
           saved' \subseteq Target, persisted' \subseteq Target,
           UNCHANGED <<kind, headless, home, fs, calls>>
    PROVE  FilesInv'
<1>1. TypeOK /\ call[c] \in Call
  BY WorkingFacts
<1>2. call[c].torn \in Files \cup {None} /\ fs' \in [Dirs -> Pair \cup {None}]
  BY <1>1 DEF TypeOK, Call
<1>3. /\ \A d \in Callers \ {c} : call'[d] = call[d]
      /\ SameTarget(call[c], call'[c]) /\ call'[c].torn = call[c].torn /\ call' \in [Callers -> Call]
      /\ call'[c].pc = IF call[c].rest = << >> THEN "end" ELSE "between"
  BY EndShape
<1>4. files(dirOf(c))' = files(dirOf(c))
  BY <1>3, SameFilesOf
<1>5. QED
  BY <1>2, <1>3, <1>4, EndStep

\* put_target, set_target_group_id and a write of the store keep targets targets.
LEMMA PutType ==
    ASSUME saved \subseteq Target, NEW id \in Nat, NEW dir \in Paths, NEW cfg \in Config \cup {None}
    PROVE  put_target(id, dir, cfg) \subseteq Target
<1>1. canonicalize(dir) \in Paths
  BY CallsAssumption DEF canonicalize, Paths
<1>2. target(id, canonicalize(dir), cfg, None) \in Target
  BY <1>1 DEF target, Target
<1>3. ASSUME NEW t \in Target
      PROVE  [t EXCEPT !.dir = canonicalize(dir), !.config = orElse(cfg, @)] \in Target
  <2>1. orElse(cfg, t.config) \in Config \cup {None}
    BY DEF orElse, Target
  <2>2. QED
    BY <1>1, <2>1 DEF Target
<1>4. QED
  BY <1>2, <1>3 DEF put_target

\* Binding a group to a target leaves targets.
LEMMA BindType ==
    ASSUME saved \subseteq Target, NEW id, NEW g \in Groups
    PROVE  set_target_group_id(id, g) \subseteq Target
<1>1. ASSUME NEW t \in Target PROVE [t EXCEPT !.group = g] \in Target
  BY DEF Target
<1>2. QED
  BY <1>1 DEF set_target_group_id

\* So does an operation of the store, written or not.
LEMMA PersistType ==
    ASSUME TypeOK, NEW S \in SUBSET Target, NEW written, persist(S, written)
    PROVE  saved' \subseteq Target /\ persisted' \subseteq Target
BY DEF TypeOK, persist

\* The steps of a call that work on the store.
LEMMA AddStep ==
    ASSUME FilesInv, NEW c \in Callers, AddTarget(c)
    PROVE  FilesInv'
<1>. DEFINE t == call[c].target
<1>1. working(c) /\ call[c].pc = "add" /\ UNCHANGED <<kind, headless, home, fs, calls>>
  BY DEF AddTarget, working
<1>2. TypeOK /\ t.id \in Nat /\ t.dir \in Paths
  BY <1>1, WorkingFacts DEF Target
<1>3. CASE end(c, FALSE) /\ UNCHANGED <<saved, persisted>>
  BY <1>1, <1>2, <1>3, EndQuietly DEF TypeOK
<1>4. ASSUME NEW written \in BOOLEAN, persist(put_target(t.id, t.dir, None), written), end(c, written)
      PROVE  FilesInv'
  <2>1. put_target(t.id, t.dir, None) \subseteq Target
    BY <1>2, PutType DEF TypeOK
  <2>2. saved' \subseteq Target /\ persisted' \subseteq Target
    BY <1>2, <1>4, <2>1, PersistType
  <2>3. QED
    BY <1>1, <1>4, <2>2, EndQuietly
<1>5. QED
  BY <1>3, <1>4 DEF AddTarget

\* PutTarget keeps the invariant: it changes the store and the place of its call.
LEMMA PutStep ==
    ASSUME FilesInv, NEW c \in Callers, PutTarget(c)
    PROVE  FilesInv'
<1>. DEFINE t == call[c].target
            cfg == IF call[c].op = "config" THEN call[c].config
                   ELSE IF call[c].op = "source" THEN call[c].parsed ELSE t.config
<1>1. working(c) /\ call[c].pc = "put" /\ UNCHANGED <<kind, headless, home, fs, calls>>
  BY DEF PutTarget, working
<1>2. /\ TypeOK /\ call[c] \in Call /\ PlaceInv(c) /\ KeptInv(c)
      /\ t \in Target /\ t.id \in Nat /\ t.dir \in Paths /\ cfg \in Config \cup {None}
  BY <1>1, WorkingFacts DEF Target, Call
<1>3. ASSUME saved' \subseteq Target, persisted' \subseteq Target,
             \/ \E ok \in BOOLEAN : end(c, ok)
             \/ call[c].op = "group" /\ go(c, "bind")
      PROVE  FilesInv'
  <2>1. ASSUME NEW ok \in BOOLEAN, end(c, ok) PROVE FilesInv'
    BY <1>1, <1>3, <2>1, EndQuietly
  <2>2. CASE call[c].op = "group" /\ go(c, "bind")
    <3>. DEFINE r == call[c]
                v == call'[c]
    <3>1. Moves(c, "bind", r.buffer, r.parsed) /\ "bind" \in Pcs /\ r.buffer \in Document \cup {None}
          /\ r.parsed \in Config \cup {None}
      BY <1>2, <2>2 DEF go, Moves, Pcs, Call
    <3>2. /\ \A d \in Callers \ {c} : call'[d] = call[d]
          /\ SameTarget(r, v) /\ v.pc = "bind" /\ call' \in [Callers -> Call]
      BY <1>1, <3>1, MoveShape
    <3>3. TypeOK'
      BY <1>1, <1>2, <1>3, <3>2 DEF TypeOK
    <3>4. PlaceInv(c)'
      BY <1>1, <1>2, <2>2, <3>2 DEF PlaceInv, PlaceAt, SameTarget, SameCall, WritePcs
    <3>5. KeptInv(c)'
      <4>1. KeptAt(kind, v, files(dirOf(c)))
        BY <1>1, <1>2, <3>2 DEF KeptInv, KeptAt, SameTarget, SameCall
      <4>2. files(dirOf(c))' = files(dirOf(c))
        BY <1>1, <3>2, SameFilesOf
      <4>3. QED
        BY <1>1, <4>1, <4>2 DEF KeptInv
    <3>6. QED
      BY <1>1, <3>2, <3>3, <3>4, <3>5, OthersKeep DEF SameTarget, SameCall
  <2>3. QED
    BY <1>3, <2>1, <2>2
<1>4. CASE UNCHANGED <<saved, persisted>>
  BY <1>2, <1>3, <1>4 DEF TypeOK, PutTarget
<1>5. ASSUME NEW written \in BOOLEAN, persist(put_target(t.id, t.dir, cfg), written),
             IF call[c].op # "group" THEN end(c, TRUE)
             ELSE IF written THEN go(c, "bind") ELSE end(c, FALSE)
      PROVE  FilesInv'
  <2>1. put_target(t.id, t.dir, cfg) \subseteq Target
    BY <1>2, PutType DEF TypeOK
  <2>2. saved' \subseteq Target /\ persisted' \subseteq Target
    BY <1>2, <1>5, <2>1, PersistType
  <2>3. \/ \E ok \in BOOLEAN : end(c, ok)
        \/ call[c].op = "group" /\ go(c, "bind")
    BY <1>5, Zenon
  <2>4. QED
    BY <1>3, <2>2, <2>3
<1>. HIDE DEF cfg
<1>6. QED
  BY <1>4, <1>5 DEF PutTarget, cfg

\* BindGroup likewise.
LEMMA BindStep ==
    ASSUME FilesInv, NEW c \in Callers, BindGroup(c)
    PROVE  FilesInv'
<1>. DEFINE id == call[c].target.id
<1>1. working(c) /\ call[c].pc = "bind" /\ UNCHANGED <<kind, headless, home, fs, calls>>
  BY DEF BindGroup, working
<1>2. TypeOK /\ call[c].group \in Groups
  BY <1>1, WorkingFacts DEF PlaceInv, PlaceAt
<1>3. CASE end(c, FALSE) /\ UNCHANGED <<saved, persisted>>
  BY <1>1, <1>2, <1>3, EndQuietly DEF TypeOK
<1>4. ASSUME NEW written \in BOOLEAN, persist(set_target_group_id(id, call[c].group), written), end(c, written)
      PROVE  FilesInv'
  <2>1. set_target_group_id(id, call[c].group) \subseteq Target
    BY <1>2, BindType DEF TypeOK
  <2>2. saved' \subseteq Target /\ persisted' \subseteq Target
    BY <1>2, <1>4, <2>1, PersistType
  <2>3. QED
    BY <1>1, <1>4, <2>2, EndQuietly
<1>5. QED
  BY <1>3, <1>4 DEF BindGroup

\* The next target of a one-click write: its files are looked at anew.
LEMMA NextTargetStep ==
    ASSUME FilesInv, NEW c \in Callers, NextTarget(c)
    PROVE  FilesInv'
<1>. DEFINE r == call[c]
            next == Head(r.rest)
            seen == IF r.alone THEN files(canonicalize(next.dir)) ELSE None
            v == [r EXCEPT !.pc = "read", !.target = next, !.rest = Tail(@), !.before = seen, !.torn = None]
<1>1. working(c) /\ r.pc = "between" /\ UNCHANGED <<kind, headless, home, fs, saved, persisted, calls>>
  BY DEF NextTarget, working
<1>2. TypeOK /\ r \in Call /\ r.op = "group" /\ r.group \in Groups /\ r.rest # << >>
  BY <1>1, WorkingFacts DEF PlaceInv, PlaceAt
<1>3. next \in Target /\ Tail(r.rest) \in Seq(Target)
  BY <1>2 DEF Call
<1>4. canonicalize(next.dir) \in Dirs
  BY <1>3, CallsAssumption DEF Target, canonicalize, Paths
<1>5. seen \in Pair \cup {None} /\ (r.alone => seen = files(canonicalize(next.dir)) /\ seen \in Pair)
  BY <1>2, <1>4, FilesArePair
<1>6. call' = [call EXCEPT ![c] = v]
  BY <1>2 DEF NextTarget, TypeOK
<1>. HIDE DEF seen, next
<1>7. /\ v \in Call /\ v.pc = "read" /\ v.target = next /\ v.op = "group" /\ v.group = r.group
      /\ v.alone = r.alone /\ v.before = seen
  BY <1>2, <1>3, <1>5 DEF Call, Pcs
<1>. HIDE DEF v
<1>8. call'[c] = v /\ call' \in [Callers -> Call] /\ \A d \in Callers \ {c} : call'[d] = call[d]
  BY <1>2, <1>6, <1>7, CallUpdate
<1>9. TypeOK'
  BY <1>1, <1>2, <1>8 DEF TypeOK
<1>10. PlaceInv(c)'
  BY <1>2, <1>3, <1>7, <1>8 DEF PlaceInv, PlaceAt, Edits, WritePcs
<1>11. KeptInv(c)'
  <2>1. files(dirOf(c))' = files(canonicalize(next.dir))
    BY <1>1, <1>7, <1>8 DEF dirOf, files
  <2>2. KeptAt(kind, v, files(canonicalize(next.dir)))
    BY <1>5, <1>7 DEF KeptAt
  <2>3. QED
    BY <1>1, <1>8, <2>1, <2>2 DEF KeptInv
<1>12. QED
  BY <1>1, <1>7, <1>8, <1>9, <1>10, <1>11, OthersKeep
\* The name that is resolved does not change when its entry is written.
LEMMA ResolvedAgain ==
    ASSUME NEW doc \in Document, NEW cfg \in Config \cup {None}, NEW e \in Entry, NEW new,
           new = with(doc, resolve_openclaw_provider_name(doc, Empty, cfg), e)
    PROVE  resolve_openclaw_provider_name(new, Empty, cfg) = resolve_openclaw_provider_name(doc, Empty, cfg)
<1>. DEFINE p == resolve_openclaw_provider_name(doc, Empty, cfg)
            first(S) == IF Shared \in S THEN Shared ELSE CHOOSE q \in S : TRUE
<1>1. p \in Names
  BY ResolvedName, EmptyIsDocument
<1>2. DOMAIN new.providers = DOMAIN doc.providers \cup {p}
  BY <1>1, WithFacts
<1>3. CASE cfg # None /\ cfg.provider # None
  BY <1>3 DEF resolve_openclaw_provider_name
<1>4. CASE ~(cfg # None /\ cfg.provider # None) /\ DOMAIN doc.providers # {}
  <2>1. p = firstOf(doc)
    BY <1>4 DEF resolve_openclaw_provider_name
  <2>2. p \in DOMAIN doc.providers
    BY <1>4, <2>1 DEF firstOf
  <2>3. DOMAIN new.providers = DOMAIN doc.providers
    BY <1>2, <2>2
  <2>4. resolve_openclaw_provider_name(new, Empty, cfg) = firstOf(new)
    BY <1>4, <2>3 DEF resolve_openclaw_provider_name
  <2>5. firstOf(new) = first(DOMAIN new.providers) /\ firstOf(doc) = first(DOMAIN doc.providers)
    BY Zenon DEF firstOf
  <2>. HIDE DEF first, p
  <2>6. QED
    BY <2>1, <2>3, <2>4, <2>5 DEF p
<1>5. CASE ~(cfg # None /\ cfg.provider # None) /\ DOMAIN doc.providers = {}
  <2>1. DOMAIN Empty.providers = {}
    BY DEF Empty
  <2>2. p = Shared
    BY <1>5, <2>1 DEF resolve_openclaw_provider_name
  <2>3. DOMAIN new.providers = {Shared}
    BY <1>2, <1>5, <2>2
  <2>4. resolve_openclaw_provider_name(new, Empty, cfg) = Shared
    BY <1>5, <2>3 DEF resolve_openclaw_provider_name, firstOf
  <2>5. QED
    BY <2>2, <2>4
<1>6. QED
  BY <1>3, <1>4, <1>5

\* The entry the one-click write makes for OpenClaw has no key.
LEMMA EntryWithoutKey ==
    ASSUME NEW doc \in Document, NEW cfg \in Config \cup {None}, NEW g \in Groups, NEW new,
           new = write_target_entry("openclaw", doc, cfg, EntryUrl(g))
    PROVE  at(new, resolve_openclaw_provider_name(new, Empty, cfg)).token = None
<1>. DEFINE p == resolve_openclaw_provider_name(doc, Empty, cfg)
            e == entry(build_openclaw_entry_url(EntryUrl(g)), None, None)
<1>1. build_openclaw_entry_url(EntryUrl(g)) \in Url
  BY CallsAssumption DEF EntryUrl, build_openclaw_entry_url, Url
<1>2. p \in Names /\ e \in Entry /\ e.token = None
  BY <1>1, ResolvedName, EmptyIsDocument, MadeEntry, NamesFacts
<1>3. new = with(doc, p, e)
  BY DEF write_target_entry, write_openclaw_config
<1>. HIDE DEF e
<1>4. resolve_openclaw_provider_name(new, Empty, cfg) = p
  BY <1>2, <1>3, ResolvedAgain
<1>. HIDE DEF p
<1>5. at(new, p) = e
  BY <1>2, <1>3, WithFacts
<1>6. QED
  BY <1>2, <1>4, <1>5

\* The new contents of a file are computed from what was read.
LEMMA ReadPrimaryStep ==
    ASSUME FilesInv, NEW c \in Callers, ReadPrimary(c)
    PROVE  FilesInv'
<1>. DEFINE r == call[c]
            v == call'[c]
            f == files(dirOf(c))
            doc == content(f.primary)
<1>1. working(c) /\ r.pc = "read" /\ UNCHANGED <<kind, headless, home, fs, saved, persisted, calls>>
  BY DEF ReadPrimary, working
<1>2. /\ TypeOK /\ kind \in Kinds /\ r \in Call /\ r.target \in Target /\ dirOf(c) \in Dirs
      /\ r.target.config \in Config \cup {None} /\ PlaceInv(c) /\ KeptInv(c) /\ Edits(r)
  BY <1>1, WorkingFacts DEF TypeOK, PlaceInv, PlaceAt
<1>3. CASE end(c, FALSE)
  BY <1>1, <1>2, <1>3, EndQuietly DEF TypeOK
<1>4. CASE /\ ~refused(kind, f.primary)
           /\ call' = [call EXCEPT ![c].pc = "write", ![c].buffer = edited(c, doc)]
  <2>1. f.primary \in File /\ f.primary # Broken
    BY <1>2, <1>4, FilesArePair DEF refused
  <2>2. doc \in Document
    BY <2>1, ContentIsDocument
  <2>. HIDE DEF doc
  <2>3. /\ edited(c, doc) \in Document /\ entriesKept(doc, edited(c, doc))
        /\ r.op = "group" /\ kind # "openclaw" => keysKept(doc, edited(c, doc))
        /\ r.op = "group" /\ kind = "openclaw" =>
              at(edited(c, doc), resolve_openclaw_provider_name(edited(c, doc), Empty, r.target.config)).token = None
    <3>1. CASE r.op = "group" /\ r.group \in Groups
      <4>1. edited(c, doc) = write_target_entry(kind, doc, r.target.config, EntryUrl(r.group))
        BY <3>1 DEF edited
      <4>. HIDE DEF r
      <4>2. QED
        BY <1>2, <2>2, <3>1, <4>1, TargetEntryFacts, EntryWithoutKey
    <3>2. CASE r.op = "config" /\ r.config \in Config
      BY <1>2, <2>2, <3>2, FullConfigFacts DEF edited
    <3>3. QED
      BY <1>2, <3>1, <3>2 DEF Edits
  <2>. DEFINE new == edited(c, doc)
  <2>4. Moves(c, "write", new, r.parsed) /\ r.parsed \in Config \cup {None} /\ "write" \in Pcs
    BY <1>2, <1>4 DEF Moves, Call, Pcs, doc
  <2>. HIDE DEF new
  <2>5. /\ \A d \in Callers \ {c} : call'[d] = call[d]
        /\ SameTarget(r, v) /\ v.pc = "write" /\ v.buffer = new /\ call' \in [Callers -> Call]
    BY <1>1, <2>3, <2>4, MoveShape DEF new
  <2>6. TypeOK'
    BY <1>1, <1>2, <2>5 DEF TypeOK
  <2>7. PlaceInv(c)'
    <3>1. PlaceAt(kind, v)
      BY <1>1, <1>2, <2>3, <2>5 DEF PlaceInv, PlaceAt, Edits, SameTarget, SameCall, WritePcs, new
    <3>2. QED
      BY <1>1, <3>1 DEF PlaceInv
  <2>8. KeptInv(c)'
    <3>1. Survives(kind, r.op, "primary", f.primary, new)
      BY <2>1, <2>3, EditSurvives DEF doc, new
    <3>2. KeptAt(kind, v, f)
      BY <1>1, <1>2, <2>5, <3>1 DEF KeptInv, KeptAt, SameTarget, SameCall
    <3>3. files(dirOf(c))' = f
      BY <1>1, <2>5, SameFilesOf
    <3>4. QED
      BY <1>1, <3>2, <3>3 DEF KeptInv
  <2>9. QED
    BY <1>1, <2>5, <2>6, <2>7, <2>8, OthersKeep DEF SameTarget, SameCall
<1>5. QED
  BY <1>3, <1>4 DEF ReadPrimary

\* A file is truncated; what is to be written is in the buffer.
LEMMA TruncateStep ==
    ASSUME FilesInv, NEW c \in Callers, NEW which \in Files, TruncateFile(c, which)
    PROVE  FilesInv'
<1>. DEFINE r == call[c]
            v == call'[c]
            f == files(dirOf(c))
            g == files(dirOf(c))'
<1>1. /\ working(c) /\ r.pc = truncating(which) /\ which \in {"primary", "second"}
      /\ r.pc = IF which = "primary" THEN "write" ELSE "write second"
      /\ UNCHANGED <<kind, headless, home, saved, persisted, calls>>
  BY DEF TruncateFile, working, truncating, Files
<1>2. /\ TypeOK /\ kind \in Kinds /\ r \in Call /\ dirOf(c) \in Dirs /\ PlaceInv(c) /\ KeptInv(c)
      /\ saved \subseteq Target /\ persisted \subseteq Target
  BY <1>1, WorkingFacts DEF TypeOK
<1>3. CASE end(c, FALSE) /\ fs' \in {fs, [fs EXCEPT ![dirOf(c)] = files(dirOf(c))]}
  <2>1. /\ \A d \in Callers \ {c} : call'[d] = call[d]
        /\ SameTarget(r, v) /\ v.torn = r.torn /\ call' \in [Callers -> Call]
        /\ v.pc = IF r.rest = << >> THEN "end" ELSE "between"
        /\ r.torn \in Files \cup {None}
    BY <1>1, <1>2, <1>3, EndShape DEF Call
  <2>2. PICK d \in Dirs : d = dirOf(c)
    BY <1>2
  <2>3. fs' \in [Dirs -> Pair \cup {None}] /\ files(d)' = files(d)
    BY <1>2, <1>3, <2>2, FilesCreated
  <2>4. g = f
    BY <2>1, <2>2, <2>3 DEF SameTarget, dirOf, files
  <2>5. QED
    BY <1>1, <1>2, <1>3, <2>1, <2>3, <2>4, EndStep
<1>4. CASE put(c, which, Empty) /\ go(c, filling(which))
  <2>1. Moves(c, filling(which), r.buffer, r.parsed) /\ filling(which) \in Pcs /\ r.buffer \in Document \cup {None}
        /\ r.parsed \in Config \cup {None} /\ filling(which) = IF which = "primary" THEN "fill" ELSE "fill second"
    BY <1>1, <1>2, <1>4 DEF go, Moves, Pcs, Call, filling
  <2>2. /\ \A d \in Callers \ {c} : call'[d] = call[d]
        /\ SameTarget(r, v) /\ v.pc = filling(which) /\ v.buffer = r.buffer /\ v.doc = r.doc /\ call' \in [Callers -> Call]
    BY <1>1, <2>1, MoveShape
  <2>3. Empty \in File
    BY EmptyIsDocument DEF File
  <2>4. /\ fs' \in [Dirs -> Pair \cup {None}]
        /\ which = "primary" => g.second = f.second
        /\ which = "second" => g.primary = f.primary
    BY <1>1, <1>4, <2>2, <2>3, PutFilesOf
  <2>5. TypeOK'
    BY <1>1, <1>2, <2>2, <2>4 DEF TypeOK
  <2>6. PlaceInv(c)'
    <3>1. PlaceAt(kind, v)
      BY <1>1, <1>2, <2>1, <2>2 DEF PlaceInv, PlaceAt, Edits, SameTarget, SameCall, WritePcs
    <3>2. QED
      BY <1>1, <3>1 DEF PlaceInv
  <2>7. KeptInv(c)'
    <3>1. KeptAt(kind, v, g)
      <4>1. CASE which = "primary"
        BY <1>1, <1>2, <2>1, <2>2, <2>4, <4>1 DEF KeptInv, KeptAt, SameTarget, SameCall
      <4>2. CASE which = "second"
        BY <1>1, <1>2, <2>1, <2>2, <2>4, <4>2 DEF KeptInv, KeptAt, SameTarget, SameCall
      <4>3. QED
        BY <1>1, <4>1, <4>2
    <3>2. QED
      BY <1>1, <3>1 DEF KeptInv
  <2>8. QED
    BY <1>1, <2>2, <2>5, <2>6, <2>7, OthersKeep DEF SameTarget, SameCall
<1>5. QED
  BY <1>3, <1>4 DEF TruncateFile

\* A part of a text is a file.
LEMMA PartIsFile ==
    ASSUME NEW doc \in Document
    PROVE  partial(doc) \subseteq File
<1>1. Empty \in File /\ Broken \in File
  BY EmptyIsDocument DEF File
<1>2. [doc EXCEPT !.providers = << >>] \in Document
  <2>1. /\ doc = [providers |-> doc.providers, named |-> doc.named] /\ doc.named \in BOOLEAN
    BY DocumentShape
  <2>2. << >> \in [{} -> Entry] /\ {} \in SUBSET Names
    OBVIOUS
  <2>3. [doc EXCEPT !.providers = << >>] = [providers |-> << >>, named |-> doc.named]
    BY <2>1
  <2>4. QED
    BY <2>1, <2>2, <2>3 DEF Document
<1>3. QED
  BY <1>1, <1>2 DEF partial, File

\* A file is filled, or torn; the call goes on to the second one, or to the store.
LEMMA FillStep ==
    ASSUME FilesInv, NEW c \in Callers, NEW which \in Files, FillFile(c, which)
    PROVE  FilesInv'
<1>. DEFINE r == call[c]
            v == call'[c]
            f == files(dirOf(c))
            g == files(dirOf(c))'
<1>1. /\ working(c) /\ which \in {"primary", "second"}
      /\ r.pc = IF which = "primary" THEN "fill" ELSE "fill second"
      /\ UNCHANGED <<kind, headless, home, saved, persisted, calls>>
  BY DEF FillFile, working, filling, Files
<1>2. /\ TypeOK /\ kind \in Kinds /\ r \in Call /\ dirOf(c) \in Dirs /\ PlaceInv(c) /\ KeptInv(c)
      /\ saved \subseteq Target /\ persisted \subseteq Target /\ f.second \in File
  BY <1>1, WorkingFacts, FilesArePair DEF TypeOK
<1>3. r.buffer \in Document /\ (Edits(r) \/ (r.op = "source" /\ r.doc \in Document))
  BY <1>1, <1>2 DEF PlaceInv, PlaceAt, WritePcs
<1>4. ASSUME NEW doc \in partial(r.buffer), put(c, which, doc),
             call' = [call EXCEPT ![c] = [ended(c, FALSE) EXCEPT !.torn = which]]
      PROVE  FilesInv'
  <2>1. Ends(c, FALSE, which) /\ doc \in File
    BY <1>3, <1>4, PartIsFile DEF Ends
  <2>2. /\ \A d \in Callers \ {c} : call'[d] = call[d]
        /\ SameTarget(r, v) /\ v.torn = which /\ call' \in [Callers -> Call]
        /\ v.pc = IF r.rest = << >> THEN "end" ELSE "between"
    BY <1>1, <2>1, TornShape
  <2>3. /\ fs' \in [Dirs -> Pair \cup {None}]
        /\ which = "primary" => g.second = f.second
        /\ which = "second" => g.primary = f.primary
    BY <1>1, <1>4, <2>1, <2>2, PutFilesOf
  <2>4. QED
    BY <1>1, <1>2, <2>2, <2>3, EndStep
<1>5. CASE put(c, which, r.buffer) /\ go(c, afterFill(c, which))
  <2>. DEFINE l == afterFill(c, which)
  <2>1. /\ l \in {"reread", "read second", "put"}
        /\ l = "reread" => r.op = "source"
        /\ l = "read second" => r.op # "source" /\ which = "primary" /\ hasSecond(kind, r.op)
    BY DEF afterFill
  <2>2. Moves(c, l, r.buffer, r.parsed) /\ l \in Pcs /\ r.buffer \in Document \cup {None}
        /\ r.parsed \in Config \cup {None}
    BY <1>2, <1>3, <1>5, <2>1 DEF go, Moves, Pcs, Call
  <2>. HIDE DEF l
  <2>3. /\ \A d \in Callers \ {c} : call'[d] = call[d]
        /\ SameTarget(r, v) /\ v.pc = l /\ v.buffer = r.buffer /\ v.doc = r.doc /\ call' \in [Callers -> Call]
    BY <1>1, <2>2, MoveShape
  <2>4. r.buffer \in File
    BY <1>3 DEF File
  <2>5. /\ fs' \in [Dirs -> Pair \cup {None}]
        /\ which = "primary" => g.primary = r.buffer /\ g.second = f.second
        /\ which = "second" => g.second = r.buffer /\ g.primary = f.primary
    BY <1>1, <1>5, <2>3, <2>4, PutFilesOf
  <2>6. TypeOK'
    BY <1>1, <1>2, <2>3, <2>5 DEF TypeOK
  <2>7. PlaceInv(c)'
    <3>1. PlaceAt(kind, v)
      BY <1>1, <1>2, <1>3, <2>1, <2>3 DEF PlaceInv, PlaceAt, Edits, SameTarget, SameCall, WritePcs
    <3>2. QED
      BY <1>1, <3>1 DEF PlaceInv
  <2>8. KeptInv(c)'
    <3>1. KeptAt(kind, v, g)
      <4>. SUFFICES ASSUME v.alone, v.op \in {"group", "config"} PROVE KeptAt(kind, v, g)
        BY DEF KeptAt
      <4>1. /\ r.alone /\ r.op = v.op /\ r.before = v.before /\ r.before \in Pair
            /\ v.pc \in {"read second", "put"} /\ (v.pc = "read second" => which = "primary")
        BY <1>2, <2>1, <2>3 DEF SameTarget, SameCall, KeptInv, KeptAt
      <4>2. CASE which = "primary"
        <5>1. Survives(kind, r.op, "primary", r.before["primary"], r.buffer) /\ f["second"] = r.before["second"]
          BY <1>1, <1>2, <4>1, <4>2 DEF KeptInv, KeptAt
        <5>2. Survives(kind, r.op, "second", f["second"], f["second"])
          BY <1>2, SameSurvives
        <5>3. QED
          BY <2>5, <4>1, <4>2, <5>1, <5>2 DEF KeptAt
      <4>3. CASE which = "second"
        <5>1. /\ Survives(kind, r.op, "second", r.before["second"], r.buffer)
              /\ Survives(kind, r.op, "primary", r.before["primary"], f["primary"])
          BY <1>1, <1>2, <4>1, <4>3 DEF KeptInv, KeptAt
        <5>2. QED
          BY <2>5, <4>1, <4>3, <5>1 DEF KeptAt
      <4>4. QED
        BY <1>1, <4>2, <4>3
    <3>2. QED
      BY <1>1, <3>1 DEF KeptInv
  <2>9. QED
    BY <1>1, <2>3, <2>6, <2>7, <2>8, OthersKeep DEF SameTarget, SameCall
<1>6. QED
  BY <1>4, <1>5 DEF FillFile

\* The provider copied to the registry is one the first file was written
\* with, and a one-click write gave it no key.
LEMMA ProviderFacts ==
    ASSUME FilesInv, NEW c \in Callers, call[c].pc = "read second"
    PROVE  /\ provider(c) \in Names /\ at(call[c].buffer, provider(c)) \in Entry
           /\ call[c].op = "group" => kind = "openclaw" /\ at(call[c].buffer, provider(c)).token = None
<1>1. /\ working(c) /\ PlaceInv(c) /\ call[c].buffer \in Document /\ Edits(call[c])
      /\ call[c].target.config \in Config \cup {None} /\ hasSecond(kind, call[c].op)
  BY WorkingFacts DEF working, PlaceInv, PlaceAt, Edits
<1>2. provider(c) \in Names
  <2>1. CASE call[c].op = "config" /\ call[c].config \in Config
    BY <2>1, ConfigShape, NamesFacts DEF provider, orElse
  <2>2. CASE call[c].op = "group"
    BY <1>1, <2>2, ResolvedName, EmptyIsDocument DEF provider
  <2>3. QED
    BY <1>1, <2>1, <2>2 DEF Edits
<1>3. call[c].op = "group" => kind = "openclaw" /\ at(call[c].buffer, provider(c)).token = None
  BY <1>1 DEF PlaceInv, PlaceAt, hasSecond, provider
<1>4. QED
  BY <1>1, <1>2, <1>3, AtIsEntry

\* The second file is read: what is to be written holds what is in it.
LEMMA ReadSecondStep ==
    ASSUME FilesInv, NEW c \in Callers, ReadSecond(c)
    PROVE  FilesInv'
<1>. DEFINE r == call[c]
            v == call'[c]
            f == files(dirOf(c))
            doc == content(f.second)
<1>1. working(c) /\ r.pc = "read second" /\ UNCHANGED <<kind, headless, home, fs, saved, persisted, calls>>
  BY DEF ReadSecond, working
<1>2. /\ TypeOK /\ r \in Call /\ r.target \in Target /\ dirOf(c) \in Dirs
      /\ PlaceInv(c) /\ KeptInv(c) /\ Edits(r) /\ hasSecond(kind, r.op)
  BY <1>1, WorkingFacts DEF PlaceInv, PlaceAt, Edits
<1>3. CASE end(c, FALSE)
  BY <1>1, <1>2, <1>3, EndQuietly DEF TypeOK
<1>4. CASE /\ f.second # Broken
           /\ call' = [call EXCEPT ![c].pc = "write second", ![c].buffer = editedSecond(c, doc)]
  <2>1. f.second \in File /\ f.second # Broken
    BY <1>2, <1>4, FilesArePair
  <2>2. doc \in Document
    BY <2>1, ContentIsDocument
  <2>. HIDE DEF doc
  <2>3. /\ editedSecond(c, doc) \in Document /\ entriesKept(doc, editedSecond(c, doc))
        /\ r.op = "group" => keysKept(doc, editedSecond(c, doc))
    <3>1. /\ provider(c) \in Names /\ at(r.buffer, provider(c)) \in Entry
          /\ r.op = "group" => kind = "openclaw" /\ at(r.buffer, provider(c)).token = None
      BY <1>1, ProviderFacts
    <3>2. CASE r.op = "group"
      <4>1. editedSecond(c, doc)
              = sync_openclaw_provider_to_models_file(doc, provider(c), at(r.buffer, provider(c)), TRUE)
        BY <3>1, <3>2 DEF editedSecond
      <4>2. QED
        BY <2>2, <3>1, <3>2, <4>1, SecondFacts
    <3>3. CASE r.op = "config" /\ r.config \in Config
      <4>1. \/ editedSecond(c, doc) = write_codex_auth(doc, r.config)
            \/ editedSecond(c, doc)
                 = sync_openclaw_provider_to_models_file(doc, provider(c), at(r.buffer, provider(c)), FALSE)
        BY <3>3 DEF editedSecond
      <4>2. QED
        BY <2>2, <3>1, <3>3, <4>1, SecondFacts
    <3>4. QED
      BY <1>2, <3>2, <3>3 DEF Edits
  <2>. DEFINE new == editedSecond(c, doc)
  <2>4. Moves(c, "write second", new, r.parsed) /\ r.parsed \in Config \cup {None} /\ "write second" \in Pcs
    BY <1>2, <1>4 DEF Moves, Call, Pcs, doc
  <2>. HIDE DEF new
  <2>5. /\ \A d \in Callers \ {c} : call'[d] = call[d]
        /\ SameTarget(r, v) /\ v.pc = "write second" /\ v.buffer = new /\ call' \in [Callers -> Call]
    BY <1>1, <2>3, <2>4, MoveShape DEF new
  <2>6. TypeOK'
    BY <1>1, <1>2, <2>5 DEF TypeOK
  <2>7. PlaceInv(c)'
    <3>1. PlaceAt(kind, v)
      BY <1>1, <1>2, <2>3, <2>5 DEF PlaceInv, PlaceAt, Edits, SameTarget, SameCall, WritePcs, new
    <3>2. QED
      BY <1>1, <3>1 DEF PlaceInv
  <2>8. KeptInv(c)'
    <3>1. Survives(kind, r.op, "second", f.second, new)
      BY <2>1, <2>3, EditSurvives DEF doc, new
    <3>2. KeptAt(kind, v, f)
      BY <1>1, <1>2, <2>5, <3>1 DEF KeptInv, KeptAt, SameTarget, SameCall
    <3>3. files(dirOf(c))' = f
      BY <1>1, <2>5, SameFilesOf
    <3>4. QED
      BY <1>1, <3>2, <3>3 DEF KeptInv
  <2>9. QED
    BY <1>1, <2>5, <2>6, <2>7, <2>8, OthersKeep DEF SameTarget, SameCall
<1>5. QED
  BY <1>3, <1>4 DEF ReadSecond

\* A step of a call that writes the raw text of a file and touches no file yet.
LEMMA SourceMoves ==
    ASSUME FilesInv, NEW c \in Callers, working(c), call[c].op = "source", call[c].rest = << >>,
           call[c].doc \in Document, NEW l \in {"write", "write second", "put"},
           NEW b \in Document \cup {None}, NEW q \in Config \cup {None}, Moves(c, l, b, q),
           l # "put" => b \in Document, UNCHANGED <<kind, headless, home, fs, saved, persisted, calls>>
    PROVE  FilesInv'
<1>. DEFINE v == call'[c]
<1>1. TypeOK /\ call[c].target \in Target /\ l \in Pcs
  BY WorkingFacts DEF Pcs
<1>2. /\ \A d \in Callers \ {c} : call'[d] = call[d]
      /\ SameTarget(call[c], v) /\ v.pc = l /\ v.buffer = b /\ v.doc = call[c].doc /\ call' \in [Callers -> Call]
  BY <1>1, MoveShape
<1>3. TypeOK'
  BY <1>1, <1>2 DEF TypeOK
<1>4. PlaceInv(c)' /\ KeptInv(c)'
  BY <1>1, <1>2 DEF PlaceInv, PlaceAt, KeptInv, KeptAt, SameTarget, SameCall, WritePcs
<1>5. QED
  BY <1>2, <1>3, <1>4, OthersKeep DEF SameTarget, SameCall

\* A pair of files with one of them replaced.
LEMMA PairWith ==
    ASSUME NEW pair \in Pair, NEW doc \in Document, NEW which \in {"primary", "second"}
    PROVE  [pair EXCEPT ![which] = doc] \in Pair
BY DEF Pair, File

\* The raw text is checked.
LEMMA CheckSourceStep ==
    ASSUME FilesInv, NEW c \in Callers, CheckSource(c)
    PROVE  FilesInv'
<1>. DEFINE r == call[c]
            doc == r.doc
            now == files(dirOf(c))
            which == IF r.source = "second" THEN "second" ELSE "primary"
            new == [now EXCEPT ![which] = doc]
            checked == IF r.source = None THEN now ELSE new
            parsed == parse_agent_config(kind, IF kind = "openclaw" THEN checked ELSE new, r.target.config)
<1>1. working(c) /\ r.pc = "source" /\ UNCHANGED <<kind, headless, home, fs, saved, persisted, calls>>
  BY DEF CheckSource, working
<1>2. /\ TypeOK /\ kind \in Kinds /\ r \in Call /\ dirOf(c) \in Dirs /\ doc \in Document \cup {Broken}
      /\ r.op = "source" /\ r.rest = << >> /\ r.target.config \in Config \cup {None} /\ now \in Pair
  BY <1>1, WorkingFacts, FilesArePair DEF PlaceInv, PlaceAt, TypeOK
<1>3. CASE end(c, FALSE)
  BY <1>1, <1>2, <1>3, EndQuietly DEF TypeOK
<1>4. CASE /\ doc # Broken
           /\ call' = [call EXCEPT ![c].parsed = parsed, ![c].buffer = doc, ![c].pc = truncating(which)]
  <2>1. doc \in Document /\ which \in {"primary", "second"} /\ truncating(which) \in {"write", "write second"}
    BY <1>2, <1>4 DEF truncating
  <2>. HIDE DEF which
  <2>2. new \in Pair
    BY <1>2, <2>1, PairWith
  <2>. HIDE DEF now, new
  <2>3. checked \in Pair
    BY <1>2, <2>2
  <2>4. parsed \in Config \cup {None}
    BY <1>2, <2>2, <2>3, ParsedIsConfig
  <2>. HIDE DEF parsed
  <2>5. Moves(c, truncating(which), doc, parsed)
    BY <1>4 DEF Moves
  <2>6. QED
    BY <1>1, <1>2, <2>1, <2>4, <2>5, SourceMoves
<1>5. QED
  BY <1>3, <1>4 DEF CheckSource

\* Codex reads its files again.
LEMMA RereadSourceStep ==
    ASSUME FilesInv, NEW c \in Callers, RereadSource(c)
    PROVE  FilesInv'
<1>. DEFINE r == call[c]
            now == files(dirOf(c))
            read == IF r.source = "second" THEN [now EXCEPT !.second = r.doc] ELSE now
            parsed == parse_agent_config(kind, read, r.target.config)
<1>1. /\ working(c) /\ r.pc = "reread" /\ UNCHANGED <<kind, headless, home, fs, saved, persisted, calls>>
      /\ call' = [call EXCEPT ![c].parsed = parsed, ![c].pc = "put"]
  BY DEF RereadSource, working
<1>2. /\ TypeOK /\ kind \in Kinds /\ r \in Call /\ dirOf(c) \in Dirs /\ r.doc \in Document
      /\ r.op = "source" /\ r.rest = << >> /\ r.target.config \in Config \cup {None} /\ now \in Pair
  BY <1>1, WorkingFacts, FilesArePair DEF PlaceInv, PlaceAt, TypeOK
<1>3. read \in Pair
  BY <1>2, PairWith
<1>. HIDE DEF read
<1>4. parsed \in Config \cup {None}
  BY <1>2, <1>3, ParsedIsConfig
<1>. HIDE DEF parsed
<1>5. Moves(c, "put", r.buffer, parsed) /\ r.buffer \in Document \cup {None}
  BY <1>1, <1>2 DEF Moves, Call
<1>6. QED
  BY <1>1, <1>2, <1>4, <1>5, SourceMoves

\* The call of a caller that makes none.
LEMMA IdleIsCall ==
    Idle \in Call /\ Idle.rest = << >> /\ Idle.ok = FALSE /\ Idle.alone = FALSE /\ Idle.pc = "idle" /\ Idle.op = None
BY DEF Idle, Call, Pcs

\* Where a call begins.
LEMMA StartPcs == "add" \in Pcs /\ "end" \in Pcs /\ "read" \in Pcs /\ "source" \in Pcs
BY DEF Pcs

\* A call made from it.
Fresh(pc, op, t) == [Idle EXCEPT !.pc = pc, !.op = op, !.target = t]

\* It is a call.
LEMMA FreshIsCall ==
    ASSUME NEW pc \in Pcs, NEW op \in {"add", "update", "remove", "group", "config", "source"}, NEW t \in Target
    PROVE  /\ Fresh(pc, op, t) \in Call /\ Fresh(pc, op, t).pc = pc /\ Fresh(pc, op, t).op = op
           /\ Fresh(pc, op, t).target = t /\ ~Fresh(pc, op, t).ok /\ Fresh(pc, op, t).rest = << >>
<1>. DEFINE p == [Idle EXCEPT !.pc = pc]
            q == [p EXCEPT !.op = op]
            r == [q EXCEPT !.target = t]
<1>1. p \in Call /\ p.pc = pc /\ ~p.ok /\ p.rest = << >>
  BY IdleIsCall DEF Call
<1>2. Fresh(pc, op, t) = r
  BY IdleIsCall DEF Fresh, Call
<1>. HIDE DEF p
<1>3. q \in Call /\ q.pc = p.pc /\ q.op = op /\ q.ok = p.ok /\ q.rest = p.rest
  BY <1>1 DEF Call
<1>. HIDE DEF q
<1>4. r \in Call /\ r.pc = q.pc /\ r.op = q.op /\ r.target = t /\ r.ok = q.ok /\ r.rest = q.rest
  BY <1>3 DEF Call
<1>5. QED
  BY <1>1, <1>2, <1>3, <1>4

\* Nothing is claimed of it.
LEMMA IdleKeeps ==
    ASSUME NEW k, NEW f
    PROVE  PlaceAt(k, Idle) /\ KeptAt(k, Idle, f)
BY IdleIsCall DEF PlaceAt, KeptAt, WritePcs

\* The targets offered to a call.
LEMMA ListedTargets ==
    ASSUME TypeOK
    PROVE  list_targets \subseteq Target
<1>1. default_target \in Target
  BY DEF TypeOK, default_target, target, Target, DefaultId
<1>2. QED
  BY <1>1 DEF TypeOK, list_targets, merge_default_and_saved_targets

\* What an overlapped call keeps.
LEMMA OverlappedShape ==
    ASSUME NEW r \in Call
    PROVE  LET v == overlapped(r) IN
           /\ v.pc = r.pc /\ v.op = r.op /\ v.target = r.target /\ v.rest = r.rest /\ v.group = r.group
           /\ v.config = r.config /\ v.doc = r.doc /\ v.buffer = r.buffer /\ v.alone = FALSE
           /\ v.ok = r.ok /\ v \in Call
<1>. DEFINE u == [r EXCEPT !.alone = FALSE]
            v == [u EXCEPT !.before = None]
<1>1. /\ u.pc = r.pc /\ u.op = r.op /\ u.target = r.target /\ u.rest = r.rest /\ u.group = r.group
      /\ u.config = r.config /\ u.doc = r.doc /\ u.buffer = r.buffer /\ u.alone = FALSE
      /\ u.ok = r.ok /\ u \in Call
  BY DEF Call
<1>2. overlapped(r) = v
  BY DEF overlapped, Call
<1>. HIDE DEF u
<1>3. /\ v.pc = u.pc /\ v.op = u.op /\ v.target = u.target /\ v.rest = u.rest /\ v.group = u.group
      /\ v.config = u.config /\ v.doc = u.doc /\ v.buffer = u.buffer /\ v.alone = u.alone
      /\ v.ok = u.ok /\ v \in Call
  BY <1>1 DEF Call
<1>4. QED
  BY <1>1, <1>2, <1>3

\* The call as it begins, and the ones it overlaps.
LEMMA BegunCalls ==
    ASSUME TypeOK, NEW c \in Callers, NEW r \in Call, begin(c, r)
    PROVE  LET alone == \A d \in Callers \ {c} : ~working(d) IN
           /\ ~working(c) /\ call' \in [Callers -> Call] /\ calls' = calls + 1
           /\ call'[c].pc = r.pc /\ call'[c].op = r.op /\ call'[c].target = r.target /\ call'[c].rest = r.rest
           /\ call'[c].group = r.group /\ call'[c].config = r.config /\ call'[c].doc = r.doc
           /\ call'[c].ok = r.ok /\ call'[c].alone = alone
           /\ alone => call'[c].before = r.before
           /\ \A d \in Callers \ {c} :
                 /\ ~call'[d].alone
                 /\ ~working(d) => call'[d] = Idle
                 /\ working(d) => call'[d] = overlapped(call[d])
<1>. DEFINE alone == \A d \in Callers \ {c} : ~working(d)
            v == IF alone THEN [r EXCEPT !.alone = TRUE] ELSE overlapped(r)
            others(d) == IF working(d) THEN overlapped(call[d]) ELSE Idle
<1>1. ~working(c) /\ calls' = calls + 1 /\ \A d \in Callers : call[d] \in Call
  BY DEF begin, working, TypeOK
<1>2. call' = [d \in Callers |-> IF d = c THEN v ELSE others(d)]
  BY DEF begin, working
<1>3. /\ v \in Call /\ v.pc = r.pc /\ v.op = r.op /\ v.target = r.target /\ v.rest = r.rest /\ v.group = r.group
      /\ v.config = r.config /\ v.doc = r.doc /\ v.ok = r.ok /\ v.alone = alone /\ (alone => v.before = r.before)
  <2>1. CASE alone
    <3>1. v = [r EXCEPT !.alone = TRUE]
      BY <2>1
    <3>. HIDE DEF v
    <3>2. QED
      BY <2>1, <3>1 DEF Call
  <2>2. CASE ~alone
    <3>1. v = overlapped(r)
      BY <2>2
    <3>. HIDE DEF v
    <3>2. QED
      BY <2>2, <3>1, OverlappedShape
  <2>3. QED
    BY <2>1, <2>2
<1>4. ASSUME NEW d \in Callers \ {c}
      PROVE  /\ others(d) \in Call /\ ~others(d).alone
             /\ ~working(d) => others(d) = Idle
             /\ working(d) => others(d) = overlapped(call[d])
  <2>1. CASE working(d)
    BY <1>1, <2>1, OverlappedShape
  <2>2. CASE ~working(d)
    BY <2>2, IdleIsCall
  <2>3. QED
    BY <2>1, <2>2
<1>. HIDE DEF v, others
<1>5. call'[c] = v /\ \A d \in Callers \ {c} : call'[d] = others(d)
  BY <1>2
<1>6. call' \in [Callers -> Call]
  BY <1>2, <1>3, <1>4
<1>. HIDE DEF alone
<1>7. QED
  BY <1>1, <1>3, <1>4, <1>5, <1>6 DEF alone

\* A call begins, or removes a target at once: it finds out whether it is
\* alone, and the calls it overlaps no longer are.
LEMMA BeginKeeps ==
    ASSUME FilesInv, NEW c \in Callers, NEW r \in Call, begin(c, r),
           r.pc \in {"add", "read", "source", "end"}, r.target \in Target,
           r.pc = "read" => Edits(r) /\ r.before = files(canonicalize(r.target.dir)),
           r.pc # "read" => r.op \notin {"group", "config"},
           r.pc = "source" => r.op = "source" /\ r.doc \in Document \cup {Broken},
           r.rest # << >> => r.op = "group" /\ r.group \in Groups,
           saved' \subseteq Target, persisted' \subseteq Target,
           UNCHANGED <<kind, headless, home, fs>>
    PROVE  FilesInv'
<1>. DEFINE alone == \A d \in Callers \ {c} : ~working(d)
            v == call'[c]
<1>1. TypeOK /\ \A d \in Callers : call[d] \in Call
  BY DEF FilesInv, TypeOK
<1>2. /\ ~working(c) /\ call' \in [Callers -> Call] /\ calls' = calls + 1
      /\ v.pc = r.pc /\ v.op = r.op /\ v.target = r.target /\ v.rest = r.rest /\ v.group = r.group
      /\ v.config = r.config /\ v.doc = r.doc /\ v.alone = alone /\ (alone => v.before = r.before)
      /\ \A d \in Callers \ {c} : /\ ~call'[d].alone
                                  /\ ~working(d) => call'[d] = Idle
                                  /\ working(d) => call'[d] = overlapped(call[d])
  BY <1>1, BegunCalls
<1>3. TypeOK'
  BY <1>1, <1>2 DEF TypeOK
<1>4. PlaceInv(c)'
  BY <1>2 DEF PlaceInv, PlaceAt, Edits, WritePcs
<1>5. KeptInv(c)'
  <2>1. canonicalize(r.target.dir) \in Dirs
    BY CallsAssumption DEF Target, canonicalize, Paths
  <2>2. files(canonicalize(r.target.dir)) \in Pair
    BY <1>1, <2>1, FilesArePair
  <2>3. files(dirOf(c))' = files(canonicalize(r.target.dir))
    BY <1>2 DEF dirOf, files
  <2>4. KeptAt(kind, v, files(canonicalize(r.target.dir)))
    BY <1>2, <2>2 DEF KeptAt
  <2>5. QED
    BY <2>3, <2>4 DEF KeptInv
<1>6. ASSUME NEW d \in Callers \ {c} PROVE PlaceInv(d)' /\ KeptInv(d)' /\ (working(d)' => working(d))
  <2>1. CASE ~working(d)
    <3>1. call'[d] = Idle /\ ~working(d)'
      BY <1>2, <2>1, IdleIsCall DEF working
    <3>2. QED
      BY <3>1, IdleKeeps DEF PlaceInv, KeptInv
  <2>2. CASE working(d)
    <3>1. call'[d] = overlapped(call[d]) /\ call[d] \in Call /\ PlaceInv(d)
      BY <1>1, <1>2, <2>2, WorkingFacts
    <3>2. PlaceAt(kind, overlapped(call[d]))
      BY <3>1, OverlappedShape DEF PlaceInv, PlaceAt, Edits
    <3>3. \A f : KeptAt(kind, overlapped(call[d]), f)
      BY <3>1, OverlappedShape DEF KeptAt
    <3>4. QED
      BY <2>2, <3>1, <3>2, <3>3 DEF PlaceInv, KeptInv
  <2>3. QED
    BY <2>1, <2>2
<1>7. LoneInv'
  <2>. SUFFICES ASSUME NEW d \in Callers, NEW e \in Callers, call'[d].alone, working(e)'
                PROVE  e = d
    BY DEF LoneInv
  <2>1. d = c /\ alone
    BY <1>2
  <2>2. QED
    BY <1>6, <2>1
<1>8. QED
  BY <1>3, <1>4, <1>5, <1>6, <1>7 DEF FilesInv

\* The ways a call begins, and the record it begins with.
BeginAny(c) ==
    \/ BeginAdd(c) \/ BeginUpdate(c) \/ RemoveTarget(c)
    \/ BeginWriteGroupEntry(c) \/ BeginWriteAgentConfig(c) \/ BeginWriteSource(c)

Begins(c, r) ==
    /\ UNCHANGED <<kind, headless, home, fs>> /\ ~r.ok /\ r.target \in Target
    /\ \/ r.pc = "add" /\ r.op \in {"add", "update"} /\ ~headless /\ r.rest = << >> /\ UNCHANGED <<saved, persisted>>
       \/ r.pc = "end" /\ r.op = "remove" /\ ~headless /\ r.rest = << >>
       \/ /\ r.pc = "read" /\ r.op = "group" /\ r.group \in Groups /\ UNCHANGED <<saved, persisted>>
          /\ r.before = files(canonicalize(r.target.dir)) /\ r.target \in list_targets /\ {r.rest[i] : i \in 1..Len(r.rest)} \subseteq list_targets
          /\ headless => r.rest = << >>
       \/ /\ r.pc = "read" /\ r.op = "config" /\ r.config \in Config /\ UNCHANGED <<saved, persisted>>
          /\ r.before = files(canonicalize(r.target.dir)) /\ r.target \in list_targets /\ r.rest = << >>
       \/ /\ r.pc = "source" /\ r.op = "source" /\ r.doc \in Document \cup {Broken} /\ UNCHANGED <<saved, persisted>>
          /\ r.target \in list_targets /\ r.rest = << >>
    /\ saved' \subseteq Target /\ persisted' \subseteq Target

\* The record of an edit.
LEMMA EditShape ==
    ASSUME TypeOK, NEW op \in {"group", "config"}, NEW t \in Target
    PROVE  /\ edit(op, t) \in Call /\ edit(op, t).pc = "read" /\ edit(op, t).op = op /\ edit(op, t).target = t
           /\ ~edit(op, t).ok /\ edit(op, t).rest = << >> /\ edit(op, t).before = files(canonicalize(t.dir))
<1>. DEFINE p == Fresh("read", op, t)
            r == [p EXCEPT !.before = files(canonicalize(t.dir))]
<1>1. canonicalize(t.dir) \in Dirs
  BY CallsAssumption DEF Target, canonicalize, Paths
<1>2. files(canonicalize(t.dir)) \in Pair
  BY <1>1, FilesArePair
<1>3. p \in Call /\ p.pc = "read" /\ p.op = op /\ p.target = t /\ ~p.ok /\ p.rest = << >>
  BY FreshIsCall, StartPcs
<1>4. edit(op, t) = r
  BY IdleIsCall DEF edit, Fresh, Call
<1>. HIDE DEF p
<1>5. r \in Call /\ r.pc = p.pc /\ r.op = op /\ r.target = t /\ ~r.ok /\ r.rest = << >>
      /\ r.before = files(canonicalize(t.dir))
  BY <1>2, <1>3 DEF Call
<1>6. QED
  BY <1>3, <1>4, <1>5

\* Every way a call begins.
LEMMA BeginShape ==
    ASSUME TypeOK, NEW c \in Callers, BeginAny(c)
    PROVE  \E r \in Call : begin(c, r) /\ Begins(c, r)
<1>1. list_targets \subseteq Target /\ saved \subseteq Target /\ persisted \subseteq Target /\ calls \in Nat
  BY ListedTargets DEF TypeOK
<1>2. CASE BeginAdd(c)
  <2>1. PICK dir \in Paths :
           begin(c, [Idle EXCEPT !.pc = "add", !.op = "add", !.target = target(calls + 1, dir, None, None)])
    BY <1>2 DEF BeginAdd
  <2>. DEFINE t == target(calls + 1, dir, None, None)
              r == Fresh("add", "add", t)
  <2>2. t \in Target
    BY <1>1 DEF target, Target
  <2>. HIDE DEF t
  <2>3. r \in Call /\ r.pc = "add" /\ r.op \in {"add", "update"} /\ ~r.ok /\ r.target = t /\ r.rest = << >>
    BY <2>2, FreshIsCall, StartPcs
  <2>4. begin(c, r) /\ ~headless /\ UNCHANGED <<kind, headless, home, fs, saved, persisted>>
    BY <1>2, <2>1 DEF BeginAdd, t, Fresh
  <2>. HIDE DEF r
  <2>5. QED
    BY <1>1, <2>2, <2>3, <2>4 DEF Begins
<1>3. CASE BeginUpdate(c)
  <2>1. PICK u \in list_targets, dir \in Paths :
           begin(c, [Idle EXCEPT !.pc = "add", !.op = "update", !.target = [u EXCEPT !.dir = dir]])
    BY <1>3 DEF BeginUpdate
  <2>. DEFINE t == [u EXCEPT !.dir = dir]
              r == Fresh("add", "update", t)
  <2>2. t \in Target
    BY <1>1 DEF Target
  <2>. HIDE DEF t
  <2>3. r \in Call /\ r.pc = "add" /\ r.op \in {"add", "update"} /\ ~r.ok /\ r.target = t /\ r.rest = << >>
    BY <2>2, FreshIsCall, StartPcs
  <2>4. begin(c, r) /\ ~headless /\ UNCHANGED <<kind, headless, home, fs, saved, persisted>>
    BY <1>3, <2>1 DEF BeginUpdate, t, Fresh
  <2>. HIDE DEF r
  <2>5. QED
    BY <1>1, <2>2, <2>3, <2>4 DEF Begins
<1>4. CASE RemoveTarget(c)
  <2>1. PICK t \in saved : /\ begin(c, [Idle EXCEPT !.pc = "end", !.op = "remove", !.target = t])
                           /\ \E written \in BOOLEAN : persist(saved \ {t}, written)
    BY <1>4 DEF RemoveTarget
  <2>. DEFINE r == Fresh("end", "remove", t)
  <2>2. r \in Call /\ r.pc = "end" /\ r.op = "remove" /\ ~r.ok /\ r.target = t /\ r.rest = << >> /\ t \in Target
    BY <1>1, FreshIsCall, StartPcs
  <2>3. begin(c, r) /\ ~headless /\ UNCHANGED <<kind, headless, home, fs>>
    BY <1>4, <2>1 DEF RemoveTarget, Fresh
  <2>4. saved' \subseteq Target /\ persisted' \subseteq Target
    BY <1>1, <2>1, PersistType
  <2>. HIDE DEF r
  <2>5. QED
    BY <2>2, <2>3, <2>4 DEF Begins
<1>5. CASE BeginWriteGroupEntry(c)
  <2>0. PICK t \in list_targets, g \in Groups : \E rest \in {<< >>} \cup {<<u>> : u \in list_targets \ {t}} :
           begin(c, [edit("group", t) EXCEPT !.rest = rest, !.group = g])
    BY <1>5 DEF BeginWriteGroupEntry
  <2>1. PICK rest \in {<< >>} \cup {<<u>> : u \in list_targets \ {t}} :
           begin(c, [edit("group", t) EXCEPT !.rest = rest, !.group = g])
    BY <2>0
  <2>. DEFINE r == [edit("group", t) EXCEPT !.rest = rest, !.group = g]
  <2>2. /\ rest \in Seq(Target) /\ {rest[i] : i \in 1..Len(rest)} \subseteq list_targets
        /\ headless => rest = << >>
    <3>1. CASE rest = << >>
      BY <3>1
    <3>2. ASSUME NEW u \in list_targets \ {t}, rest = <<u>>
          PROVE  rest \in Seq(Target) /\ {rest[i] : i \in 1..Len(rest)} \subseteq list_targets /\ ~headless
      BY <1>1, <3>2 DEF list_targets
    <3>3. QED
      BY <3>1, <3>2
  <2>3. /\ r \in Call /\ r.pc = "read" /\ r.op = "group" /\ ~r.ok /\ r.target = t /\ r.rest = rest /\ r.group = g
        /\ r.before = files(canonicalize(t.dir)) /\ t \in Target
    <3>. DEFINE p == edit("group", t)
                q == [p EXCEPT !.rest = rest]
    <3>1. /\ t \in Target /\ p \in Call /\ p.pc = "read" /\ p.op = "group" /\ p.target = t /\ ~p.ok
          /\ p.before = files(canonicalize(t.dir))
      BY <1>1, EditShape
    <3>. HIDE DEF p
    <3>2. r = [q EXCEPT !.group = g]
      BY <3>1 DEF Call, p
    <3>. HIDE DEF r
    <3>3. /\ q \in Call /\ q.pc = "read" /\ q.op = "group" /\ q.target = t /\ ~q.ok /\ q.rest = rest
          /\ q.before = files(canonicalize(t.dir))
      BY <2>2, <3>1 DEF Call
    <3>. HIDE DEF q
    <3>4. QED
      BY <3>1, <3>2, <3>3 DEF Call
  <2>4. begin(c, r) /\ UNCHANGED <<kind, headless, home, fs, saved, persisted>>
    BY <1>5, <2>1 DEF BeginWriteGroupEntry
  <2>. HIDE DEF r
  <2>5. QED
    BY <1>1, <2>2, <2>3, <2>4 DEF Begins
<1>6. CASE BeginWriteAgentConfig(c)
  <2>1. PICK t \in list_targets, cfg \in Forms[kind] :
           begin(c, [edit("config", t) EXCEPT !.config = cfg])
    BY <1>6 DEF BeginWriteAgentConfig
  <2>. DEFINE r == [edit("config", t) EXCEPT !.config = cfg]
  <2>2. cfg \in Config /\ t \in Target
    BY <1>1, CallsAssumption DEF TypeOK
  <2>3. /\ r \in Call /\ r.pc = "read" /\ r.op = "config" /\ ~r.ok /\ r.target = t /\ r.config = cfg /\ r.rest = << >>
        /\ r.before = files(canonicalize(t.dir))
    <3>. DEFINE p == edit("config", t)
    <3>1. /\ p \in Call /\ p.pc = "read" /\ p.op = "config" /\ p.target = t /\ ~p.ok /\ p.rest = << >>
          /\ p.before = files(canonicalize(t.dir))
      BY <2>2, EditShape
    <3>2. r = [p EXCEPT !.config = cfg]
      OBVIOUS
    <3>. HIDE DEF p, r
    <3>3. QED
      BY <2>2, <3>1, <3>2 DEF Call
  <2>4. begin(c, r) /\ UNCHANGED <<kind, headless, home, fs, saved, persisted>>
    BY <1>6, <2>1 DEF BeginWriteAgentConfig
  <2>. HIDE DEF r
  <2>5. QED
    BY <1>1, <2>2, <2>3, <2>4 DEF Begins
<1>7. CASE BeginWriteSource(c)
  <2>1. PICK t \in list_targets, doc \in Sources, source \in {"primary", "second", None} :
           begin(c, [Idle EXCEPT !.pc = "source", !.op = "source", !.target = t, !.doc = doc, !.source = source])
    BY <1>7 DEF BeginWriteSource
  <2>. DEFINE r == [Idle EXCEPT !.pc = "source", !.op = "source", !.target = t, !.doc = doc, !.source = source]
  <2>2. doc \in Document \cup {Broken} /\ t \in Target
    BY <1>1, CallsAssumption
  <2>3. /\ r \in Call /\ r.pc = "source" /\ r.op = "source" /\ ~r.ok /\ r.target = t /\ r.doc = doc /\ r.rest = << >>
    <3>. DEFINE p == Fresh("source", "source", t)
                q == [p EXCEPT !.doc = doc]
    <3>1. p \in Call /\ p.pc = "source" /\ p.op = "source" /\ ~p.ok /\ p.target = t /\ p.rest = << >>
      BY <2>2, FreshIsCall, StartPcs
    <3>2. r = [[p EXCEPT !.doc = doc] EXCEPT !.source = source]
      BY IdleIsCall DEF Fresh, Call
    <3>. HIDE DEF p, r
    <3>3. /\ q \in Call /\ q.pc = "source" /\ q.op = "source" /\ ~q.ok /\ q.target = t /\ q.rest = << >>
          /\ q.doc = doc
      BY <2>2, <3>1 DEF Call
    <3>4. r = [q EXCEPT !.source = source]
      BY <3>2
    <3>. HIDE DEF q
    <3>5. QED
      BY <3>3, <3>4 DEF Call
  <2>4. begin(c, r) /\ UNCHANGED <<kind, headless, home, fs, saved, persisted>>
    BY <1>7, <2>1 DEF BeginWriteSource
  <2>. HIDE DEF r
  <2>5. QED
    BY <1>1, <2>2, <2>3, <2>4 DEF Begins
<1>8. QED
  BY <1>2, <1>3, <1>4, <1>5, <1>6, <1>7 DEF BeginAny

\* A call that begins keeps the invariant.
LEMMA BeginStep ==
    ASSUME FilesInv, NEW c \in Callers, BeginAny(c)
    PROVE  FilesInv'
<1>1. PICK r \in Call : begin(c, r) /\ Begins(c, r)
  BY BeginShape DEF FilesInv
<1>2. /\ r.pc \in {"add", "read", "source", "end"} /\ r.target \in Target
      /\ r.pc = "read" => Edits(r) /\ r.before = files(canonicalize(r.target.dir))
      /\ r.pc # "read" => r.op \notin {"group", "config"}
      /\ r.pc = "source" => r.op = "source" /\ r.doc \in Document \cup {Broken}
      /\ r.rest # << >> => r.op = "group" /\ r.group \in Groups
      /\ saved' \subseteq Target /\ persisted' \subseteq Target
      /\ UNCHANGED <<kind, headless, home, fs>>
  BY <1>1 DEF Begins, Edits
<1>3. QED
  BY <1>1, <1>2, BeginKeeps

\* The application starts again with no call in progress.
LEMMA RestartStep ==
    ASSUME FilesInv, Restart
    PROVE  FilesInv'
<1>1. call' = [c \in Callers |-> Idle] /\ saved' = persisted /\ UNCHANGED <<kind, headless, home, fs, persisted, calls>>
  BY DEF Restart
<1>2. TypeOK'
  BY <1>1, IdleIsCall DEF FilesInv, TypeOK
<1>3. \A c \in Callers : call'[c] = Idle
  BY <1>1
<1>4. \A c \in Callers : PlaceInv(c)' /\ KeptInv(c)'
  BY <1>3, IdleKeeps DEF PlaceInv, KeptInv
<1>5. QED
  BY <1>2, <1>3, <1>4, IdleIsCall DEF FilesInv, LoneInv

\* The application starts with no call in progress.
LEMMA InitFiles == Init => FilesInv
<1>. SUFFICES ASSUME Init PROVE FilesInv
  OBVIOUS
<1>1. saved \subseteq Target
  <2>1. CASE saved = {}
    BY <2>1
  <2>2. ASSUME NEW d \in Dirs, saved = {target(MaxCalls + 1, d, None, None)} PROVE saved \subseteq Target
    BY <2>2, CallsAssumption DEF Target, target, Paths
  <2>3. QED
    BY <2>1, <2>2 DEF Init
<1>2. fs \in [Dirs -> Pair \cup {None}]
  BY CallsAssumption DEF Init
<1>3. TypeOK
  BY <1>1, <1>2, IdleIsCall, CallsAssumption DEF Init, TypeOK, Paths
<1>4. \A c \in Callers : call[c] = Idle
  BY DEF Init
<1>5. \A c \in Callers : PlaceInv(c) /\ KeptInv(c)
  BY <1>4, IdleKeeps DEF PlaceInv, KeptInv
<1>6. QED
  BY <1>3, <1>4, <1>5, IdleIsCall DEF FilesInv, LoneInv

\* Every step keeps the invariant.
LEMMA NextFiles == FilesInv /\ [Next]_vars => FilesInv'
<1>. SUFFICES ASSUME FilesInv, [Next]_vars PROVE FilesInv'
  OBVIOUS
<1>1. CASE UNCHANGED vars
  BY <1>1 DEF vars, FilesInv, TypeOK, LoneInv, PlaceInv, KeptInv, working, dirOf, files
<1>2. CASE Restart
  BY <1>2, RestartStep
<1>3. ASSUME NEW c \in Callers, Step(c) PROVE FilesInv'
  BY <1>3, BeginStep, AddStep, NextTargetStep, ReadPrimaryStep, ReadSecondStep, TruncateStep, FillStep,
     PutStep, BindStep, CheckSourceStep, RereadSourceStep DEF Step, BeginAny
<1>4. QED
  BY <1>1, <1>2, <1>3 DEF Next

\* While a call is alone, the files it has not come to are as they were, and
\* what it has written or is about to write keeps what was in them, wherever
\* a write is cut off and whenever the application ends.
THEOREM FilesInvariance == Spec => []FilesInv
BY InitFiles, NextFiles, PTL DEF Spec

\* An edit of a client's files, by the one-click write or by the full form,
\* loses at most the file that is being written, or whose write failed: every
\* other file that does not parse is left as it is, and one that does keeps
\* all its provider entries but for the one edited, and after a one-click
\* write its keys.
THEOREM UserFilesSurvive == Spec => []UserFilesKept
<1>1. FilesInv => UserFilesKept
  <2>. SUFFICES ASSUME FilesInv, NEW c \in Callers, call[c].alone, call[c].op \in {"group", "config"},
                       NEW which \in Files, ~exposed(c, which)
                PROVE  fileKept(c, which, call[c].before[which], files(dirOf(c))[which])
    BY DEF UserFilesKept
  <2>. DEFINE r == call[c]
              f == files(dirOf(c))
  <2>1. KeptAt(kind, r, f) /\ r \in Call /\ r.torn # which /\ r.pc # filling(which)
    BY DEF FilesInv, KeptInv, TypeOK, exposed
  <2>2. r.pc \in Pcs \ {"idle", "add", "source", "reread"} /\ r.before \in Pair
    BY <2>1 DEF KeptAt, Call
  <2>3. which = "primary" \/ which = "second"
    BY DEF Files
  <2>4. Survives(kind, r.op, "primary", r.before["primary"], r.before["primary"])
        /\ Survives(kind, r.op, "second", r.before["second"], r.before["second"])
    BY <2>2, SameSurvives DEF Pair
  <2>5. Survives(kind, r.op, which, r.before[which], f[which])
    <3>1. CASE r.pc \in {"read", "write"}
      BY <2>1, <2>3, <2>4, <3>1 DEF KeptAt
    <3>2. CASE r.pc \in {"fill", "read second", "write second", "fill second"}
      BY <2>1, <2>3, <2>4, <3>2 DEF KeptAt, filling
    <3>3. CASE r.pc \in {"put", "bind", "between", "end"}
      BY <2>1, <2>3, <3>3 DEF KeptAt
    <3>4. QED
      BY <2>2, <3>1, <3>2, <3>3 DEF Pcs
  <2>6. QED
    BY <2>5 DEF Survives, fileKept
<1>2. QED
  BY <1>1, FilesInvariance, PTL DEF Spec

----------------------------------------------------------------------------
\* What is read back.  While a call is alone, the files it has written and
\* the targets of the store stay as they are until its next step.

\* The entry that call r writes to, the first file being doc.
entryOf(k, r, doc) ==
    IF k # "openclaw" THEN Shared
    ELSE IF r.op = "config" THEN orElse(r.config.provider, Shared)
    ELSE resolve_openclaw_provider_name(doc, Empty, r.target.config)

\* The first file holds what call r writes into it.
PrimaryWritten(k, r, doc) ==
    LET e == at(doc, entryOf(k, r, doc)) IN
    /\ doc \in Document /\ entryOf(k, r, doc) \in DOMAIN doc.providers /\ (k = "codex" => doc.named)
    /\ r.op = "group" => e.url \in Url /\ e.url.group = r.group
    /\ r.op = "config" =>
          /\ r.config \in Config
          /\ r.config.url # None => e.url = r.config.url
          /\ k \in {"claude", "opencode"} /\ r.config.token # None => e.token = r.config.token
          /\ k = "codex" => e.legacy = None
          /\ k = "openclaw" => e.url = r.config.url /\ e.token = r.config.token

\* The second file holds what follows from the first one.
SecondWritten(k, r, primary, doc) ==
    LET p == entryOf(k, r, primary) IN
    /\ doc \in Document
    /\ k = "codex" => at(doc, Auth).token = r.config.token
    /\ k = "openclaw" => at(doc, p).url = at(primary, p).url
    /\ k = "openclaw" /\ r.op = "config" => at(doc, p).token = r.config.token

\* Call r has written its files, and reports no failure.
written(r) == /\ r.op \in {"group", "config"}
              /\ r.pc \in {"put", "bind"} \/ (r.pc \in {"between", "end"} /\ r.ok)

TextAt(k, r, f) ==
    /\ r.pc = "add" => r.op \notin {"group", "config"}
    /\ r.pc \in {"write", "fill", "read second"} /\ r.op # "source" => PrimaryWritten(k, r, r.buffer)
    /\ r.pc = "read second" => f.primary = r.buffer
    /\ r.pc \in {"write second", "fill second"} /\ r.op # "source" =>
          PrimaryWritten(k, r, f.primary) /\ SecondWritten(k, r, f.primary, r.buffer)
    /\ written(r) => /\ PrimaryWritten(k, r, f.primary)
                     /\ hasSecond(k, r.op) => SecondWritten(k, r, f.primary, f.second)

TextInv(c) == TextAt(kind, call[c], files(dirOf(c)))

\* Targets with one id have one configuration.
Agree(S) == \A s, t \in S : s.id = t.id => s.config = t.config
listed(r) == {r.target} \cup {r.rest[i] : i \in 1..Len(r.rest)}

\* The snapshot of a one-click write agrees with the store; what it has saved
\* is there.
StoreAt(S, r) == r.op = "group" =>
    /\ Agree(S \cup listed(r))
    /\ r.pc = "bind" =>
          \E s \in S : s.id = r.target.id /\ canonicalize(s.dir) = canonicalize(r.target.dir)
    /\ r.pc \in {"between", "end"} /\ r.ok =>
          \E s \in S : /\ s.id = r.target.id /\ canonicalize(s.dir) = canonicalize(r.target.dir)
                       /\ s.group = r.group

StoreInv(c) == StoreAt(saved, call[c])

\* Without a window only the default target is written, and none is saved
\* with a configuration.
HeadlessInv == headless =>
    /\ \A s \in saved \cup persisted : s.config = None
    /\ \A c \in Callers : working(c) => call[c].pc # "add" /\ call[c].target.config = None /\ call[c].rest = << >>

BackInv == HeadlessInv /\ \A c \in Callers : call[c].alone => TextInv(c) /\ StoreInv(c)

\* The one-click write puts the address of the group where it is read.
LEMMA GroupPrimary ==
    ASSUME NEW k, NEW r, r.op = "group", r.group \in Groups, r.target.config \in Config \cup {None},
           NEW doc \in Document, k = "codex" => doc.named
    PROVE  PrimaryWritten(k, r, write_target_entry(k, doc, r.target.config, EntryUrl(r.group)))
<1>. DEFINE cfg == r.target.config
            new == write_target_entry(k, doc, cfg, EntryUrl(r.group))
<1>1. /\ EntryUrl(r.group) \in Url /\ build_openclaw_entry_url(EntryUrl(r.group)) \in Url
      /\ EntryUrl(r.group).group = r.group /\ build_openclaw_entry_url(EntryUrl(r.group)).group = r.group
  BY CallsAssumption DEF EntryUrl, build_openclaw_entry_url, Url
<1>2. ASSUME NEW p \in Names, NEW e \in Entry, new = with(doc, p, e), e.url \in Url, e.url.group = r.group,
             entryOf(k, r, new) = p
      PROVE  PrimaryWritten(k, r, new)
  <2>1. new \in Document /\ p \in DOMAIN new.providers /\ new.named = doc.named /\ at(new, p) = e
    BY <1>2, WithFacts
  <2>. HIDE DEF new
  <2>2. QED
    BY <1>2, <2>1 DEF PrimaryWritten
<1>3. CASE k = "openclaw"
  <2>. DEFINE p == resolve_openclaw_provider_name(doc, Empty, cfg)
              e == entry(build_openclaw_entry_url(EntryUrl(r.group)), None, None)
  <2>1. p \in Names
    BY ResolvedName, EmptyIsDocument
  <2>2. e \in Entry /\ e.url = build_openclaw_entry_url(EntryUrl(r.group))
    BY <1>1, MadeEntry, NamesFacts
  <2>3. new = with(doc, p, e)
    BY <1>3 DEF write_target_entry, write_openclaw_config
  <2>. HIDE DEF e, new, cfg
  <2>4. resolve_openclaw_provider_name(new, Empty, cfg) = p
    BY <2>2, <2>3, ResolvedAgain DEF cfg
  <2>5. entryOf(k, r, new) = p
    BY <1>3, <2>4 DEF entryOf, cfg
  <2>. HIDE DEF p
  <2>6. QED
    BY <1>1, <1>2, <2>1, <2>2, <2>3, <2>5 DEF new, cfg
<1>4. CASE k # "openclaw"
  <2>. DEFINE e == [at(doc, Shared) EXCEPT !.url = EntryUrl(r.group)]
  <2>1. at(doc, Shared) \in Entry
    BY AtIsEntry
  <2>2. e \in Entry /\ e.url = EntryUrl(r.group)
    BY <1>1, <2>1 DEF Entry
  <2>3. new = with(doc, Shared, e)
    BY <1>4 DEF write_target_entry
  <2>4. entryOf(k, r, new) = Shared
    BY <1>4 DEF entryOf
  <2>. HIDE DEF e, new
  <2>5. QED
    BY <1>1, <1>2, <2>2, <2>3, <2>4, NamesFacts DEF new
<1>5. QED
  BY <1>3, <1>4

\* The full form puts its address and its key where they are read.
LEMMA FormPrimary ==
    ASSUME NEW k \in Kinds, NEW r, r.op = "config", r.config \in Config,
           NEW doc \in Document, k = "codex" => doc.named
    PROVE  PrimaryWritten(k, r, write_full_config(k, doc, r.config))
<1>. DEFINE cfg == r.config
            new == write_full_config(k, doc, cfg)
            o == at(doc, Shared)
<1>1. ASSUME NEW p \in Names, NEW e \in Entry, new = with(doc, p, e), entryOf(k, r, new) = p,
             cfg.url # None => e.url = cfg.url,
             k \in {"claude", "opencode"} /\ cfg.token # None => e.token = cfg.token,
             k = "codex" => e.legacy = None,
             k = "openclaw" => e.url = cfg.url /\ e.token = cfg.token
      PROVE  PrimaryWritten(k, r, new)
  <2>1. new \in Document /\ p \in DOMAIN new.providers /\ new.named = doc.named /\ at(new, p) = e
    BY <1>1, WithFacts
  <2>. HIDE DEF new
  <2>2. QED
    BY <1>1, <2>1 DEF PrimaryWritten
<1>2. o \in Entry /\ cfg.url \in Url \cup {None} /\ cfg.token \in Tokens /\ cfg.provider \in Names \cup {None}
  BY AtIsEntry, ConfigShape
<1>3. /\ orElse(cfg.url, o.url) \in Url \cup {None} /\ orElse(cfg.token, o.token) \in Tokens
      /\ orElse(cfg.provider, Shared) \in Names
      /\ (cfg.url # None => orElse(cfg.url, o.url) = cfg.url)
      /\ (cfg.token # None => orElse(cfg.token, o.token) = cfg.token)
  BY <1>2, EntryShape, NamesFacts DEF orElse
<1>4. k # "openclaw" => entryOf(k, r, new) = Shared
  BY DEF entryOf
<1>5. CASE k = "claude"
  <2>. DEFINE e == [o EXCEPT !.url = orElse(cfg.url, @), !.token = orElse(cfg.token, @)]
  <2>1. e \in Entry /\ e.url = orElse(cfg.url, o.url) /\ e.token = orElse(cfg.token, o.token)
    BY <1>2, <1>3 DEF Entry
  <2>2. new = with(doc, Shared, e)
    BY <1>5 DEF write_full_config, write_claude_full_config
  <2>. HIDE DEF e, new, o, cfg
  <2>3. QED
    BY <1>1, <1>3, <1>4, <1>5, <2>1, <2>2, NamesFacts DEF new, cfg
<1>6. CASE k = "opencode"
  <2>. DEFINE e == [o EXCEPT !.url = orElse(cfg.url, @), !.token = cfg.token]
  <2>1. e \in Entry /\ e.url = orElse(cfg.url, o.url) /\ e.token = cfg.token
    BY <1>2, <1>3 DEF Entry
  <2>2. new = with(doc, Shared, e)
    BY <1>6 DEF write_full_config, write_opencode_full_config
  <2>. HIDE DEF e, new, o, cfg
  <2>3. QED
    BY <1>1, <1>3, <1>4, <1>6, <2>1, <2>2, NamesFacts DEF new, cfg
<1>7. CASE k = "codex"
  <2>. DEFINE e == [o EXCEPT !.url = orElse(cfg.url, @), !.legacy = None]
  <2>1. e \in Entry /\ e.url = orElse(cfg.url, o.url) /\ e.legacy = None
    BY <1>2, <1>3, NamesFacts DEF Entry
  <2>2. new = with(doc, Shared, e)
    BY <1>7 DEF write_full_config, write_codex_full_config
  <2>. HIDE DEF e, new, o, cfg
  <2>3. QED
    BY <1>1, <1>3, <1>4, <1>7, <2>1, <2>2, NamesFacts DEF new, cfg
<1>8. CASE k = "openclaw"
  <2>. DEFINE e == entry(cfg.url, cfg.token, None)
              p == orElse(cfg.provider, Shared)
  <2>1. e \in Entry /\ e.url = cfg.url /\ e.token = cfg.token
    BY <1>2, NamesFacts DEF Entry, entry
  <2>2. new = with(doc, p, e) /\ entryOf(k, r, new) = p
    BY <1>8 DEF write_full_config, write_openclaw_full_config, entryOf
  <2>. HIDE DEF e, new, o, cfg
  <2>3. QED
    BY <1>1, <1>3, <1>8, <2>1, <2>2 DEF new, cfg
<1>9. QED
  BY <1>5, <1>6, <1>7, <1>8, CallsAssumption

\* The second file receives what the first one was written with.
LEMMA SecondFollows ==
    ASSUME NEW k \in {"codex", "openclaw"}, NEW r, NEW primary, PrimaryWritten(k, r, primary),
           r.op = "config" => r.config \in Config,
           r.op = "group" \/ r.op = "config", r.op = "group" => k = "openclaw",
           NEW doc \in Document, NEW p, p = entryOf(k, r, primary), NEW new,
           new = IF k = "codex" THEN write_codex_auth(doc, r.config)
                 ELSE sync_openclaw_provider_to_models_file(doc, p, at(primary, p), r.op = "group")
    PROVE  SecondWritten(k, r, primary, new)
<1>1. primary \in Document /\ p \in Names /\ at(primary, p) \in Entry
  BY DocumentShape, AtIsEntry DEF PrimaryWritten
<1>2. CASE k = "codex"
  <2>0. r.config.token \in Tokens
    BY <1>2, ConfigShape
  <2>1. entry(None, r.config.token, None) \in Entry /\ entry(None, r.config.token, None).token = r.config.token
    BY <2>0, NamesFacts DEF Entry, entry
  <2>2. new \in Document /\ at(new, Auth).token = r.config.token
    BY <1>2, <2>1, WithFacts, NamesFacts DEF write_codex_auth
  <2>3. QED
    BY <1>2, <2>2 DEF SecondWritten
<1>3. CASE k = "openclaw" /\ r.op = "config"
  <2>1. new = with(doc, p, at(primary, p))
    BY <1>3 DEF sync_openclaw_provider_to_models_file
  <2>2. new \in Document /\ at(new, p) = at(primary, p)
    BY <1>1, <2>1, WithFacts
  <2>3. QED
    BY <1>3, <2>2 DEF SecondWritten, PrimaryWritten
<1>4. CASE k = "openclaw" /\ r.op = "group"
  <2>. DEFINE o == at(doc, p)
              e == at(primary, p)
  <2>1. o \in Entry /\ e \in Entry
    BY <1>1, AtIsEntry
  <2>2. e.url # None
    BY <1>4, FilesAssumption DEF PrimaryWritten
  <2>3. overlay(o, e) \in Entry
    BY <2>1, OverlayFacts
  <2>4. overlay(o, e).url = e.url
    BY <2>2 DEF overlay, orElse, entry
  <2>5. new = with(doc, p, overlay(o, e))
    BY <1>4 DEF sync_openclaw_provider_to_models_file, merge_openclaw_provider
  <2>. HIDE DEF o, e
  <2>6. new \in Document /\ at(new, p) = overlay(o, e)
    BY <1>1, <2>3, <2>5, WithFacts
  <2>7. QED
    BY <1>4, <2>4, <2>6 DEF SecondWritten, e
<1>5. QED
  BY <1>2, <1>3, <1>4

\* The address of the group is what the service reads from files so written.
LEMMA GroupReadBack ==
    ASSUME NEW k \in Kinds, NEW r, r.op = "group", NEW f,
           PrimaryWritten(k, r, f.primary), hasSecond(k, r.op) => SecondWritten(k, r, f.primary, f.second),
           NEW cfg, k = "openclaw" => cfg = r.target.config
    PROVE  /\ parse_agent_config(k, f, cfg).url # None
           /\ parse_agent_config(k, f, cfg).url.group = r.group
<1>. DEFINE p == entryOf(k, r, f.primary)
            e == at(f.primary, p)
            second == IF f.second = Broken THEN Empty ELSE content(f.second)
<1>1. /\ f.primary \in Document /\ f.primary \notin {Missing, Broken} /\ content(f.primary) = f.primary
      /\ p \in DOMAIN f.primary.providers /\ e.url \in Url /\ e.url # None /\ e.url.group = r.group
      /\ (k = "codex" => f.primary.named)
  BY DocumentShape, FilesAssumption DEF PrimaryWritten, content
<1>2. CASE k = "openclaw"
  <2>1. /\ SecondWritten(k, r, f.primary, f.second) /\ f.second \in Document
        /\ f.second \notin {Missing, Broken} /\ second = f.second
    BY <1>2, DocumentShape DEF hasSecond, SecondWritten, content
  <2>2. p = resolve_openclaw_provider_name(f.primary, Empty, cfg)
    BY <1>2 DEF entryOf
  <2>3. resolve_openclaw_provider_name(f.primary, f.second, cfg) = p
    BY <1>1, <2>2 DEF resolve_openclaw_provider_name
  <2>4. at(f.second, p).url = e.url
    BY <1>2, <2>1 DEF SecondWritten
  <2>5. parse_agent_config(k, f, cfg) = parse_openclaw_config_with_sources(f.primary, f.second, cfg)
    BY <1>1, <1>2, <2>1 DEF parse_agent_config
  <2>. HIDE DEF p
  <2>6. parse_openclaw_config_with_sources(f.primary, f.second, cfg).url = overlay(e, at(f.second, p)).url
    BY <2>3 DEF parse_openclaw_config_with_sources, config
  <2>7. overlay(e, at(f.second, p)).url = e.url
    BY <1>1, <2>4 DEF overlay, entry, orElse
  <2>8. QED
    BY <1>1, <2>5, <2>6, <2>7
<1>3. CASE k # "openclaw"
  <2>1. p = Shared
    BY <1>3 DEF entryOf
  <2>2. parse_agent_config(k, f, cfg).url = at(f.primary, Shared).url
    <3>1. CASE k = "claude"
      BY <1>1, <3>1 DEF parse_agent_config, parse_claude_config, config
    <3>2. CASE k = "opencode"
      BY <1>1, <3>2 DEF parse_agent_config, parse_opencode_config, config
    <3>3. CASE k = "codex"
      BY <1>1, <3>3 DEF parse_agent_config, parse_codex_config_with_auth, config
    <3>4. QED
      BY <1>3, <3>1, <3>2, <3>3, CallsAssumption
  <2>3. QED
    BY <1>1, <2>1, <2>2
<1>4. QED
  BY <1>2, <1>3

\* The address and the key of the form are what the service reads from files
\* so written.
LEMMA FormReadBack ==
    ASSUME NEW k \in Kinds, NEW r, r.op = "config", r.config \in Config, NEW f,
           PrimaryWritten(k, r, f.primary), hasSecond(k, r.op) => SecondWritten(k, r, f.primary, f.second),
           NEW cfg, k = "openclaw" => cfg = r.config
    PROVE  /\ r.config.url # None => parse_agent_config(k, f, cfg).url = r.config.url
           /\ r.config.token # None => parse_agent_config(k, f, cfg).token = r.config.token
           /\ k \in {"codex", "openclaw"} /\ r.config.token = None => parse_agent_config(k, f, cfg).token = None
<1>. DEFINE p == entryOf(k, r, f.primary)
            e == at(f.primary, p)
            form == r.config
<1>1. /\ f.primary \in Document /\ f.primary \notin {Missing, Broken} /\ content(f.primary) = f.primary
      /\ p \in DOMAIN f.primary.providers /\ (k = "codex" => f.primary.named)
      /\ form.url # None => e.url = form.url
      /\ k \in {"claude", "opencode"} /\ form.token # None => e.token = form.token
      /\ k = "codex" => e.legacy = None
      /\ k = "openclaw" => e.url = form.url /\ e.token = form.token
  BY DocumentShape DEF PrimaryWritten, content
<1>2. ASSUME k \in {"codex", "openclaw"}
      PROVE  /\ SecondWritten(k, r, f.primary, f.second) /\ f.second \in Document
             /\ f.second \notin {Missing, Broken} /\ content(f.second) = f.second
  BY <1>2, DocumentShape DEF hasSecond, SecondWritten, content
<1>3. k # "openclaw" => p = Shared
  BY DEF entryOf
<1>4. CASE k = "claude"
  BY <1>1, <1>3, <1>4 DEF parse_agent_config, parse_claude_config, config
<1>5. CASE k = "opencode"
  BY <1>1, <1>3, <1>5 DEF parse_agent_config, parse_opencode_config, config, orElse
<1>6. CASE k = "codex"
  <2>1. at(f.second, Auth).token = form.token
    BY <1>2, <1>6 DEF SecondWritten
  <2>2. parse_agent_config(k, f, cfg) = parse_codex_config_with_auth(f.primary, f.second)
    BY <1>1, <1>2, <1>6 DEF parse_agent_config
  <2>3. parse_codex_config_with_auth(f.primary, f.second) = config(Shared, e.url, orElse(form.token, e.legacy))
    BY <1>1, <1>3, <1>6, <2>1 DEF parse_codex_config_with_auth
  <2>. HIDE DEF e
  <2>4. QED
    BY <1>1, <1>6, <2>2, <2>3 DEF config, orElse
<1>7. CASE k = "openclaw"
  <2>1. p = orElse(form.provider, Shared) /\ p # None
    BY <1>7, ConfigShape, NamesFacts, FilesAssumption DEF entryOf, orElse
  <2>2. resolve_openclaw_provider_name(f.primary, f.second, form) = p
    BY <1>1, <2>1, ConfigShape DEF resolve_openclaw_provider_name, firstOf, orElse
  <2>3. at(f.second, p).url = form.url /\ at(f.second, p).token = form.token
    BY <1>1, <1>2, <1>7 DEF SecondWritten
  <2>4. parse_agent_config(k, f, cfg) = parse_openclaw_config_with_sources(f.primary, f.second, form)
    BY <1>1, <1>2, <1>7 DEF parse_agent_config
  <2>. HIDE DEF p
  <2>5. parse_openclaw_config_with_sources(f.primary, f.second, form)
           = config(p, overlay(e, at(f.second, p)).url, overlay(e, at(f.second, p)).token)
    BY <2>2 DEF parse_openclaw_config_with_sources
  <2>6. overlay(e, at(f.second, p)).url = form.url /\ overlay(e, at(f.second, p)).token = form.token
    BY <1>1, <1>7, <2>3 DEF overlay, entry, orElse
  <2>7. QED
    BY <2>4, <2>5, <2>6 DEF config
<1>8. QED
  BY <1>4, <1>5, <1>6, <1>7, CallsAssumption

\* The steps a call in progress takes.
OwnStep(c) ==
    \/ AddTarget(c) \/ NextTarget(c) \/ ReadPrimary(c) \/ ReadSecond(c) \/ CheckSource(c) \/ RereadSource(c)
    \/ \E which \in Files : TruncateFile(c, which) \/ FillFile(c, which)
    \/ PutTarget(c) \/ BindGroup(c)

\* What was written does not depend on the place of the call.
LEMMA SameWritten ==
    ASSUME NEW k, NEW r, NEW v, SameTarget(r, v)
    PROVE  /\ \A doc : PrimaryWritten(k, r, doc) => PrimaryWritten(k, v, doc)
           /\ \A p, doc : SecondWritten(k, r, p, doc) => SecondWritten(k, v, p, doc)
<1>1. \A doc : entryOf(k, r, doc) = entryOf(k, v, doc)
  BY DEF SameTarget, SameCall, entryOf
<1>2. QED
  BY <1>1 DEF SameTarget, SameCall, PrimaryWritten, SecondWritten

\* The end of a call that failed claims nothing.
LEMMA FailText ==
    ASSUME FilesInv, NEW c \in Callers, working(c), NEW torn, Ends(c, FALSE, torn) \/ end(c, FALSE)
    PROVE  TextInv(c)'
<1>1. call'[c].ok = FALSE /\ call'[c].pc \in {"end", "between"}
  <2>1. CASE Ends(c, FALSE, torn)
    BY <2>1, TornShape
  <2>2. CASE end(c, FALSE)
    BY <2>2, EndShape
  <2>3. QED
    BY <2>1, <2>2
<1>2. QED
  BY <1>1 DEF TextInv, TextAt, written

\* The end of a call leaves what it has written.
LEMMA EndText ==
    ASSUME FilesInv, NEW c \in Callers, working(c), NEW ok \in BOOLEAN, end(c, ok),
           TextInv(c), UNCHANGED <<fs, kind>>,
           ok /\ call[c].op \in {"group", "config"} => call[c].pc \in {"put", "bind"}
    PROVE  TextInv(c)'
<1>1. /\ SameTarget(call[c], call'[c]) /\ call'[c].ok = ok /\ call'[c].pc \in {"end", "between"}
  BY EndShape
<1>2. files(dirOf(c))' = files(dirOf(c))
  BY <1>1, SameFilesOf
<1>3. written(call'[c]) => written(call[c])
  BY <1>1 DEF written, SameTarget, SameCall
<1>4. call'[c].op = call[c].op
  BY <1>1 DEF SameTarget, SameCall
<1>. DEFINE f == files(dirOf(c))
            v == call'[c]
<1>5. written(v) => /\ PrimaryWritten(kind, v, f.primary)
                    /\ (hasSecond(kind, v.op) => SecondWritten(kind, v, f.primary, f.second))
  BY <1>1, <1>3, <1>4, SameWritten DEF TextInv, TextAt
<1>. HIDE DEF f, v
<1>6. TextAt(kind, v, f)
  BY <1>1, <1>5 DEF TextAt, v
<1>7. QED
  BY <1>2, <1>6 DEF TextInv, f, v

\* The new contents of the first file.
LEMMA ReadPrimaryText ==
    ASSUME FilesInv, NEW c \in Callers, TextInv(c), ReadPrimary(c)
    PROVE  TextInv(c)'
<1>. DEFINE f == files(dirOf(c)).primary
            doc == content(f)
<1>1. working(c) /\ call[c].pc = "read" /\ UNCHANGED <<kind, headless, home, fs, saved, persisted, calls>>
  BY DEF ReadPrimary, working
<1>2. /\ TypeOK /\ kind \in Kinds /\ dirOf(c) \in Dirs
      /\ call[c].target.config \in Config \cup {None} /\ PlaceInv(c)
  BY <1>1, WorkingFacts DEF TypeOK
<1>3. CASE end(c, FALSE)
  BY <1>1, <1>3, FailText
<1>4. CASE /\ ~refused(kind, f)
           /\ call' = [call EXCEPT ![c].pc = "write", ![c].buffer = edited(c, doc)]
  <2>1. f \in File /\ f # Broken /\ (kind = "codex" => doc.named)
    BY <1>2, <1>4, FilesArePair DEF refused
  <2>2. doc \in Document
    BY <2>1, ContentIsDocument
  <2>3. PrimaryWritten(kind, call[c], edited(c, doc))
    <3>. HIDE DEF doc
    <3>1. CASE call[c].op = "group" /\ call[c].group \in Groups
      BY <1>2, <2>1, <2>2, <3>1, GroupPrimary DEF edited
    <3>2. CASE call[c].op = "config" /\ call[c].config \in Config
      BY <1>2, <2>1, <2>2, <3>2, FormPrimary DEF edited
    <3>3. QED
      BY <1>1, <1>2, <3>1, <3>2 DEF PlaceInv, PlaceAt, Edits
  <2>. HIDE DEF doc
  <2>. DEFINE new == edited(c, doc)
  <2>4. Moves(c, "write", new, call[c].parsed)
    BY <1>4 DEF Moves
  <2>4a. SameTarget(call[c], call'[c]) /\ call'[c].pc = "write" /\ call'[c].buffer = new
    BY <1>1, <2>4, MoveShape
  <2>5. PrimaryWritten(kind, call'[c], call'[c].buffer)
    BY <2>3, <2>4a, SameWritten
  <2>6. TextAt(kind, call'[c], files(dirOf(c))')
    BY <2>4a, <2>5 DEF TextAt, written
  <2>7. QED
    BY <1>1, <2>6 DEF TextInv
<1>5. QED
  BY <1>3, <1>4 DEF ReadPrimary

\* What is in the buffer stays there while the file is truncated.
LEMMA TruncateText ==
    ASSUME FilesInv, NEW c \in Callers, TextInv(c), NEW which \in Files, TruncateFile(c, which)
    PROVE  TextInv(c)'
<1>. DEFINE r == call[c]
            v == call'[c]
            f == files(dirOf(c))
            g == files(dirOf(c))'
<1>1. /\ working(c) /\ which \in {"primary", "second"} /\ UNCHANGED <<kind, headless, home, saved, persisted, calls>>
      /\ r.pc = IF which = "primary" THEN "write" ELSE "write second"
  BY DEF TruncateFile, working, truncating, Files
<1>2. CASE end(c, FALSE)
  BY <1>1, <1>2, FailText
<1>3. CASE put(c, which, Empty) /\ go(c, filling(which))
  <2>1. Moves(c, filling(which), r.buffer, r.parsed)
    BY <1>3 DEF go, Moves
  <2>2. SameTarget(r, v) /\ v.pc = filling(which) /\ v.buffer = r.buffer
        /\ filling(which) = IF which = "primary" THEN "fill" ELSE "fill second"
    BY <1>1, <2>1, MoveShape DEF filling
  <2>3. Empty \in File
    BY EmptyIsDocument DEF File
  <2>4. which = "second" => g.primary = f.primary
    BY <1>1, <1>3, <2>2, <2>3, PutFilesOf
  <2>5. v.op = r.op
    BY <2>2 DEF SameTarget, SameCall
  <2>6. TextAt(kind, r, f)
    BY DEF TextInv
  <2>. HIDE DEF f, g
  <2>7. TextAt(kind, v, g)
    <3>1. CASE which = "primary"
      BY <1>1, <2>2, <2>5, <2>6, <3>1, SameWritten DEF TextAt, written
    <3>2. CASE which = "second"
      BY <1>1, <2>2, <2>4, <2>5, <2>6, <3>2, SameWritten DEF TextAt, written
    <3>3. QED
      BY <1>1, <3>1, <3>2
  <2>8. QED
    BY <1>1, <2>7 DEF TextInv, g
<1>4. QED
  BY <1>2, <1>3 DEF TruncateFile

\* The file is as it was to be written.
LEMMA FillText ==
    ASSUME FilesInv, NEW c \in Callers, TextInv(c), NEW which \in Files, FillFile(c, which)
    PROVE  TextInv(c)'
<1>. DEFINE r == call[c]
            v == call'[c]
            f == files(dirOf(c))
            g == files(dirOf(c))'
            l == afterFill(c, which)
<1>1. /\ working(c) /\ which \in {"primary", "second"} /\ UNCHANGED <<kind, headless, home, saved, persisted, calls>>
      /\ r.pc = IF which = "primary" THEN "fill" ELSE "fill second"
  BY DEF FillFile, working, filling, Files
<1>2. r.buffer \in Document /\ (r.op = "source" \/ r.op \in {"group", "config"})
      /\ (which = "second" /\ r.op # "source" => hasSecond(kind, r.op))
  BY <1>1, WorkingFacts DEF PlaceInv, PlaceAt, WritePcs, Edits
<1>3. CASE call' = [call EXCEPT ![c] = [ended(c, FALSE) EXCEPT !.torn = which]]
  <2>1. Ends(c, FALSE, which)
    BY <1>3 DEF Ends
  <2>2. QED
    BY <1>1, <2>1, FailText
<1>4. CASE put(c, which, r.buffer) /\ go(c, l)
  <2>1. Moves(c, l, r.buffer, r.parsed)
    BY <1>4 DEF go, Moves
  <2>2. SameTarget(r, v) /\ v.pc = l /\ v.buffer = r.buffer
    BY <1>1, <2>1, MoveShape
  <2>3. /\ r.op = "source" => l \in {"reread", "put"}
        /\ r.op # "source" => l = IF which = "primary" /\ hasSecond(kind, r.op) THEN "read second" ELSE "put"
    BY DEF afterFill
  <2>4. r.buffer \in File
    BY <1>2 DEF File
  <2>5. /\ which = "primary" => g.primary = r.buffer
        /\ which = "second" => g.second = r.buffer /\ g.primary = f.primary
    BY <1>1, <1>4, <2>2, <2>4, PutFilesOf
  <2>6. v.op = r.op
    BY <2>2 DEF SameTarget, SameCall
  <2>7. TextAt(kind, r, f)
    BY DEF TextInv
  <2>. HIDE DEF f, g, l
  <2>8. TextAt(kind, v, g)
    <3>1. CASE r.op = "source"
      BY <2>2, <2>3, <2>6, <3>1 DEF TextAt, written
    <3>2. CASE r.op # "source" /\ which = "primary"
      <4>1. PrimaryWritten(kind, v, r.buffer) /\ g.primary = r.buffer /\ v.pc \in {"read second", "put"}
            /\ (v.pc = "put" => ~hasSecond(kind, v.op))
        BY <1>1, <2>2, <2>3, <2>5, <2>6, <2>7, <3>2, SameWritten DEF TextAt
      <4>2. QED
        BY <2>2, <4>1 DEF TextAt, written
    <3>3. CASE r.op # "source" /\ which = "second"
      <4>1. /\ PrimaryWritten(kind, v, f.primary) /\ SecondWritten(kind, v, f.primary, r.buffer)
            /\ g.second = r.buffer /\ g.primary = f.primary /\ v.pc = "put"
        BY <1>1, <2>2, <2>3, <2>5, <2>7, <3>3, SameWritten DEF TextAt
      <4>2. QED
        BY <4>1 DEF TextAt, written
    <3>4. QED
      BY <1>1, <3>1, <3>2, <3>3
  <2>9. QED
    BY <1>1, <2>8 DEF TextInv, g
<1>5. QED
  BY <1>3, <1>4 DEF FillFile

\* The new contents of the second file.
LEMMA ReadSecondText ==
    ASSUME FilesInv, NEW c \in Callers, TextInv(c), ReadSecond(c)
    PROVE  TextInv(c)'
<1>. DEFINE f == files(dirOf(c))
            doc == content(f.second)
<1>1. working(c) /\ call[c].pc = "read second" /\ UNCHANGED <<kind, headless, home, fs, saved, persisted, calls>>
  BY DEF ReadSecond, working
<1>2. /\ TypeOK /\ kind \in Kinds /\ dirOf(c) \in Dirs /\ PlaceInv(c) /\ hasSecond(kind, call[c].op)
      /\ f.primary = call[c].buffer /\ PrimaryWritten(kind, call[c], call[c].buffer)
  <2>1. Edits(call[c]) /\ hasSecond(kind, call[c].op) /\ call[c].op # "source"
    BY <1>1, WorkingFacts DEF PlaceInv, PlaceAt, Edits
  <2>2. QED
    BY <1>1, <2>1, WorkingFacts DEF TypeOK, TextInv, TextAt
<1>3. CASE end(c, FALSE)
  BY <1>1, <1>3, FailText
<1>4. CASE /\ f.second # Broken
           /\ call' = [call EXCEPT ![c].pc = "write second", ![c].buffer = editedSecond(c, doc)]
  <2>1. doc \in Document
    BY <1>2, <1>4, FilesArePair, ContentIsDocument
  <2>. HIDE DEF doc
  <2>2. /\ kind \in {"codex", "openclaw"} /\ call[c].op \in {"group", "config"}
        /\ (call[c].op = "config" => call[c].config \in Config) /\ (call[c].op = "group" => kind = "openclaw")
    BY <1>1, <1>2 DEF PlaceInv, PlaceAt, Edits, hasSecond
  <2>3. kind = "openclaw" => provider(c) = entryOf(kind, call[c], call[c].buffer)
    BY <2>2 DEF provider, entryOf
  <2>4. SecondWritten(kind, call[c], call[c].buffer, editedSecond(c, doc))
    <3>. DEFINE p == entryOf(kind, call[c], call[c].buffer)
                new == IF kind = "codex" THEN write_codex_auth(doc, call[c].config)
                       ELSE sync_openclaw_provider_to_models_file(doc, p, at(call[c].buffer, p), call[c].op = "group")
    <3>1. editedSecond(c, doc) = new
      BY <2>2, <2>3 DEF editedSecond
    <3>. HIDE DEF p
    <3>2. SecondWritten(kind, call[c], call[c].buffer, new)
      BY <1>2, <2>1, <2>2, SecondFollows DEF p
    <3>3. QED
      BY <3>1, <3>2
  <2>. DEFINE new == editedSecond(c, doc)
  <2>4a. Moves(c, "write second", new, call[c].parsed)
    BY <1>4 DEF Moves, doc
  <2>5. SameTarget(call[c], call'[c]) /\ call'[c].pc = "write second" /\ call'[c].buffer = new
    BY <1>1, <2>4a, MoveShape
  <2>6. files(dirOf(c))' = f
    BY <1>1, <2>5, SameFilesOf
  <2>7. /\ PrimaryWritten(kind, call'[c], f.primary)
        /\ SecondWritten(kind, call'[c], f.primary, call'[c].buffer)
    BY <1>2, <2>4, <2>5, SameWritten
  <2>8. TextAt(kind, call'[c], f)
    BY <2>5, <2>7 DEF TextAt, written
  <2>9. QED
    BY <1>1, <2>6, <2>8 DEF TextInv
<1>5. QED
  BY <1>3, <1>4 DEF ReadSecond

\* A step that checks the raw text ends the call or goes on.
LEMMA SourceShape ==
    ASSUME NEW c, CheckSource(c) \/ RereadSource(c)
    PROVE  /\ call[c].pc \in {"source", "reread"} /\ UNCHANGED <<kind, headless, home, fs, saved, persisted, calls>>
           /\ \/ end(c, FALSE)
              \/ \E l \in {"write", "write second", "put"} : \E b, q : Moves(c, l, b, q)
<1>1. ASSUME NEW q, NEW which \in {"primary", "second"},
             call' = [call EXCEPT ![c].parsed = q, ![c].buffer = call[c].doc, ![c].pc = truncating(which)]
      PROVE  \E l \in {"write", "write second", "put"} : \E b, p : Moves(c, l, b, p)
  <2>1. truncating(which) \in {"write", "write second", "put"} /\ Moves(c, truncating(which), call[c].doc, q)
    BY <1>1 DEF truncating, Moves
  <2>2. QED
    BY <2>1
<1>2. ASSUME NEW q, call' = [call EXCEPT ![c].parsed = q, ![c].pc = "put"]
      PROVE  \E l \in {"write", "write second", "put"} : \E b, p : Moves(c, l, b, p)
  <2>1. Moves(c, "put", call[c].buffer, q)
    BY <1>2 DEF Moves
  <2>2. QED
    BY <2>1
<1>3. CASE CheckSource(c)
  BY <1>1, <1>3 DEF CheckSource
<1>4. CASE RereadSource(c)
  BY <1>2, <1>4 DEF RereadSource
<1>5. QED
  BY <1>3, <1>4

\* The steps that write no file, and the raw text, which claims nothing.
LEMMA OtherText ==
    ASSUME FilesInv, NEW c \in Callers, TextInv(c),
           AddTarget(c) \/ NextTarget(c) \/ PutTarget(c) \/ BindGroup(c) \/ CheckSource(c) \/ RereadSource(c)
    PROVE  TextInv(c)'
<1>1. CASE AddTarget(c)
  <2>1. working(c) /\ UNCHANGED <<fs, kind>> /\ call[c].pc = "add" /\ \E ok \in BOOLEAN : end(c, ok)
    BY <1>1 DEF AddTarget, working
  <2>2. QED
    BY <2>1, EndText DEF TextInv, TextAt
<1>2. CASE NextTarget(c)
  <2>1. working(c) /\ TypeOK /\ call[c] \in Call
    BY <1>2, WorkingFacts DEF NextTarget, working
  <2>2. call'[c].pc = "read"
    BY <1>2, <2>1 DEF NextTarget, TypeOK, Call
  <2>3. QED
    BY <2>2 DEF TextInv, TextAt, written
<1>3. CASE PutTarget(c)
  <2>1. /\ working(c) /\ UNCHANGED <<fs, kind>> /\ call[c].pc = "put"
        /\ go(c, "bind") \/ \E ok \in BOOLEAN : end(c, ok)
    BY <1>3 DEF PutTarget, working
  <2>2. ASSUME NEW ok \in BOOLEAN, end(c, ok) PROVE TextInv(c)'
    BY <2>1, <2>2, EndText
  <2>3. CASE go(c, "bind")
    <3>0. Moves(c, "bind", call[c].buffer, call[c].parsed)
      BY <2>3 DEF go, Moves
    <3>1. SameTarget(call[c], call'[c]) /\ call'[c].pc = "bind"
      BY <2>1, <3>0, MoveShape
    <3>2. files(dirOf(c))' = files(dirOf(c)) /\ call'[c].op = call[c].op
      BY <2>1, <3>1, SameFilesOf DEF SameTarget, SameCall
    <3>. DEFINE f == files(dirOf(c))
    <3>3. call'[c].op \in {"group", "config"} =>
             /\ PrimaryWritten(kind, call'[c], f.primary)
             /\ hasSecond(kind, call'[c].op) => SecondWritten(kind, call'[c], f.primary, f.second)
      BY <2>1, <3>1, <3>2, SameWritten DEF TextInv, TextAt, written
    <3>. HIDE DEF f
    <3>4. TextAt(kind, call'[c], f)
      BY <3>1, <3>3 DEF TextAt, written
    <3>5. QED
      BY <2>1, <3>2, <3>4 DEF TextInv, f
  <2>4. QED
    BY <2>1, <2>2, <2>3
<1>4. CASE BindGroup(c)
  <2>1. working(c) /\ UNCHANGED <<fs, kind>> /\ call[c].pc = "bind" /\ \E ok \in BOOLEAN : end(c, ok)
    BY <1>4 DEF BindGroup, working
  <2>2. QED
    BY <2>1, EndText
<1>5. CASE CheckSource(c) \/ RereadSource(c)
  <2>1. working(c) /\ call[c].pc \in {"source", "reread"}
    BY <1>5 DEF CheckSource, RereadSource, working
  <2>2. call[c].op = "source"
    BY <2>1, WorkingFacts DEF PlaceInv, PlaceAt
  <2>3. CASE end(c, FALSE)
    BY <2>1, <2>3, FailText
  <2>4. ASSUME NEW l, NEW b, NEW q, Moves(c, l, b, q), l \in {"write", "write second", "put"} PROVE TextInv(c)'
    <3>1. SameTarget(call[c], call'[c]) /\ call'[c].pc = l
      BY <2>1, <2>4, MoveShape
    <3>2. QED
      BY <2>2, <2>4, <3>1 DEF TextInv, TextAt, written, SameTarget, SameCall
  <2>5. QED
    BY <1>5, <2>3, <2>4, SourceShape
<1>6. QED
  BY <1>1, <1>2, <1>3, <1>4, <1>5

----------------------------------------------------------------------------
\* The targets of the store beside those of the snapshot.

\* Targets that come from others, with their id and configuration.
LEMMA AgreeFrom ==
    ASSUME NEW S, NEW T, Agree(S), \A t \in T : \E s \in S : s.id = t.id /\ s.config = t.config
    PROVE  Agree(T)
BY DEF Agree

\* put_target with the configuration of the snapshot changes none.
LEMMA PutAgrees ==
    ASSUME saved \subseteq Target, NEW L, NEW t \in L, Agree(saved \cup L)
    PROVE  /\ Agree(put_target(t.id, t.dir, t.config) \cup L)
           /\ \E s \in put_target(t.id, t.dir, t.config) :
                 s.id = t.id /\ canonicalize(s.dir) = canonicalize(t.dir)
<1>. DEFINE new == put_target(t.id, t.dir, t.config)
            dir == canonicalize(t.dir)
<1>0. canonicalize(dir) = dir
  BY DEF canonicalize
<1>1. CASE byId(saved, t.id) = {}
  <2>. DEFINE n == target(t.id, dir, t.config, None)
  <2>1. new = saved \cup {n}
    BY <1>1 DEF put_target
  <2>2. n.id = t.id /\ n.dir = dir /\ n.config = t.config
    BY DEF target
  <2>. HIDE DEF n, new, dir
  <2>3. \A u \in new \cup L : \E s \in saved \cup L : s.id = u.id /\ s.config = u.config
    BY <2>1, <2>2
  <2>4. Agree(new \cup L)
    BY <2>3, AgreeFrom
  <2>5. QED
    BY <1>0, <2>1, <2>2, <2>4 DEF new, dir
<1>2. CASE byId(saved, t.id) # {}
  <2>. DEFINE upd(u) == IF u.id # t.id THEN u
                        ELSE [u EXCEPT !.dir = dir, !.config = orElse(t.config, @)]
  <2>1. new = {upd(u) : u \in saved}
    BY <1>2 DEF put_target
  <2>2. ASSUME NEW u \in saved
        PROVE  upd(u).id = u.id /\ upd(u).config = u.config /\ (u.id = t.id => upd(u).dir = dir)
    <3>1. CASE u.id # t.id
      BY <3>1
    <3>2. CASE u.id = t.id
      <4>1. u.config = t.config
        BY <3>2 DEF Agree
      <4>2. orElse(t.config, u.config) = u.config
        BY <4>1 DEF orElse
      <4>3. u \in Target
        OBVIOUS
      <4>4. QED
        BY <3>2, <4>2, <4>3 DEF Target
    <3>3. QED
      BY <3>1, <3>2
  <2>. HIDE DEF upd, new, dir
  <2>3. \A u \in new \cup L : \E s \in saved \cup L : s.id = u.id /\ s.config = u.config
    BY <2>1, <2>2
  <2>4. Agree(new \cup L)
    BY <2>3, AgreeFrom
  <2>5. PICK u \in saved : u.id = t.id
    BY <1>2 DEF byId
  <2>6. upd(u) \in new /\ upd(u).id = t.id /\ upd(u).dir = dir
    BY <2>1, <2>2, <2>5
  <2>7. QED
    BY <1>0, <2>4, <2>6 DEF new, dir
<1>3. QED
  BY <1>1, <1>2

\* set_target_group_id binds the target, and changes nothing else of any.
LEMMA BindAgrees ==
    ASSUME saved \subseteq Target, NEW L, Agree(saved \cup L), NEW id, NEW g, NEW dir,
           \E s \in saved : s.id = id /\ canonicalize(s.dir) = dir
    PROVE  /\ Agree(set_target_group_id(id, g) \cup L)
           /\ \E s \in set_target_group_id(id, g) : s.id = id /\ canonicalize(s.dir) = dir /\ s.group = g
<1>. DEFINE upd(u) == IF u.id # id THEN u ELSE [u EXCEPT !.group = g]
            new == set_target_group_id(id, g)
<1>1. new = {upd(u) : u \in saved}
  BY DEF set_target_group_id
<1>2. ASSUME NEW u \in saved
      PROVE  upd(u).id = u.id /\ upd(u).config = u.config /\ upd(u).dir = u.dir /\ (u.id = id => upd(u).group = g)
  BY DEF Target
<1>. HIDE DEF upd, new
<1>3. \A u \in new \cup L : \E s \in saved \cup L : s.id = u.id /\ s.config = u.config
  BY <1>1, <1>2
<1>4. Agree(new \cup L)
  BY <1>3, AgreeFrom
<1>5. PICK s \in saved : s.id = id /\ canonicalize(s.dir) = dir
  OBVIOUS
<1>6. upd(s) \in new /\ upd(s).id = id /\ canonicalize(upd(s).dir) = dir /\ upd(s).group = g
  BY <1>1, <1>2, <1>5 DEF canonicalize
<1>7. QED
  BY <1>4, <1>6 DEF new

\* The targets a call is about stay the same with it.
LEMMA SameListed ==
    ASSUME NEW r, NEW v, SameTarget(r, v)
    PROVE  listed(v) = listed(r) /\ v.op = r.op /\ v.group = r.group
BY DEF SameTarget, SameCall, listed

\* Each step keeps the snapshot of a call that is alone in agreement.
LEMMA StoreStep ==
    ASSUME FilesInv, NEW c \in Callers, StoreInv(c), TextInv(c), OwnStep(c)
    PROVE  StoreInv(c)'
<1>. DEFINE r == call[c]
            v == call'[c]
<1>. SUFFICES ASSUME v.op = "group" PROVE StoreAt(saved', v)
  BY DEF StoreInv, StoreAt
<1>0. TypeOK /\ saved \subseteq Target
  BY DEF FilesInv, TypeOK
<1>1. ASSUME SameTarget(r, v), UNCHANGED saved, v.pc \in Pcs \ {"between", "end", "bind"}
      PROVE  StoreAt(saved', v)
  <2>1. listed(v) = listed(r) /\ v.op = r.op
    BY <1>1, SameListed
  <2>2. QED
    BY <1>1, <2>1 DEF StoreAt, StoreInv
<1>. DEFINE failed == \/ end(c, FALSE)
                      \/ \E torn \in Files : Ends(c, FALSE, torn)
<1>20. ASSUME working(c), failed PROVE SameTarget(r, v) /\ v.ok = FALSE /\ v.pc \in {"end", "between"}
  <2>1. CASE end(c, FALSE)
    BY <1>20, <2>1, EndShape
  <2>2. ASSUME NEW torn \in Files, Ends(c, FALSE, torn)
        PROVE  SameTarget(r, v) /\ v.ok = FALSE /\ v.pc \in {"end", "between"}
    BY <1>20, <2>2, TornShape
  <2>3. QED
    BY <1>20, <2>1, <2>2
<1>2. ASSUME working(c), failed, Agree(saved' \cup listed(r)) PROVE StoreAt(saved', v)
  <2>1. SameTarget(r, v) /\ v.ok = FALSE /\ v.pc \in {"end", "between"}
    BY <1>20, <1>2
  <2>2. listed(v) = listed(r)
    BY <2>1, SameListed
  <2>3. QED
    BY <1>2, <2>1, <2>2 DEF StoreAt
<1>3. ASSUME working(c), failed, UNCHANGED saved PROVE StoreAt(saved', v)
  <2>1. r.op = "group"
    BY <1>20, <1>3 DEF SameTarget, SameCall
  <2>2. Agree(saved' \cup listed(r))
    BY <1>3, <2>1 DEF StoreInv, StoreAt
  <2>3. QED
    BY <1>2, <1>3, <2>2
<1>4. CASE NextTarget(c)
  <2>1. working(c) /\ r.pc = "between" /\ UNCHANGED saved
    BY <1>4 DEF NextTarget, working
  <2>2. r \in Call /\ r.rest \in Seq(Target) /\ r.rest # << >>
    BY <2>1, WorkingFacts DEF PlaceInv, PlaceAt, Call
  <2>3. v.pc = "read" /\ v.target = Head(r.rest) /\ v.rest = Tail(r.rest) /\ v.op = r.op
    BY <1>0, <1>4, <2>2 DEF NextTarget, TypeOK, Call
  <2>4. listed(v) \subseteq listed(r)
    <3>1. Head(r.rest) = r.rest[1] /\ 1 \in 1..Len(r.rest)
      BY <2>2
    <3>2. ASSUME NEW i \in 1..Len(Tail(r.rest)) PROVE Tail(r.rest)[i] = r.rest[i + 1] /\ i + 1 \in 1..Len(r.rest)
      BY <2>2
    <3>. HIDE DEF r, v
    <3>3. QED
      BY <2>3, <3>1, <3>2 DEF listed
  <2>5. Agree(saved \cup listed(r))
    BY <2>3 DEF StoreInv, StoreAt
  <2>. HIDE DEF r, v
  <2>6. Agree(saved \cup listed(v))
    BY <2>4, <2>5 DEF Agree
  <2>7. QED
    BY <2>1, <2>3, <2>6 DEF StoreAt
<1>5. ASSUME working(c), UNCHANGED saved, NEW l \in Pcs \ {"between", "end", "bind"}, NEW b, NEW q, Moves(c, l, b, q)
      PROVE  StoreAt(saved', v)
  BY <1>1, <1>5, MoveShape
<1>6. CASE ReadPrimary(c) \/ ReadSecond(c)
  <2>1. working(c) /\ UNCHANGED saved
    BY <1>6 DEF ReadPrimary, ReadSecond, working
  <2>2. ASSUME NEW b, NEW l \in {"write", "write second"}, call' = [call EXCEPT ![c].pc = l, ![c].buffer = b]
        PROVE  StoreAt(saved', v)
    <3>1. Moves(c, l, b, r.parsed) /\ l \in Pcs \ {"between", "end", "bind"}
      BY <2>2 DEF Moves, Pcs
    <3>2. QED
      BY <1>5, <2>1, <3>1
  <2>3. QED
    BY <1>3, <1>6, <2>1, <2>2 DEF ReadPrimary, ReadSecond
<1>7. ASSUME NEW which \in Files, TruncateFile(c, which) \/ FillFile(c, which) PROVE StoreAt(saved', v)
  <2>1. working(c) /\ UNCHANGED saved
    BY <1>7 DEF TruncateFile, FillFile, working, truncating, filling
  <2>2. ASSUME NEW l \in {"fill", "fill second", "reread", "read second", "put"}, go(c, l) PROVE StoreAt(saved', v)
    <3>1. Moves(c, l, r.buffer, r.parsed) /\ l \in Pcs \ {"between", "end", "bind"}
      BY <2>2 DEF go, Moves, Pcs
    <3>2. QED
      BY <1>5, <2>1, <3>1
  <2>3. afterFill(c, which) \in {"reread", "read second", "put"} /\ filling(which) \in {"fill", "fill second"}
    BY DEF afterFill, filling
  <2>4. QED
    BY <1>3, <1>7, <2>1, <2>2, <2>3 DEF TruncateFile, FillFile, Ends
<1>8. CASE CheckSource(c) \/ RereadSource(c)
  <2>1. working(c) /\ UNCHANGED saved
    BY <1>8 DEF CheckSource, RereadSource, working
  <2>2. {"write", "write second", "put"} \subseteq Pcs \ {"between", "end", "bind"}
    BY DEF Pcs
  <2>3. QED
    BY <1>3, <1>5, <1>8, <2>1, <2>2, SourceShape
<1>9. CASE PutTarget(c)
  <2>1. working(c) /\ r.pc = "put" /\ (go(c, "bind") \/ \E ok \in BOOLEAN : end(c, ok))
    BY <1>9 DEF PutTarget, working
  <2>2. r.op = "group"
    <3>1. go(c, "bind") => Moves(c, "bind", r.buffer, r.parsed)
      BY DEF go, Moves
    <3>2. QED
      BY <2>1, <3>1, EndShape, MoveShape DEF SameTarget, SameCall
  <2>3. CASE end(c, FALSE) /\ UNCHANGED saved
    BY <1>3, <2>1, <2>3
  <2>4. ASSUME NEW done \in BOOLEAN, persist(put_target(r.target.id, r.target.dir, r.target.config), done),
               IF done THEN go(c, "bind") ELSE end(c, FALSE)
        PROVE  StoreAt(saved', v)
    <3>. DEFINE new == put_target(r.target.id, r.target.dir, r.target.config)
    <3>1. saved' = new
      BY <2>4 DEF persist
    <3>2. r.target \in listed(r) /\ Agree(saved \cup listed(r))
      BY <2>2 DEF listed, StoreInv, StoreAt
    <3>3. /\ Agree(new \cup listed(r))
          /\ \E s \in new : s.id = r.target.id /\ canonicalize(s.dir) = canonicalize(r.target.dir)
      BY <1>0, <3>2, PutAgrees
    <3>4. CASE end(c, FALSE)
      BY <1>2, <2>1, <3>1, <3>3, <3>4
    <3>5. CASE go(c, "bind")
      <4>0. Moves(c, "bind", r.buffer, r.parsed)
        BY <3>5 DEF go, Moves
      <4>1. SameTarget(r, v) /\ v.pc = "bind"
        BY <2>1, <4>0, MoveShape
      <4>2. listed(v) = listed(r) /\ v.target = r.target
        BY <4>1, SameListed DEF SameTarget
      <4>. HIDE DEF new, r, v
      <4>3. QED
        BY <3>1, <3>3, <4>1, <4>2 DEF StoreAt
    <3>6. QED
      BY <2>4, <3>4, <3>5
  <2>5. QED
    BY <1>9, <2>2, <2>3, <2>4 DEF PutTarget
<1>10. CASE BindGroup(c)
  <2>1. working(c) /\ r.pc = "bind" /\ (\E ok \in BOOLEAN : end(c, ok))
    BY <1>10 DEF BindGroup, working
  <2>2. r.op = "group"
    BY <2>1, EndShape DEF SameTarget, SameCall
  <2>3. CASE end(c, FALSE) /\ UNCHANGED saved
    BY <1>3, <2>1, <2>3
  <2>4. ASSUME NEW done \in BOOLEAN, persist(set_target_group_id(r.target.id, r.group), done), end(c, done)
        PROVE  StoreAt(saved', v)
    <3>. DEFINE new == set_target_group_id(r.target.id, r.group)
    <3>1. saved' = new
      BY <2>4 DEF persist
    <3>2. /\ Agree(saved \cup listed(r))
          /\ \E s \in saved : s.id = r.target.id /\ canonicalize(s.dir) = canonicalize(r.target.dir)
      BY <2>1, <2>2 DEF StoreInv, StoreAt
    <3>3. /\ Agree(new \cup listed(r))
          /\ \E s \in new : /\ s.id = r.target.id /\ canonicalize(s.dir) = canonicalize(r.target.dir)
                            /\ s.group = r.group
      BY <1>0, <3>2, BindAgrees
    <3>4. SameTarget(r, v) /\ v.pc = IF r.rest = << >> THEN "end" ELSE "between"
      BY <2>1, <2>4, EndShape
    <3>5. listed(v) = listed(r) /\ v.target = r.target /\ v.group = r.group
      BY <3>4, SameListed DEF SameTarget
    <3>. HIDE DEF new, r, v
    <3>6. QED
      BY <3>1, <3>3, <3>4, <3>5 DEF StoreAt
  <2>5. QED
    BY <1>10, <2>3, <2>4 DEF BindGroup
<1>11. CASE AddTarget(c)
  <2>1. working(c) /\ r.pc = "add" /\ (\E ok \in BOOLEAN : end(c, ok))
    BY <1>11 DEF AddTarget, working
  <2>2. r.op = "group"
    BY <2>1, EndShape DEF SameTarget, SameCall
  <2>3. QED
    BY <2>1, <2>2 DEF TextInv, TextAt
<1>12. QED
  BY <1>4, <1>5, <1>6, <1>7, <1>8, <1>9, <1>10, <1>11 DEF OwnStep

----------------------------------------------------------------------------
\* What the steps of one call leave of the others.

\* A step of a call in progress: the others stay as they are, and it keeps
\* its targets unless it goes on to the next one.
LEMMA OwnStepFacts ==
    ASSUME FilesInv, NEW c \in Callers, OwnStep(c)
    PROVE  /\ working(c) /\ UNCHANGED <<kind, headless>>
           /\ \A d \in Callers \ {c} : call'[d] = call[d]
           /\ call'[c].alone = call[c].alone /\ call'[c].pc # "add"
           /\ SameTarget(call[c], call'[c]) \/ call[c].rest # << >>
<1>. DEFINE Left == /\ \A d \in Callers \ {c} : call'[d] = call[d]
                    /\ call'[c].alone = call[c].alone /\ call'[c].pc # "add" /\ SameTarget(call[c], call'[c])
<1>1. working(c) /\ UNCHANGED <<kind, headless>>
  BY DEF OwnStep, working, AddTarget, NextTarget, ReadPrimary, ReadSecond, CheckSource, RereadSource,
         TruncateFile, FillFile, truncating, filling, PutTarget, BindGroup
<1>2. CASE NextTarget(c)
  <2>1. TypeOK /\ call[c] \in Call /\ call[c].rest # << >>
    BY <1>1, <1>2, WorkingFacts DEF PlaceInv, PlaceAt, NextTarget
  <2>2. QED
    BY <1>1, <1>2, <2>1 DEF NextTarget, TypeOK, Call
<1>3. ASSUME NEW ok \in BOOLEAN, NEW torn, Ends(c, ok, torn) \/ end(c, ok) PROVE Left
  <2>1. CASE Ends(c, ok, torn)
    BY <1>1, <2>1, TornShape DEF SameTarget, SameCall
  <2>2. CASE end(c, ok)
    BY <1>1, <2>2, EndShape DEF SameTarget, SameCall
  <2>3. QED
    BY <1>3, <2>1, <2>2
<1>4. ASSUME NEW l, l # "add", NEW b, NEW q, Moves(c, l, b, q) PROVE Left
  BY <1>1, <1>4, MoveShape DEF SameTarget, SameCall
<1>5. ASSUME NEW l, l # "add", go(c, l) PROVE Left
  <2>1. Moves(c, l, call[c].buffer, call[c].parsed)
    BY <1>5 DEF go, Moves
  <2>2. QED
    BY <1>4, <1>5, <2>1
<1>6. ASSUME NEW l, l # "add", NEW b, call' = [call EXCEPT ![c].pc = l, ![c].buffer = b] PROVE Left
  <2>1. Moves(c, l, b, call[c].parsed)
    BY <1>6 DEF Moves
  <2>2. QED
    BY <1>4, <1>6, <2>1
<1>. HIDE DEF Left
<1>7. ASSUME AddTarget(c) \/ BindGroup(c) PROVE Left
  BY <1>3, <1>7 DEF AddTarget, BindGroup
<1>8. ASSUME ReadPrimary(c) \/ ReadSecond(c) PROVE Left
  BY <1>3, <1>6, <1>8 DEF ReadPrimary, ReadSecond
<1>9. ASSUME NEW which \in Files, TruncateFile(c, which) \/ FillFile(c, which) PROVE Left
  <2>1. afterFill(c, which) # "add" /\ filling(which) # "add"
    BY DEF afterFill, filling
  <2>2. QED
    BY <1>3, <1>5, <1>9, <2>1 DEF TruncateFile, FillFile, Ends
<1>10. ASSUME PutTarget(c) PROVE Left
  <2>1. go(c, "bind") \/ \E ok \in BOOLEAN : end(c, ok)
    BY <1>10 DEF PutTarget
  <2>2. QED
    BY <1>3, <1>5, <2>1
<1>11. ASSUME CheckSource(c) \/ RereadSource(c) PROVE Left
  BY <1>3, <1>4, <1>11, SourceShape
<1>12. NextTarget(c) \/ Left
  BY <1>7, <1>8, <1>9, <1>10, <1>11 DEF OwnStep
<1>13. QED
  BY <1>1, <1>2, <1>12 DEF Left

\* Without a window nothing is saved with a configuration.
LEMMA HeadlessPut ==
    ASSUME saved \subseteq Target, \A s \in saved : s.config = None, NEW id, NEW dir
    PROVE  \A s \in put_target(id, dir, None) : s.config = None
<1>1. target(id, canonicalize(dir), None, None).config = None
  BY DEF target
<1>2. ASSUME NEW t \in saved
      PROVE  [t EXCEPT !.dir = canonicalize(dir), !.config = orElse(None, @)].config = None
  BY DEF Target, orElse
<1>3. QED
  BY <1>1, <1>2 DEF put_target

\* A step of a call keeps it so: only the default target is put or bound.
LEMMA HeadlessStep ==
    ASSUME FilesInv, HeadlessInv, NEW c \in Callers, OwnStep(c)
    PROVE  HeadlessInv'
<1>. SUFFICES ASSUME headless' PROVE HeadlessInv'
  BY DEF HeadlessInv
<1>1. /\ working(c) /\ headless /\ \A d \in Callers \ {c} : call'[d] = call[d]
      /\ call'[c].pc # "add" /\ (SameTarget(call[c], call'[c]) \/ call[c].rest # << >>)
  BY OwnStepFacts
<1>2. /\ call[c].pc # "add" /\ call[c].target.config = None /\ call[c].rest = << >>
      /\ \A s \in saved \cup persisted : s.config = None
  BY <1>1 DEF HeadlessInv
<1>3. SameTarget(call[c], call'[c])
  BY <1>1, <1>2
<1>4. \A d \in Callers : working(d)' => call'[d].pc # "add" /\ call'[d].target.config = None /\ call'[d].rest = << >>
  BY <1>1, <1>2, <1>3 DEF HeadlessInv, SameTarget, working
<1>5. saved \subseteq Target
  BY DEF FilesInv, TypeOK
<1>6. ASSUME NEW S, NEW done, persist(S, done), \A s \in S : s.config = None
      PROVE  \A s \in saved' \cup persisted' : s.config = None
  BY <1>2, <1>6 DEF persist
<1>7. \A s \in saved' \cup persisted' : s.config = None
  <2>1. CASE UNCHANGED <<saved, persisted>>
    BY <1>2, <2>1
  <2>2. CASE PutTarget(c)
    <3>1. ASSUME NEW done, persist(put_target(call[c].target.id, call[c].target.dir, None), done)
          PROVE  \A s \in saved' \cup persisted' : s.config = None
      BY <1>2, <1>5, <1>6, <3>1, HeadlessPut
    <3>2. \/ UNCHANGED <<saved, persisted>>
          \/ \E done \in BOOLEAN : persist(put_target(call[c].target.id, call[c].target.dir, None), done)
      BY <1>1, <1>2, <2>2 DEF PutTarget
    <3>3. QED
      BY <2>1, <3>1, <3>2
  <2>3. CASE BindGroup(c)
    <3>. DEFINE new == set_target_group_id(call[c].target.id, call[c].group)
    <3>1. \A s \in new : s.config = None
      BY <1>2, <1>5 DEF set_target_group_id, Target
    <3>2. UNCHANGED <<saved, persisted>> \/ \E done \in BOOLEAN : persist(new, done)
      BY <2>3 DEF BindGroup
    <3>. HIDE DEF new
    <3>3. QED
      BY <1>6, <2>1, <3>1, <3>2
  <2>4. QED
    BY <1>2, <2>1, <2>2, <2>3 DEF OwnStep, AddTarget, NextTarget, ReadPrimary, ReadSecond, TruncateFile,
       FillFile, CheckSource, RereadSource
<1>8. QED
  BY <1>4, <1>7 DEF HeadlessInv

\* A step of a call in progress.
LEMMA OwnBack ==
    ASSUME FilesInv, BackInv, NEW c \in Callers, OwnStep(c)
    PROVE  BackInv'
<1>1. /\ working(c) /\ call'[c].alone = call[c].alone
      /\ \A d \in Callers \ {c} : call'[d] = call[d]
  BY OwnStepFacts
<1>3. HeadlessInv'
  BY HeadlessStep DEF BackInv
<1>4. ASSUME call'[c].alone PROVE TextInv(c)' /\ StoreInv(c)'
  <2>1. TextInv(c) /\ StoreInv(c)
    BY <1>1, <1>4 DEF BackInv
  <2>2. TextInv(c)'
    BY <2>1, OtherText, ReadPrimaryText, ReadSecondText, TruncateText, FillText DEF OwnStep
  <2>3. StoreInv(c)'
    BY <2>1, StoreStep
  <2>4. QED
    BY <2>2, <2>3
<1>5. ASSUME NEW d \in Callers \ {c} PROVE ~call'[d].alone
  BY <1>1 DEF FilesInv, LoneInv
<1>6. QED
  BY <1>3, <1>4, <1>5 DEF BackInv

\* The targets offered to a call agree with those of the store.
LEMMA ListedAgree ==
    ASSUME Good(saved), HeadlessInv
    PROVE  Agree(saved \cup list_targets)
<1>1. default_target.id = DefaultId /\ default_target.config = None
  BY DEF default_target, target
<1>2. CASE headless
  BY <1>1, <1>2 DEF HeadlessInv, list_targets, Agree
<1>3. CASE ~headless
  <2>1. list_targets = saved \/ (list_targets = saved \cup {default_target} /\ \A s \in saved : s.id # default_target.id)
    BY <1>3 DEF list_targets, merge_default_and_saved_targets
  <2>2. Agree(saved)
    BY DEF Good, Distinct, Agree
  <2>3. QED
    BY <2>1, <2>2 DEF Agree
<1>4. QED
  BY <1>2, <1>3

\* A call begins.
LEMMA BeginBack ==
    ASSUME FilesInv, Good(saved), BackInv, NEW c \in Callers, BeginAny(c)
    PROVE  BackInv'
<1>1. TypeOK
  BY DEF FilesInv
<1>2. PICK r \in Call : begin(c, r) /\ Begins(c, r)
  BY <1>1, BeginShape
<1>3. TypeOK /\ \A d \in Callers : call[d] \in Call
  BY <1>1 DEF TypeOK
<1>4. /\ call'[c].pc = r.pc /\ call'[c].op = r.op /\ call'[c].target = r.target /\ call'[c].rest = r.rest
      /\ call'[c].ok = r.ok
      /\ \A d \in Callers \ {c} : /\ ~call'[d].alone
                                  /\ ~working(d) => call'[d] = Idle
                                  /\ working(d) => call'[d] = overlapped(call[d])
  BY <1>1, <1>2, BegunCalls
<1>5. ASSUME NEW d \in Callers \ {c}
      PROVE  /\ ~call'[d].alone
             /\ working(d)' => /\ working(d) /\ call'[d].pc = call[d].pc /\ call'[d].target = call[d].target
                               /\ call'[d].rest = call[d].rest
  <2>1. CASE ~working(d)
    BY <1>4, <2>1, IdleIsCall DEF working
  <2>2. CASE working(d)
    <3>0. ~call'[d].alone
      BY <1>4, <1>5
    <3>1. call'[d] = overlapped(call[d]) /\ call[d] \in Call
      BY <1>3, <1>4, <1>5, <2>2
    <3>2. call'[d].pc = call[d].pc /\ call'[d].target = call[d].target /\ call'[d].rest = call[d].rest
      BY <3>1, OverlappedShape
    <3>3. QED
      BY <2>2, <3>0, <3>2
  <2>3. QED
    BY <2>1, <2>2
<1>7. HeadlessInv'
  <2>. SUFFICES ASSUME headless' PROVE HeadlessInv'
    BY DEF HeadlessInv
  <2>1. headless /\ r.pc \in {"read", "source"} /\ UNCHANGED <<saved, persisted>>
    BY <1>2 DEF Begins
  <2>2. r.target = default_target /\ r.rest = << >>
    BY <1>2, <2>1 DEF Begins, list_targets
  <2>3. r.target.config = None
    BY <2>2 DEF default_target, target
  <2>4. QED
    BY <1>4, <1>5, <2>1, <2>2, <2>3 DEF BackInv, HeadlessInv
<1>8. TextInv(c)'
  BY <1>2, <1>4 DEF Begins, TextInv, TextAt, written
<1>9. StoreInv(c)'
  <2>. SUFFICES ASSUME r.op = "group" PROVE StoreInv(c)'
    BY <1>4 DEF StoreInv, StoreAt
  <2>1. listed(r) \subseteq list_targets /\ r.pc = "read" /\ UNCHANGED saved
    <3>1. r.target \in list_targets /\ {r.rest[i] : i \in 1..Len(r.rest)} \subseteq list_targets
          /\ r.pc = "read" /\ UNCHANGED saved
      BY <1>2 DEF Begins
    <3>2. QED
      BY <3>1 DEF listed
  <2>2. Agree(saved \cup listed(r))
    BY <2>1, ListedAgree DEF BackInv, Agree
  <2>3. listed(call'[c]) = listed(r)
    BY <1>4 DEF listed
  <2>4. QED
    BY <1>4, <2>1, <2>2, <2>3 DEF StoreInv, StoreAt
<1>10. QED
  BY <1>5, <1>7, <1>8, <1>9 DEF BackInv

\* The application starts, or starts again, with no call in progress.
LEMMA InitBack == Init => BackInv
<1>. SUFFICES ASSUME Init PROVE BackInv
  OBVIOUS
<1>1. \A c \in Callers : call[c] = Idle
  BY DEF Init
<1>2. Idle.pc = "idle" /\ Idle.alone = FALSE
  BY DEF Idle
<1>3. \A s \in saved \cup persisted : s.config = None
  BY DEF Init, target
<1>4. QED
  BY <1>1, <1>2, <1>3 DEF BackInv, HeadlessInv, working

\* A restart brings back the targets written earlier, with no call left.
LEMMA RestartBack ==
    ASSUME BackInv, Restart
    PROVE  BackInv'
<1>1. call' = [c \in Callers |-> Idle] /\ saved' = persisted /\ UNCHANGED <<headless, persisted>>
  BY DEF Restart
<1>2. \A c \in Callers : call'[c] = Idle
  BY <1>1
<1>3. Idle.pc = "idle" /\ Idle.alone = FALSE
  BY DEF Idle
<1>4. QED
  BY <1>1, <1>2, <1>3 DEF BackInv, HeadlessInv, working

\* Every step keeps what is written and what is saved.
LEMMA NextBack == FilesInv /\ IndInv /\ BackInv /\ [Next]_vars => BackInv'
<1>. SUFFICES ASSUME FilesInv, IndInv, BackInv, [Next]_vars PROVE BackInv'
  OBVIOUS
<1>1. CASE UNCHANGED vars
  <2>1. UNCHANGED <<kind, headless, home, fs, saved, persisted, call>>
    BY <1>1 DEF vars
  <2>2. HeadlessInv'
    BY <2>1 DEF BackInv, HeadlessInv, working
  <2>3. ASSUME NEW c \in Callers PROVE (TextInv(c) => TextInv(c)') /\ (StoreInv(c) => StoreInv(c)')
    <3>1. files(dirOf(c))' = files(dirOf(c))
      BY <2>1 DEF files, dirOf
    <3>2. QED
      BY <2>1, <3>1 DEF TextInv, StoreInv
  <2>4. QED
    BY <2>1, <2>2, <2>3 DEF BackInv
<1>2. CASE Restart
  BY <1>2, RestartBack
<1>3. ASSUME NEW c \in Callers, Step(c) PROVE BackInv'
  <2>1. BeginAny(c) \/ OwnStep(c)
    BY <1>3 DEF Step, BeginAny, OwnStep
  <2>2. QED
    BY <2>1, BeginBack, OwnBack DEF IndInv
<1>4. QED
  BY <1>1, <1>2, <1>3 DEF Next

\* While a call is alone, the files hold what it has written, up to its end.
THEOREM BackInvariance == Spec => []BackInv
BY FilesInvariance, InitGood, NextGood, InitBack, NextBack, PTL DEF Spec

\* The configuration that readBack takes from the store is the one of the
\* saved target with the id of the call's.
LEMMA SavedConfig ==
    ASSUME Good(saved), NEW id, NEW s \in saved, s.id = id
    PROVE  byId(saved, id) # {} /\ (CHOOSE t \in byId(saved, id) : TRUE) = s
<1>1. s \in byId(saved, id) /\ \A t \in byId(saved, id) : t = s
  BY DEF byId, Good, Distinct
<1>2. (CHOOSE t \in byId(saved, id) : TRUE) \in byId(saved, id)
  BY <1>1
<1>3. QED
  BY <1>1, <1>2

\* A one-click write that no other call overlapped.
LEMMA GroupIsReadBack ==
    ASSUME FilesInv, IndInv, BackInv, NEW c \in Callers, finished(c, "group")
    PROVE  /\ readBack(c).url # None /\ readBack(c).url.group = call[c].group
           /\ \E t \in byId(saved, call[c].target.id) : t.group = call[c].group /\ canonicalize(t.dir) = dirOf(c)
<1>. DEFINE r == call[c]
            f == files(dirOf(c))
<1>1. TextAt(kind, r, f) /\ StoreAt(saved, r) /\ r.op = "group" /\ written(r) /\ r.pc \in {"between", "end"} /\ r.ok
  BY DEF finished, BackInv, TextInv, StoreInv, written
<1>2. PICK s \in saved : s.id = r.target.id /\ canonicalize(s.dir) = canonicalize(r.target.dir) /\ s.group = r.group
  BY <1>1 DEF StoreAt
<1>3. s.config = r.target.config
  BY <1>1, <1>2 DEF StoreAt, Agree, listed
<1>4. kind \in Kinds /\ PrimaryWritten(kind, r, f.primary)
      /\ (hasSecond(kind, r.op) => SecondWritten(kind, r, f.primary, f.second))
  BY <1>1 DEF TextAt, FilesInv, TypeOK
<1>5. readBack(c) = parse_agent_config(kind, f, s.config)
  BY <1>2, SavedConfig DEF readBack, IndInv
<1>. HIDE DEF f
<1>6. readBack(c).url # None /\ readBack(c).url.group = r.group
  BY <1>1, <1>3, <1>4, <1>5, GroupReadBack
<1>7. QED
  BY <1>2, <1>6 DEF byId, dirOf

\* A full form that no other call overlapped.
LEMMA FormIsReadBack ==
    ASSUME FilesInv, IndInv, BackInv, NEW c \in Callers, finished(c, "config"), remembered(c)
    PROVE  LET form == call[c].config IN
           /\ form.url # None => readBack(c).url = form.url
           /\ form.token # None => readBack(c).token = form.token
           /\ (kind \in {"codex", "openclaw"} /\ form.token = None) => readBack(c).token = None
<1>. DEFINE r == call[c]
            f == files(dirOf(c))
<1>1. TextAt(kind, r, f) /\ r.op = "config" /\ written(r)
  BY DEF finished, BackInv, TextInv, written
<1>2. kind \in Kinds /\ PrimaryWritten(kind, r, f.primary) /\ r.config \in Config
      /\ (hasSecond(kind, r.op) => SecondWritten(kind, r, f.primary, f.second))
  BY <1>1 DEF TextAt, FilesInv, TypeOK, PrimaryWritten
<1>3. PICK cfg : readBack(c) = parse_agent_config(kind, f, cfg) /\ (kind = "openclaw" => cfg = r.config)
  <2>1. CASE kind = "openclaw"
    <3>1. PICK s \in saved : s.id = r.target.id /\ s.config = r.config
      BY <2>1 DEF remembered, byId
    <3>2. QED
      BY <3>1, SavedConfig DEF readBack, IndInv
  <2>2. CASE kind # "openclaw"
    BY <2>2 DEF readBack
  <2>3. QED
    BY <2>1, <2>2
<1>. HIDE DEF f
<1>4. QED
  BY <1>1, <1>2, <1>3, FormReadBack

\* A write that reports success, and that no other call overlapped, is what
\* the service reads back from the files, whatever they held before, and
\* whatever calls came earlier or failed.
THEOREM WritesAreReadBack == Spec => []WrittenIsReadBack
<1>1. FilesInv /\ IndInv /\ BackInv => WrittenIsReadBack
  BY GroupIsReadBack, FormIsReadBack DEF WrittenIsReadBack
<1>2. QED
  BY <1>1, FilesInvariance, BackInvariance, InitGood, NextGood, PTL DEF Spec
=============================================================================
