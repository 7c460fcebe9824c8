------------------------- MODULE ClientIntegrations -------------------------
(***************************************************************************)
(* The integration targets of one kind of client (integration_store.rs)    *)
(* and the calls of services/integration_service.rs that add, move and     *)
(* remove them and write the clients' files.  Calls come from the desktop  *)
(* window and from HTTP and overlap: each takes a snapshot of the targets, *)
(* edits the files of a directory one after the other, and then updates    *)
(* the store, whose operations hold its lock.  A file is read, truncated   *)
(* and filled in separate steps; any of them may fail, and the application *)
(* may end between them.  Targets of different kinds share neither files   *)
(* nor rules, so one kind per behaviour is enough; the groups of the       *)
(* configuration stay as they are.                                         *)
(***************************************************************************)
EXTENDS ClientFiles, FiniteSets

CONSTANTS Callers,      \* who calls the service
          Groups,       \* the groups of the configuration
          Dirs,         \* the directories, as canonicalize names them
          HomeDir,      \* the directory of the default target
          Kinds, InitialFiles,
          Forms,        \* the full configurations a user sends, of each kind of client
          Sources,      \* and the raw texts
          MaxCalls

VARIABLES kind,         \* the kind of client
          headless,     \* no window: only the default target is offered
          home,         \* the path of the default target: HomeDir, or a link to it
          fs,           \* the files of each directory; None: it does not exist
          saved,        \* IntegrationStore.targets
          persisted,    \* the targets a start reads from client-integrations.json
          call,         \* the call each caller is in
          calls         \* calls made so far

vars == <<kind, headless, home, fs, saved, persisted, call, calls>>

Link == "link"
Paths == Dirs \cup {Link}

\* A link is not the canonical name of a directory.
ASSUME DirsAssumption == Link \notin Dirs

ASSUME CallsAssumption ==
    /\ HomeDir \in Dirs /\ Groups \subseteq GroupIds /\ MaxCalls \in Nat
    /\ Kinds \subseteq {"claude", "codex", "opencode", "openclaw"}
    /\ InitialFiles \in [Kinds -> SUBSET [Dirs -> Pair \cup {None}]]
    /\ Forms \in [Kinds -> SUBSET Config] /\ Sources \subseteq Document \cup {Broken}

canonicalize(path) == IF path = Link THEN HomeDir ELSE path
EntryUrl(g) == [group |-> g, v1 |-> FALSE]

target(id, dir, cfg, group) == [id |-> id, dir |-> dir, config |-> cfg, group |-> group]
DefaultId == 0
default_target == target(DefaultId, home, None, None)
exists(path) == fs[canonicalize(path)] # None

\* A default target gives way to a saved one with its id or its directory.
merge_default_and_saved_targets ==
    saved \cup {t \in {default_target} : \A s \in saved : s.id # t.id /\ s.dir # t.dir}

list_targets == IF headless THEN {default_target} ELSE merge_default_and_saved_targets

byId(targets, id) == {t \in targets : t.id = id}
Idle == [pc |-> "idle", op |-> None, target |-> None, rest |-> << >>, group |-> None, config |-> None,
         doc |-> None, source |-> None, parsed |-> None, buffer |-> None, ok |-> FALSE,
         alone |-> FALSE,  \* ghost: no other call has overlapped this one
         before |-> None,  \* ghost: the files when the call came to the target
         torn |-> None]    \* ghost: the file of the target whose write failed

\* The application starts, with at most one target saved earlier, beside
\* the default one.
Init ==
    /\ kind \in Kinds /\ headless \in BOOLEAN /\ home \in {HomeDir, Link}
    /\ fs \in InitialFiles[kind]
    /\ saved \in {{}} \cup {{target(MaxCalls + 1, d, None, None)} : d \in {e \in Dirs \ {HomeDir} : fs[e] # None}}
    /\ persisted = saved
    /\ call = [c \in Callers |-> Idle] /\ calls = 0

----------------------------------------------------------------------------
\* IntegrationStore: each operation runs under the lock.  An operation that
\* fails while writing the file has already changed the list in memory; what
\* it leaves is the old file, or a part of the new one, which a start reads
\* as no targets, parsed or not.

persist(targets, written) ==
    /\ saved' = targets
    /\ persisted' \in IF written THEN {targets} ELSE {persisted, {}}

\* Mutant: the directory is compared with those of the other targets as given.
put_taken_as_given(id, dir) == \E t \in saved : t.id # id /\ t.dir = dir

put_taken(id, dir) == \E t \in saved : t.id # id /\ t.dir = canonicalize(dir)

put_target(id, dir, cfg) ==
    LET old == byId(saved, id)
    IN  IF old = {} THEN saved \cup {target(id, canonicalize(dir), cfg, None)}
        ELSE {IF t.id # id THEN t
              ELSE [t EXCEPT !.dir = canonicalize(dir), !.config = orElse(cfg, @)] : t \in saved}

set_target_group_id(id, group) == {IF t.id # id THEN t ELSE [t EXCEPT !.group = group] : t \in saved}

----------------------------------------------------------------------------
\* A call begins: it is alone until another one begins.

files(d) == IF fs[d] = None THEN [primary |-> Missing, second |-> Missing] ELSE fs[d]

overlapped(r) == [r EXCEPT !.alone = FALSE, !.before = None]
begin(c, r) ==
    /\ call[c].pc \in {"idle", "end"} /\ calls < MaxCalls
    /\ LET alone == \A d \in Callers \ {c} : call[d].pc \in {"idle", "end"}
       IN  call' = [d \in Callers |->
                       IF d = c THEN IF alone THEN [r EXCEPT !.alone = TRUE] ELSE overlapped(r)
                       ELSE IF call[d].pc \in {"idle", "end"} THEN Idle
                       ELSE overlapped(call[d])]
    /\ calls' = calls + 1

go(c, pc) == call' = [call EXCEPT ![c].pc = pc]
ended(c, ok) == [call[c] EXCEPT !.pc = IF call[c].rest = << >> THEN "end" ELSE "between", !.ok = ok,
                                !.doc = None, !.source = None, !.buffer = None, !.parsed = None]
end(c, ok) == call' = [call EXCEPT ![c] = ended(c, ok)]

\* add_target compares the path with those of the snapshot before the store does.
BeginAdd(c) == \E dir \in Paths :
    /\ ~headless /\ \A t \in list_targets : t.dir # dir
    /\ begin(c, [Idle EXCEPT !.pc = "add", !.op = "add", !.target = target(calls + 1, dir, None, None)])
    /\ UNCHANGED <<kind, headless, home, fs, saved, persisted>>

AddTarget(c) ==
    /\ call[c].pc = "add"
    /\ LET t == call[c].target IN
       \/ /\ exists(t.dir) /\ ~put_taken(t.id, t.dir)
          /\ \E written \in BOOLEAN :
                persist(put_target(t.id, t.dir, None), written) /\ end(c, written)
       \/ /\ ~exists(t.dir) \/ put_taken(t.id, t.dir)
          /\ end(c, FALSE) /\ UNCHANGED <<saved, persisted>>
    /\ UNCHANGED <<kind, headless, home, fs, calls>>

\* update_target: the kind and the configuration come from the snapshot.
BeginUpdate(c) == \E t \in list_targets, dir \in Paths :
    /\ ~headless
    /\ begin(c, [Idle EXCEPT !.pc = "add", !.op = "update", !.target = [t EXCEPT !.dir = dir]])
    /\ UNCHANGED <<kind, headless, home, fs, saved, persisted>>

RemoveTarget(c) == \E t \in saved :
    /\ ~headless /\ begin(c, [Idle EXCEPT !.pc = "end", !.op = "remove", !.target = t])
    /\ \E written \in BOOLEAN : persist(saved \ {t}, written)
    /\ UNCHANGED <<kind, headless, home, fs>>

edit(op, t) == [Idle EXCEPT !.pc = "read", !.op = op, !.target = t, !.before = files(canonicalize(t.dir))]

\* write_group_entry refuses a default target whose directory is missing;
\* write_target_entry refuses every missing directory.
BeginWriteGroupEntry(c) == \E t \in list_targets, g \in Groups :
    /\ \E rest \in {<< >>} \cup {<<u>> : u \in list_targets \ {t}} :
          begin(c, [edit("group", t) EXCEPT !.rest = rest, !.group = g])
    /\ UNCHANGED <<kind, headless, home, fs, saved, persisted>>

\* The next of the targets selected for the call, whatever became of the last.
NextTarget(c) ==
    /\ call[c].pc = "between"
    /\ LET t == Head(call[c].rest) IN
       call' = [call EXCEPT ![c].pc = "read", ![c].target = t, ![c].rest = Tail(@),
                            ![c].before = IF call[c].alone THEN files(canonicalize(t.dir)) ELSE None, ![c].torn = None]
    /\ UNCHANGED <<kind, headless, home, fs, saved, persisted, calls>>

BeginWriteAgentConfig(c) == \E t \in list_targets, cfg \in Forms[kind] :
    /\ kind # "openclaw" => cfg.provider = None
    /\ begin(c, [edit("config", t) EXCEPT !.config = cfg])
    /\ UNCHANGED <<kind, headless, home, fs, saved, persisted>>

BeginWriteSource(c) == \E t \in list_targets, doc \in Sources :
    /\ \E source \in {"primary", "second", None} :
          /\ (source = "second" => kind \in {"codex", "openclaw"}) /\ (source = None => kind = "openclaw")
          /\ begin(c, [Idle EXCEPT !.pc = "source", !.op = "source", !.target = t, !.doc = doc, !.source = source])
    /\ UNCHANGED <<kind, headless, home, fs, saved, persisted>>

----------------------------------------------------------------------------
\* Editing the files of the target's directory.

dirOf(c) == canonicalize(call[c].target.dir)
edited(c, doc) ==
    IF call[c].op = "group" THEN write_target_entry(kind, doc, call[c].target.config, EntryUrl(call[c].group))
    ELSE write_full_config(kind, doc, call[c].config)

ReadPrimary(c) ==
    /\ call[c].pc = "read"
    /\ LET doc == files(dirOf(c)).primary
           absent == call[c].op = "group" /\ fs[dirOf(c)] = None
       IN  \/ /\ absent \/ refused(kind, doc)
              /\ end(c, FALSE)
           \/ /\ ~absent /\ ~refused(kind, doc)
              /\ call' = [call EXCEPT ![c].pc = "write", ![c].buffer = edited(c, content(doc))]
    /\ UNCHANGED <<kind, headless, home, fs, saved, persisted, calls>>

\* write_file_content creates the directory, and std::fs::write truncates the
\* file before it writes: an empty file reads as an empty document.
Files == {"primary", "second"}
truncating(which) == IF which = "primary" THEN "write" ELSE "write second"
filling(which) == IF which = "primary" THEN "fill" ELSE "fill second"
put(c, which, doc) == fs' = [fs EXCEPT ![dirOf(c)] = [files(dirOf(c)) EXCEPT ![which] = doc]]

TruncateFile(c, which) ==
    /\ call[c].pc = truncating(which)
    /\ \/ put(c, which, Empty) /\ go(c, filling(which))
       \/ end(c, FALSE) /\ fs' \in {fs, [fs EXCEPT ![dirOf(c)] = files(dirOf(c))]}
    /\ UNCHANGED <<kind, headless, home, saved, persisted, calls>>

\* What a part of a text reads as: nothing at all, a JSON text that ends too
\* early, or the head of a TOML text, before its tables.
partial(doc) == {Empty, Broken} \cup (IF kind = "codex" THEN {[doc EXCEPT !.providers = << >>]} ELSE {})

afterFill(c, which) ==
    CASE call[c].op = "source" -> IF kind = "codex" THEN "reread" ELSE "put"
      [] call[c].op # "source" /\ which = "primary" /\ hasSecond(kind, call[c].op) -> "read second"
      [] OTHER -> "put"

FillFile(c, which) ==
    /\ call[c].pc = filling(which)
    /\ \/ put(c, which, call[c].buffer) /\ go(c, afterFill(c, which))
       \/ /\ \E doc \in partial(call[c].buffer) : put(c, which, doc)
          /\ call' = [call EXCEPT ![c] = [ended(c, FALSE) EXCEPT !.torn = which]]
    /\ UNCHANGED <<kind, headless, home, saved, persisted, calls>>

\* The entry of the registry follows the entry written to the primary file.
provider(c) ==
    IF call[c].op = "config" THEN orElse(call[c].config.provider, Shared)
    ELSE resolve_openclaw_provider_name(call[c].buffer, Empty, call[c].target.config)

editedSecond(c, doc) ==
    IF kind = "codex" THEN write_codex_auth(doc, call[c].config)
    ELSE sync_openclaw_provider_to_models_file(doc, provider(c), at(call[c].buffer, provider(c)),
                                               call[c].op = "group")

ReadSecond(c) ==
    /\ call[c].pc = "read second"
    /\ LET doc == files(dirOf(c)).second
       IN  \/ doc = Broken /\ end(c, FALSE)
           \/ /\ doc # Broken
              /\ call' = [call EXCEPT ![c].pc = "write second", ![c].buffer = editedSecond(c, content(doc))]
    /\ UNCHANGED <<kind, headless, home, fs, saved, persisted, calls>>

\* The target is saved with the path and the configuration of the snapshot.
\* Without a window the full form and the source leave the store alone.
PutTarget(c) ==
    /\ call[c].pc = "put"
    /\ LET t == call[c].target
           cfg == IF call[c].op = "config" THEN call[c].config
                  ELSE IF call[c].op = "source" THEN call[c].parsed ELSE t.config
           next(done) == IF call[c].op # "group" THEN end(c, TRUE)
                         ELSE IF done THEN go(c, "bind") ELSE end(c, FALSE)
       IN  \/ /\ headless /\ call[c].op # "group"
              /\ next(TRUE) /\ UNCHANGED <<saved, persisted>>
           \/ /\ ~headless \/ call[c].op = "group"
              /\ \/ /\ ~exists(t.dir) \/ put_taken(t.id, t.dir)
                    /\ next(FALSE) /\ UNCHANGED <<saved, persisted>>
                 \/ /\ exists(t.dir) /\ ~put_taken(t.id, t.dir)
                    /\ \E written \in BOOLEAN : persist(put_target(t.id, t.dir, cfg), written) /\ next(written)
    /\ UNCHANGED <<kind, headless, home, fs, calls>>

BindGroup(c) ==
    /\ call[c].pc = "bind"
    /\ LET id == call[c].target.id IN
       \/ byId(saved, id) = {} /\ end(c, FALSE) /\ UNCHANGED <<saved, persisted>>
       \/ /\ byId(saved, id) # {}
          /\ \E written \in BOOLEAN :
                persist(set_target_group_id(id, call[c].group), written) /\ end(c, written)
    /\ UNCHANGED <<kind, headless, home, fs, calls>>

\* The raw text of a file.  OpenClaw checks it with its other files first,
\* and takes the primary file from the disk when the call names no source.
CheckSource(c) ==
    /\ call[c].pc = "source"
    /\ LET doc == call[c].doc
           now == files(dirOf(c))
           which == IF call[c].source = "second" THEN "second" ELSE "primary"
           new == [now EXCEPT ![which] = doc]
           checked == IF call[c].source = None THEN now ELSE new
           accepted == /\ doc # Broken
                       /\ kind = "openclaw" =>
                             /\ checked.primary # Broken /\ checked.second # Broken
                             /\ validate_openclaw_editor_config(content(checked.primary),
                                    content(checked.second), call[c].target.config)
           parsed == parse_agent_config(kind, IF kind = "openclaw" THEN checked ELSE new, call[c].target.config)
       IN  \/ ~accepted /\ end(c, FALSE)
           \/ /\ accepted
              /\ call' = [call EXCEPT ![c].parsed = parsed, ![c].buffer = doc, ![c].pc = truncating(which)]
    /\ UNCHANGED <<kind, headless, home, fs, saved, persisted, calls>>

\* Codex reads its files again after the write, but for the text of auth.json.
RereadSource(c) ==
    /\ call[c].pc = "reread"
    /\ LET now == files(dirOf(c))
           read == IF call[c].source = "second" THEN [now EXCEPT !.second = call[c].doc] ELSE now
       IN  call' = [call EXCEPT ![c].parsed = parse_agent_config(kind, read, call[c].target.config), ![c].pc = "put"]
    /\ UNCHANGED <<kind, headless, home, fs, saved, persisted, calls>>

\* The application ends, at any point of its calls, and is started again: the
\* store reads its file.
Restart ==
    /\ saved # persisted \/ \E c \in Callers : call[c].pc \notin {"idle", "end"}
    /\ saved' = persisted
    /\ call' = [c \in Callers |-> Idle]
    /\ UNCHANGED <<kind, headless, home, fs, persisted, calls>>

Step(c) ==
    \/ BeginAdd(c) \/ AddTarget(c) \/ BeginUpdate(c) \/ RemoveTarget(c)
    \/ BeginWriteGroupEntry(c) \/ NextTarget(c) \/ BeginWriteAgentConfig(c) \/ BeginWriteSource(c)
    \/ ReadPrimary(c) \/ ReadSecond(c) \/ CheckSource(c) \/ RereadSource(c)
    \/ \E which \in Files : TruncateFile(c, which) \/ FillFile(c, which)
    \/ PutTarget(c) \/ BindGroup(c)

Next == Restart \/ \E c \in Callers : Step(c)

Spec == Init /\ [][Next]_vars

----------------------------------------------------------------------------
\* No two targets stand for the same directory, and no two have the same id,
\* whatever calls overlap and however the default target is reached: the
\* checks of the snapshot (add_target) are stale, those of the store decide.
TargetsDistinct ==
    \A s, t \in saved : s # t => s.id # t.id /\ canonicalize(s.dir) # canonicalize(t.dir)

finished(c, op) == call[c].pc \in {"between", "end"} /\ call[c].op = op /\ call[c].ok /\ call[c].alone
readBack(c) ==
    LET t == call[c].target
        cfg == IF byId(saved, t.id) = {} THEN t.config ELSE (CHOOSE s \in byId(saved, t.id) : TRUE).config
    IN  parse_agent_config(kind, files(dirOf(c)), cfg)

\* The provider an OpenClaw form names is known only by the saved target.
remembered(c) == kind = "openclaw" => \E t \in byId(saved, call[c].target.id) : t.config = call[c].config

\* A write that reports success, and that no other call overlapped, is what
\* the service reads from the files of that client afterwards, whatever was
\* in its two files before: the address of the group and the binding of the
\* target, or the address and the key of the form.
WrittenIsReadBack == \A c \in Callers :
    /\ finished(c, "group") =>
          /\ readBack(c).url # None /\ readBack(c).url.group = call[c].group
          /\ \E t \in byId(saved, call[c].target.id) : t.group = call[c].group /\ canonicalize(t.dir) = dirOf(c)
    /\ (finished(c, "config") /\ remembered(c)) =>
          LET form == call[c].config IN
          /\ form.url # None => readBack(c).url = form.url
          /\ form.token # None => readBack(c).token = form.token
          /\ (kind \in {"codex", "openclaw"} /\ form.token = None) => readBack(c).token = None

\* At most one entry of the document was edited, and a one-click write
\* changed no key, unless it wrote the entry of OpenClaw's primary file, which
\* it replaces: there the key is only kept by the registry.
entriesKept(old, new) ==
    /\ new.named = old.named
    /\ DOMAIN old.providers \subseteq DOMAIN new.providers
    /\ \E p \in Names : \A q \in DOMAIN old.providers \ {p} : new.providers[q] = old.providers[q]
keysKept(old, new) ==
    \A p \in DOMAIN old.providers : /\ new.providers[p].token = old.providers[p].token
                                    /\ new.providers[p].legacy = old.providers[p].legacy

\* What the edit of a file by call c leaves of it.
fileKept(c, which, old, new) ==
    /\ old = Broken => new = Broken
    /\ old \notin {Missing, Broken} =>
          /\ new \notin {Missing, Broken} /\ entriesKept(old, new)
          /\ call[c].op = "group" /\ (which = "second" \/ kind # "openclaw") => keysKept(old, new)

\* A file is exposed while it is written, and after its write failed.
exposed(c, which) == call[c].pc = filling(which) \/ call[c].torn = which

\* From the moment an edit comes to a target, and wherever it fails or the
\* application ends, only the file that is being written can be lost, or is
\* lost if its write failed.  Every other file that did not parse is as it
\* was, and one that did has all its entries, at most one of them edited, and
\* after a one-click write all its keys.  (For edits that no other call
\* overlaps; the raw text a user sends replaces the file, as it should.)
UserFilesKept == \A c \in Callers :
    call[c].alone /\ call[c].op \in {"group", "config"} =>
        \A which \in Files :
            exposed(c, which) \/ fileKept(c, which, call[c].before[which], files(dirOf(c))[which])
=============================================================================
