# Verification of ai-open-router

ai-open-router is a desktop program (Rust/Tauri, `src-tauri/`) that runs a
local HTTP proxy between AI clients and AI providers. A client calls
`/oc/:groupId/...` in one of three protocols (Claude Messages, OpenAI Chat
Completions, OpenAI Responses); the proxy picks a provider from the routing table
of the group, converts the request, forwards it, converts the answer (also a
streamed one, event by event) and records what happened. The same HTTP
server carries the management API, which saves the configuration and starts and
stops the server it runs in.

This directory holds TLA+ models of the parts with interleavings, failures
and protocol state, the TLC runs that check them on small instances, and TLAPS
proofs of the main invariants for every value of the constants.
`PROJECT.json` lists runs, mutants, theorems, findings, hazards and, for
every definition that models code, the lines it models. Paths below are
relative to `src-tauri/src/` of the repository.

## Inventory

| Component | State | Operations | Interacts with |
|---|---|---|---|
| Configuration store (`config_store.rs`, `services/config_service.rs`, `config/`) | SQLite tables of groups and providers, `config.json`, in-memory copy behind an `RwLock`, `revision` | initialize, save, import | read by every request; a save triggers a restart of the server |
| Route index (`proxy/routing.rs`) | table group → route, the revision it was built for | refresh if needed, look up, resolve provider | rebuilt by requests from the configuration |
| Proxy runtime (`proxy.rs`, `app_state.rs`, `proxy/net.rs`) | slot with the running server, uptime | start, stop, restart after a save, status | called by desktop commands and by HTTP handlers inside the server |
| Request pipeline (`proxy/pipeline.rs`) | handler and stream task of each request | route, forward, answer, record | everything |
| Observability (`proxy/observability.rs`, `log_store.rs`, `stats_store.rs`) | atomic counters, bounded log, one row per request | count, append, upsert, clear, snapshot | written by handlers and stream tasks, read by polls |
| Stream relay (`proxy/pipeline.rs`, the spawned task) | SSE buffer, converter context, channel of 32 chunks | read, cut, convert, send, finalize | upstream, client |
| Stream converters (`transformer/convert/`) | `StreamContext`: flags and block indexes | convert one event, finalize | called by the relay |
| Document converters (`transformer/convert/`) | none | request and whole-response translation in six directions | pipeline |
| Configuration documents (`config/`) | none | migrate, normalize, validate, store in tables, read back | configuration store |
| Client integrations (`services/integration_service.rs`, `integration_store.rs`) | list of targets in memory and on disk, configuration files of Claude Code, Codex, OpenCode and OpenClaw | add, move, remove a target; write a group entry, a form or a raw file | called from the window and from HTTP; reads the groups |
| Remote rules and backups (`remote_sync.rs`, `services/remote_rules_service.rs`, `services/group_backup_service.rs`, `backup.rs`) | a remote branch, the directory `remote-sync-tmp` | upload, pull, export, import | configuration store, Git, other installations |
| Remote admin authentication (`auth.rs`) | password hash, sessions | log in, check, expire | HTTP API |
| Quota, provider tests (`quota.rs`, `services/`) | none | single external calls | HTTP API |
| Desktop shell, renderer, command line launcher | windows, tray | | HTTP API |

The hard behaviours are: lock sections that are released between reading and
using a value; three-step saves without a lock; handlers that are dropped at an
await when their client leaves while the tasks they spawned live on; a
server that is stopped by a call it carries; bytes cut anywhere; a client that
stops reading; converters that must close what they opened wherever the
upstream breaks off; histories whose meaning depends on calls and results staying
together; documents that are merged, renamed, filtered and read back by different
code; edits of files that belong to other programs; Git commands interleaved with
those of other installations. `PROJECT.json` lists them as hazards with their lines.

What makes each component correct: the index never claims to be current when
it is not, and settles; a save that ran alone leaves the three stores in
agreement and a crash never makes a start throw the groups away; the advertised
server serves and no other does; each request has one log entry, at most one
row and is counted once; the stream reaches the client in order and is
terminated; the converted stream is a legal stream of the client's protocol and
carries what the upstream sent; a converted conversation means what the original
meant; what a save accepted is what the next start reads; targets never share a
directory and a written entry is read back; a backup is not overwritten by an older
one unless the user confirms it.

## Modules

**RouteIndex** (proofs in **ConfigurationProofs**). A save installs a
configuration and then bumps the revision under the write lock
(`InstallConfig`, `BumpRevision`). A request takes one action per shared access of
`refresh_route_index_if_needed` (`LoadRevision` … `RecordRevision`), then
`ReadSettings`, `ReadIndex`, `ReadBody`, `ResolveProvider` for the rest of the
routing part of `handle_proxy_request`; the body comes from the client, which may
keep it back forever, and a provider that is not ready is answered with 409. A configuration is reduced to what this
path tells apart. Its ghost version counts the saves; `arrived` and `overtaken`
are ghosts of the properties. The error answers for poisoned locks are left out.
Its specification is `RouteSpec`, so that one proof module can extend this module
and ConfigStore.

**ConfigStore** (proofs in **ConfigurationProofs**). The configuration has two
halves: groups with providers (database) and settings (file). A save
is `start`, `Validate`, `SaveConfigToDb`, `TruncateFile`, `FillFile`,
`SetInMemory`; the two file steps are `std::fs::write`, which truncates and
then writes, so that overlapping writers may garble the file. `FailStep`
is any `?` on the way, `Crash` ends the process anywhere, `Initialize` is
the next start, whose error the program ignores. Normalization and
validation are constants: `validate_config` relates nothing across the two halves,
so it is a predicate on each. What is read from the database is what was
written to it; the one kind of document for which that is false is the subject of
ConfigDocument (see the findings). `Init` is a fresh installation.

**ProxyLifecycle** (proofs in **ProxyLifecycleProofs**). Callers run `start`,
`stop` and `save`, one action per access of the slot and per await. An HTTP
caller is carried by a server, keeps it from draining, and can be dropped
at an await (`Disconnect`). A stop takes the server out of the slot and signals it in
two steps (`TakeServer`, `SignalServer`). Server tasks stop listening when
signalled, also by the drop of the sender when a `RunningServer` is replaced, and
may end when no management call is left on them; they need not, because the
graceful shutdown waits for every connection, proxied streams and stalled uploads
included. A host may have two candidate addresses, as
`bind_candidates` gives for `localhost` and the wildcard. **ProxyHistory** adds a
history variable that remembers whether calls ever overlapped, for
`RunningAsConfigured`.

**RequestPipeline** (proofs in **RequestPipelineProofs**). Counters, log and rows along every path of
`handle_proxy_request` and of the stream task: rejections, early failures
(counted, not logged), failures with context (counted, finalized), the timeout
of sending, plain answers, streams. `Disconnect` drops the handler at its
awaits. Polls append to the same log and read the counters one by one; the log
can be cleared at any time. The insertion of a row may fail silently.

**StreamRelay** (proofs in **StreamRelayProofs**). The loop of the stream task. An event is two pieces so that
chunks end inside events. A converter is reduced to three facts: whether it
needs whole events, whether it can fail, and how its finalizer behaves (the one
whose finalizer acts once, Responses → Claude, never fails). The
channel is bounded, the client reads, stalls or leaves.

**StreamTransformer** with **OpenAIStreamToClaude**, **ResponsesStreamToClaude**
and **OpenAIStreams** (proofs in **StreamProtocolProofs** and **TransformerProofs**).
StreamTransformer chooses one of the six converters, lets the
upstream send events (`ConvertEvent`), the terminator (`ConvertDone`) and break off
anywhere (`EndStream`), and delivers what a call returned event by event. The
other three modules are the converters as functions of context and event:
chat → Claude, Responses → Claude, and the four whose client is an
OpenAI one. A context keeps the flags and indexes of `StreamContext`; texts and token
counts are left out, arguments are counted so that a repetition in a closing event
shows. A field of a chunk is present if the converter counts it, which
`openai_chat_stream_to_responses` does of an empty string as well. What a converter
has no way of carrying is listed in `droppedKinds`: thinking to clients other than
Claude ones, and the tool calls of a Claude upstream to a chat client (see the
observations). **ClaudeStream**, **ResponsesStream** and **ChatStream** are the abstract
protocols: they generate the upstream's streams and, through the mapping of
`delivered`, are what the converters implement. Upstreams are conforming, or, for a
chat upstream and a Claude client, arbitrary ("any").

**Documents** and **AgentLoop**. Documents holds the converters of requests and
whole answers as operators, a text being a sequence of tokens (words, thinking tags,
pieces of a tool call written as text). AgentLoop closes the loop: a client sends its
history, the upstream answers, the client runs the tools and sends the results. What
a document says, independent of its API, is `meaning`; the properties compare the
meaning on both sides. `KnownToDeviate` lists the messages for which a converter
does change the meaning; `ToolChainPreserved` holds for these as well.
`AnswerPreserved` compares the texts and calls of an answer one by one and in order,
with the ids of the calls. A refusal, which `openai_responses_to_chat` drops
(`openai_chat_responses.rs:345`), is not among the contents of an answer in the
model.

**ReasoningEffort** (proofs in **StreamProtocolProofs**). The table from
thinking budgets to efforts and the clamping per model.

**ConfigSettings**, **ProviderStorage** and **ConfigDocument**. Migration of all
versions, normalization and validation of the settings; merging, renaming, filtering
and storing of groups and providers; and the life of a document: `Save`,
`SaveConfig`, `Restart`, `StartFromLegacyTables`, then `RefreshRouteIndex` and
`Request`, which resolves an entry of the routing table and its provider. Providers
are compared by JSON text, in which the prices of a hash map come in any order, so
equality of two providers with several prices is a nondeterministic choice.

**ClientFiles** and **ClientIntegrations** (proofs in **ClientIntegrationsProofs**). ClientFiles is the content of the files as
far as the service looks at it, and the edits of each client. ClientIntegrations
runs the calls: snapshot of the targets, then reading, truncating and filling each
file (`ReadPrimary`, `TruncateFile`, `FillFile`, `ReadSecond`), then the store. Files
may be missing or broken; a write may fail before or after the truncation, or be cut
off in the middle (`partial`: nothing, a text that does not parse, the head of a TOML
text); the application may end between any two steps and start again (`Restart`),
also with `client-integrations.json` torn; directories are reached by their name or
by a link, and calls overlap. A raw text is checked before it is written
(`CheckSource`), and Codex reads its files again afterwards (`RereadSource`). The names of providers, the
keys, the groups an address may name and the forms a user sends are constants.

**RemoteSync** (proofs in **RemoteSyncProofs**). Several installations share one branch; an upload or pull is one
action per Git command and check (`git add` and `git diff --cached` are one), in the
one directory all calls of an installation share. All installations read one clock;
the code compares `exportedAt` of one machine with the database time of another, so
what the model says of "newer" is about the time stamps, and holds of real time as
far as the clocks agree. Fetches fail, pushes are rejected or accepted with the answer lost, the
process crashes. Git is modelled from its use: a branch is a sequence of
commits, and a push is accepted if it extends the last one.

The `MC...` modules give the constants values. Definitions placed right before
an action with a similar name and never used by `Next` (for example
`RecordLatestRevision`) are the plausible slips of the mutants: replacing
the action by them must break the property named in `PROJECT.json`.

## Runs

| Run | Shows | Bounds |
|---|---|---|
| `route_index` | honest revision, stale routes only when overtaken, the index settles | 2 requests, 1 saver, 2 saves, 4 configurations; a rollback needs two requests and one save, and requests return any number of times |
| `config_store` | stores agree after a solo save, only validated data, a start keeps the groups | 2 writers, 3 saves, 2 crashes: an interleaved pair and a repairing save; a crash during recovery |
| `config_document` | groups keep their providers, a restart reads back what was in memory, requests are served by the most specific route, migrations fill in the defaults | about 7500 documents of all versions with shared, embedded, renamed, priced and legacy providers, alone and with a second group; 2 saves |
| `config_restart` | finding: an accepted configuration is reset at the next start | the same documents |
| `lifecycle` | advertised server serves, no orphan, address as configured without overlap, every call returns | a desktop and an HTTP caller, 3 calls: two servers and a stop, or a server, a stop it carries and one more call |
| `pipeline` | one entry per request, no forgotten "processing", counters and rows reconcile, requests without stream end | 2 requests and polls on a log of 2 entries, so that each can evict the others |
| `relay` | order, completeness, termination, an abandoned task ends | 7 pieces in chunks of up to 4, buffer of 4, channel of 2: overflow, tail events and several events in a chunk occur |
| `stream_converters` | the six converters implement the protocols of their clients and relay every delta of the kinds they carry to where it belongs; Claude clients get a clean end of any stream | conforming streams of 9 events (two items with a delta each and their closing) or 3 chunks, arbitrary ones of 2 chunks with 2 tool calls per chunk |
| `stream_items` | finding: an item that is never done | the same, one tool call per chunk |
| `agent_loop` | conversations keep their meaning, calls and results stay together, answers arrive in order, the loop can end | 3 requests, up to 2 calls per answer; thinking and odd texts in the first answer, whose effects the later requests carry |
| `integrations` | targets distinct, a write is read back, only the file being written can lose anything | 2 callers with 2 calls (the number that can overlap), 2 directories and a link, 4 kinds of client; one directory begins with each of a few states of its files (absent, broken, with entries and keys of the user), the other with entries of the user, or, for OpenClaw, absent; one form that names a key and one that does not per kind |
| `remote_sync` | success means stored, nothing newer overwritten unconfirmed | 2 installations, 3 callers, 2 calls, 2 edits, 2 times of the clock: an upload against an upload or a pull, before and after it, on a branch that is missing or holds a file that is no backup until one is pushed |

Deadlock is not checked where the system may stop: when the bounds of saves,
calls or chunks are used up, or a stream or conversation is over.

### Fairness

Weak fairness only of code the runtime keeps polling: steps of a started
request, saver, call or stream task, timers included. Nothing is
assumed of clients, users and upstreams: no request, save, answer,
disconnect or read ever has to happen, no request body ever has to arrive (`ReadBody`
has no timeout and is not fair), and no server that was told to stop ever has to end
(`Drained` is not fair: its connections may stay open). `IndexSettles` therefore says "if
requests keep coming", `EveryCallReturns` rests on the timeout of the shutdown
alone, and `AbandonedTaskEnds` "once the upstream has ended":
the relay has no idle timeout. The handler of a request that asked for a stream and
gets a plain answer waits without limit, so `NonStreamRequestEnds` is about
the others.

## Findings

1. `config_restart`: a group may carry a provider without models, default model and
   mappings. `validate_config` accepts it; `normalize_config_for_storage` keeps it
   with the group but does not store it, so the next start reads a group whose
   provider is missing, rejects the configuration and resets everything to the
   defaults.
2. `stream_items`: of several tool calls in a chat stream converted for a Responses
   client, only the last gets its `output_item.done`.

Observations without a run of their own; each is reachable in the module named and
was met while the properties were made precise:

* ConfigStore: `import_groups_payload` saves a copy of a configuration read earlier
  and so undoes a save that falls in between.
* ProxyLifecycle: two overlapping starts both find the slot empty and the second
  replaces the first (no server is orphaned by it, which is proved); a stop
  dropped at its await leaves the uptime of a server that is gone.
* RequestPipeline: a metrics snapshot reads one counter after another.
* StreamRelay: a chat stream converted for a Claude client ends with two
  message_stop events; ClaudeStream tolerates the repetition.
* StreamTransformer: `claude_stream_to_openai` drops the tool calls of a Claude
  upstream (`claude_openai_stream.rs:25-53`) but still reports the finish reason
  `tool_calls` to the chat client; thinking reaches Claude clients only.
* Documents: `openai_responses_to_chat` drops refusals (`openai_chat_responses.rs:345`).
* AgentLoop: the deviations of `KnownToDeviate`. Text beside tool results comes
  before them, and a thought alone becomes a text (Claude → chat); null content
  becomes the text "null" (chat → Claude); text beside tool calls and all but
  the last system message are dropped (chat → Responses).
* ClientIntegrations: the error of `put_target` after a form was written is ignored,
  and an overlapping move of a target is undone by a write. `std::fs::write`
  truncates first, so a failed or interrupted write loses what was in the file being
  written, and a torn `client-integrations.json` is read as no targets at all. A
  one-click write replaces the entry in OpenClaw's primary file
  (`integration_service.rs:1026-1029`), so a key that was only there is gone;
  `UserFilesKept` promises keys of the other files and of the registry only.
  `WrittenIsReadBack` says nothing about OpenClaw forms that no saved target remembers
  (without a window, or when saving the target failed), and an empty key in a form is
  read back as none for Codex and OpenClaw only: Claude keeps the old key by design,
  and for OpenCode the form clears the keys in the options
  (`integration_service.rs:3579`) but not the one beside them, which is read then.
* RemoteSync: calls of one installation share `remote-sync-tmp` and remove it at
  their beginning and end. An overlapping pair can report success for nothing, or
  push over a newer backup unconfirmed, so both properties are stated for calls
  that do not overlap within an installation. Groups saved while a pull runs are
  overwritten without a confirmation; `OverwriteConfirmed` excludes that as well. The time of a backup is that
  of its upload, not of the last edit.

## Proofs

Each proof module proves `Spec => []IndInv` from `Init => IndInv` and
`IndInv /\ [Next]_vars => IndInv'`, one step per action, and derives the
properties. Every inductive invariant was checked by TLC on the instance of the
component's run before it was proved, except those of the stream converters, which
speak of sets of all sequences and of views that exist: there TLC checks the
properties, and the invariants rest on their proofs alone. The constants are arbitrary
up to the named assumptions of each module: bounds are natural numbers, `None` and the
other special values are distinct from ordinary ones (the `None` of the stream
converters from indexes and from the keys of the maps), the constants that stand for documents,
branches, forms and candidate addresses are well typed, a link is not a canonical
directory, and a converter whose finalizer acts once does not fail
(`KindsAssumption`; `openai_responses_stream_to_claude` skips what it cannot read).
Nothing is assumed finite. TLC evaluates the assumptions on the runs.

* **ConfigurationProofs**, route index. Honesty (`UpToDateMeansCurrent`) is not inductive. The
  argument is the order of the reads: the revision is loaded before the
  configuration is, and the revision lags the configuration only inside a save, so
  a refresh records at most the version it indexed (`ObservedBeforeBuilt`,
  `RecordedAtMostIndexed`); an index with the current version equals the
  current index (`SnapshotsAreGenuine`). `BehindOnlyIfOvertaken` carries the
  explanation of stale routes through the lock section of a refresh.
* **ConfigurationProofs**, configuration store. `WritesAreValid` (what is about to be written was
  validated) and `BootRunsAlone` (initialize runs alone and writes to the database
  what it read there, unless there is no file). Each half on disk is valid,
  hence so is every combination a crash can leave; therefore initialize never
  takes the branch that resets the database. For the agreement of the stores
  (`StoresAgree`), `SoloOwnsStores` says that while a save marked solo is on its way
  nobody else writes, and that each store it has passed holds its half;
  `CleanUntilWritten` that the stores agree from the end of such a save until the
  next write.
* **ProxyLifecycleProofs.** `OwnershipOfServers`: a server between spawn and publish
  belongs to one caller and is not in the slot, so the slot is only
  ever replaced by a serving server, and the one replaced is signalled.
  `ServerRunsAsConfigured` is about the specification with the history variable:
  while nothing has overlapped there is at most one caller at work, and `SettledInv`
  says for each of its places what it leaves between the configuration, the slot
  and the port it is about to bind; between calls the slot fits the configuration,
  also if the handler was dropped at an await.
* **RequestPipelineProofs.** The log is a bounded sequence edited by handlers,
  stream tasks, polls and the user. The lemmas say what an upsert does to it: it
  keeps ids distinct and adds nothing but its entry. `ProcessingMeansRunning` also
  needs that a request that has not come to its context yet is not in the log
  (`NotLoggedYet`), or a late refresh would revive an entry. The error counter is the
  cardinality of the set of requests that failed or are about to be finalized as
  errors, and at least as many requests were counted as may still end well
  (`CountersExact`; both sets are finite at any time, however many requests there are).
* **StreamRelayProofs.** The invariant is about one sequence, `stream`: what the
  client has, followed by the channel and by what is about to be sent (after the
  client left, only what it has). Moving an item from the one to the other does not
  change it, so order, completeness and termination need an argument only where an
  event is converted, a finalizer runs or the relay gives up (`StreamInv`);
  `ControlInv` ties the flags to the places of the loop.
* **ClientIntegrationsProofs.** The store compares a new directory, made canonical,
  with those it has saved as they are, so `TargetsDistinct` needs that saved
  directories are canonical; and a restart brings back the file, so the same must
  hold of what was written, also when writing failed. That the snapshots calls work
  with are stale does not matter: the argument never mentions them.
  `UserFilesKept` speaks of every moment of an edit, from the files as they were when
  the call came to the target (the ghost `before`). What is written was made from a
  file read some steps earlier, and between truncating and filling the file holds
  neither. `FilesInv` says at each place of a call that is alone which of the two
  files are as they were, which hold the edited contents, and that the buffer keeps
  the entries and keys of the file it is about to replace; a call that is alone is the
  only one that writes (`LoneInv`). A step that fails leaves at most the file it was
  writing torn, and the end of the application leaves what the invariant says of the
  moment before. The lemmas before it say what each edit keeps of a document.
  `WritesAreReadBack` needs the way from the write to the end of the call.
  `BackInv` says what the buffer, the two files and the store hold at each place of
  a call that is alone. Its core is that readers find the entry the writer used:
  resolving the OpenClaw provider again, in the document just written, gives the
  same name (`ResolvedAgain`), provided the saved target has the configuration of
  the call's snapshot (`Agree`), which `put_target` and the next target of the
  same call keep. Without a window the snapshot is the default target whatever is
  saved, and the two agree because no configuration is ever saved there
  (`HeadlessInv`).
* **RemoteSyncProofs.** While a call is alone in its installation nobody else
  touches `remote-sync-tmp`, so its contents at each step of an upload are known in
  terms of the payload and of the commit fetched (`DirInv`); a push extends the
  commit it was made on, and commits are never taken off the branch, hence
  `UploadsAreStored` and, with the ages compared on the way, `NewerIsConfirmed`.
* **StreamProtocolProofs** and **TransformerProofs**, for any number of events, chunks,
  tool calls and output indexes. The protocols speak of whole streams, so each
  protocol gets a *view* of a stream (is it started or stopped, which block or item is
  open, how many there were) and one lemma: a stream extended by an event its
  view allows is well formed, and its view is the next one (`CExtend` for Claude and
  its like for Responses). From there on a converter is followed event by event: each
  emission is allowed by the view of what the client was sent, and leaves context and
  view linked. `SentInv` says that what the upstream sent keeps to its protocol.
  * `ChatRefinement`. `ChatInv`: what has been and is about to be delivered to a
    chat client is a stream of its protocol whose end, role and calls follow from the
    view of the upstream.
  * `ClaudeRefinement`. `ToClaudeInv` links the context of `openai_stream_to_claude` to
    the view of the client (at most one block open, the one the flags name, at the
    index they name). `ItemsInv` does so for `openai_responses_stream_to_claude`: what
    the upstream has open is found, by the key its way of naming items gives or by
    `fallback_open_index` and `last_tool_index`, at the index of the block open at the
    client; and every key in the map is of an item already begun, so that a new item
    never gets the index of an old one. The delicate way of naming is "mixed", which
    announces a call under one key and continues it under another.
  * `StreamsEndCleanly` is also about chat upstreams that send anything, where the
    protocol cannot be kept. `KnowsInv`: at most the blocks the context knows are
    open at the client, so a finalizer that closes those closes all.
  * `CarriedDeltasRelayed`. `CodexInv` compares, for the four other converters, the
    *tally* of what was told (calls announced so far, and the deltas with their calls)
    with that of what the upstream said; `ToClaudeInv` and `ItemsInv` carry the same for
    a Claude client.
  * `EffortFitsEveryBudget`: for every integer budget and every model the effort is
    one the model accepts, and larger positive budgets never ask for less.

  The converters fold over the tool calls of a chunk, and the contents of a stream
  are a flattened sequence. What these compute is proved by induction: a
  set of counterexamples in `Nat` would have a least element (`Least`, `NatInduct`),
  and the recursive function of `MapThenFoldSet` or `FlattenSeq` is shown to exist and to
  be unique for each length. The converter modules take their folds from
  FiniteSetsExt, because every instance repeats the definitions of what it extends
  and the prover reads all of them at each step.

Only model-checked: liveness (the prover does not handle fairness);
`ImplementsResponsesStream`, whose views of the client are those of an upstream
numbered anew and would need the linking of both sides once more for two converters
(their contents are proved, in `CarriedDeltasRelayed`); the document converters
(AgentLoop) and ConfigDocument, whose operators fold over messages and providers
several levels deep, each of which would need the argument above for itself.

## Plan

Modules, in the order of the plan, all done: RouteIndex, ConfigStore, ProxyLifecycle,
RequestPipeline, StreamRelay; the stream converters; configuration documents with
the choice of a route; document converters; client integrations; remote
synchronization.

Proofs, all done: the invariants of RouteIndex, ConfigStore and ProxyLifecycle;
RequestPipeline and StreamRelay; RemoteSync; the files of the clients and what is
read back from them; the stream converters for a chat and a Claude client, their
clean end and what they relay. Open: the refinement of ResponsesStream.

## Not modelled

* Statistics summaries: SQL aggregation over one table whose insertion is modelled.
* Remote admin authentication: password hashing and session checks belong to a
  security review.
* Quota and the request of a provider test: single external calls and the parsing
  of their answers, without state (which provider a test uses is in ConfigDocument).
* Protocol detection from paths, upstream addresses and forwarded headers: pure
  string handling covered by unit tests.
* In the document converters: images, sampling parameters, JSON schemas of
  tools and token counts. In the integrations: model names, auth profiles, WSL paths
  and the choice of the entry's address.
* Desktop shell, renderer, command line launcher and scripts.
