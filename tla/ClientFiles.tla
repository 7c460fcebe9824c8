----------------------------- MODULE ClientFiles -----------------------------
(***************************************************************************)
(* The configuration files of the client programs (Claude Code, Codex,     *)
(* OpenCode, OpenClaw) as services/integration_service.rs reads and edits  *)
(* them.  A file is Missing, Broken (it does not parse), or a record of    *)
(* what the service looks at: the provider entries it holds, and whether a *)
(* Codex file names its provider.  Claude and OpenCode files have the one  *)
(* entry Shared (env, and provider.aor_shared.options).  "legacy" is the   *)
(* second place a key may be in: api_key of config.toml, and the key       *)
(* beside the options of OpenCode.  Codex keeps its key in auth.json and   *)
(* OpenClaw a copy of each provider in models.json; both are the "second"  *)
(* file.  Model names, formats and the auth profiles of OpenClaw are left  *)
(* out: they are handled like the address, or only read.                   *)
(***************************************************************************)
EXTENDS Naturals, Sequences

CONSTANTS None, Missing, Broken,  \* no value; a file that is not there; one that does not parse
          Providers, Keys,        \* the names of provider entries, and the keys, that files may hold
          GroupIds                \* the groups an address may name

Shared == "aor_shared"
Auth == "OPENAI_API_KEY"

entry(url, token, legacy) == [url |-> url, token |-> token, legacy |-> legacy]
Blank == entry(None, None, None)
Empty == [providers |-> << >>, named |-> FALSE]
config(provider, url, token) == [provider |-> provider, url |-> url, token |-> token]

Names == Providers \cup {Shared, Auth}
Tokens == Keys \cup {None}
Url == [group : GroupIds \cup {None}, v1 : BOOLEAN]
Entry == [url : Url \cup {None}, token : Tokens, legacy : Tokens]
Document == [providers : UNION {[S -> Entry] : S \in SUBSET Names}, named : BOOLEAN]
File == Document \cup {Missing, Broken}
Config == [provider : Names \cup {None}, url : Url \cup {None}, token : Tokens]
Pair == [primary : File, second : File]

ASSUME FilesAssumption ==
    /\ None \notin Names \cup Keys \cup Url \cup Document \cup Config \cup Pair
    /\ Missing \notin Document /\ Broken \notin Document /\ Missing # Broken

\* read_json_like_object, read_toml_document: a missing file reads as an empty one.
content(doc) == IF doc = Missing THEN Empty ELSE doc
at(doc, p) == IF p \in DOMAIN doc.providers THEN doc.providers[p] ELSE Blank
with(doc, p, e) ==
    [doc EXCEPT !.providers = [q \in DOMAIN @ \cup {p} |-> IF q = p THEN e ELSE @[q]]]
orElse(v, w) == IF v # None THEN v ELSE w
overlay(e, f) == entry(orElse(f.url, e.url), orElse(f.token, e.token), e.legacy)

\* The edit is refused: the file does not parse, or Codex names no provider.
refused(kind, doc) == IF doc = Broken THEN TRUE ELSE kind = "codex" /\ ~content(doc).named
\* The other file of the client is refused only when it does not parse.
hasSecond(kind, op) == kind = "openclaw" \/ (kind = "codex" /\ op = "config")

build_openclaw_entry_url(url) == [url EXCEPT !.v1 = TRUE]

\* The keys of a JSON object are sorted, and Shared sorts first.
firstOf(doc) == IF Shared \in DOMAIN doc.providers THEN Shared
                ELSE CHOOSE p \in DOMAIN doc.providers : TRUE

resolve_openclaw_provider_name(primary, models, cfg) ==
    IF cfg # None /\ cfg.provider # None THEN cfg.provider
    ELSE IF DOMAIN primary.providers # {} THEN firstOf(primary)
    ELSE IF DOMAIN models.providers # {} THEN firstOf(models)
    ELSE Shared

----------------------------------------------------------------------------
\* One-click write of the entry address.

write_openclaw_config(doc, cfg, url) ==
    with(doc, resolve_openclaw_provider_name(doc, Empty, cfg),
         entry(build_openclaw_entry_url(url), None, None))

write_target_entry(kind, doc, cfg, url) ==
    IF kind = "openclaw" THEN write_openclaw_config(doc, cfg, url)
    ELSE with(doc, Shared, [at(doc, Shared) EXCEPT !.url = url])

\* Mutant: the registry entry is replaced, not merged.
merge_by_replacing(existing, patch) == patch

merge_openclaw_provider(existing, patch) == overlay(existing, patch)

\* Mutant: an existing entry of the registry is left as it is.
sync_only_new_provider(models, p, e, preserve_existing) ==
    IF p \in DOMAIN models.providers THEN models ELSE with(models, p, e)

\* The registry receives what was written into the primary file.
sync_openclaw_provider_to_models_file(models, p, e, preserve_existing) ==
    with(models, p, IF preserve_existing THEN merge_openclaw_provider(at(models, p), e) ELSE e)

----------------------------------------------------------------------------
\* The full configuration form of one client.

\* Claude keeps what the form leaves empty, OpenCode removes the key.
write_claude_full_config(doc, cfg) ==
    with(doc, Shared, [at(doc, Shared) EXCEPT !.url = orElse(cfg.url, @), !.token = orElse(cfg.token, @)])

write_opencode_full_config(doc, cfg) ==
    with(doc, Shared, [at(doc, Shared) EXCEPT !.url = orElse(cfg.url, @), !.token = cfg.token])

\* The address goes to config.toml, the key to auth.json.
write_codex_full_config(doc, cfg) ==
    with(doc, Shared, [at(doc, Shared) EXCEPT !.url = orElse(cfg.url, @), !.legacy = None])
write_codex_auth(auth, cfg) == with(auth, Auth, entry(None, cfg.token, None))

write_openclaw_full_config(doc, cfg) ==
    with(doc, orElse(cfg.provider, Shared), entry(cfg.url, cfg.token, None))

write_full_config(kind, doc, cfg) ==
    CASE kind = "claude" -> write_claude_full_config(doc, cfg)
      [] kind = "opencode" -> write_opencode_full_config(doc, cfg)
      [] kind = "codex" -> write_codex_full_config(doc, cfg)
      [] kind = "openclaw" -> write_openclaw_full_config(doc, cfg)

----------------------------------------------------------------------------
\* What the service reads out of the files.

\* The entries of the registry override those of the primary file.
parse_openclaw_config_with_sources(primary, models, cfg) ==
    LET p == resolve_openclaw_provider_name(primary, models, cfg)
        merged == overlay(at(primary, p), at(models, p))
    IN  config(p, merged.url, merged.token)

parse_codex_config_with_auth(doc, auth) ==
    LET e == IF doc.named THEN at(doc, Shared) ELSE Blank
    IN  config(IF doc.named THEN Shared ELSE None, e.url, orElse(at(auth, Auth).token, e.legacy))

parse_opencode_config(doc) ==
    LET e == at(doc, Shared) IN config(Shared, e.url, orElse(e.token, e.legacy))

parse_claude_config(doc) == config(None, at(doc, Shared).url, at(doc, Shared).token)

\* None when the primary file does not parse; a broken second file reads as absent.
parse_agent_config(kind, files, cfg) ==
    LET primary == content(files.primary)
        second  == IF files.second = Broken THEN Empty ELSE content(files.second)
    IN  IF files.primary = Broken THEN None
        ELSE CASE kind = "claude" -> parse_claude_config(primary)
               [] kind = "opencode" -> parse_opencode_config(primary)
               [] kind = "codex" -> parse_codex_config_with_auth(primary, second)
               [] kind = "openclaw" -> parse_openclaw_config_with_sources(primary, second, cfg)

\* The provider named by the editor must be in one of the two files.
validate_openclaw_editor_config(primary, models, cfg) ==
    resolve_openclaw_provider_name(primary, models, cfg) \in DOMAIN primary.providers \cup DOMAIN models.providers
=============================================================================
