--------------------------- MODULE ConfigSettings ---------------------------
(***************************************************************************)
(* The part of a configuration document that is neither groups nor         *)
(* providers: migration between versions, defaults for what is missing,    *)
(* and validation.  A field that is not in the document is None; blank     *)
(* strings are "".                                                         *)
(***************************************************************************)
EXTENDS Naturals

CONSTANT None

CURRENT_CONFIG_VERSION == 5

orElse(v, default) == IF v = None THEN default ELSE v
nonBlank(v) == IF v = "" THEN None ELSE v
oneOf(v, values) == IF v \in values THEN v ELSE None

default_config ==
    [host |-> "0.0.0.0", port |-> 8899, auth_enabled |-> FALSE, bearer |-> "",
     theme |-> "light", locale |-> "en-US", locale_mode |-> "auto",
     auto_start |-> TRUE, auto_update |-> TRUE, minutes |-> 5,
     enabled |-> FALSE, repo |-> "", token |-> "", branch |-> "main"]

modeFor(locale) == IF locale = "zh-CN" THEN "manual" ELSE "auto"

(* Synchronization counts as enabled where the document has a repository   *)
(* or a token.                                                             *)
configured(s) == orElse(s.repo, "") # "" \/ orElse(s.token, "") # ""

(* Mutated form: the mode does not depend on the locale.                   *)
migrate_v1_to_v2_auto(s) ==
    [s EXCEPT !.locale_mode = orElse(@, "auto"),
              !.enabled = orElse(@, configured(s)),
              !.branch = IF @ \in {None, ""} THEN "main" ELSE @]

(* Steps of the migrator; each fills in what its version introduced.       *)
migrate_v1_to_v2(s) ==
    [s EXCEPT !.locale_mode = orElse(@, modeFor(s.locale)),
              !.enabled = orElse(@, configured(s)),
              !.branch = IF @ \in {None, ""} THEN "main" ELSE @]
migrate_v2_to_v3(s) == [s EXCEPT !.auto_start = orElse(@, TRUE)]
migrate_v3_to_v4(s) == [s EXCEPT !.auto_update = orElse(@, TRUE)]

(* A missing version counts as 1; for 0 there is no migrator, and a newer  *)
(* version than the program's is refused.                                  *)
supported(version) == orElse(version, 1) \in 1..CURRENT_CONFIG_VERSION

migrate_settings(version, s) ==
    LET v == orElse(version, 1)
        s2 == IF v <= 1 THEN migrate_v1_to_v2(s) ELSE s
        s3 == IF v <= 2 THEN migrate_v2_to_v3(s2) ELSE s2
    IN IF v <= 3 THEN migrate_v3_to_v4(s3) ELSE s3

(* normalize_config: defaults for what is missing, and for the values that *)
(* are not among the known ones.                                           *)
normalize_settings(s) ==
    LET d == default_config
        mode == orElse(s.locale_mode, modeFor(s.locale))
    IN [host |-> orElse(nonBlank(s.host), d.host),
        port |-> orElse(s.port, d.port),
        auth_enabled |-> orElse(s.auth_enabled, d.auth_enabled),
        bearer |-> orElse(s.bearer, d.bearer),
        theme |-> orElse(oneOf(s.theme, {"light", "dark"}), d.theme),
        locale |-> orElse(oneOf(s.locale, {"zh-CN"}), "en-US"),
        locale_mode |-> orElse(oneOf(mode, {"manual"}), "auto"),
        auto_start |-> orElse(s.auto_start, d.auto_start),
        auto_update |-> orElse(s.auto_update, d.auto_update),
        minutes |-> orElse(s.minutes, d.minutes),
        enabled |-> orElse(s.enabled, configured(s)),
        repo |-> orElse(s.repo, d.repo),
        token |-> orElse(s.token, d.token),
        branch |-> orElse(nonBlank(s.branch), d.branch)]

(* The rules of validate_config on this part of the configuration.         *)
validate_settings(s) ==
    /\ s.host # "" /\ s.port # 0 /\ s.branch # ""
    /\ s.auth_enabled => s.bearer # ""
    /\ s.theme \in {"light", "dark"}
    /\ s.locale \in {"en-US", "zh-CN"} /\ s.locale_mode \in {"auto", "manual"}
    /\ 1 <= s.minutes /\ s.minutes <= 1440
=============================================================================
