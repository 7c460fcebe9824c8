---------------------------- MODULE ConfigStore -----------------------------
(***************************************************************************)
(* ConfigStore keeps one configuration in three places: groups and         *)
(* providers in SQLite, everything else in config.json, and the whole of   *)
(* it in memory.  A save normalizes and validates the configuration, then  *)
(* writes the three places one after the other with no lock around them,   *)
(* so saves interleave, fail in the middle, and are cut by a crash; the    *)
(* next start rebuilds the memory from the two halves on disk.  The        *)
(* database is taken to read back what was written to it; GroupSets leaves *)
(* out groups with a provider that has neither models nor a default model, *)
(* for which that fails: ConfigDocument models the two conversions.        *)
(***************************************************************************)
EXTENDS Naturals

CONSTANTS
    Writers,         \* concurrent callers of save / import_groups_payload
    Boot,            \* the thread that runs initialize
    Settings,        \* what config.json may say
    GroupSets,       \* what the groups database may say
    DefaultSettings, NoGroups,   \* default_config()
    ValidSettings, ValidGroups,  \* what validate_config accepts of each half
    Normalize(_),    \* normalize_config_for_storage on groups and providers
    MaxSaves,        \* bound on the saves started
    MaxCrashes,      \* bound on crashes
    Empty, Garbage, Missing  \* config.json truncated, unparsable, not there

(* validate_config has no rule that relates the two halves.                *)
ASSUME ConfigAssumption ==
    /\ ValidSettings \subseteq Settings
    /\ ValidGroups \subseteq GroupSets
    /\ DefaultSettings \in ValidSettings
    /\ NoGroups \in ValidGroups
    /\ \A g \in GroupSets : Normalize(g) \in GroupSets
    /\ {Empty, Garbage, Missing} \cap Settings = {}
    /\ Boot \notin Writers
    /\ MaxSaves \in Nat /\ MaxCrashes \in Nat

Threads == Writers \cup {Boot}
Config == [set : Settings, grp : GroupSets]
Default == [set |-> DefaultSettings, grp |-> NoGroups]

VARIABLES
    db,       \* group_records and provider_records, as committed
    file,     \* config.json
    mem,      \* the shared in-memory configuration
    status,   \* the process: "down", "booting" or "up"
    pc,       \* where each thread is in its save
    op,       \* "save" or "import"
    next,     \* the configuration the thread is saving
    saves, crashes,
    solo,     \* ghost: no other save overlapped this one so far
    clean     \* ghost: the last save that ended was complete and solo

vars == <<db, file, mem, status, pc, op, next, saves, crashes, solo, clean>>

normalized(c) == [c EXCEPT !.grp = Normalize(c.grp)]
valid(c) == c.set \in ValidSettings /\ c.grp \in ValidGroups
quiet == \A t \in Threads : pc[t] = "idle"
goto(t, l) == pc' = [pc EXCEPT ![t] = l]

(* A fresh installation: ConfigStore::new, nothing on disk.                *)
Init ==
    /\ db = NoGroups
    /\ file = Missing
    /\ mem = Default
    /\ status = "down"
    /\ pc = [t \in Threads |-> "idle"]
    /\ op = [t \in Threads |-> "save"]
    /\ next = [t \in Threads |-> Default]
    /\ saves = 0 /\ crashes = 0
    /\ solo = [t \in Threads |-> FALSE]
    /\ clean = FALSE

-----------------------------------------------------------------------------
(* config_service: `save` takes a whole configuration from its caller,     *)
(* import_groups_payload replaces groups and providers in a copy of the    *)
(* configuration it reads.                                                 *)
start(w, kind, c) ==
    /\ status = "up" /\ pc[w] = "idle" /\ saves < MaxSaves
    /\ saves' = saves + 1
    /\ op' = [op EXCEPT ![w] = kind]
    /\ next' = [next EXCEPT ![w] = normalized(c)]
    /\ goto(w, "validate")
    /\ solo' = [t \in Threads |-> t = w /\ quiet]
    /\ UNCHANGED <<db, file, mem, status, crashes, clean>>

BeginSave(w) == \E c \in Config : start(w, "save", c)

BeginImport(w) ==
    \E g \in GroupSets : start(w, "import", [mem EXCEPT !.grp = g])

(* A rejected configuration is reported before anything is written.        *)
ValidateUnchecked(t) ==
    /\ pc[t] = "validate"
    /\ goto(t, "db")
    /\ UNCHANGED <<db, file, mem, status, op, next, saves, crashes, solo, clean>>

Validate(t) ==
    /\ pc[t] = "validate"
    /\ goto(t, IF valid(next[t]) THEN "db" ELSE "idle")
    /\ UNCHANGED <<db, file, mem, status, op, next, saves, crashes, solo, clean>>

(* save_config_to_db: one transaction under the mutex of the connection.   *)
SaveConfigToDb(t) ==
    /\ pc[t] = "db"
    /\ db' = next[t].grp
    /\ goto(t, "truncate")
    /\ UNCHANGED <<file, mem, status, op, next, saves, crashes, solo, clean>>

(* write_file: std::fs::write opens with truncation, then writes at the    *)
(* start of the file.  Over the bytes of another writer, the end of a      *)
(* longer text may remain behind ours.                                     *)
TruncateFile(t) ==
    /\ pc[t] = "truncate"
    /\ file' = Empty
    /\ goto(t, "fill")
    /\ UNCHANGED <<db, mem, status, op, next, saves, crashes, solo, clean>>

FillFile(t) ==
    /\ pc[t] = "fill"
    /\ file' \in IF file \in {Empty, next[t].set} THEN {next[t].set}
                 ELSE {next[t].set, Garbage}
    /\ goto(t, "install")
    /\ UNCHANGED <<db, mem, status, op, next, saves, crashes, solo, clean>>

(* set_in_memory, and the end of the save (of initialize, for Boot).       *)
SetInMemoryKeepingSettings(t) ==
    /\ pc[t] = "install"
    /\ mem' = [mem EXCEPT !.grp = next[t].grp]
    /\ goto(t, "idle")
    /\ status' = "up"
    /\ clean' = solo[t]
    /\ UNCHANGED <<db, file, op, next, saves, crashes, solo>>

SetInMemory(t) ==
    /\ pc[t] = "install"
    /\ mem' = next[t]
    /\ goto(t, "idle")
    /\ status' = "up"
    /\ clean' = solo[t]
    /\ UNCHANGED <<db, file, op, next, saves, crashes, solo>>

(* A step on disk fails: the save (or initialize, whose error the start of *)
(* the application ignores) returns without undoing what it wrote before.  *)
FailStep(t) ==
    /\ pc[t] \in {"db", "truncate", "fill"}
    /\ goto(t, "idle")
    /\ status' = "up"
    /\ clean' = FALSE
    /\ UNCHANGED <<db, file, mem, op, next, saves, crashes, solo>>

-----------------------------------------------------------------------------
(* initialize: read the file, take groups and providers from the database, *)
(* validate; defaults replace everything when there is no file or the      *)
(* configuration is invalid.  A file that does not parse counts as {}, and *)
(* an empty database is written again before the file is.                  *)
Initialize ==
    /\ status = "down"
    /\ status' = "booting"
    /\ LET parsed == IF file \in Settings THEN file ELSE DefaultSettings
           loaded == [set |-> parsed, grp |-> db]
           usable == file # Missing /\ valid(loaded)
       IN /\ next' = [next EXCEPT ![Boot] = IF usable THEN loaded ELSE Default]
          /\ goto(Boot, IF usable /\ db # NoGroups THEN "truncate" ELSE "db")
    /\ solo' = [t \in Threads |-> t = Boot]
    /\ UNCHANGED <<db, file, mem, op, saves, crashes, clean>>

(* The process dies: memory is lost, the disk stays as it is.              *)
Crash ==
    /\ status # "down" /\ crashes < MaxCrashes
    /\ crashes' = crashes + 1
    /\ status' = "down"
    /\ mem' = Default
    /\ pc' = [t \in Threads |-> "idle"]
    /\ clean' = FALSE
    /\ UNCHANGED <<db, file, op, next, saves, solo>>

SaveSteps(t) ==
    \/ Validate(t) \/ SaveConfigToDb(t) \/ TruncateFile(t) \/ FillFile(t)
    \/ SetInMemory(t) \/ FailStep(t)

Next ==
    \/ Initialize \/ Crash
    \/ \E w \in Writers : BeginSave(w) \/ BeginImport(w)
    \/ \E t \in Threads : SaveSteps(t)

Spec == Init /\ [][Next]_vars

-----------------------------------------------------------------------------
(* The type invariant of the three stores and the threads writing them.    *)
TypeOK ==
    /\ db \in GroupSets
    /\ file \in Settings \cup {Empty, Garbage, Missing}
    /\ mem \in Config
    /\ status \in {"down", "booting", "up"}
    /\ pc \in [Threads -> {"idle", "validate", "db", "truncate", "fill", "install"}]
    /\ op \in [Threads -> {"save", "import"}]
    /\ next \in [Threads -> Config]
    /\ saves \in 0..MaxSaves /\ crashes \in 0..MaxCrashes
    /\ solo \in [Threads -> BOOLEAN]
    /\ clean \in BOOLEAN

(* After a save (or a start) that no other save overlapped and that did    *)
(* not fail, memory, config.json and the database hold one configuration,  *)
(* whatever earlier interleaved, failed or crashed saves left behind.      *)
StoresAgreeAfterSoloSave ==
    quiet /\ clean => mem = [set |-> file, grp |-> db]

(* Once config.json exists, a start never rewrites the groups and          *)
(* providers of the database: no crash, failure or interleaving of saves   *)
(* leaves on disk a combination that initialize rejects and replaces by    *)
(* the defaults.                                                           *)
BootKeepsGroups == [][status # "up" /\ file # Missing => db' = db]_vars

(* Every configuration in use, and every half on disk that a start will    *)
(* read, has passed validate_config.                                       *)
OnlyValidatedData ==
    /\ valid(mem)
    /\ db \in ValidGroups
    /\ file \in Settings => file \in ValidSettings

(* What a thread is about to write has passed validate_config.             *)
WritesAreValid ==
    \A t \in Threads :
        pc[t] \in {"db", "truncate", "fill", "install"} => valid(next[t])

(* initialize runs alone, and writes to the database what it read there,   *)
(* unless there is no config.json yet.                                     *)
BootRunsAlone ==
    /\ status # "up" => \A w \in Writers : pc[w] = "idle"
    /\ pc[Boot] # "idle" => status = "booting" /\ pc[Boot] # "validate"
    /\ pc[Boot] = "db" => file = Missing \/ next[Boot].grp = db

(* The inductive invariant behind OnlyValidatedData and BootKeepsGroups.   *)
IndInv == TypeOK /\ OnlyValidatedData /\ WritesAreValid /\ BootRunsAlone
=============================================================================
