----------------------------- MODULE RemoteSync -----------------------------
(***************************************************************************)
(* Backup of the groups in a Git repository (remote_sync.rs,               *)
(* services/remote_rules_service.rs) and in files or on the clipboard      *)
(* (services/group_backup_service.rs).  Several installations share one    *)
(* branch.  An upload or a pull runs Git commands in the directory         *)
(* remote-sync-tmp of its installation, one command after the other and    *)
(* without a lock; calls from the window and from HTTP overlap.  The       *)
(* remote is the sequence of the commits of the branch, each given by its  *)
(* groups-rules-backup.json; Git accepts a push that extends the last one. *)
(* Groups and providers together are one value, named by the edit that     *)
(* made it; how they are saved is the subject of ConfigStore.              *)
(***************************************************************************)
EXTENDS Naturals, Sequences, SequencesExt

CONSTANTS Callers, Installations,
          Home,             \* the installation of each caller
          InitialRemotes,   \* the branch at the beginning
          None, Broken,     \* nothing; a file that is not a backup
          MaxClock, MaxEdits, MaxCalls

VARIABLES clock,
          local,    \* per installation: the groups, and when providers.sqlite was last written
          edits,    \* what the users did so far
          remote,   \* the commits of the branch
          dir,      \* remote-sync-tmp of each installation; None: not there
          call, calls

vars == <<clock, local, edits, remote, dir, call, calls>>

backup(content, exportedAt) == [content |-> content, exportedAt |-> exportedAt]

\* What can be found in place of groups-rules-backup.json, and in remote-sync-tmp.
Backup == [content : Nat, exportedAt : Nat \cup {None}]
File == Backup \cup {None, Broken}
Repository == [base : Nat, head : File, index : File, file : File, ahead : BOOLEAN]

\* Every caller belongs to one installation.  The branch may begin with any
\* commits, also with ones that lack the file or hold another one.
ASSUME RemoteAssumption ==
    /\ Home \in [Callers -> Installations]
    /\ InitialRemotes \subseteq Seq(File)
    /\ None # Broken /\ None \notin Nat /\ None \notin Backup /\ Broken \notin Backup
    /\ None \notin Repository

Idle == [pc |-> "idle"]
busy(c) == call[c].pc \notin {"idle", "end"}

Init ==
    /\ clock = 1 /\ edits = 0
    /\ local = [i \in Installations |-> [content |-> 0, saved |-> 0]]
    /\ remote \in InitialRemotes
    /\ dir = [i \in Installations |-> None]
    /\ call = [c \in Callers |-> Idle] /\ calls = 0

----------------------------------------------------------------------------
\* What happens around the calls.

\* One clock serves all installations and the remote: the code compares stamps
\* that different machines took from their own clocks, as if they were one.
Tick ==
    /\ clock < MaxClock /\ clock' = clock + 1
    /\ UNCHANGED <<local, edits, remote, dir, call, calls>>

\* The user changes the groups, or the settings only: both write the database.
SaveConfig(i) ==
    /\ edits < MaxEdits /\ edits' = edits + 1
    /\ \E content \in {local[i].content, edits + 1} :
          local' = [local EXCEPT ![i] = [content |-> content, saved |-> clock]]
    /\ UNCHANGED <<clock, remote, dir, call, calls>>

\* An export to a file or to the clipboard hands out the same value and
\* changes nothing here.
create_groups_backup_payload(i) == backup(local[i].content, clock)

extract_groups_and_providers_from_import_payload(payload) == payload.content

import_groups_payload(i, payload) ==
    local' = [local EXCEPT ![i] = [content |-> extract_groups_and_providers_from_import_payload(payload),
                                   saved |-> clock]]

\* An explicit import takes groups exported before, whatever their age.
ImportGroups(i) ==
    /\ edits < MaxEdits /\ edits' = edits + 1
    /\ \E content \in 0..edits : import_groups_payload(i, backup(content, None))
    /\ UNCHANGED <<clock, remote, dir, call, calls>>

----------------------------------------------------------------------------
\* The steps that both calls begin with.

Begin(c, op) == \E force \in BOOLEAN :
    /\ ~busy(c) /\ calls < MaxCalls /\ calls' = calls + 1
    /\ LET others == {d \in Callers \ {c} : Home[d] = Home[c] /\ busy(d)}
       IN  call' = [d \in Callers |->
                IF d = c THEN [pc |-> "stat", op |-> op, force |-> force, alone |-> others = {},
                               payload |-> IF op = "upload" THEN create_groups_backup_payload(Home[c]) ELSE None,
                               updated |-> None, found |-> FALSE]
                ELSE IF d \in others THEN [call[d] EXCEPT !.alone = FALSE]
                ELSE IF busy(d) THEN call[d] ELSE Idle]
    /\ UNCHANGED <<clock, local, edits, remote, dir>>

\* The time the database was written is read after the groups were.
get_local_config_updated_at(c) ==
    /\ call[c].pc = "stat"
    /\ call' = [call EXCEPT ![c].updated = local[Home[c]].saved, ![c].pc = "checkout"]
    /\ UNCHANGED <<clock, local, edits, remote, dir, calls>>

repo(base, head) == [base |-> base, head |-> head, index |-> head, file |-> head, ahead |-> FALSE]

finish(c, result) ==
    call' = [call EXCEPT ![c] = [pc |-> "end", op |-> @.op, alone |-> @.alone, result |-> result,
                                 payload |-> IF result = "ok" THEN @.payload ELSE None]]

\* The call ends and drops its guard, which removes the directory.
end(c, result) ==
    /\ finish(c, result)
    /\ dir' = [dir EXCEPT ![Home[c]] = None]

\* A command fails, or the directory was taken away.
Fail(c) ==
    /\ busy(c) /\ call[c].pc # "stat"
    /\ end(c, "error")
    /\ UNCHANGED <<clock, local, edits, remote, calls>>

\* TempRepoGuard::new, init_repo and checkout_branch.  A fetch that fails for
\* whatever reason is taken for a branch that is not there.
checkout_branch(c) ==
    /\ call[c].pc = "checkout"
    /\ \/ /\ remote # << >>
          /\ dir' = [dir EXCEPT ![Home[c]] = repo(Len(remote), Last(remote))]
          /\ call' = [call EXCEPT ![c].found = TRUE, ![c].pc = call[c].op]
       \/ /\ call[c].op = "upload"
          /\ dir' = [dir EXCEPT ![Home[c]] = repo(0, None)]
          /\ call' = [call EXCEPT ![c].found = FALSE, ![c].pc = call[c].op]
       \/ call[c].op = "pull" /\ end(c, "error")
    /\ UNCHANGED <<clock, local, edits, remote, calls>>

----------------------------------------------------------------------------
\* Upload.

exportedAt(f) == IF f \in {None, Broken} THEN None ELSE f.exportedAt
read_remote_exported_at(d) == IF d = None THEN None ELSE exportedAt(d.file)

\* Mutant: the two sides of the comparison are exchanged.
is_remote_older(at, remoteAt) == at # None /\ remoteAt # None /\ remoteAt < at

is_local_older(at, remoteAt) == at # None /\ remoteAt # None /\ at < remoteAt

\* What was compared is not needed any more.
CheckAge(c) ==
    /\ call[c].pc = "upload"
    /\ LET remoteAt == IF call[c].found THEN read_remote_exported_at(dir[Home[c]]) ELSE None
           stop == ~call[c].force /\ is_local_older(call[c].updated, remoteAt)
       IN  \/ stop /\ end(c, "confirm")
           \/ /\ ~stop /\ UNCHANGED dir
              /\ call' = [call EXCEPT ![c].pc = "write", ![c].updated = None, ![c].found = FALSE]
    /\ UNCHANGED <<clock, local, edits, remote, calls>>

there(c, pc) == call[c].pc = pc /\ dir[Home[c]] # None

write_remote_rules_file(c) ==
    /\ there(c, "write")
    /\ dir' = [dir EXCEPT ![Home[c]].file = call[c].payload]
    /\ call' = [call EXCEPT ![c].pc = "add"]
    /\ UNCHANGED <<clock, local, edits, remote, calls>>

\* Mutant: the difference is looked for before the file is added.
changed_before_add(d) == d.index # d.head

changed(d) == d.file # d.head

\* git add and, right after it, git diff --cached: two commands in one action,
\* which only a call that overlaps in the same directory could tell apart.
AddAndDiff(c) ==
    /\ there(c, "add")
    /\ LET d == dir[Home[c]] IN
       \/ changed(d) /\ call' = [call EXCEPT ![c].pc = "commit"]
          /\ dir' = [dir EXCEPT ![Home[c]].index = d.file]
       \/ ~changed(d) /\ end(c, "ok")
    /\ UNCHANGED <<clock, local, edits, remote, calls>>

\* Git refuses an empty commit (Fail).
Commit(c) ==
    /\ there(c, "commit") /\ dir[Home[c]].index # dir[Home[c]].head
    /\ dir' = [dir EXCEPT ![Home[c]].head = dir[Home[c]].index, ![Home[c]].ahead = TRUE]
    /\ call' = [call EXCEPT ![c].pc = "push"]
    /\ UNCHANGED <<clock, local, edits, remote, calls>>

\* The remote takes the commit if it extends the last one; the answer may be
\* lost.  A push of nothing succeeds.
Push(c) ==
    /\ there(c, "push")
    /\ LET d == dir[Home[c]] IN
       \/ ~d.ahead /\ end(c, "ok") /\ UNCHANGED remote
       \/ /\ d.ahead /\ d.base = Len(remote)
          /\ remote' = Append(remote, d.head)
          /\ \E result \in {"ok", "error"} : end(c, result)
    /\ UNCHANGED <<clock, local, edits, calls>>

----------------------------------------------------------------------------
\* Pull.

\* The file is read, and the directory removed.
ReadPulled(c) ==
    /\ there(c, "pull") /\ dir[Home[c]].file # None
    /\ call' = [call EXCEPT ![c].payload = dir[Home[c]].file, ![c].pc = "import"]
    /\ dir' = [dir EXCEPT ![Home[c]] = None]
    /\ UNCHANGED <<clock, local, edits, remote, calls>>

local_newer_than_remote(at, remoteAt) == at # None /\ remoteAt # None /\ at > remoteAt

ImportPulled(c) ==
    /\ call[c].pc = "import"
    /\ LET stop == ~call[c].force /\ local_newer_than_remote(call[c].updated, exportedAt(call[c].payload))
       IN  \/ call[c].payload = Broken /\ finish(c, "error") /\ UNCHANGED local
           \/ call[c].payload # Broken /\ stop /\ finish(c, "confirm") /\ UNCHANGED local
           \/ /\ call[c].payload # Broken /\ ~stop
              /\ import_groups_payload(Home[c], call[c].payload) /\ finish(c, "ok")
    /\ UNCHANGED <<clock, edits, remote, dir, calls>>

\* The process of an installation ends and leaves the directory behind.
Crash(i) ==
    /\ \E c \in Callers : Home[c] = i /\ busy(c)
    /\ call' = [c \in Callers |-> IF Home[c] = i THEN Idle ELSE call[c]]
    /\ UNCHANGED <<clock, local, edits, remote, dir, calls>>

Step(c) ==
    \/ Begin(c, "upload") \/ Begin(c, "pull") \/ get_local_config_updated_at(c) \/ Fail(c) \/ checkout_branch(c)
    \/ CheckAge(c) \/ write_remote_rules_file(c) \/ AddAndDiff(c) \/ Commit(c) \/ Push(c)
    \/ ReadPulled(c) \/ ImportPulled(c)

Next ==
    \/ Tick
    \/ \E i \in Installations : SaveConfig(i) \/ ImportGroups(i) \/ Crash(i)
    \/ \E c \in Callers : Step(c)

Spec == Init /\ [][Next]_vars

----------------------------------------------------------------------------
\* A push that was not forced adds to a branch whose last backup is not newer
\* than the local database; a pull that was not forced imports a backup that
\* is not older than the groups it saw.
UploadConfirmed(c) ==
    (call[c].pc = "push" /\ call'[c].pc = "end" /\ remote' # remote /\ ~call[c].force /\ call[c].alone)
    => \/ remote = << >> \/ exportedAt(Last(remote)) = None
       \/ exportedAt(Last(remote)) <= local[Home[c]].saved

PullConfirmed(c) ==
    (call[c].pc = "import" /\ call'[c].pc = "end" /\ call'[c].result = "ok" /\ ~call[c].force)
    => LET now == local[Home[c]].saved IN
       now # call[c].updated \/ exportedAt(call[c].payload) = None \/ now <= exportedAt(call[c].payload)

\* Nothing newer is overwritten without a confirmation.  An upload that was
\* not forced never replaces on the branch a backup exported after the local
\* database was last written, though the branch may move between its fetch
\* and its push and a failed fetch hides the branch from it.  A pull that was
\* not forced never replaces groups written after the backup was exported,
\* unless they were saved while the pull was running.  Calls of one
\* installation that overlap share the directory and are left out for uploads.
OverwriteConfirmed == [][\A c \in Callers : UploadConfirmed(c) /\ PullConfirmed(c)]_vars

\* An upload that no other call of its installation overlapped and that
\* reports success has put exactly the groups it began with, with their
\* export time, on the branch, whatever else was pushed meanwhile.
SuccessIsStored ==
    \A c \in Callers :
        (call[c].pc = "end" /\ call[c].op = "upload" /\ call[c].result = "ok" /\ call[c].alone)
        => \E k \in 1..Len(remote) : remote[k] = call[c].payload
=============================================================================
