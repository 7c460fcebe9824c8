-------------------------- MODULE RemoteSyncProofs --------------------------
(***************************************************************************)
(* What a backup on the branch can be relied on for, proved for every      *)
(* number of installations and callers, every branch and every bound.      *)
(* The argument follows the directory remote-sync-tmp: while a call is     *)
(* alone in its installation nobody else touches the directory, so at each *)
(* step of an upload its contents are known in terms of the payload and of *)
(* the commit that was fetched (DirInv), and commits are never taken off   *)
(* the branch.                                                             *)
(***************************************************************************)
EXTENDS RemoteSync, TLAPS

UploadPcs == {"upload", "write", "add", "commit", "push"}
BusyPcs == UploadPcs \cup {"stat", "checkout", "pull", "import"}

BusyCall == [pc : BusyPcs, op : {"upload", "pull"}, force : BOOLEAN, alone : BOOLEAN,
             payload : File, updated : Nat \cup {None}, found : BOOLEAN]
EndedCall == [pc : {"end"}, op : {"upload", "pull"}, alone : BOOLEAN,
              result : {"ok", "error", "confirm"}, payload : File]

(* The values the variables take.                                          *)
TypeOK ==
    /\ clock \in Nat /\ edits \in Nat
    /\ local \in [Installations -> [content : Nat, saved : Nat]]
    /\ remote \in Seq(File)
    /\ dir \in [Installations -> Repository \cup {None}]
    /\ call \in [Callers -> {Idle} \cup BusyCall \cup EndedCall]

(* What is known of a running call by the step it has reached.             *)
CallInv(c) ==
    busy(c) =>
        /\ call[c].op = "upload" => call[c].payload \in Backup
        /\ call[c].pc \in UploadPcs => call[c].op = "upload"
        /\ call[c].pc \in {"pull", "import"} => call[c].op = "pull"
        /\ call[c].pc = "import" => call[c].payload # None
        /\ call[c].pc # "stat" => call[c].updated \in Nat /\ call[c].updated <= local[Home[c]].saved

(* A call that is alone shares its installation with no running call.      *)
AloneInv ==
    \A c, d \in Callers :
        (busy(c) /\ call[c].alone /\ busy(d) /\ Home[d] = Home[c]) => d = c

(* A directory at the commit that was fetched, or at none.                 *)
AtBase(d) ==
    \/ d.base = 0 /\ d.head = None
    \/ d.base \in 1..Len(remote) /\ d.head = remote[d.base]

(* The last commit an unforced upload has seen is not newer than the       *)
(* database.                                                               *)
Confirmed(c) ==
    LET base == dir[Home[c]].base IN
    \/ call[c].force
    \/ base = 0
    \/ base \in 1..Len(remote) /\ \/ exportedAt(remote[base]) = None
                                  \/ exportedAt(remote[base]) <= call[c].updated

(* The directory of an upload that is alone, step by step.                 *)
DirAt(c) ==
    LET d == dir[Home[c]] IN
    /\ d \in Repository
    /\ call[c].pc # "push" => AtBase(d) /\ ~d.ahead
    /\ call[c].pc = "upload" => d.file = d.head /\ (call[c].found <=> d.base # 0)
    /\ call[c].pc # "upload" => Confirmed(c)
    /\ call[c].pc = "add" => d.file = call[c].payload
    /\ call[c].pc = "commit" => d.index = call[c].payload
    /\ call[c].pc = "push" => d.ahead /\ d.head = call[c].payload

DirInv(c) == (call[c].pc \in UploadPcs /\ call[c].alone) => DirAt(c)

(* The part of SuccessIsStored that is about one call.                     *)
StoredInv(c) ==
    (call[c].pc = "end" /\ call[c].op = "upload" /\ call[c].result = "ok" /\ call[c].alone)
    => \E k \in 1..Len(remote) : remote[k] = call[c].payload

Good(c) == CallInv(c) /\ DirInv(c) /\ StoredInv(c)

(* No database was written in the future.                                  *)
ClockInv == \A i \in Installations : local[i].saved <= clock

IndInv == TypeOK /\ ClockInv /\ AloneInv /\ \A c \in Callers : Good(c)

----------------------------------------------------------------------------
(* Commits stay on the branch and databases are only written later.        *)
Monotone ==
    /\ Len(remote) <= Len(remote') /\ \A k \in 1..Len(remote) : remote'[k] = remote[k]
    /\ \A i \in Installations : local[i].saved <= local'[i].saved

(* A step of call c that leaves other calls and other directories alone    *)
(* and brings c from one good state to another.                            *)
Advances(c) ==
    /\ busy(c)
    /\ busy(c)' => call'[c].alone = call[c].alone
    /\ \A d \in Callers \ {c} : call'[d] = call[d]
    /\ \A i \in Installations \ {Home[c]} : dir'[i] = dir[i]
    /\ Monotone
    /\ TypeOK' /\ Good(c)'

\* The record of a call in progress, and the installation it works on.
LEMMA BusyShape ==
    ASSUME TypeOK, NEW c \in Callers
    PROVE  /\ busy(c) => call[c] \in BusyCall
           /\ Home[c] \in Installations
<1>1. call[c] \in {Idle} \cup BusyCall \cup EndedCall /\ Home[c] \in Installations
  BY RemoteAssumption DEF TypeOK
<1>2. call[c] \in EndedCall => call[c].pc = "end"
  BY DEF EndedCall
<1>3. QED
  BY <1>1, <1>2 DEF busy, Idle

\* The time a backup file was exported at, if it tells.
LEMMA ExportedAtType ==
    ASSUME NEW f \in File
    PROVE  exportedAt(f) \in Nat \cup {None}
BY RemoteAssumption DEF exportedAt, File, Backup

(* What a call may rely on survives every step that leaves it, and the     *)
(* directory it owns, as they are.                                         *)
LEMMA Kept ==
    ASSUME TypeOK, TypeOK', Monotone, NEW d \in Callers, Good(d),
           call'[d] = call[d],
           (busy(d) /\ call[d].alone) => dir'[Home[d]] = dir[Home[d]]
    PROVE  Good(d)'
<1>1. CallInv(d)'
  <2>. SUFFICES ASSUME busy(d) PROVE CallInv(d)'
    BY DEF CallInv, busy
  <2>1. Home[d] \in Installations /\ local[Home[d]].saved \in Nat /\ local'[Home[d]].saved \in Nat
    BY BusyShape DEF TypeOK
  <2>2. local[Home[d]].saved <= local'[Home[d]].saved
    BY <2>1 DEF Monotone
  <2>3. QED
    BY <2>1, <2>2 DEF Good, CallInv, busy
<1>2. DirInv(d)'
  <2>. SUFFICES ASSUME call[d].pc \in UploadPcs, call[d].alone PROVE DirAt(d)'
    BY DEF DirInv
  <2>1. dir'[Home[d]] = dir[Home[d]] /\ DirAt(d)
    BY DEF Good, DirInv, busy, UploadPcs
  <2>2. Len(remote) \in Nat /\ Len(remote') \in Nat
    BY DEF TypeOK
  <2>3. AtBase(dir[Home[d]]) => AtBase(dir[Home[d]])'
    BY <2>1, <2>2 DEF AtBase, Monotone
  <2>4. Confirmed(d) => Confirmed(d)'
    BY <2>1, <2>2 DEF Confirmed, Monotone
  <2>5. QED
    BY <2>1, <2>3, <2>4 DEF DirAt
<1>3. StoredInv(d)'
  <2>1. Len(remote) \in Nat /\ Len(remote') \in Nat
    BY DEF TypeOK
  <2>2. QED
    BY <2>1 DEF Good, StoredInv, Monotone
<1>4. QED
  BY <1>1, <1>2, <1>3 DEF Good

\* An advance of one call keeps the invariant.
LEMMA AdvanceIsGood ==
    ASSUME IndInv, ClockInv', NEW c \in Callers, Advances(c)
    PROVE  IndInv'
<1>1. TypeOK /\ TypeOK'
  BY DEF IndInv, Advances
<1>2. \A d \in Callers : busy(d)' => busy(d) /\ call'[d].alone = call[d].alone
  BY DEF Advances, busy
<1>3. AloneInv'
  BY <1>2 DEF IndInv, AloneInv
<1>4. ASSUME NEW d \in Callers \ {c} PROVE Good(d)'
  <2>1. call'[d] = call[d] /\ Good(d) /\ Monotone /\ busy(c)
    BY DEF Advances, IndInv
  <2>2. (busy(d) /\ call[d].alone) => Home[c] # Home[d]
    BY <2>1 DEF IndInv, AloneInv
  <2>3. (busy(d) /\ call[d].alone) => dir'[Home[d]] = dir[Home[d]]
    BY <1>1, <2>2, BusyShape DEF Advances
  <2>4. QED
    BY <1>1, <2>1, <2>3, Kept
<1>5. QED
  BY <1>1, <1>3, <1>4 DEF IndInv, Advances

----------------------------------------------------------------------------
(* The steps of one call.                                                  *)

\* A step that neither pushes nor saves.
LEMMA SameMonotone ==
    ASSUME TypeOK, UNCHANGED <<remote, local>>
    PROVE  Monotone
BY DEF Monotone, TypeOK

\* One installation changes its working directory.
LEMMA DirUpdate ==
    ASSUME TypeOK, NEW i \in Installations, NEW r \in Repository \cup {None},
           dir' = [dir EXCEPT ![i] = r]
    PROVE  /\ dir' \in [Installations -> Repository \cup {None}]
           /\ dir'[i] = r
           /\ \A j \in Installations \ {i} : dir'[j] = dir[j]
BY DEF TypeOK

\* One call changes.
LEMMA CallUpdate ==
    ASSUME TypeOK, NEW c \in Callers, NEW v \in BusyCall \cup EndedCall,
           call' = [call EXCEPT ![c] = v]
    PROVE  /\ call' \in [Callers -> {Idle} \cup BusyCall \cup EndedCall]
           /\ call'[c] = v
           /\ \A d \in Callers \ {c} : call'[d] = call[d]
BY DEF TypeOK

(* A call ends.  If it reports success and was alone, its payload must be  *)
(* on the branch.                                                          *)
LEMMA EndStep ==
    ASSUME IndInv, NEW c \in Callers, busy(c),
           NEW result \in {"ok", "error", "confirm"}, finish(c, result),
           Monotone,
           clock' \in Nat, edits' \in Nat, remote' \in Seq(File),
           local' \in [Installations -> [content : Nat, saved : Nat]],
           dir' \in [Installations -> Repository \cup {None}],
           \A i \in Installations \ {Home[c]} : dir'[i] = dir[i],
           (result = "ok" /\ call[c].op = "upload" /\ call[c].alone)
              => \E k \in 1..Len(remote') : remote'[k] = call[c].payload
    PROVE  Advances(c)
<1>. DEFINE v == [pc |-> "end", op |-> call[c].op, alone |-> call[c].alone, result |-> result,
                  payload |-> IF result = "ok" THEN call[c].payload ELSE None]
<1>1. TypeOK /\ call[c] \in BusyCall
  BY BusyShape DEF IndInv
<1>2. v \in EndedCall
  BY <1>1 DEF BusyCall, EndedCall, File
<1>3. call' = [call EXCEPT ![c] = v]
  BY <1>1 DEF finish, TypeOK
<1>. HIDE DEF v
<1>4. /\ call' \in [Callers -> {Idle} \cup BusyCall \cup EndedCall]
      /\ call'[c] = v
      /\ \A d \in Callers \ {c} : call'[d] = call[d]
  BY <1>1, <1>2, <1>3, CallUpdate
<1>5. v.pc = "end" /\ v.op = call[c].op /\ v.alone = call[c].alone /\ v.result = result
      /\ (result = "ok" => v.payload = call[c].payload)
  BY DEF v
<1>6. TypeOK' /\ ~busy(c)'
  BY <1>4, <1>5 DEF TypeOK, busy
<1>7. CallInv(c)'
  BY <1>6 DEF CallInv
<1>8. DirInv(c)'
  BY <1>4, <1>5 DEF DirInv, UploadPcs
<1>9. StoredInv(c)'
  BY <1>4, <1>5 DEF StoredInv
<1>10. QED
  BY <1>4, <1>6, <1>7, <1>8, <1>9 DEF Advances, Good

\* A call ends and its working directory is removed.
LEMMA EndAndRemove ==
    ASSUME IndInv, NEW c \in Callers, busy(c),
           NEW result \in {"ok", "error", "confirm"}, end(c, result),
           Monotone, remote' \in Seq(File), UNCHANGED <<clock, edits, local>>,
           (result = "ok" /\ call[c].op = "upload" /\ call[c].alone)
              => \E k \in 1..Len(remote') : remote'[k] = call[c].payload
    PROVE  Advances(c)
<1>1. TypeOK /\ Home[c] \in Installations
  BY BusyShape DEF IndInv
<1>2. /\ dir' \in [Installations -> Repository \cup {None}]
      /\ \A i \in Installations \ {Home[c]} : dir'[i] = dir[i]
  BY <1>1, DirUpdate DEF end
<1>3. /\ clock' \in Nat /\ edits' \in Nat
      /\ local' \in [Installations -> [content : Nat, saved : Nat]]
  BY <1>1 DEF TypeOK
<1>4. finish(c, result)
  BY DEF end
<1>5. QED
  BY <1>2, <1>3, <1>4, EndStep

(* A call goes on: the new call and the new directory are given.           *)
LEMMA GoOnStep ==
    ASSUME IndInv, NEW c \in Callers, busy(c),
           NEW v \in BusyCall, call' = [call EXCEPT ![c] = v], v.alone = call[c].alone,
           NEW r \in Repository \cup {None}, dir' = [dir EXCEPT ![Home[c]] = r],
           UNCHANGED <<clock, local, edits, remote>>,
           CallInv(c)', DirInv(c)'
    PROVE  Advances(c)
<1>1. TypeOK /\ Home[c] \in Installations
  BY BusyShape DEF IndInv
<1>2. /\ dir' \in [Installations -> Repository \cup {None}]
      /\ \A i \in Installations \ {Home[c]} : dir'[i] = dir[i]
  BY <1>1, DirUpdate
<1>3. /\ call' \in [Callers -> {Idle} \cup BusyCall \cup EndedCall]
      /\ call'[c] = v
      /\ \A d \in Callers \ {c} : call'[d] = call[d]
  BY <1>1, CallUpdate
<1>4. TypeOK'
  BY <1>1, <1>2, <1>3 DEF TypeOK
<1>5. v.pc \in BusyPcs
  BY DEF BusyCall
<1>6. StoredInv(c)'
  BY <1>3, <1>5 DEF StoredInv, BusyPcs, UploadPcs
<1>7. Monotone
  BY <1>1, SameMonotone
<1>8. QED
  BY <1>2, <1>3, <1>4, <1>6, <1>7 DEF Advances, Good

\* Each step of a call is an advance: an upload reads the time of the local file,
LEMMA StatStep ==
    ASSUME IndInv, NEW c \in Callers, get_local_config_updated_at(c)
    PROVE  Advances(c)
<1>. DEFINE v == [call[c] EXCEPT !.updated = local[Home[c]].saved, !.pc = "checkout"]
            r == dir[Home[c]]
<1>1. TypeOK /\ busy(c) /\ call[c] \in BusyCall /\ Home[c] \in Installations
  BY BusyShape DEF IndInv, get_local_config_updated_at, busy
<1>2. local[Home[c]].saved \in Nat /\ r \in Repository \cup {None}
  BY <1>1 DEF TypeOK
<1>3. v \in BusyCall /\ v.alone = call[c].alone /\ v.pc = "checkout" /\ v.op = call[c].op
      /\ v.payload = call[c].payload /\ v.updated = local[Home[c]].saved
  BY <1>1, <1>2 DEF BusyCall, BusyPcs
<1>4. call' = [call EXCEPT ![c] = v] /\ dir' = [dir EXCEPT ![Home[c]] = r]
      /\ UNCHANGED <<clock, local, edits, remote>>
  BY <1>1 DEF get_local_config_updated_at, TypeOK
<1>. HIDE DEF v, r
<1>5. call'[c] = v
  BY <1>1, <1>3, <1>4, CallUpdate
<1>6. CallInv(c)
  BY DEF IndInv, Good
<1>7. CallInv(c)' /\ DirInv(c)'
  BY <1>1, <1>2, <1>3, <1>4, <1>5, <1>6 DEF CallInv, DirInv, busy, UploadPcs
<1>8. QED
  BY <1>1, <1>2, <1>3, <1>4, <1>7, GoOnStep

\* a step fails, at any place,
LEMMA FailStep ==
    ASSUME IndInv, NEW c \in Callers, Fail(c)
    PROVE  Advances(c)
<1>1. busy(c) /\ end(c, "error") /\ UNCHANGED <<clock, edits, local, remote>>
  BY DEF Fail
<1>2. Monotone /\ remote' \in Seq(File)
  BY <1>1, SameMonotone DEF IndInv, TypeOK
<1>3. QED
  BY <1>1, <1>2, EndAndRemove

\* the branch is checked out, as it is on the remote,
LEMMA CheckoutStep ==
    ASSUME IndInv, NEW c \in Callers, checkout_branch(c)
    PROVE  Advances(c)
<1>1. TypeOK /\ busy(c) /\ call[c] \in BusyCall /\ Home[c] \in Installations
      /\ call[c].pc = "checkout" /\ CallInv(c) /\ UNCHANGED <<clock, edits, local, remote>>
  BY BusyShape DEF IndInv, Good, checkout_branch, busy
<1>2. ASSUME NEW found \in BOOLEAN, NEW base \in Nat, NEW head \in File,
             dir' = [dir EXCEPT ![Home[c]] = repo(base, head)],
             call' = [call EXCEPT ![c].found = found, ![c].pc = call[c].op],
             AtBase(repo(base, head)), found <=> base # 0
      PROVE  Advances(c)
  <2>. DEFINE v == [call[c] EXCEPT !.found = found, !.pc = call[c].op]
              r == repo(base, head)
  <2>1. v \in BusyCall /\ v.alone = call[c].alone /\ v.pc = call[c].op /\ v.op = call[c].op
        /\ v.payload = call[c].payload /\ v.updated = call[c].updated /\ v.found = found
    BY <1>1 DEF BusyCall, BusyPcs, UploadPcs
  <2>2. call' = [call EXCEPT ![c] = v] /\ dir' = [dir EXCEPT ![Home[c]] = r]
    BY <1>1, <1>2 DEF TypeOK
  <2>3. r \in Repository /\ r.file = r.head /\ ~r.ahead /\ r.base = base
    BY DEF Repository, repo
  <2>4. AtBase(r)'
    BY <1>1, <1>2 DEF AtBase
  <2>. HIDE DEF v, r
  <2>5. call'[c] = v /\ dir'[Home[c]] = r
    BY <1>1, <2>1, <2>2, <2>3, CallUpdate, DirUpdate
  <2>6. v.op \in {"upload", "pull"}
    BY <2>1 DEF BusyCall
  <2>7. CallInv(c)'
    BY <1>1, <2>1, <2>5, <2>6 DEF CallInv, busy, UploadPcs
  <2>8. DirInv(c)'
    <3>. SUFFICES ASSUME v.pc = "upload" PROVE DirAt(c)'
      BY <2>1, <2>5, <2>6 DEF DirInv, UploadPcs
    <3>1. AtBase(dir[Home[c]])'
      BY <2>4, <2>5
    <3>2. call'[c].found <=> dir'[Home[c]].base # 0
      BY <1>2, <2>1, <2>3, <2>5
    <3>3. QED
      BY <2>3, <2>5, <3>1, <3>2 DEF DirAt
  <2>9. QED
    BY <1>1, <2>1, <2>2, <2>3, <2>7, <2>8, GoOnStep
<1>3. CASE /\ remote # << >>
           /\ dir' = [dir EXCEPT ![Home[c]] = repo(Len(remote), Last(remote))]
           /\ call' = [call EXCEPT ![c].found = TRUE, ![c].pc = call[c].op]
  <2>1. Len(remote) \in 1..Len(remote) /\ Last(remote) = remote[Len(remote)] /\ Last(remote) \in File
    BY <1>1, <1>3 DEF TypeOK, Last
  <2>2. AtBase(repo(Len(remote), Last(remote)))
    BY <2>1 DEF AtBase, repo
  <2>3. Len(remote) \in Nat /\ Len(remote) # 0
    BY <1>1, <2>1 DEF TypeOK
  <2>4. TRUE \in BOOLEAN /\ (TRUE <=> Len(remote) # 0)
    BY <2>3
  <2>5. QED
    BY <1>2, <1>3, <2>1, <2>2, <2>3, <2>4, Zenon
<1>4. CASE /\ dir' = [dir EXCEPT ![Home[c]] = repo(0, None)]
           /\ call' = [call EXCEPT ![c].found = FALSE, ![c].pc = call[c].op]
  BY <1>2, <1>4 DEF AtBase, repo, File
<1>5. CASE end(c, "error")
  <2>1. Monotone /\ remote' \in Seq(File)
    BY <1>1, SameMonotone DEF TypeOK
  <2>2. QED
    BY <1>1, <1>5, <2>1, EndAndRemove
<1>6. QED
  BY <1>3, <1>4, <1>5 DEF checkout_branch

(* An upload moves on to another of its steps with a new directory.        *)
LEMMA UploadStep ==
    ASSUME IndInv, NEW c \in Callers, call[c].pc \in UploadPcs,
           NEW to \in UploadPcs, call' = [call EXCEPT ![c].pc = to],
           NEW r \in Repository \cup {None}, dir' = [dir EXCEPT ![Home[c]] = r],
           UNCHANGED <<clock, local, edits, remote>>,
           call[c].alone => DirAt(c)'
    PROVE  Advances(c)
<1>. DEFINE v == [call[c] EXCEPT !.pc = to]
<1>1. TypeOK /\ busy(c) /\ call[c] \in BusyCall /\ Home[c] \in Installations /\ CallInv(c)
  BY BusyShape DEF IndInv, Good, busy, UploadPcs
<1>2. v \in BusyCall /\ v.alone = call[c].alone /\ v.pc = to /\ v.op = call[c].op
      /\ v.payload = call[c].payload /\ v.updated = call[c].updated
  BY <1>1 DEF BusyCall, BusyPcs
<1>3. call' = [call EXCEPT ![c] = v]
  BY <1>1 DEF TypeOK
<1>. HIDE DEF v
<1>4. call'[c] = v
  BY <1>1, <1>2, <1>3, CallUpdate
<1>5. CallInv(c)'
  BY <1>1, <1>2, <1>4 DEF CallInv, busy, UploadPcs
<1>6. DirInv(c)'
  BY <1>2, <1>4 DEF DirInv
<1>7. QED
  BY <1>1, <1>2, <1>3, <1>5, <1>6, GoOnStep

\* What is known of an upload once the branch is checked out.
LEMMA UploadFacts ==
    ASSUME IndInv, NEW c \in Callers, call[c].pc \in UploadPcs
    PROVE  /\ TypeOK /\ busy(c) /\ call[c] \in BusyCall /\ Home[c] \in Installations
           /\ dir[Home[c]] \in Repository \cup {None}
           /\ call[c].op = "upload" /\ call[c].payload \in Backup /\ call[c].updated \in Nat
           /\ call[c].updated <= local[Home[c]].saved
           /\ call[c].alone => DirAt(c)
<1>1. TypeOK /\ busy(c) /\ call[c] \in BusyCall /\ Home[c] \in Installations /\ Good(c)
  BY BusyShape DEF IndInv, busy, UploadPcs
<1>2. QED
  BY <1>1 DEF Good, CallInv, DirInv, TypeOK, UploadPcs

(* The record of a call after a step that only moved it.                   *)
LEMMA MovedCall ==
    ASSUME TypeOK, NEW c \in Callers, busy(c), NEW to, call' = [call EXCEPT ![c].pc = to]
    PROVE  /\ call'[c].pc = to /\ call'[c].force = call[c].force /\ call'[c].payload = call[c].payload
           /\ call'[c].updated = call[c].updated
<1>1. call[c] \in BusyCall
  BY BusyShape
<1>2. call'[c] = [call[c] EXCEPT !.pc = to]
  BY DEF TypeOK
<1>3. QED
  BY <1>1, <1>2 DEF BusyCall

\* The age of the remote backup is compared with the local one,
LEMMA CheckAgeStep ==
    ASSUME IndInv, NEW c \in Callers, CheckAge(c)
    PROVE  Advances(c)
<1>. DEFINE d == dir[Home[c]]
            remoteAt == IF call[c].found THEN read_remote_exported_at(d) ELSE None
            stop == ~call[c].force /\ is_local_older(call[c].updated, remoteAt)
<1>1. call[c].pc = "upload" /\ call[c].pc \in UploadPcs /\ UNCHANGED <<clock, local, edits, remote>>
  BY DEF CheckAge, UploadPcs
<1>2. /\ TypeOK /\ busy(c) /\ Home[c] \in Installations /\ d \in Repository \cup {None}
      /\ call[c].updated \in Nat /\ (call[c].alone => DirAt(c))
  BY <1>1, UploadFacts
<1>3. CASE stop /\ end(c, "confirm")
  <2>1. Monotone /\ remote' \in Seq(File)
    BY <1>1, <1>2, SameMonotone DEF TypeOK
  <2>2. QED
    BY <1>1, <1>2, <1>3, <2>1, EndAndRemove
<1>4. CASE ~stop /\ call' = [call EXCEPT ![c].pc = "write"] /\ UNCHANGED dir
  <2>1. dir' = [dir EXCEPT ![Home[c]] = d]
    BY <1>2, <1>4 DEF TypeOK
  <2>2. ASSUME call[c].alone PROVE DirAt(c)'
    <3>1. DirAt(c) /\ d \in Repository /\ AtBase(d) /\ ~d.ahead /\ d.file = d.head /\ (call[c].found <=> d.base # 0)
      BY <1>1, <1>2, <2>2 DEF DirAt
    <3>2. call'[c].pc = "write" /\ call'[c].force = call[c].force /\ call'[c].updated = call[c].updated
      BY <1>2, <1>4, MovedCall
    <3>3. dir'[Home[c]] = d /\ remote' = remote
      BY <1>1, <1>4
    <3>4. AtBase(d)'
      BY <1>1, <1>4, <3>1 DEF AtBase
    <3>5. Confirmed(c)
      <4>. SUFFICES ASSUME ~call[c].force, d.base # 0 PROVE Confirmed(c)
        BY DEF Confirmed
      <4>1. d.base \in 1..Len(remote) /\ d.file = remote[d.base]
        BY <3>1 DEF AtBase
      <4>2. remoteAt = exportedAt(remote[d.base])
        BY <3>1, <4>1, RemoteAssumption DEF read_remote_exported_at
      <4>3. remoteAt \in Nat \cup {None}
        BY <1>2, <4>1, <4>2, ExportedAtType DEF TypeOK
      <4>4. remoteAt = None \/ remoteAt <= call[c].updated
        BY <1>2, <1>4, <4>3, RemoteAssumption DEF is_local_older
      <4>5. QED
        BY <4>1, <4>2, <4>4 DEF Confirmed
    <3>6. Confirmed(c)'
      BY <3>2, <3>3, <3>5 DEF Confirmed
    <3>7. QED
      BY <3>1, <3>2, <3>3, <3>4, <3>6 DEF DirAt
  <2>3. "write" \in UploadPcs
    BY DEF UploadPcs
  <2>. HIDE DEF d
  <2>4. QED
    BY <1>1, <1>2, <1>4, <2>1, <2>2, <2>3, UploadStep
<1>5. QED
  BY <1>3, <1>4 DEF CheckAge

\* the backup is written into the working directory,
LEMMA WriteStep ==
    ASSUME IndInv, NEW c \in Callers, write_remote_rules_file(c)
    PROVE  Advances(c)
<1>. DEFINE d == dir[Home[c]]
            r == [d EXCEPT !.file = call[c].payload]
<1>1. /\ call[c].pc = "write" /\ call[c].pc \in UploadPcs /\ d # None
      /\ call' = [call EXCEPT ![c].pc = "add"] /\ UNCHANGED <<clock, local, edits, remote>>
  BY DEF write_remote_rules_file, there, UploadPcs
<1>2. /\ TypeOK /\ busy(c) /\ Home[c] \in Installations /\ d \in Repository
      /\ call[c].payload \in File /\ (call[c].alone => DirAt(c))
  BY <1>1, UploadFacts DEF File
<1>3. r \in Repository /\ r.file = call[c].payload /\ r.head = d.head /\ r.base = d.base /\ r.ahead = d.ahead
  BY <1>2 DEF Repository
<1>4. dir' = [dir EXCEPT ![Home[c]] = r] /\ dir'[Home[c]] = r
  BY <1>2 DEF TypeOK, write_remote_rules_file
<1>. HIDE DEF r
<1>5. ASSUME call[c].alone PROVE DirAt(c)'
  <2>1. DirAt(c) /\ AtBase(d) /\ ~d.ahead /\ Confirmed(c)
    BY <1>1, <1>2, <1>5 DEF DirAt
  <2>2. call'[c].pc = "add" /\ call'[c].force = call[c].force /\ call'[c].updated = call[c].updated
        /\ call'[c].payload = call[c].payload
    BY <1>1, <1>2, MovedCall
  <2>3. AtBase(dir[Home[c]])' /\ Confirmed(c)'
    BY <1>1, <1>3, <1>4, <2>1, <2>2 DEF AtBase, Confirmed
  <2>4. QED
    BY <1>3, <1>4, <2>1, <2>2, <2>3 DEF DirAt
<1>6. "add" \in UploadPcs
  BY DEF UploadPcs
<1>7. QED
  BY <1>1, <1>3, <1>4, <1>5, <1>6, UploadStep

\* added, and compared with what was committed,
LEMMA AddStep ==
    ASSUME IndInv, NEW c \in Callers, AddAndDiff(c)
    PROVE  Advances(c)
<1>. DEFINE d == dir[Home[c]]
            r == [d EXCEPT !.index = d.file]
<1>1. call[c].pc = "add" /\ call[c].pc \in UploadPcs /\ d # None /\ UNCHANGED <<clock, local, edits, remote>>
  BY DEF AddAndDiff, there, UploadPcs
<1>2. /\ TypeOK /\ busy(c) /\ Home[c] \in Installations /\ d \in Repository
      /\ call[c].payload \in Backup /\ (call[c].alone => DirAt(c))
  BY <1>1, UploadFacts
<1>3. call[c].alone => AtBase(d) /\ ~d.ahead /\ Confirmed(c) /\ d.file = call[c].payload
  BY <1>1, <1>2 DEF DirAt
<1>4. CASE /\ call' = [call EXCEPT ![c].pc = "commit"]
           /\ dir' = [dir EXCEPT ![Home[c]].index = d.file]
  <2>1. r \in Repository /\ r.index = d.file /\ r.head = d.head /\ r.base = d.base /\ r.ahead = d.ahead
    BY <1>2 DEF Repository
  <2>2. dir' = [dir EXCEPT ![Home[c]] = r] /\ dir'[Home[c]] = r
    BY <1>2, <1>4 DEF TypeOK
  <2>. HIDE DEF r
  <2>3. ASSUME call[c].alone PROVE DirAt(c)'
    <3>1. call'[c].pc = "commit" /\ call'[c].force = call[c].force /\ call'[c].updated = call[c].updated
          /\ call'[c].payload = call[c].payload
      BY <1>2, <1>4, MovedCall
    <3>2. AtBase(dir[Home[c]])' /\ Confirmed(c)'
      BY <1>1, <1>3, <2>1, <2>2, <2>3, <3>1 DEF AtBase, Confirmed
    <3>3. QED
      BY <1>3, <2>1, <2>2, <2>3, <3>1, <3>2 DEF DirAt
  <2>4. "commit" \in UploadPcs
    BY DEF UploadPcs
  <2>5. QED
    BY <1>1, <1>4, <2>1, <2>2, <2>3, <2>4, UploadStep
<1>5. CASE ~changed(d) /\ end(c, "ok")
  <2>1. Monotone /\ remote' \in Seq(File)
    BY <1>1, <1>2, SameMonotone DEF TypeOK
  <2>2. call[c].alone => d.base \in 1..Len(remote) /\ remote[d.base] = call[c].payload
    (* Nothing changed: the payload is what was fetched, and something was. *)
    BY <1>2, <1>3, <1>5, RemoteAssumption DEF changed, AtBase
  <2>3. call[c].alone => \E k \in 1..Len(remote') : remote'[k] = call[c].payload
    BY <1>1, <2>2
  <2>4. QED
    BY <1>1, <1>2, <1>5, <2>1, <2>3, EndAndRemove
<1>6. QED
  BY <1>4, <1>5 DEF AddAndDiff

\* committed,
LEMMA CommitStep ==
    ASSUME IndInv, NEW c \in Callers, Commit(c)
    PROVE  Advances(c)
<1>. DEFINE d == dir[Home[c]]
            r == [d EXCEPT !.head = d.index, !.ahead = TRUE]
<1>1. /\ call[c].pc = "commit" /\ call[c].pc \in UploadPcs /\ d # None
      /\ call' = [call EXCEPT ![c].pc = "push"] /\ UNCHANGED <<clock, local, edits, remote>>
  BY DEF Commit, there, UploadPcs
<1>2. /\ TypeOK /\ busy(c) /\ Home[c] \in Installations /\ d \in Repository
      /\ (call[c].alone => DirAt(c))
  BY <1>1, UploadFacts
<1>3. r \in Repository /\ r.head = d.index /\ r.base = d.base /\ r.ahead
  BY <1>2 DEF Repository
<1>4. dir' = [dir EXCEPT ![Home[c]] = r] /\ dir'[Home[c]] = r
  BY <1>2 DEF TypeOK, Commit
<1>. HIDE DEF r
<1>5. ASSUME call[c].alone PROVE DirAt(c)'
  <2>1. Confirmed(c) /\ d.index = call[c].payload
    BY <1>1, <1>2, <1>5 DEF DirAt
  <2>2. call'[c].pc = "push" /\ call'[c].force = call[c].force /\ call'[c].updated = call[c].updated
        /\ call'[c].payload = call[c].payload
    BY <1>1, <1>2, MovedCall
  <2>3. Confirmed(c)'
    BY <1>1, <1>3, <1>4, <2>1, <2>2 DEF Confirmed
  <2>4. QED
    BY <1>3, <1>4, <2>1, <2>2, <2>3 DEF DirAt
<1>6. "push" \in UploadPcs
  BY DEF UploadPcs
<1>7. QED
  BY <1>1, <1>3, <1>4, <1>5, <1>6, UploadStep

\* and pushed, which the remote takes only on top of its last commit.
LEMMA PushStep ==
    ASSUME IndInv, NEW c \in Callers, Push(c)
    PROVE  Advances(c)
<1>. DEFINE d == dir[Home[c]]
<1>1. call[c].pc = "push" /\ call[c].pc \in UploadPcs /\ d # None /\ UNCHANGED <<clock, local, edits>>
  BY DEF Push, there, UploadPcs
<1>2. /\ TypeOK /\ busy(c) /\ d \in Repository
      /\ (call[c].alone => DirAt(c))
  BY <1>1, UploadFacts
<1>3. call[c].alone => d.ahead /\ d.head = call[c].payload
  BY <1>1, <1>2 DEF DirAt
<1>4. CASE ~d.ahead /\ end(c, "ok") /\ UNCHANGED remote
  <2>1. Monotone /\ remote' \in Seq(File)
    BY <1>1, <1>2, <1>4, SameMonotone DEF TypeOK
  <2>2. QED
    BY <1>1, <1>2, <1>3, <1>4, <2>1, EndAndRemove
<1>5. ASSUME remote' = Append(remote, d.head), NEW result \in {"ok", "error"}, end(c, result)
      PROVE  Advances(c)
  <2>1. remote \in Seq(File) /\ d.head \in File
    BY <1>2 DEF TypeOK, Repository
  <2>2. /\ remote' \in Seq(File) /\ Len(remote') = Len(remote) + 1 /\ Len(remote) \in Nat
        /\ remote'[Len(remote) + 1] = d.head
        /\ \A k \in 1..Len(remote) : remote'[k] = remote[k]
    BY <1>5, <2>1
  <2>3. Monotone
    BY <1>1, <1>2, <2>2 DEF Monotone, TypeOK
  <2>4. call[c].alone => \E k \in 1..Len(remote') : remote'[k] = call[c].payload
    BY <1>3, <2>2
  <2>5. QED
    BY <1>1, <1>2, <1>5, <2>2, <2>3, <2>4, EndAndRemove
<1>6. QED
  BY <1>4, <1>5 DEF Push

\* A pull reads the backup of the branch,
LEMMA ReadStep ==
    ASSUME IndInv, NEW c \in Callers, ReadPulled(c)
    PROVE  Advances(c)
<1>. DEFINE d == dir[Home[c]]
            v == [call[c] EXCEPT !.payload = d.file, !.pc = "import"]
<1>1. call[c].pc = "pull" /\ d # None /\ d.file # None /\ UNCHANGED <<clock, local, edits, remote>>
      /\ dir' = [dir EXCEPT ![Home[c]] = None]
  BY DEF ReadPulled, there
<1>2. TypeOK /\ busy(c) /\ call[c] \in BusyCall /\ Home[c] \in Installations /\ CallInv(c)
  BY <1>1, BusyShape DEF IndInv, Good, busy
<1>3. d.file \in File
  BY <1>1, <1>2 DEF TypeOK, Repository
<1>4. v \in BusyCall /\ v.alone = call[c].alone /\ v.pc = "import" /\ v.op = call[c].op
      /\ v.payload = d.file /\ v.updated = call[c].updated
  BY <1>2, <1>3 DEF BusyCall, BusyPcs
<1>5. call' = [call EXCEPT ![c] = v]
  BY <1>2 DEF TypeOK, ReadPulled
<1>. HIDE DEF v
<1>6. call'[c] = v
  BY <1>2, <1>4, <1>5, CallUpdate
<1>7. CallInv(c)' /\ DirInv(c)'
  BY <1>1, <1>2, <1>4, <1>6 DEF CallInv, DirInv, busy, UploadPcs
<1>8. None \in Repository \cup {None}
  OBVIOUS
<1>9. QED
  BY <1>1, <1>2, <1>4, <1>5, <1>7, <1>8, GoOnStep

\* A configuration that is saved now is newer than every earlier one.
LEMMA SaveLater ==
    ASSUME IndInv, NEW i \in Installations, NEW content \in Nat,
           local' = [local EXCEPT ![i] = [content |-> content, saved |-> clock]],
           UNCHANGED remote
    PROVE  /\ local' \in [Installations -> [content : Nat, saved : Nat]]
           /\ Monotone
<1>1. TypeOK /\ ClockInv
  BY DEF IndInv
<1>2. /\ local' \in [Installations -> [content : Nat, saved : Nat]]
      /\ \A j \in Installations : local'[j] = local[j] \/ (j = i /\ local'[j].saved = clock)
  BY <1>1 DEF TypeOK
<1>3. \A j \in Installations : local[j].saved \in Nat
  BY <1>1 DEF TypeOK
<1>4. \A j \in Installations : local[j].saved <= local'[j].saved
  BY <1>1, <1>2, <1>3 DEF ClockInv
<1>5. QED
  BY <1>1, <1>2, <1>4 DEF Monotone, TypeOK

\* and imports it as the configuration of the installation.
LEMMA ImportStep ==
    ASSUME IndInv, NEW c \in Callers, ImportPulled(c)
    PROVE  Advances(c)
<1>1. call[c].pc = "import" /\ UNCHANGED <<clock, edits, remote, dir>>
  BY DEF ImportPulled
<1>2. TypeOK /\ busy(c) /\ call[c] \in BusyCall /\ Home[c] \in Installations /\ CallInv(c)
  BY <1>1, BusyShape DEF IndInv, Good, busy
<1>3. call[c].op = "pull" /\ call[c].payload # None /\ call[c].payload \in File
  BY <1>1, <1>2 DEF CallInv, BusyCall
<1>4. /\ clock' \in Nat /\ edits' \in Nat /\ remote' \in Seq(File)
      /\ dir' \in [Installations -> Repository \cup {None}]
      /\ \A i \in Installations \ {Home[c]} : dir'[i] = dir[i]
  BY <1>1, <1>2 DEF TypeOK
<1>5. ASSUME NEW result \in {"ok", "error", "confirm"}, finish(c, result), Monotone,
             local' \in [Installations -> [content : Nat, saved : Nat]]
      PROVE  Advances(c)
  BY <1>2, <1>3, <1>4, <1>5, EndStep
<1>6. CASE UNCHANGED local /\ (finish(c, "error") \/ finish(c, "confirm"))
  <2>1. Monotone /\ local' \in [Installations -> [content : Nat, saved : Nat]]
    BY <1>1, <1>2, <1>6, SameMonotone DEF TypeOK
  <2>2. QED
    BY <1>5, <1>6, <2>1
<1>7. CASE /\ call[c].payload # Broken
           /\ import_groups_payload(Home[c], call[c].payload) /\ finish(c, "ok")
  <2>1. call[c].payload.content \in Nat
    BY <1>3, <1>7 DEF File, Backup
  <2>2. local' = [local EXCEPT ![Home[c]] = [content |-> call[c].payload.content, saved |-> clock]]
    BY <1>7 DEF import_groups_payload, extract_groups_and_providers_from_import_payload
  <2>3. Monotone /\ local' \in [Installations -> [content : Nat, saved : Nat]]
    BY <1>1, <1>2, <2>1, <2>2, SaveLater
  <2>4. QED
    BY <1>5, <1>7, <2>3
<1>8. QED
  BY <1>6, <1>7 DEF ImportPulled

----------------------------------------------------------------------------
(* The other steps.                                                        *)

\* No time lies in the future.
LEMMA ClockStep ==
    ASSUME IndInv, Next
    PROVE  ClockInv'
<1>. DEFINE T == [content : Nat, saved : Nat]
<1>1. clock \in Nat /\ local \in [Installations -> T] /\ \A i \in Installations : local[i].saved <= clock
  BY DEF IndInv, TypeOK, ClockInv
<1>2. ASSUME UNCHANGED local, clock' = clock \/ clock' = clock + 1 PROVE ClockInv'
  <2>1. \A i \in Installations : local[i].saved \in Nat
    BY <1>1
  <2>2. QED
    BY <1>1, <1>2, <2>1 DEF ClockInv
<1>3. ASSUME NEW i \in Installations, NEW content, UNCHANGED clock,
             local' = [local EXCEPT ![i] = [content |-> content, saved |-> clock]]
      PROVE  ClockInv'
  BY <1>1, <1>3 DEF ClockInv
<1>4. CASE Tick
  BY <1>2, <1>4 DEF Tick
<1>5. ASSUME NEW i \in Installations, SaveConfig(i) \/ ImportGroups(i) \/ Crash(i) PROVE ClockInv'
  BY <1>2, <1>3, <1>5
     DEF SaveConfig, ImportGroups, Crash, import_groups_payload, extract_groups_and_providers_from_import_payload
<1>6. ASSUME NEW c \in Callers, Step(c) PROVE ClockInv'
  <2>1. Home[c] \in Installations
    BY RemoteAssumption
  <2>2. CASE ImportPulled(c)
    BY <1>2, <1>3, <2>1, <2>2
       DEF ImportPulled, import_groups_payload, extract_groups_and_providers_from_import_payload
  <2>3. CASE ~ImportPulled(c)
    <3>1. UNCHANGED <<local, clock>>
      BY <1>6, <2>3 DEF Step, Begin, get_local_config_updated_at, Fail, checkout_branch, CheckAge,
            write_remote_rules_file, AddAndDiff, Commit, Push, ReadPulled
    <3>2. QED
      BY <1>2, <3>1
  <2>4. QED
    BY <2>2, <2>3
<1>7. QED
  BY <1>4, <1>5, <1>6 DEF Next

\* Nothing is asked of a caller that makes no call.
LEMMA IdleIsGood ==
    ASSUME NEW c \in Callers, call'[c] = Idle
    PROVE  Good(c)' /\ ~busy(c)'
<1>1. call'[c].pc = "idle"
  BY DEF Idle
<1>2. QED
  BY <1>1 DEF Good, CallInv, DirInv, StoredInv, busy, UploadPcs

(* A call begins.  The ones it overlaps are no longer alone, and nothing   *)
(* is claimed of their directory any more.                                 *)
LEMMA BeginStep ==
    ASSUME IndInv, NEW c \in Callers, NEW op \in {"upload", "pull"}, Begin(c, op)
    PROVE  IndInv'
<1>. DEFINE others == {d \in Callers \ {c} : Home[d] = Home[c] /\ busy(d)}
            payload == IF op = "upload" THEN create_groups_backup_payload(Home[c]) ELSE None
            fresh(force) == [pc |-> "stat", op |-> op, force |-> force, alone |-> others = {},
                             payload |-> payload, updated |-> None, found |-> FALSE]
<1>1. PICK force \in BOOLEAN :
         call' = [d \in Callers |->
                    IF d = c THEN fresh(force)
                    ELSE IF d \in others THEN [call[d] EXCEPT !.alone = FALSE]
                    ELSE IF busy(d) THEN call[d] ELSE Idle]
  BY DEF Begin
<1>2. ~busy(c) /\ UNCHANGED <<clock, local, edits, remote, dir>>
  BY DEF Begin
<1>3. TypeOK /\ AloneInv /\ Home[c] \in Installations
  BY BusyShape DEF IndInv
<1>4. payload \in File /\ (op = "upload" => payload \in Backup)
  <2>1. clock \in Nat /\ local[Home[c]].content \in Nat
    BY <1>3 DEF TypeOK
  <2>2. QED
    BY <2>1 DEF create_groups_backup_payload, backup, Backup, File
<1>. HIDE DEF payload
<1>5. fresh(force) \in BusyCall
  BY <1>4 DEF BusyCall, BusyPcs
<1>6. \A d \in others : [call[d] EXCEPT !.alone = FALSE] \in BusyCall
  BY <1>3, BusyShape DEF BusyCall
<1>7. TypeOK'
  <2>1. \A d \in Callers : call'[d] \in {Idle} \cup BusyCall \cup EndedCall
    BY <1>1, <1>3, <1>5, <1>6, BusyShape
  <2>2. call' \in [Callers -> {Idle} \cup BusyCall \cup EndedCall]
    BY <1>1, <2>1, Zenon
  <2>3. QED
    BY <1>2, <1>3, <2>2 DEF TypeOK
<1>8. Monotone
  BY <1>2, <1>3, SameMonotone
<1>9. Good(c)' /\ (call'[c].alone <=> others = {})
  <2>1. call'[c] = fresh(force)
    BY <1>1
  <2>2. /\ call'[c].pc = "stat" /\ call'[c].op = op /\ call'[c].payload = payload
        /\ call'[c].alone = (others = {})
    BY <2>1
  <2>3. CallInv(c)' /\ DirInv(c)' /\ StoredInv(c)'
    BY <1>4, <2>2 DEF CallInv, DirInv, StoredInv, UploadPcs
  <2>4. QED
    BY <2>2, <2>3 DEF Good
<1>10. ASSUME NEW d \in others
       PROVE  Good(d)' /\ ~call'[d].alone
  <2>1. call[d] \in BusyCall /\ busy(d) /\ Good(d) /\ call'[d] = [call[d] EXCEPT !.alone = FALSE]
    BY <1>1, <1>3, BusyShape DEF IndInv
  <2>2. /\ call'[d].alone = FALSE /\ call'[d].pc = call[d].pc /\ call'[d].op = call[d].op
        /\ call'[d].payload = call[d].payload /\ call'[d].updated = call[d].updated
    BY <2>1 DEF BusyCall
  <2>3. CallInv(d)'
    BY <1>2, <2>1, <2>2 DEF Good, CallInv, busy
  <2>4. DirInv(d)' /\ StoredInv(d)'
    BY <2>2 DEF DirInv, StoredInv
  <2>5. QED
    BY <2>2, <2>3, <2>4 DEF Good
<1>11. ASSUME NEW d \in Callers, d # c, d \notin others
       PROVE  Good(d)' /\ (busy(d)' => call'[d] = call[d] /\ Home[d] # Home[c])
  <2>1. CASE busy(d)
    <3>1. call'[d] = call[d] /\ Home[d] # Home[c] /\ Good(d) /\ dir' = dir
      BY <1>1, <1>2, <1>11, <2>1 DEF IndInv
    <3>2. QED
      BY <1>3, <1>7, <1>8, <3>1, Kept
  <2>2. CASE ~busy(d)
    BY <1>1, <1>11, <2>2, IdleIsGood
  <2>3. QED
    BY <2>1, <2>2
<1>. HIDE DEF others
<1>12. \A d \in Callers : Good(d)'
  BY <1>9, <1>10, <1>11
<1>13. AloneInv'
  <2>. SUFFICES ASSUME NEW d \in Callers, NEW e \in Callers, busy(d)', call'[d].alone, busy(e)', Home[e] = Home[d]
                PROVE  e = d
    BY DEF AloneInv
  <2>1. d \notin others
    BY <1>10
  <2>2. CASE d = c
    <3>1. others = {}
      BY <1>9, <2>2
    <3>2. QED
      BY <1>11, <2>2, <3>1
  <2>3. CASE d # c
    <3>1. call'[d] = call[d] /\ Home[d] # Home[c]
      BY <1>11, <2>1, <2>3
    <3>2. e # c /\ e \notin others
      BY <3>1 DEF others
    <3>3. call'[e] = call[e]
      BY <1>11, <3>2
    <3>4. QED
      BY <1>3, <3>1, <3>3 DEF AloneInv, busy
  <2>4. QED
    BY <2>2, <2>3
<1>14. ClockInv'
  BY <1>2 DEF IndInv, ClockInv
<1>15. QED
  BY <1>7, <1>12, <1>13, <1>14 DEF IndInv

(* A step outside the calls, or one that only ends some of them.           *)
LEMMA QuietStep ==
    ASSUME IndInv, TypeOK', ClockInv', Monotone, UNCHANGED <<remote, dir>>,
           \A d \in Callers : call'[d] = call[d] \/ call'[d] = Idle
    PROVE  IndInv'
<1>1. \A d \in Callers : busy(d)' => call'[d] = call[d] /\ busy(d)
  BY IdleIsGood DEF busy
<1>2. AloneInv'
  BY <1>1 DEF IndInv, AloneInv
<1>3. ASSUME NEW d \in Callers PROVE Good(d)'
  <2>1. TypeOK /\ Good(d)
    BY DEF IndInv
  <2>2. CASE call'[d] = call[d]
    BY <2>1, <2>2, Kept
  <2>3. CASE call'[d] = Idle
    BY <2>3, IdleIsGood
  <2>4. QED
    BY <2>2, <2>3
<1>4. QED
  BY <1>2, <1>3 DEF IndInv

\* Every step keeps the invariant.
LEMMA NextPreserves ==
    ASSUME IndInv, [Next]_vars
    PROVE  IndInv'
<1>t. TypeOK
  BY DEF IndInv
<1>1. CASE Tick
  <2>1. TypeOK' /\ UNCHANGED <<remote, dir, local, call>>
    BY <1>t, <1>1 DEF Tick, TypeOK
  <2>2. ClockInv'
    BY <1>1, ClockStep DEF Next
  <2>3. QED
    BY <1>t, <2>1, <2>2, SameMonotone, QuietStep
<1>2. ASSUME NEW i \in Installations, SaveConfig(i) \/ ImportGroups(i) PROVE IndInv'
  <2>1. PICK content \in Nat : local' = [local EXCEPT ![i] = [content |-> content, saved |-> clock]]
    <3>1. edits \in Nat /\ local[i].content \in Nat
      BY <1>t DEF TypeOK
    <3>2. QED
      BY <1>2, <3>1
         DEF SaveConfig, ImportGroups, import_groups_payload, extract_groups_and_providers_from_import_payload, backup
  <2>2. edits' = edits + 1 /\ UNCHANGED <<clock, remote, dir, call>>
    BY <1>2 DEF SaveConfig, ImportGroups
  <2>3. Monotone /\ local' \in [Installations -> [content : Nat, saved : Nat]]
    BY <2>1, <2>2, SaveLater
  <2>4. TypeOK'
    BY <1>t, <2>2, <2>3 DEF TypeOK
  <2>5. ClockInv'
    BY <1>2, ClockStep DEF Next
  <2>6. QED
    BY <2>2, <2>3, <2>4, <2>5, QuietStep
<1>3. ASSUME NEW i \in Installations, Crash(i) PROVE IndInv'
  <2>1. UNCHANGED <<clock, local, edits, remote, dir>>
    BY <1>3 DEF Crash
  <2>2. \A d \in Callers : call'[d] = call[d] \/ call'[d] = Idle
    BY <1>3 DEF Crash
  <2>3. call' \in [Callers -> {Idle} \cup BusyCall \cup EndedCall]
    BY <1>t, <1>3 DEF Crash, TypeOK
  <2>4. TypeOK' /\ Monotone
    BY <1>t, <2>1, <2>3, SameMonotone DEF TypeOK
  <2>5. ClockInv'
    BY <1>3, ClockStep DEF Next
  <2>6. QED
    BY <2>1, <2>2, <2>4, <2>5, QuietStep
<1>4. ASSUME NEW c \in Callers, Step(c) PROVE IndInv'
  <2>1. CASE Begin(c, "upload") \/ Begin(c, "pull")
    BY <2>1, BeginStep
  <2>2. CASE ~(Begin(c, "upload") \/ Begin(c, "pull"))
    <3>1. Advances(c)
      BY <1>4, <2>2, StatStep, FailStep, CheckoutStep, CheckAgeStep, WriteStep, AddStep, CommitStep,
         PushStep, ReadStep, ImportStep DEF Step
    <3>2. ClockInv'
      BY <1>4, ClockStep DEF Next
    <3>3. QED
      BY <3>1, <3>2, AdvanceIsGood
  <2>3. QED
    BY <2>1, <2>2
<1>5. CASE UNCHANGED vars
  <2>1. TypeOK' /\ ClockInv' /\ UNCHANGED <<remote, dir, local, call>>
    BY <1>5 DEF vars, IndInv, TypeOK, ClockInv
  <2>2. QED
    BY <1>t, <2>1, SameMonotone, QuietStep
<1>6. QED
  BY <1>1, <1>2, <1>3, <1>4, <1>5 DEF Next

(* The inductive invariant: types, databases not written in the future,    *)
(* the meaning of alone, and for each call what its step says about the    *)
(* directory it works in.                                                  *)
THEOREM Invariance == Spec => []IndInv
<1>1. Init => IndInv
  <2>. SUFFICES ASSUME Init PROVE IndInv
    OBVIOUS
  <2>1. \A c \in Callers : call[c] = Idle
    BY DEF Init
  <2>2. \A c \in Callers : call[c].pc = "idle"
    BY <2>1 DEF Idle
  <2>3. TypeOK
    BY RemoteAssumption DEF Init, TypeOK
  <2>4. ClockInv
    BY DEF Init, ClockInv
  <2>5. AloneInv /\ \A c \in Callers : Good(c)
    BY <2>2 DEF AloneInv, Good, CallInv, DirInv, StoredInv, busy, UploadPcs
  <2>6. QED
    BY <2>3, <2>4, <2>5 DEF IndInv
<1>2. IndInv /\ [Next]_vars => IndInv'
  BY NextPreserves
<1>3. QED
  BY <1>1, <1>2, PTL DEF Spec

(* An upload that reports success, and that no other call of its           *)
(* installation overlapped, has put the groups it began with on the        *)
(* branch (upload_groups_to_remote), whatever other installations pushed,  *)
(* and wherever earlier calls failed or the process ended.                 *)
THEOREM UploadsAreStored == Spec => []SuccessIsStored
<1>1. IndInv => SuccessIsStored
  BY DEF IndInv, Good, StoredInv, SuccessIsStored
<1>2. QED
  BY <1>1, Invariance, PTL

(* Nothing newer is overwritten without a confirmation: a push is taken    *)
(* only on top of the commit whose age was compared, or on an empty        *)
(* branch, and a pull compares the backup it imports.                      *)
THEOREM NewerIsConfirmed == Spec => OverwriteConfirmed
<1>1. ASSUME IndInv, Next, NEW c \in Callers PROVE UploadConfirmed(c)
  <2>. SUFFICES ASSUME call[c].pc = "push", call'[c].pc = "end", remote' # remote,
                       ~call[c].force, call[c].alone
                PROVE  \/ remote = << >> \/ exportedAt(Last(remote)) = None
                       \/ exportedAt(Last(remote)) <= local[Home[c]].saved
    BY DEF UploadConfirmed
  <2>. DEFINE d == dir[Home[c]]
  <2>1. /\ TypeOK /\ DirAt(c) /\ Home[c] \in Installations
        /\ call[c].updated \in Nat /\ call[c].updated <= local[Home[c]].saved
    <3>1. call[c].pc \in UploadPcs
      BY DEF UploadPcs
    <3>2. QED
      BY <1>1, <3>1, UploadFacts
  <2>2. PICK e \in Callers : Push(e)
    BY <1>1 DEF Next, Tick, SaveConfig, ImportGroups, Crash, Step, Begin, get_local_config_updated_at, Fail,
       checkout_branch, CheckAge, write_remote_rules_file, AddAndDiff, Commit, ReadPulled, ImportPulled
  <2>3. e = c
    <3>1. Advances(e)
      BY <1>1, <2>2, PushStep
    <3>2. QED
      BY <3>1 DEF Advances
  <2>4. d.base = Len(remote)
    BY <2>2, <2>3 DEF Push
  <2>5. Confirmed(c)
    BY <2>1 DEF DirAt
  <2>6. CASE d.base = 0
    <3>1. remote \in Seq(File) /\ Len(remote) = 0
      BY <2>1, <2>4, <2>6 DEF TypeOK
    <3>2. remote = << >>
      BY <3>1
    <3>3. QED
      BY <3>2
  <2>7. CASE /\ Len(remote) \in 1..Len(remote)
             /\ \/ exportedAt(remote[Len(remote)]) = None
                \/ exportedAt(remote[Len(remote)]) <= call[c].updated
    <3>1. remote[Len(remote)] \in File /\ Last(remote) = remote[Len(remote)] /\ local[Home[c]].saved \in Nat
      BY <2>1, <2>7 DEF TypeOK, Last
    <3>2. exportedAt(Last(remote)) \in Nat \cup {None}
      BY <3>1, ExportedAtType
    <3>3. QED
      BY <2>1, <2>7, <3>1, <3>2
  <2>8. QED
    BY <2>4, <2>5, <2>6, <2>7 DEF Confirmed
<1>2. ASSUME IndInv, Next, NEW c \in Callers PROVE PullConfirmed(c)
  <2>. DEFINE now == local[Home[c]].saved
              at == exportedAt(call[c].payload)
  <2>. SUFFICES ASSUME call[c].pc = "import", call'[c].pc = "end", call'[c].result = "ok",
                       ~call[c].force, now = call[c].updated
                PROVE  at = None \/ now <= at
    BY DEF PullConfirmed
  <2>1. TypeOK /\ busy(c) /\ call[c] \in BusyCall /\ Home[c] \in Installations
    BY <1>2, BusyShape DEF IndInv, busy
  <2>2. now \in Nat /\ at \in Nat \cup {None}
    BY <2>1, ExportedAtType DEF TypeOK, BusyCall
  <2>3. ImportPulled(c)
    <3>1. ASSUME NEW e \in Callers \ {c}, Step(e) PROVE FALSE
      <4>1. CASE Begin(e, "upload") \/ Begin(e, "pull")
        <5>1. call'[c] = call[c] \/ call'[c] = [call[c] EXCEPT !.alone = FALSE]
          BY <2>1, <4>1 DEF Begin
        <5>2. QED
          BY <2>1, <5>1 DEF BusyCall
      <4>2. CASE ~(Begin(e, "upload") \/ Begin(e, "pull"))
        <5>1. Advances(e)
          BY <1>2, <3>1, <4>2, StatStep, FailStep, CheckoutStep, CheckAgeStep, WriteStep, AddStep, CommitStep,
             PushStep, ReadStep, ImportStep DEF Step
        <5>2. QED
          BY <5>1 DEF Advances
      <4>3. QED
        BY <4>1, <4>2
    <3>2. ~Fail(c)
      <4>1. ASSUME Fail(c) PROVE FALSE
        <5>1. call'[c].result = "error"
          BY <2>1, <4>1 DEF Fail, end, finish, TypeOK
        <5>2. QED
          BY <5>1
      <4>2. QED
        BY <4>1
    <3>3. ASSUME Step(c) PROVE ImportPulled(c)
      BY <2>1, <3>2, <3>3 DEF Step, Begin, get_local_config_updated_at, checkout_branch, CheckAge,
         write_remote_rules_file, AddAndDiff, Commit, Push, ReadPulled, there
    <3>4. ASSUME NEW i \in Installations, Crash(i) PROVE FALSE
      <4>1. call'[c] = Idle \/ call'[c] = call[c]
        BY <3>4 DEF Crash
      <4>2. QED
        BY <4>1 DEF Idle
    <3>5. ~Tick /\ \A i \in Installations : ~SaveConfig(i) /\ ~ImportGroups(i)
      BY DEF Tick, SaveConfig, ImportGroups
    <3>6. QED
      BY <1>2, <3>1, <3>3, <3>4, <3>5 DEF Next
  <2>4. ~local_newer_than_remote(call[c].updated, at)
    <3>1. \A result : finish(c, result) => call'[c].result = result
      BY <2>1 DEF finish, TypeOK
    <3>2. ~finish(c, "error") /\ ~finish(c, "confirm")
      BY <3>1
    <3>3. QED
      BY <2>3, <3>2 DEF ImportPulled
  <2>5. QED
    BY <2>2, <2>4, RemoteAssumption DEF local_newer_than_remote
<1>3. IndInv /\ [Next]_vars => [\A c \in Callers : UploadConfirmed(c) /\ PullConfirmed(c)]_vars
  BY <1>1, <1>2
<1>4. QED
  BY <1>3, Invariance, PTL DEF Spec, OverwriteConfirmed
=============================================================================
