------------------------ MODULE RequestPipelineProofs -----------------------
(***************************************************************************)
(* However many requests, stream tasks, polls and clears interleave, the   *)
(* log shows a request once, "processing" entries belong to requests at    *)
(* work, and the counters and the statistics agree with how the requests   *)
(* ended.                                                                  *)
(***************************************************************************)
EXTENDS RequestPipeline, FiniteSetTheorems, SequenceTheorems, TLAPS

USE PipelineAssumption

Entry == [id : Requests \cup {Ping}, status : Final \cup {"processing"}]

(* No two entries of l name the same request.                              *)
Distinct(l) ==
    \A i, j \in 1..Len(l) : l[i].id = l[j].id /\ l[i].id # Ping => i = j

(* Every entry of m is e or was in l.                                      *)
OnlyAdds(l, m, e) ==
    \A i \in 1..Len(m) : m[i] = e \/ \E j \in 1..Len(l) : m[i] = l[j]

-----------------------------------------------------------------------------
(* append keeps at most Limit entries, the last of which is the new one,   *)
(* and shifts the others by one when it evicts the oldest.                 *)
LEMMA AppendShape ==
    ASSUME NEW l \in Seq(Entry), Len(l) <= Limit, NEW e \in Entry
    PROVE  /\ append(l, e) \in Seq(Entry)
           /\ Len(append(l, e)) <= Limit
           /\ \E k \in {0, 1} :
                 /\ Len(append(l, e)) + k = Len(l) + 1
                 /\ append(l, e)[Len(append(l, e))] = e
                 /\ \A i \in 1..Len(append(l, e)) - 1 : append(l, e)[i] = l[i + k]
<1> DEFINE a == Append(l, e)
<1>1. /\ a \in Seq(Entry) /\ a # << >> /\ Len(a) = Len(l) + 1
      /\ \A i \in 1..Len(l) : a[i] = l[i]
      /\ a[Len(l) + 1] = e
  BY AppendProperties
<1>2. Len(l) \in Nat
  BY LenProperties
<1>3. CASE Len(a) > Limit
  <2>1. append(l, e) = Tail(a)
    BY <1>3 DEF append, evict
  <2>2. /\ Tail(a) \in Seq(Entry) /\ Len(Tail(a)) = Len(l)
        /\ \A i \in 1..Len(l) : Tail(a)[i] = a[i + 1]
    BY <1>1, <1>2, HeadTailProperties
  <2>3. Len(l) >= 1
    BY <1>1, <1>2, <1>3
  <2> HIDE DEF a
  <2>4. Tail(a)[Len(l)] = e
    BY <1>1, <1>2, <2>2, <2>3
  <2>5. \A i \in 1..(Len(l) - 1) : Tail(a)[i] = l[i + 1]
    BY <1>1, <1>2, <2>2, <2>3
  <2>6. Len(append(l, e)) + 1 = Len(l) + 1
    BY <1>2, <2>1, <2>2
  <2>7. QED
    BY <1>2, <2>1, <2>2, <2>4, <2>5, <2>6
<1>4. CASE Len(a) <= Limit
  <2>1. append(l, e) = a
    BY <1>1, <1>2, <1>4 DEF append, evict
  <2> HIDE DEF a
  <2>2. Len(append(l, e)) + 0 = Len(l) + 1
    BY <1>1, <1>2, <2>1
  <2>3. \A i \in 1..Len(l) : a[i] = l[i + 0]
    BY <1>1, <1>2
  <2>4. QED
    BY <1>1, <1>2, <1>4, <2>1, <2>2, <2>3
<1>5. QED
  BY <1>1, <1>2, <1>3, <1>4

(* append adds nothing but its entry, and keeps the requests of the log    *)
(* distinct when the entry's request was not in it.                        *)
LEMMA AppendFacts ==
    ASSUME NEW l \in Seq(Entry), Len(l) <= Limit, NEW e \in Entry
    PROVE  /\ append(l, e) \in Seq(Entry)
           /\ Len(append(l, e)) <= Limit
           /\ OnlyAdds(l, append(l, e), e)
           /\ Distinct(l) /\ (e.id = Ping \/ \A i \in 1..Len(l) : l[i].id # e.id)
                 => Distinct(append(l, e))
<1> DEFINE m == append(l, e)
<1>1. PICK k \in {0, 1} :
         /\ Len(m) + k = Len(l) + 1
         /\ m[Len(m)] = e
         /\ \A i \in 1..Len(m) - 1 : m[i] = l[i + k]
  BY AppendShape
<1>2. m \in Seq(Entry) /\ Len(m) <= Limit
  BY AppendShape
<1> HIDE DEF m
<1>3. Len(l) \in Nat
  BY LenProperties
<1>4. \A i \in 1..Len(m) : \/ i = Len(m) /\ m[i] = e
                           \/ i + k \in 1..Len(l) /\ m[i] = l[i + k]
  BY <1>1, <1>2, <1>3, LenProperties
<1>5. OnlyAdds(l, m, e)
  BY <1>4 DEF OnlyAdds
<1>6. ASSUME Distinct(l), e.id = Ping \/ \A i \in 1..Len(l) : l[i].id # e.id
      PROVE  Distinct(m)
  <2> SUFFICES ASSUME NEW i \in 1..Len(m), NEW j \in 1..Len(m),
                      m[i].id = m[j].id, m[i].id # Ping
               PROVE  i = j
    BY DEF Distinct
  <2>1. \/ i = Len(m) /\ j = Len(m)
        \/ /\ i + k \in 1..Len(l) /\ m[i] = l[i + k]
           /\ j + k \in 1..Len(l) /\ m[j] = l[j + k]
    BY <1>4, <1>6
  <2>2. QED
    BY <1>6, <2>1 DEF Distinct
<1>7. QED
  BY <1>2, <1>5, <1>6 DEF m

(* upsert, too, adds nothing but its entry; in a log whose requests are    *)
(* distinct it finds at most one entry to replace, so the requests stay    *)
(* distinct and the new entry is the only one of its request.              *)
LEMMA UpsertFacts ==
    ASSUME NEW l \in Seq(Entry), Len(l) <= Limit, Distinct(l),
           NEW e \in Entry, e.id # Ping
    PROVE  /\ upsert(l, e) \in Seq(Entry)
           /\ Len(upsert(l, e)) <= Limit
           /\ OnlyAdds(l, upsert(l, e), e)
           /\ Distinct(upsert(l, e))
           /\ \A i \in 1..Len(upsert(l, e)) :
                 upsert(l, e)[i].id = e.id => upsert(l, e)[i] = e
<1> DEFINE same == {i \in 1..Len(l) : l[i].id = e.id}
           m == upsert(l, e)
<1>1. CASE same = {}
  <2>1. m = append(l, e)
    BY <1>1 DEF upsert
  <2>2. \A i \in 1..Len(l) : l[i].id # e.id
    BY <1>1
  <2>3. /\ m \in Seq(Entry) /\ Len(m) <= Limit
        /\ OnlyAdds(l, m, e) /\ Distinct(m)
    BY <2>1, <2>2, AppendFacts
  <2> HIDE DEF m
  <2>4. \A i \in 1..Len(m) : m[i].id = e.id => m[i] = e
    BY <2>2, <2>3 DEF OnlyAdds
  <2>5. QED
    BY <2>3, <2>4 DEF m
<1>2. CASE same # {}
  <2>1. PICK k \in 1..Len(l) : l[k].id = e.id
    BY <1>2
  <2>2. \A i \in same : i = k
    BY <2>1 DEF Distinct
  <2>3. (CHOOSE i \in same : \A j \in same : j <= i) = k
    BY <2>1, <2>2
  <2>4. m = [l EXCEPT ![k] = e]
    BY <1>2, <2>3 DEF upsert
  <2>5. /\ m \in Seq(Entry) /\ Len(m) = Len(l)
        /\ \A j \in 1..Len(l) : m[j] = IF j = k THEN e ELSE l[j]
    BY <2>4, ExceptSeq
  <2> HIDE DEF m
  <2>6. OnlyAdds(l, m, e)
    BY <2>5 DEF OnlyAdds
  <2>7. Distinct(m) /\ \A i \in 1..Len(m) : m[i].id = e.id => m[i] = e
    BY <2>1, <2>5 DEF Distinct
  <2>8. QED
    BY <2>5, <2>6, <2>7 DEF m
<1>3. QED
  BY <1>1, <1>2
-----------------------------------------------------------------------------
(* A request has an outcome once it is finalized, rejected or dropped, and *)
(* a row of the statistics only after that.                                *)
OutcomeFollowsPlace ==
    \A t \in Requests :
        /\ pc[t] \notin {"stats", "done"} => outcome[t] = "none"
        /\ pc[t] = "stats" => outcome[t] \in Final
        /\ pc[t] # "done" => rows[t] = << >>
        /\ rows[t] \in {<< >>, <<outcome[t]>>}
        /\ outcome[t] \notin Final => rows[t] = << >>

Unlogged == {"receive", "reject", "reject_log", "body", "count", "count_stream",
             "processing"}
AtWork == {"send", "text", "stream_enter", "stream", "fail", "finalize_ok",
           "finalize_error"}

(* Nothing is logged of a request before its handler sends it upstream.    *)
NotLoggedYet ==
    \A t \in Requests :
        pc[t] \in Unlogged => \A i \in 1..Len(log) : log[i].id # t

(* The requests the error counter has been incremented for.                *)
Failed ==
    {t \in Requests : \/ pc[t] \in {"reject_log", "finalize_error"}
                      \/ outcome[t] \in {"error", "rejected", "early"}}

(* The counted requests that may still be, or have been, finalized "ok".   *)
Counted ==
    {t \in Requests : \/ pc[t] \in {"count_stream", "processing", "send", "text",
                                    "stream_enter", "stream", "finalize_ok"}
                      \/ outcome[t] = "ok"}

CountersExact ==
    /\ IsFiniteSet(Failed) /\ errors = Cardinality(Failed)
    /\ IsFiniteSet(Counted) /\ Cardinality(Counted) <= requests

IndInv ==
    /\ TypeOK /\ OneEntryPerRequest /\ ProcessingMeansRunning
    /\ OutcomeFollowsPlace /\ NotLoggedYet /\ CountersExact

-----------------------------------------------------------------------------
(* Every step preserves the types, the capacity of the log included.       *)
LEMMA TypeStep == TypeOK /\ OneEntryPerRequest /\ OutcomeFollowsPlace /\ [Next]_vars => TypeOK'
<1> SUFFICES ASSUME TypeOK, OneEntryPerRequest, OutcomeFollowsPlace, [Next]_vars PROVE TypeOK'
  OBVIOUS
<1>l. log \in Seq(Entry) /\ Len(log) <= Limit /\ Distinct(log)
  BY DEF TypeOK, Entry, OneEntryPerRequest, Distinct
<1>e. \A t \in Requests, s \in Final \cup {"processing"} :
         entry(t, s) \in Entry /\ entry(t, s).id = t /\ t # Ping
  BY DEF entry, Entry
<1>p. entry(Ping, "ok") \in Entry
  BY DEF entry, Entry, Final
<1>a. ASSUME NEW e \in Entry, log' = append(log, e)
      PROVE  log' \in Seq(Entry) /\ Len(log') <= Limit
  BY <1>l, <1>a, AppendFacts
<1>u. ASSUME NEW t \in Requests, NEW s \in Final \cup {"processing"},
             log' = upsert(log, entry(t, s))
      PROVE  log' \in Seq(Entry) /\ Len(log') <= Limit
  BY <1>l, <1>e, <1>u, UpsertFacts
<1> USE DEF TypeOK, metrics, goto, end, Places, Final
<1>1. ASSUME NEW t \in Requests, Receive(t) PROVE TypeOK'
  <2>1. CASE end(t, "early") /\ errors' = errors + 1
    BY <1>1, <2>1 DEF Receive
  <2>2. CASE UNCHANGED <<errors, outcome>>
    BY <1>1, <2>2 DEF Receive
  <2>3. QED
    BY <1>1, <2>1, <2>2 DEF Receive
<1>2. ASSUME NEW t \in Requests, ReadBody(t) PROVE TypeOK'
  <2>1. CASE end(t, "too_large") /\ UNCHANGED errors
    BY <1>2, <2>1 DEF ReadBody
  <2>2. CASE end(t, "early") /\ errors' = errors + 1
    BY <1>2, <2>2 DEF ReadBody
  <2>3. CASE UNCHANGED <<errors, outcome>>
    BY <1>2, <2>3 DEF ReadBody
  <2>4. QED
    BY <1>2, <2>1, <2>2, <2>3 DEF ReadBody
<1>3. ASSUME NEW t \in Requests, CountRequest(t) PROVE TypeOK'
  BY <1>3 DEF CountRequest
<1>4. ASSUME NEW t \in Requests, CountStreamRequest(t) PROVE TypeOK'
  BY <1>4 DEF CountStreamRequest
<1>5. ASSUME NEW t \in Requests, AppendProcessingLog(t) PROVE TypeOK'
  BY <1>5, <1>u DEF AppendProcessingLog, Entry
<1>6. ASSUME NEW t \in Requests, Send(t) PROVE TypeOK'
  BY <1>6 DEF Send
<1>7. ASSUME NEW t \in Requests, ReadText(t) PROVE TypeOK'
  BY <1>7 DEF ReadText
<1>8. ASSUME NEW t \in Requests, Fail(t) PROVE TypeOK'
  BY <1>8 DEF Fail
<1>9. ASSUME NEW t \in Requests, FinalizeLog(t) PROVE TypeOK'
  BY <1>9, <1>u DEF FinalizeLog, Entry
<1>10. ASSUME NEW t \in Requests, AppendStats(t) PROVE TypeOK'
  <2>1. CASE UNCHANGED rows
    BY <1>10, <2>1 DEF AppendStats
  <2>2. CASE rows' = [rows EXCEPT ![t] = Append(@, outcome[t])]
    <3>1. rows[t] \in Seq(Final) /\ outcome[t] \in Final
      BY <1>10 DEF AppendStats, OutcomeFollowsPlace
    <3>2. Append(rows[t], outcome[t]) \in Seq(Final)
      BY <3>1, AppendProperties
    <3>3. QED
      BY <1>10, <2>2, <3>2 DEF AppendStats
  <2>3. QED
    BY <1>10, <2>1, <2>2 DEF AppendStats
<1>11. ASSUME NEW t \in Requests, RejectCount(t) PROVE TypeOK'
  BY <1>11 DEF RejectCount
<1>12. ASSUME NEW t \in Requests, RejectLog(t) PROVE TypeOK'
  BY <1>12, <1>e, <1>a DEF RejectLog, Entry
<1>13. ASSUME NEW t \in Requests, StreamStep(t) PROVE TypeOK'
  BY <1>13, <1>u DEF StreamStep, StreamRefreshLog, StreamEnds, Entry
<1>14. ASSUME NEW t \in Requests, UpstreamProgress(t) PROVE TypeOK'
  BY <1>14 DEF UpstreamProgress
<1>15. ASSUME NEW t \in Requests, Disconnect(t) PROVE TypeOK'
  BY <1>15 DEF Disconnect
<1>16. CASE Poll
  <2>1. CASE SnapshotRequests
    BY <2>1 DEF SnapshotRequests, Idle
  <2>2. CASE SnapshotStreamRequests
    BY <2>2 DEF SnapshotStreamRequests
  <2>3. CASE LogPoll
    BY <2>3, <1>p, <1>a DEF LogPoll, Idle, Entry
  <2>4. QED
    BY <1>16, <2>1, <2>2, <2>3 DEF Poll
<1>17. CASE ClearLogs
  BY <1>17 DEF ClearLogs
<1>18. CASE UNCHANGED vars
  BY <1>18 DEF vars
<1>19. QED
  BY <1>1, <1>2, <1>3, <1>4, <1>5, <1>6, <1>7, <1>8, <1>9, <1>10, <1>11,
     <1>12, <1>13, <1>14, <1>15, <1>16, <1>17, <1>18 DEF Next, HandlerStep
(* What the log shows.                                                     *)
LogInv == OneEntryPerRequest /\ ProcessingMeansRunning /\ NotLoggedYet

(* A step that leaves the log alone and moves one request forward: out of  *)
(* the places where nothing is logged of it, between the places where it   *)
(* is at work, or away with its client.                                    *)
LEMMA QuietStep ==
    ASSUME LogInv, UNCHANGED log, NEW t \in Requests,
           \A u \in Requests \ {t} : pc'[u] = pc[u] /\ outcome'[u] = outcome[u],
           pc'[t] \in Unlogged => pc[t] \in Unlogged,
           outcome[t] # "dropped",
           \/ pc[t] \in Unlogged \cup {"stats"}
           \/ pc'[t] \in AtWork \/ outcome'[t] = "dropped"
    PROVE  LogInv'
<1>1. OneEntryPerRequest'
  BY DEF LogInv, OneEntryPerRequest
<1>2. NotLoggedYet'
  BY DEF LogInv, NotLoggedYet
<1>3. \A s : inLog(t, s) => pc[t] \notin Unlogged
  BY DEF LogInv, NotLoggedYet, inLog, entry
<1>4. ProcessingMeansRunning'
  BY <1>3 DEF LogInv, ProcessingMeansRunning, inLog, AtWork, Unlogged
<1>5. QED
  BY <1>1, <1>2, <1>4 DEF LogInv

(* A step that writes entry e of the request t: nothing else is added, the *)
(* requests stay distinct, the entry is the only one of its request, and   *)
(* the request moves to where such an entry belongs.                       *)
LEMMA WriteStep ==
    ASSUME TypeOK, LogInv, NEW t \in Requests, NEW s, 
           OnlyAdds(log, log', entry(t, s)), Distinct(log'),
           \A i \in 1..Len(log') : log'[i].id = t => log'[i] = entry(t, s),
           \A u \in Requests \ {t} : pc'[u] = pc[u] /\ outcome'[u] = outcome[u],
           pc'[t] \notin Unlogged, s = "processing" => pc'[t] \in AtWork
    PROVE  LogInv'
<1>1. OneEntryPerRequest'
  BY DEF Distinct, OneEntryPerRequest
<1>2. NotLoggedYet'
  <2> SUFFICES ASSUME NEW u \in Requests, pc'[u] \in Unlogged,
                      NEW i \in 1..Len(log'), log'[i].id = u
               PROVE  FALSE
    BY DEF NotLoggedYet
  <2>1. u # t /\ pc[u] \in Unlogged
    OBVIOUS
  <2>2. PICK j \in 1..Len(log) : log[j] = log'[i]
    BY <2>1 DEF OnlyAdds, entry
  <2>3. QED
    BY <2>1, <2>2 DEF LogInv, NotLoggedYet
<1>3. ProcessingMeansRunning'
  <2> SUFFICES ASSUME NEW u \in Requests,
                      NEW i \in 1..Len(log'), log'[i] = entry(u, "processing")
               PROVE  pc'[u] \in AtWork \/ outcome'[u] = "dropped"
    BY DEF ProcessingMeansRunning, inLog, AtWork
  <2>1. CASE u = t
    BY <2>1 DEF entry
  <2>2. CASE u # t
    <3>1. PICK j \in 1..Len(log) : log[j] = log'[i]
      BY <2>2 DEF OnlyAdds, entry
    <3>2. QED
      BY <2>2, <3>1 DEF LogInv, ProcessingMeansRunning, inLog, AtWork
  <2>3. QED
    BY <2>1, <2>2
<1>4. QED
  BY <1>1, <1>2, <1>3 DEF LogInv

(* Every step preserves what the log shows: an entry is only added for a   *)
(* request that has none, or replaces the only one it has.                 *)
LEMMA LogStep == TypeOK /\ OutcomeFollowsPlace /\ LogInv /\ [Next]_vars => LogInv'
<1> SUFFICES ASSUME TypeOK, OutcomeFollowsPlace, LogInv, [Next]_vars PROVE LogInv'
  OBVIOUS
<1>l. log \in Seq(Entry) /\ Len(log) <= Limit /\ Distinct(log)
  BY DEF TypeOK, Entry, LogInv, OneEntryPerRequest, Distinct
<1>e. \A t \in Requests, s \in Final \cup {"processing"} :
         entry(t, s) \in Entry /\ entry(t, s).id = t /\ t # Ping
  BY DEF entry, Entry
<1>p. /\ pc \in [Requests -> Places]
      /\ outcome \in [Requests -> Final \cup {"none", "early", "too_large", "dropped"}]
      /\ \A t \in Requests : outcome[t] = "dropped" => pc[t] = "done"
  BY DEF TypeOK, OutcomeFollowsPlace, Final
<1>u. ASSUME NEW t \in Requests, NEW s \in Final \cup {"processing"},
             log' = upsert(log, entry(t, s)),
             \A u \in Requests \ {t} : pc'[u] = pc[u] /\ outcome'[u] = outcome[u],
             pc'[t] \notin Unlogged, s = "processing" => pc'[t] \in AtWork
      PROVE  LogInv'
  <2>1. /\ OnlyAdds(log, log', entry(t, s)) /\ Distinct(log')
        /\ \A i \in 1..Len(log') : log'[i].id = t => log'[i] = entry(t, s)
    BY <1>l, <1>e, <1>u, UpsertFacts
  <2>2. QED
    BY <1>u, <2>1, WriteStep
<1> USE DEF metrics, goto, end, Unlogged, AtWork
<1>1. ASSUME NEW t \in Requests, Receive(t) PROVE LogInv'
  BY <1>1, <1>p, QuietStep DEF Receive
<1>2. ASSUME NEW t \in Requests, ReadBody(t) PROVE LogInv'
  BY <1>2, <1>p, QuietStep DEF ReadBody
<1>3. ASSUME NEW t \in Requests, CountRequest(t) PROVE LogInv'
  BY <1>3, <1>p, QuietStep DEF CountRequest
<1>4. ASSUME NEW t \in Requests, CountStreamRequest(t) PROVE LogInv'
  BY <1>4, <1>p, QuietStep DEF CountStreamRequest
<1>5. ASSUME NEW t \in Requests, Send(t) PROVE LogInv'
  BY <1>5, <1>p, QuietStep DEF Send
<1>6. ASSUME NEW t \in Requests, ReadText(t) PROVE LogInv'
  BY <1>6, <1>p, QuietStep DEF ReadText
<1>7. ASSUME NEW t \in Requests, Fail(t) PROVE LogInv'
  BY <1>7, <1>p, QuietStep DEF Fail
<1>8. ASSUME NEW t \in Requests, AppendStats(t) PROVE LogInv'
  BY <1>8, <1>p, QuietStep DEF AppendStats
<1>9. ASSUME NEW t \in Requests, RejectCount(t) PROVE LogInv'
  BY <1>9, <1>p, QuietStep DEF RejectCount
<1>10. ASSUME NEW t \in Requests, StreamEnds(t) PROVE LogInv'
  BY <1>10, <1>p, QuietStep DEF StreamEnds
<1>11. ASSUME NEW t \in Requests, UpstreamProgress(t) PROVE LogInv'
  BY <1>11, <1>p, QuietStep DEF UpstreamProgress
<1>12. ASSUME NEW t \in Requests, Disconnect(t) PROVE LogInv'
  BY <1>12, <1>p, QuietStep DEF Disconnect
<1>13. ASSUME NEW t \in Requests, AppendProcessingLog(t) PROVE LogInv'
  BY <1>13, <1>p, <1>u DEF AppendProcessingLog
<1>14. ASSUME NEW t \in Requests, StreamRefreshLog(t) PROVE LogInv'
  BY <1>14, <1>p, <1>u DEF StreamRefreshLog
<1>15. ASSUME NEW t \in Requests, FinalizeLog(t) PROVE LogInv'
  BY <1>15, <1>p, <1>u DEF FinalizeLog, Final
<1>16. ASSUME NEW t \in Requests, RejectLog(t) PROVE LogInv'
  <2> DEFINE e == entry(t, "rejected")
  <2>1. e \in Entry /\ e.id = t /\ \A i \in 1..Len(log) : log[i].id # e.id
    BY <1>16, <1>e DEF RejectLog, LogInv, NotLoggedYet, Final
  <2>2. OnlyAdds(log, log', e) /\ Distinct(log')
    BY <1>16, <1>l, <2>1, AppendFacts DEF RejectLog
  <2>3. \A i \in 1..Len(log') : log'[i].id = t => log'[i] = e
    BY <2>1, <2>2 DEF OnlyAdds
  <2>4. QED
    BY <1>16, <1>p, <2>2, <2>3, WriteStep DEF RejectLog
<1>17. CASE LogPoll
  <2> DEFINE e == entry(Ping, "ok")
  <2>1. e \in Entry /\ e.id = Ping
    BY DEF entry, Entry, Final
  <2>2. OnlyAdds(log, log', e) /\ Distinct(log')
    BY <1>17, <1>l, <2>1, AppendFacts DEF LogPoll
  <2>3. OneEntryPerRequest'
    BY <2>2 DEF Distinct, OneEntryPerRequest
  <2>4. \A i \in 1..Len(log'), t \in Requests :
           log'[i].id = t => \E j \in 1..Len(log) : log'[i] = log[j]
    BY <2>1, <2>2 DEF OnlyAdds
  <2>5. NotLoggedYet'
    BY <1>17, <2>4 DEF LogPoll, LogInv, NotLoggedYet
  <2>6. ProcessingMeansRunning'
    BY <1>17, <2>4 DEF LogPoll, LogInv, ProcessingMeansRunning, inLog, entry
  <2>7. QED
    BY <2>3, <2>5, <2>6 DEF LogInv
<1>18. CASE ClearLogs
  BY <1>18 DEF ClearLogs, LogInv, OneEntryPerRequest, ProcessingMeansRunning, NotLoggedYet, inLog
<1>19. ASSUME UNCHANGED <<log, pc, outcome>> PROVE LogInv'
  BY <1>19 DEF LogInv, OneEntryPerRequest, ProcessingMeansRunning, NotLoggedYet, inLog
<1>20. QED
  BY <1>1, <1>2, <1>3, <1>4, <1>5, <1>6, <1>7, <1>8, <1>9, <1>10, <1>11,
     <1>12, <1>13, <1>14, <1>15, <1>16, <1>17, <1>18, <1>19
  DEF Next, HandlerStep, StreamStep, Poll, SnapshotRequests, SnapshotStreamRequests, vars
(* Every step keeps outcomes, places and rows in agreement: a row is       *)
(* written once, by the last step of its request.                          *)
LEMMA OutcomeStep ==
    TypeOK /\ OutcomeFollowsPlace /\ [Next]_vars => OutcomeFollowsPlace'
<1> SUFFICES ASSUME TypeOK, OutcomeFollowsPlace, [Next]_vars PROVE OutcomeFollowsPlace'
  OBVIOUS
<1>p. pc \in [Requests -> Places] /\ rows \in [Requests -> Seq(Final)] /\ DOMAIN outcome = Requests
  BY DEF TypeOK
<1> USE <1>p DEF OutcomeFollowsPlace, metrics, goto, end, Final
<1>1. ASSUME NEW t \in Requests, Receive(t) PROVE OutcomeFollowsPlace'
  BY <1>1 DEF Receive
<1>2. ASSUME NEW t \in Requests, ReadBody(t) PROVE OutcomeFollowsPlace'
  BY <1>2 DEF ReadBody
<1>3. ASSUME NEW t \in Requests, CountRequest(t) PROVE OutcomeFollowsPlace'
  BY <1>3 DEF CountRequest
<1>4. ASSUME NEW t \in Requests, CountStreamRequest(t) PROVE OutcomeFollowsPlace'
  BY <1>4 DEF CountStreamRequest
<1>5. ASSUME NEW t \in Requests, AppendProcessingLog(t) PROVE OutcomeFollowsPlace'
  BY <1>5 DEF AppendProcessingLog
<1>6. ASSUME NEW t \in Requests, Send(t) PROVE OutcomeFollowsPlace'
  BY <1>6 DEF Send
<1>7. ASSUME NEW t \in Requests, ReadText(t) PROVE OutcomeFollowsPlace'
  BY <1>7 DEF ReadText
<1>8. ASSUME NEW t \in Requests, Fail(t) PROVE OutcomeFollowsPlace'
  BY <1>8 DEF Fail
<1>9. ASSUME NEW t \in Requests, FinalizeLog(t) PROVE OutcomeFollowsPlace'
  BY <1>9 DEF FinalizeLog
<1>10. ASSUME NEW t \in Requests, RejectCount(t) PROVE OutcomeFollowsPlace'
  BY <1>10 DEF RejectCount
<1>11. ASSUME NEW t \in Requests, RejectLog(t) PROVE OutcomeFollowsPlace'
  BY <1>11 DEF RejectLog
<1>12. ASSUME NEW t \in Requests, StreamRefreshLog(t) PROVE OutcomeFollowsPlace'
  BY <1>12 DEF StreamRefreshLog
<1>13. ASSUME NEW t \in Requests, StreamEnds(t) PROVE OutcomeFollowsPlace'
  BY <1>13 DEF StreamEnds
<1>14. ASSUME NEW t \in Requests, UpstreamProgress(t) PROVE OutcomeFollowsPlace'
  BY <1>14 DEF UpstreamProgress
<1>15. ASSUME NEW t \in Requests, Disconnect(t) PROVE OutcomeFollowsPlace'
  BY <1>15 DEF Disconnect
<1>16. ASSUME NEW t \in Requests, AppendStats(t) PROVE OutcomeFollowsPlace'
  <2>1. rows[t] = << >> /\ Append(<< >>, outcome[t]) = <<outcome[t]>>
    BY <1>16 DEF AppendStats
  <2>2. CASE rows' = [rows EXCEPT ![t] = Append(@, outcome[t])]
    BY <1>16, <2>1, <2>2 DEF AppendStats
  <2>3. CASE UNCHANGED rows
    BY <1>16, <2>3 DEF AppendStats
  <2>4. QED
    BY <1>16, <2>2, <2>3 DEF AppendStats
<1>17. ASSUME UNCHANGED <<pc, outcome, rows>> PROVE OutcomeFollowsPlace'
  BY <1>17
<1>18. QED
  BY <1>1, <1>2, <1>3, <1>4, <1>5, <1>6, <1>7, <1>8, <1>9, <1>10, <1>11,
     <1>12, <1>13, <1>14, <1>15, <1>16, <1>17
  DEF Next, HandlerStep, StreamStep, Poll, SnapshotRequests, SnapshotStreamRequests,
      LogPoll, ClearLogs, vars
(* A step counts at most one error, for a request it adds to the failed    *)
(* ones, and at most one request, which it adds to the counted ones.       *)
LEMMA CounterShift ==
    ASSUME TypeOK, CountersExact, NEW t,
           \/ Failed' = Failed /\ errors' = errors
           \/ t \notin Failed /\ Failed' = Failed \cup {t} /\ errors' = errors + 1,
           \/ Counted' \subseteq Counted /\ requests' = requests
           \/ Counted' = Counted \cup {t} /\ requests' = requests + 1
    PROVE  CountersExact'
<1>0. requests \in Nat /\ errors \in Nat
  BY DEF TypeOK
<1>1. IsFiniteSet(Failed) /\ errors = Cardinality(Failed)
  BY DEF CountersExact
<1>2. IsFiniteSet(Counted) /\ Cardinality(Counted) <= requests
  BY DEF CountersExact
<1>3. IsFiniteSet(Failed)' /\ (errors = Cardinality(Failed))'
  <2>1. CASE Failed' = Failed /\ errors' = errors
    BY <1>1, <2>1
  <2>2. CASE t \notin Failed /\ Failed' = Failed \cup {t} /\ errors' = errors + 1
    <3>1. /\ IsFiniteSet(Failed \cup {t})
          /\ Cardinality(Failed \cup {t}) = Cardinality(Failed) + 1
      BY <1>1, <2>2, FS_AddElement
    <3>2. QED
      BY <1>1, <2>2, <3>1
  <2>3. QED
    BY <2>1, <2>2
<1>4. IsFiniteSet(Counted)' /\ (Cardinality(Counted) <= requests)'
  <2>1. Cardinality(Counted) \in Nat
    BY <1>2, FS_CardinalityType
  <2>2. CASE Counted' \subseteq Counted /\ requests' = requests
    <3>1. IsFiniteSet(Counted') /\ Cardinality(Counted') <= Cardinality(Counted)
      BY <1>2, <2>2, FS_Subset
    <3>2. Cardinality(Counted') \in Nat
      BY <3>1, FS_CardinalityType
    <3>3. QED
      BY <1>0, <1>2, <2>1, <2>2, <3>1, <3>2
  <2>3. CASE Counted' = Counted \cup {t} /\ requests' = requests + 1
    <3>1. /\ IsFiniteSet(Counted \cup {t})
          /\ \/ Cardinality(Counted \cup {t}) = Cardinality(Counted)
             \/ Cardinality(Counted \cup {t}) = Cardinality(Counted) + 1
      BY <1>2, FS_AddElement
    <3>2. QED
      BY <1>0, <1>2, <2>1, <2>3, <3>1
  <2>4. QED
    BY <2>2, <2>3
<1>5. QED
  BY <1>3, <1>4 DEF CountersExact

(* Every step keeps the counters exact: the error counter is incremented   *)
(* once per failed request, and only counted requests can end "ok".        *)
LEMMA CounterStep ==
    TypeOK /\ OutcomeFollowsPlace /\ CountersExact /\ [Next]_vars => CountersExact'
<1> SUFFICES ASSUME TypeOK, OutcomeFollowsPlace, CountersExact, [Next]_vars
             PROVE  CountersExact'
  OBVIOUS
<1>p. /\ pc \in [Requests -> Places]
      /\ outcome \in [Requests -> Final \cup {"none", "early", "too_large", "dropped"}]
      /\ \A t \in Requests : pc[t] \notin {"stats", "done"} => outcome[t] = "none"
  BY DEF TypeOK, OutcomeFollowsPlace
<1> USE <1>p DEF metrics, goto, end
<1>1. ASSUME NEW t \in Requests, Receive(t) PROVE CountersExact'
  <2>1. \/ Failed' = Failed /\ errors' = errors
        \/ t \notin Failed /\ Failed' = Failed \cup {t} /\ errors' = errors + 1
    BY <1>1 DEF Receive, Failed
  <2>2. Counted' \subseteq Counted /\ requests' = requests
    BY <1>1 DEF Receive, Counted
  <2>3. QED
    BY <2>1, <2>2, CounterShift
<1>2. ASSUME NEW t \in Requests, ReadBody(t) PROVE CountersExact'
  <2>1. \/ Failed' = Failed /\ errors' = errors
        \/ t \notin Failed /\ Failed' = Failed \cup {t} /\ errors' = errors + 1
    BY <1>2 DEF ReadBody, Failed
  <2>2. Counted' \subseteq Counted /\ requests' = requests
    BY <1>2 DEF ReadBody, Counted
  <2>3. QED
    BY <2>1, <2>2, CounterShift
<1>3. ASSUME NEW t \in Requests, CountRequest(t) PROVE CountersExact'
  <2>1. Failed' = Failed /\ errors' = errors
    BY <1>3 DEF CountRequest, Failed
  <2>2. Counted' = Counted \cup {t} /\ requests' = requests + 1
    BY <1>3 DEF CountRequest, Counted
  <2>3. QED
    BY <2>1, <2>2, CounterShift
<1>4. ASSUME NEW t \in Requests, CountStreamRequest(t) PROVE CountersExact'
  <2>1. Failed' = Failed /\ errors' = errors
    BY <1>4 DEF CountStreamRequest, Failed
  <2>2. Counted' \subseteq Counted /\ requests' = requests
    BY <1>4 DEF CountStreamRequest, Counted
  <2>3. QED
    BY <2>1, <2>2, CounterShift
<1>5. ASSUME NEW t \in Requests, AppendProcessingLog(t) PROVE CountersExact'
  <2>1. Failed' = Failed /\ errors' = errors
    BY <1>5 DEF AppendProcessingLog, Failed
  <2>2. Counted' \subseteq Counted /\ requests' = requests
    BY <1>5 DEF AppendProcessingLog, Counted
  <2>3. QED
    BY <2>1, <2>2, CounterShift
<1>6. ASSUME NEW t \in Requests, Send(t) PROVE CountersExact'
  <2>1. Failed' = Failed /\ errors' = errors
    BY <1>6 DEF Send, Failed
  <2>2. Counted' \subseteq Counted /\ requests' = requests
    BY <1>6 DEF Send, Counted
  <2>3. QED
    BY <2>1, <2>2, CounterShift
<1>7. ASSUME NEW t \in Requests, ReadText(t) PROVE CountersExact'
  <2>1. Failed' = Failed /\ errors' = errors
    BY <1>7 DEF ReadText, Failed
  <2>2. Counted' \subseteq Counted /\ requests' = requests
    BY <1>7 DEF ReadText, Counted
  <2>3. QED
    BY <2>1, <2>2, CounterShift
<1>8. ASSUME NEW t \in Requests, Fail(t) PROVE CountersExact'
  <2>1. t \notin Failed /\ Failed' = Failed \cup {t} /\ errors' = errors + 1
    BY <1>8 DEF Fail, Failed
  <2>2. Counted' \subseteq Counted /\ requests' = requests
    BY <1>8 DEF Fail, Counted
  <2>3. QED
    BY <2>1, <2>2, CounterShift
<1>9. ASSUME NEW t \in Requests, FinalizeLog(t) PROVE CountersExact'
  <2>1. Failed' = Failed /\ errors' = errors
    BY <1>9 DEF FinalizeLog, Failed
  <2>2. Counted' \subseteq Counted /\ requests' = requests
    BY <1>9 DEF FinalizeLog, Counted
  <2>3. QED
    BY <2>1, <2>2, CounterShift
<1>10. ASSUME NEW t \in Requests, AppendStats(t) PROVE CountersExact'
  <2>1. Failed' = Failed /\ errors' = errors
    BY <1>10 DEF AppendStats, Failed
  <2>2. Counted' \subseteq Counted /\ requests' = requests
    BY <1>10 DEF AppendStats, Counted
  <2>3. QED
    BY <2>1, <2>2, CounterShift
<1>11. ASSUME NEW t \in Requests, RejectCount(t) PROVE CountersExact'
  <2>1. t \notin Failed /\ Failed' = Failed \cup {t} /\ errors' = errors + 1
    BY <1>11 DEF RejectCount, Failed
  <2>2. Counted' \subseteq Counted /\ requests' = requests
    BY <1>11 DEF RejectCount, Counted
  <2>3. QED
    BY <2>1, <2>2, CounterShift
<1>12. ASSUME NEW t \in Requests, RejectLog(t) PROVE CountersExact'
  <2>1. Failed' = Failed /\ errors' = errors
    BY <1>12 DEF RejectLog, Failed
  <2>2. Counted' \subseteq Counted /\ requests' = requests
    BY <1>12 DEF RejectLog, Counted
  <2>3. QED
    BY <2>1, <2>2, CounterShift
<1>13. ASSUME NEW t \in Requests, StreamRefreshLog(t) PROVE CountersExact'
  <2>1. Failed' = Failed /\ errors' = errors
    BY <1>13 DEF StreamRefreshLog, Failed
  <2>2. Counted' \subseteq Counted /\ requests' = requests
    BY <1>13 DEF StreamRefreshLog, Counted
  <2>3. QED
    BY <2>1, <2>2, CounterShift
<1>14. ASSUME NEW t \in Requests, StreamEnds(t) PROVE CountersExact'
  <2>1. Failed' = Failed /\ errors' = errors
    BY <1>14 DEF StreamEnds, Failed
  <2>2. Counted' \subseteq Counted /\ requests' = requests
    BY <1>14 DEF StreamEnds, Counted
  <2>3. QED
    BY <2>1, <2>2, CounterShift
<1>15. ASSUME NEW t \in Requests, UpstreamProgress(t) PROVE CountersExact'
  <2>1. Failed' = Failed /\ errors' = errors
    BY <1>15 DEF UpstreamProgress, Failed
  <2>2. Counted' \subseteq Counted /\ requests' = requests
    BY <1>15 DEF UpstreamProgress, Counted
  <2>3. QED
    BY <2>1, <2>2, CounterShift
<1>16. ASSUME NEW t \in Requests, Disconnect(t) PROVE CountersExact'
  <2>1. Failed' = Failed /\ errors' = errors
    BY <1>16 DEF Disconnect, Failed
  <2>2. Counted' \subseteq Counted /\ requests' = requests
    BY <1>16 DEF Disconnect, Counted
  <2>3. QED
    BY <2>1, <2>2, CounterShift
<1>17. ASSUME UNCHANGED <<pc, outcome, requests, errors>> PROVE CountersExact'
  BY <1>17 DEF CountersExact, Failed, Counted
<1>18. QED
  BY <1>1, <1>2, <1>3, <1>4, <1>5, <1>6, <1>7, <1>8, <1>9, <1>10, <1>11,
     <1>12, <1>13, <1>14, <1>15, <1>16, <1>17
  DEF Next, HandlerStep, StreamStep, Poll, SnapshotRequests, SnapshotStreamRequests,
      LogPoll, ClearLogs, vars
-----------------------------------------------------------------------------
(* The inductive invariant holds throughout, for any set of requests and   *)
(* any capacity of the log; its first part is the type invariant, the      *)
(* bound on LogStore included.                                             *)
THEOREM Invariance == Spec => []IndInv
<1>1. Init => IndInv
  <2> SUFFICES ASSUME Init PROVE IndInv
    OBVIOUS
  <2> USE DEF Init
  <2>1. TypeOK
    BY DEF TypeOK, Idle, Places, Final
  <2>2. OneEntryPerRequest /\ ProcessingMeansRunning /\ NotLoggedYet
    BY DEF OneEntryPerRequest, ProcessingMeansRunning, NotLoggedYet, inLog
  <2>3. OutcomeFollowsPlace
    BY DEF OutcomeFollowsPlace, Final
  <2>4. CountersExact
    <3>1. Failed = {} /\ Counted = {}
      BY DEF Failed, Counted
    <3>2. QED
      BY <3>1, FS_EmptySet DEF CountersExact
  <2>5. QED
    BY <2>1, <2>2, <2>3, <2>4 DEF IndInv
<1>2. IndInv /\ [Next]_vars => IndInv'
  BY TypeStep, LogStep, OutcomeStep, CounterStep DEF IndInv, LogInv
<1>3. QED
  BY <1>1, <1>2, PTL DEF Spec

(* The log never shows a request twice (LogStore::append and upsert).      *)
THEOREM LogShowsRequestsOnce == Spec => []OneEntryPerRequest
<1>1. IndInv => OneEntryPerRequest
  BY DEF IndInv
<1>2. QED
  BY <1>1, Invariance, PTL

(* A "processing" entry belongs to a request at work or abandoned by its   *)
(* client (append_processing_log, finalize_log).                           *)
THEOREM ProcessingIsNeverStale == Spec => []ProcessingMeansRunning
<1>1. IndInv => ProcessingMeansRunning
  BY DEF IndInv
<1>2. QED
  BY <1>1, Invariance, PTL

(* When nothing runs, the error counter, the request counter and the rows  *)
(* of the statistics agree with how the requests ended, however many       *)
(* requests there were: no assumption bounds their number.                 *)
THEOREM CountersAreExact == Spec => []CountersReconcile
<1>1. IndInv => CountersReconcile
  <2> SUFFICES ASSUME IndInv, \A t \in Requests : pc[t] \in {"receive", "done"}
               PROVE  /\ errors = Cardinality({t \in Requests :
                                     outcome[t] \in {"error", "rejected", "early"}})
                      /\ Cardinality({t \in Requests : outcome[t] \in {"ok"}}) <= requests
                      /\ \A t \in Requests :
                            rows[t] \in IF outcome[t] \in Final
                                        THEN {<< >>, <<outcome[t]>>} ELSE {<< >>}
    BY DEF CountersReconcile
  <2>1. Failed = {t \in Requests : outcome[t] \in {"error", "rejected", "early"}}
    BY DEF Failed
  <2>2. Counted = {t \in Requests : outcome[t] \in {"ok"}}
    BY DEF Counted
  <2>3. \A t \in Requests :
           rows[t] \in IF outcome[t] \in Final THEN {<< >>, <<outcome[t]>>} ELSE {<< >>}
    BY DEF IndInv, OutcomeFollowsPlace
  <2>4. QED
    BY <2>1, <2>2, <2>3 DEF IndInv, CountersExact
<1>2. QED
  BY <1>1, Invariance, PTL
=============================================================================
