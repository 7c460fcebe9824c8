--------------------------- MODULE RequestPipeline --------------------------
(***************************************************************************)
(* What the proxy records about its requests: the runtime metrics, the     *)
(* bounded request log the user interface shows, and one row per request   *)
(* in the statistics database.                                             *)
(*                                                                         *)
(* The three are written by handle_proxy_request, and after it by the task *)
(* that relays a streamed answer, in separate atomic sections.  Requests   *)
(* interleave; the handler is dropped at an await when its client goes     *)
(* away, the stream task is not; health checks and metric polls append to  *)
(* the same log; the user clears it at any time.                           *)
(***************************************************************************)
EXTENDS Naturals, Sequences, FiniteSets

CONSTANTS
    Requests,  \* requests, each with its trace id
    Limit,     \* LogStore.limit
    Ping       \* trace id of a health check or metrics poll

ASSUME PipelineAssumption == Limit \in Nat \ {0} /\ Ping \notin Requests

VARIABLES
    requests, streamRequests, errors,  \* MetricsState
    log,        \* LogStore.inner: entries [id, status], oldest first
    rows,       \* request_events: the statuses recorded for each request
    pc,         \* where the handler, then the stream task, of a request is
    streaming,  \* "stream": true in the upstream body
    upstream,   \* what the upstream has sent: nothing, headers, all of it
    outcome,    \* how the request ended
    snap        \* the snapshot a metrics poll is taking

vars == <<requests, streamRequests, errors, log, rows, pc, streaming,
          upstream, outcome, snap>>
metrics == <<requests, streamRequests, errors>>

Idle == [at |-> "idle", requests |-> 0, streamRequests |-> 0]

Init ==
    /\ requests = 0 /\ streamRequests = 0 /\ errors = 0
    /\ log = << >>
    /\ rows = [t \in Requests |-> << >>]
    /\ pc = [t \in Requests |-> "receive"]
    /\ streaming \in [Requests -> BOOLEAN]
    /\ upstream = [t \in Requests |-> "silent"]
    /\ outcome = [t \in Requests |-> "none"]
    /\ snap = Idle

goto(t, l) == pc' = [pc EXCEPT ![t] = l]

end(t, how) == goto(t, "done") /\ outcome' = [outcome EXCEPT ![t] = how]

-----------------------------------------------------------------------------
(* LogStore: append, and upsert by trace id over the latest entry.         *)
evict(l) == IF Len(l) > Limit THEN Tail(l) ELSE l

append(l, e) == evict(Append(l, e))

upsert(l, e) ==
    LET same == {i \in 1..Len(l) : l[i].id = e.id} IN
    IF same = {} THEN append(l, e)
    ELSE [l EXCEPT ![CHOOSE i \in same : \A j \in same : j <= i] = e]

entry(t, s) == [id |-> t, status |-> s]

ClearLogs ==
    /\ log' = << >>
    /\ UNCHANGED <<metrics, rows, pc, streaming, upstream, outcome, snap>>

-----------------------------------------------------------------------------
(* The request is rejected (404, 401), fails before its context is known   *)
(* (500, 409, 404: counted, not logged), or its body is awaited.           *)
Receive(t) ==
    /\ pc[t] = "receive"
    /\ \/ goto(t, "reject") /\ UNCHANGED <<errors, outcome>>
       \/ end(t, "early") /\ errors' = errors + 1
       \/ goto(t, "body") /\ UNCHANGED <<errors, outcome>>
    /\ UNCHANGED <<requests, streamRequests, log, rows, streaming, upstream, snap>>

(* reject_and_log.                                                         *)
RejectCount(t) ==
    /\ pc[t] = "reject"
    /\ errors' = errors + 1
    /\ goto(t, "reject_log")
    /\ UNCHANGED <<requests, streamRequests, log, rows, streaming, upstream,
                   outcome, snap>>

RejectLog(t) ==
    /\ pc[t] = "reject_log"
    /\ log' = append(log, entry(t, "rejected"))
    /\ outcome' = [outcome EXCEPT ![t] = "rejected"]
    /\ goto(t, "stats")
    /\ UNCHANGED <<metrics, rows, streaming, upstream, snap>>

(* The body is too large (413, neither counted nor logged), is not JSON,   *)
(* the provider cannot be resolved or is not ready (counted, not logged),  *)
(* the upstream request cannot be built (counted and finalized), or the    *)
(* request is forwarded.                                                   *)
ReadBody(t) ==
    /\ pc[t] = "body"
    /\ \/ end(t, "too_large") /\ UNCHANGED errors
       \/ end(t, "early") /\ errors' = errors + 1
       \/ goto(t, "fail") /\ UNCHANGED <<errors, outcome>>
       \/ goto(t, "count") /\ UNCHANGED <<errors, outcome>>
    /\ UNCHANGED <<requests, streamRequests, log, rows, streaming, upstream, snap>>

(* increment_request.                                                      *)
CountRequest(t) ==
    /\ pc[t] = "count"
    /\ requests' = requests + 1
    /\ goto(t, IF streaming[t] THEN "count_stream" ELSE "processing")
    /\ UNCHANGED <<streamRequests, errors, log, rows, streaming, upstream,
                   outcome, snap>>

CountStreamRequest(t) ==
    /\ pc[t] = "count_stream"
    /\ streamRequests' = streamRequests + 1
    /\ goto(t, "processing")
    /\ UNCHANGED <<requests, errors, log, rows, streaming, upstream, outcome, snap>>

(* append_processing_log, before the request is sent.                      *)
AppendProcessingLog(t) ==
    /\ pc[t] = "processing"
    /\ log' = upsert(log, entry(t, "processing"))
    /\ goto(t, "send")
    /\ UNCHANGED <<metrics, rows, streaming, upstream, outcome, snap>>

(* The upstream answers or breaks off; nothing obliges it to.              *)
UpstreamProgress(t) ==
    /\ pc[t] \in {"send", "text", "stream"}
    /\ \/ upstream[t] = "silent" /\ upstream' = [upstream EXCEPT ![t] = "headers"]
       \/ /\ upstream[t] = "headers"
          /\ \E u \in {"all", "broken"} : upstream' = [upstream EXCEPT ![t] = u]
    /\ UNCHANGED <<metrics, log, rows, pc, streaming, outcome, snap>>

(* The headers arrive (an event stream is handed to a task of its own), or *)
(* sending fails or its timeout fires (502, 504).                          *)
SendWithoutTimeout(t) ==
    /\ pc[t] = "send"
    /\ upstream[t] # "silent"
    /\ goto(t, "stream_enter") \/ goto(t, "text") \/ goto(t, "fail")
    /\ UNCHANGED <<metrics, log, rows, streaming, upstream, outcome, snap>>

Send(t) ==
    /\ pc[t] = "send"
    /\ \/ upstream[t] # "silent" /\ (goto(t, "stream_enter") \/ goto(t, "text"))
       \/ goto(t, "fail")
    /\ UNCHANGED <<metrics, log, rows, streaming, upstream, outcome, snap>>

(* The text of a plain answer: an error (broken off, not JSON, status of   *)
(* 400 and above) or a success.  The timeout of a request that asked for a *)
(* stream covers only its headers, so such a request waits here for the    *)
(* upstream.                                                               *)
ReadText(t) ==
    /\ pc[t] = "text"
    /\ \/ upstream[t] = "all" /\ goto(t, "finalize_ok")
       \/ (upstream[t] \in {"all", "broken"} \/ ~streaming[t]) /\ goto(t, "fail")
    /\ UNCHANGED <<metrics, log, rows, streaming, upstream, outcome, snap>>

-----------------------------------------------------------------------------
(* The stream task.  It refreshes the "processing" entry when it starts    *)
(* and at the first chunk, event and converted chunk.                      *)
StreamRefreshLog(t) ==
    /\ pc[t] \in {"stream_enter", "stream"}
    /\ log' = upsert(log, entry(t, "processing"))
    /\ goto(t, "stream")
    /\ UNCHANGED <<metrics, rows, streaming, upstream, outcome, snap>>

(* The relay ends: everything was relayed or the client went away, or it   *)
(* broke off or relayed an error status.                                   *)
StreamEnds(t) ==
    /\ pc[t] = "stream"
    /\ goto(t, "finalize_ok") \/ goto(t, "fail")
    /\ UNCHANGED <<metrics, log, rows, streaming, upstream, outcome, snap>>

-----------------------------------------------------------------------------
(* The end of every request with context: increment_error on failure,      *)
(* finalize_log, and the row of the statistics.  (With each step, a slip:  *)
(* an error path that returns early or is not counted, an append in place  *)
(* of the upsert, an insertion that is retried.)  The insertion of the row *)
(* may fail, and its error is ignored.                                     *)
FailWithoutFinalize(t) ==
    /\ pc[t] = "fail"
    /\ errors' = errors + 1
    /\ end(t, "error")
    /\ UNCHANGED <<requests, streamRequests, log, rows, streaming, upstream, snap>>

FailUncounted(t) ==
    /\ pc[t] = "fail"
    /\ goto(t, "finalize_error")
    /\ UNCHANGED <<metrics, log, rows, streaming, upstream, outcome, snap>>

Fail(t) ==
    /\ pc[t] = "fail"
    /\ errors' = errors + 1
    /\ goto(t, "finalize_error")
    /\ UNCHANGED <<requests, streamRequests, log, rows, streaming, upstream,
                   outcome, snap>>

FinalizeByAppend(t) ==
    /\ pc[t] \in {"finalize_ok", "finalize_error"}
    /\ LET s == IF pc[t] = "finalize_ok" THEN "ok" ELSE "error"
       IN /\ log' = append(log, entry(t, s))
          /\ outcome' = [outcome EXCEPT ![t] = s]
    /\ goto(t, "stats")
    /\ UNCHANGED <<metrics, rows, streaming, upstream, snap>>

FinalizeLog(t) ==
    /\ pc[t] \in {"finalize_ok", "finalize_error"}
    /\ LET s == IF pc[t] = "finalize_ok" THEN "ok" ELSE "error"
       IN /\ log' = upsert(log, entry(t, s))
          /\ outcome' = [outcome EXCEPT ![t] = s]
    /\ goto(t, "stats")
    /\ UNCHANGED <<metrics, rows, streaming, upstream, snap>>

AppendStats(t) ==
    /\ pc[t] = "stats"
    /\ \/ rows' = [rows EXCEPT ![t] = Append(@, outcome[t])]
       \/ UNCHANGED rows
    /\ goto(t, "done")
    /\ UNCHANGED <<metrics, log, streaming, upstream, outcome, snap>>

(* The client disconnects while the handler awaits: the handler is dropped *)
(* and nothing after the await happens.                                    *)
Disconnect(t) ==
    /\ pc[t] \in {"body", "send", "text"}
    /\ end(t, "dropped")
    /\ UNCHANGED <<metrics, log, rows, streaming, upstream, snap>>

-----------------------------------------------------------------------------
(* /metrics-lite: MetricsState::snapshot loads one counter after another,  *)
(* then the poll is logged (log_simple; its path is not counted in the     *)
(* statistics).  /healthz appends the same entry.                          *)
SnapshotRequests ==
    /\ snap.at = "idle"
    /\ snap' = [Idle EXCEPT !.at = "stream", !.requests = requests]
    /\ UNCHANGED <<metrics, log, rows, pc, streaming, upstream, outcome>>

SnapshotStreamRequests ==
    /\ snap.at = "stream"
    /\ snap' = [snap EXCEPT !.at = "taken", !.streamRequests = streamRequests]
    /\ UNCHANGED <<metrics, log, rows, pc, streaming, upstream, outcome>>

LogPoll ==
    /\ snap.at = "taken"
    /\ snap' = Idle
    /\ log' = append(log, entry(Ping, "ok"))
    /\ UNCHANGED <<metrics, rows, pc, streaming, upstream, outcome>>

-----------------------------------------------------------------------------
HandlerStep(t) ==
    \/ CountRequest(t) \/ CountStreamRequest(t) \/ AppendProcessingLog(t)
    \/ Send(t) \/ ReadText(t) \/ Fail(t) \/ FinalizeLog(t) \/ AppendStats(t)
    \/ RejectCount(t) \/ RejectLog(t)

StreamStep(t) == StreamRefreshLog(t) \/ StreamEnds(t)

Poll == SnapshotRequests \/ SnapshotStreamRequests \/ LogPoll

Next ==
    \/ \E t \in Requests :
          \/ Receive(t) \/ ReadBody(t) \/ HandlerStep(t) \/ StreamStep(t)
          \/ UpstreamProgress(t) \/ Disconnect(t)
    \/ Poll
    \/ ClearLogs

Spec == Init /\ [][Next]_vars

(* A handler the runtime polls makes progress, its timers fire.  Clients   *)
(* and upstreams owe nothing.                                              *)
FairSpec == Spec /\ \A t \in Requests : WF_vars(HandlerStep(t))

-----------------------------------------------------------------------------
Final == {"ok", "error", "rejected"}
Places == {"receive", "reject", "reject_log", "body", "count", "count_stream",
           "processing", "send", "text", "stream_enter", "stream", "fail",
           "finalize_ok", "finalize_error", "stats", "done"}

(* The type invariant, the capacity of the log included.                   *)
TypeOK ==
    /\ requests \in Nat /\ streamRequests \in Nat /\ errors \in Nat
    /\ log \in Seq([id : Requests \cup {Ping}, status : Final \cup {"processing"}])
    /\ Len(log) <= Limit
    /\ rows \in [Requests -> Seq(Final)]
    /\ pc \in [Requests -> Places]
    /\ streaming \in [Requests -> BOOLEAN]
    /\ upstream \in [Requests -> {"silent", "headers", "all", "broken"}]
    /\ outcome \in [Requests -> Final \cup {"none", "early", "too_large", "dropped"}]
    /\ snap \in [at : {"idle", "stream", "taken"}, requests : Nat,
                 streamRequests : Nat]

inLog(t, s) == \E i \in 1..Len(log) : log[i] = entry(t, s)

(* The log never shows a request twice, although its entry is rewritten by *)
(* two tasks, evicted by other entries and cleared in between.             *)
OneEntryPerRequest ==
    \A i, j \in 1..Len(log) :
        log[i].id = log[j].id /\ log[i].id # Ping => i = j

(* A "processing" entry belongs to a request still at work, or to one whose*)
(* client went away while its handler awaited the upstream: no error path  *)
(* leaves it behind, and no late refresh brings it back after the end.     *)
ProcessingMeansRunning ==
    \A t \in Requests :
        inLog(t, "processing") =>
            \/ pc[t] \in {"send", "text", "stream_enter", "stream", "fail",
                          "finalize_ok", "finalize_error"}
            \/ outcome[t] = "dropped"

(* When nothing runs, the error counter is the number of requests that     *)
(* were rejected, finalized as errors or failed before their context was   *)
(* known, each counted once, and no request is finalized as "ok" that was  *)
(* not counted: no path through two tasks counts a request twice or not at *)
(* all.  The statistics agree: a request that was rejected or finalized    *)
(* has at most one row, with the status of its log entry (the row is       *)
(* missing only if its insertion failed), and any other request has none.  *)
CountersReconcile ==
    (\A t \in Requests : pc[t] \in {"receive", "done"}) =>
        LET ended(S) == Cardinality({t \in Requests : outcome[t] \in S})
        IN /\ errors = ended({"error", "rejected", "early"})
           /\ ended({"ok"}) <= requests
           /\ \A t \in Requests :
                 rows[t] \in IF outcome[t] \in Final THEN {<< >>, <<outcome[t]>>} ELSE {<< >>}

(* A counted request that did not ask for a stream ends, also when its     *)
(* upstream never answers, unless it was handed an event stream anyway.    *)
NonStreamRequestEnds ==
    \A t \in Requests :
        pc[t] = "processing" /\ ~streaming[t] ~> pc[t] \in {"done", "stream_enter"}
=============================================================================
