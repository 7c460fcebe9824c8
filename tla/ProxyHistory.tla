---------------------------- MODULE ProxyHistory ----------------------------
(***************************************************************************)
(* ProxyLifecycle with a history variable, for the property that only      *)
(* holds when calls do not overlap: saves, starts and stops are not        *)
(* serialized by the code, and two of them may leave the server on the     *)
(* address of either.                                                      *)
(***************************************************************************)
EXTENDS ProxyLifecycle

(* Whether two calls were ever in progress at the same time.               *)
VARIABLE overlapped

busy(c) == pc[c] # "idle"

HistoryInit == Init /\ overlapped = FALSE

HistoryNext ==
    /\ Next
    /\ overlapped' = (overlapped \/ \E c, d \in Callers : c # d /\ busy(c)' /\ busy(d)')

HistorySpec == HistoryInit /\ [][HistoryNext]_<<vars, overlapped>>

HistoryFairSpec == HistorySpec /\ Fairness

(* As long as calls do not overlap, though handlers are dropped at an      *)
(* await and old servers linger, a server that runs between calls listens  *)
(* where the configuration says: sync_runtime_config restarts it if needed.*)
RunningAsConfigured == ~overlapped /\ quiet /\ slot # None => bound[slot] \in Candidates[config]
=============================================================================
