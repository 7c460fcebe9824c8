-------------------------- MODULE MCProxyLifecycle --------------------------
(* Instances of ProxyLifecycle: the bounds are in the .cfg files.          *)
EXTENDS ProxyHistory

(* One setting with two candidate addresses, one with a single one.        *)
MCCandidates ==
    [p \in Ports |-> IF p = "localhost" THEN {"127.0.0.1", "::1"}
                     ELSE {"192.168.0.2"}]
=============================================================================
