---------------------------- MODULE MCRouteIndex ----------------------------
(* Small instance of RouteIndex: two providers, one group, and the         *)
(* configurations that make every answer of the routing path possible.     *)
EXTENDS RouteIndex

CONSTANTS p1, p2, g1

Body(admits, providers, ready, t) ==
    [admits |-> admits, providers |-> providers, ready |-> ready,
     tables |-> [g \in Groups |-> t]]

(* A usable group, the same after switching to a provider saved without an *)
(* address and deleting the old one, a group that lost its table, and a    *)
(* configuration that locks clients out.                                   *)
MCBodies ==
    { Body(TRUE, {p1}, {p1}, p1), Body(TRUE, {p2}, {}, p2),
      Body(TRUE, {p1}, {p1}, "no_table"), Body(FALSE, {p1, p2}, {p1, p2}, p2) }
=============================================================================
