---------------------------- MODULE MC_Registry ----------------------------
(* Two registries that pull from each other and trust each other's          *)
(* approvals; mediators register with the first.                           *)
EXTENDS Registry

CONSTANTS r1, r2, p1, p2

MCPeers == [r \in Registries |-> Registries \ {r}]
MCRequests == {<<r1, 1, p1>>, <<r1, 1, p2>>, <<r1, 2, p1>>}
MCTrusted == {<<r1, r2>>, <<r2, r1>>}
=============================================================================
