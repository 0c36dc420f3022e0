------------------------------ MODULE MC_Bridge ------------------------------
(* Two data-plane cores beside the periodic-handler core; two indexes   *)
(* (one per core) and a two-slot map; three MACs, so the table fills and allocation fails;   *)
(* k1 and k2 share home slot 1, so k2's probe wraps round to slot 0.      *)
EXTENDS Bridge

CONSTANTS k1, k2, k3

MC_Keys == {k1, k2, k3}
MC_KeyHash == (k1 :> 1) @@ (k2 :> 3) @@ (k3 :> 4)
==============================================================================
