---------------------------- MODULE MC_FlowTable ----------------------------
(* Two cores with two indexes each.  Core 0 gets keys k1, k2, k3, one    *)
(* more than its indexes, with k1 and k2 colliding in one bucket; core 1 *)
(* gets k4.  Times 0 .. 2, validity 1, so packet sets are created,       *)
(* refreshed, expire and are created again.  k4 is a TCP connection     *)
(* whose packets carry SYN (0x02); k1, k2 and k3 are UDP.                *)
EXTENDS FlowTable

CONSTANTS k1, k2, k3, k4

MC_Keys == {k1, k2, k3, k4}
MC_KeyCore == (k1 :> 0) @@ (k2 :> 0) @@ (k3 :> 0) @@ (k4 :> 1)
MC_KeyHash == (k1 :> 5) @@ (k2 :> 1) @@ (k3 :> 2) @@ (k4 :> 3)
MC_KeyProto == (k1 :> 17) @@ (k2 :> 17) @@ (k3 :> 17) @@ (k4 :> 6)
=============================================================================
