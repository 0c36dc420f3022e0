-------------------------- MODULE MC_DChainClients --------------------------
(* Two cores with one index each and two time values: a core that has    *)
(* used up its own index refills the global list from the other core,    *)
(* taking the global lock and both core locks while the other core takes *)
(* its own, and so holds a two-element alloc list, whose order by time   *)
(* rejuvenation and expiry must keep.  Times 0 and 1 let an index be      *)
(* stamped, refreshed and found expired.  Four indexes make the           *)
(* refinement check too long for one run.                                *)
EXTENDS DChainClients

MC_NumCores == 2
MC_Capacity == 2
MC_MaxTime == 1

=============================================================================
