------------------------------ MODULE MC_Maglev ------------------------------
(* Three backends and a prime height of five buckets: rows of three, so *)
(* a backend can be preferred first, second or last.  Two flows, in      *)
(* different buckets, with hashes above the height so that the reduction *)
(* matters.                                                              *)
EXTENDS Maglev, TLC

CONSTANTS f1, f2

MC_Flows == {f1, f2}
MC_FlowHash == (f1 :> 6) @@ (f2 :> 13)

=============================================================================
