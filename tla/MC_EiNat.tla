------------------------------- MODULE MC_EiNat -------------------------------
(* Two LAN hosts a1 and a2; a1 opens two TCP sessions and one UDP session, *)
(* a2 one TCP session.  Two ports on one external address give two tuples *)
(* per protocol, so the third TCP session finds the allocator full.       *)
(* The external address is 10.0.0.1: 0xdeadbeef does not fit TLC's        *)
(* integers, and no sum here comes near 2^32.                             *)
(* Addresses have four 1-bit bytes: the root ply has 4 slots and a ply 2, *)
(* enough for a route to end in each ply and for plies under plies.      *)
(* Packets go to 0.0.0.0 (the drop route), to 0.0.0.1, whose lookup goes *)
(* through the plies that route created, and to an address outside them. *)
EXTENDS EiNat

CONSTANTS a1, a2, p1, p2

MC_Keys ==
  { [src_addr |-> a1, src_port |-> p1, proto |-> 6],
    [src_addr |-> a1, src_port |-> p2, proto |-> 6],
    [src_addr |-> a2, src_port |-> p1, proto |-> 6],
    [src_addr |-> a1, src_port |-> p1, proto |-> 17] }

==============================================================================
