------------------------------- MODULE Mtrie -------------------------------
(***************************************************************************)
(* The 16-8-8 IPv4 FIB trie of src/nf/common/mtrie.c and mtrie.h, and the *)
(* load-balance pool of load-balance.c, as pure operators.                 *)
(*                                                                         *)
(* A leaf is the code's integer: 1 + 2 * adj for a terminal leaf naming   *)
(* load balance adj, 2 * i for a pointer to ply i of the pool.  A ply is  *)
(* [leaves, bits]: its leaves and dst_address_bits_of_leaves.  The plies  *)
(* of every FIB come from one pool, ip4_ply_pool, handed out in order by  *)
(* ip4_ply_pool_index and never returned; pool[i + 1] is ply i.  The      *)
(* operators take and return st = [root, pool]: the root ply of the FIB   *)
(* being changed and the shared pool.                                     *)
(*                                                                         *)
(* The byte width is the constant PlyBits (8 in the code): an address has *)
(* 4 bytes, the root ply is indexed by the first two and the 8-plies by   *)
(* one each, exactly as in the code with 8, 16 and 32 written in terms of *)
(* PlyBits.  n_non_empty_leafs and dst_address_bits_base are left out:   *)
(* the code only writes them (and asserts the count is not negative).     *)
(***************************************************************************)
EXTENDS Integers, Sequences
LOCAL INSTANCE SequencesExt   \* FoldLeft

CONSTANT PlyBits

AddrBits == 4 * PlyBits
RootBits == 2 * PlyBits
PlySize  == 2^PlyBits          \* PLY_8_SIZE
RootSize == 2^RootBits         \* PLY_16_SIZE
Addresses == 0 .. 2^AddrBits - 1

\* ip4_fib_mtrie_leaf_is_terminal, _set_adj_index, _set_next_ply_index;
\* leaf >> 1 is the ply index of a pointer and the adjacency of a terminal
LeafIsTerminal(l) == l % 2 = 1
LeafSetAdjIndex(adj) == 1 + 2 * adj
LeafSetNextPlyIndex(i) == 2 * i
LeafIndex(l) == l \div 2

\* byte k of an address, most significant first:
\* (addr >> (24 - 8 * k)) & 0xFF
AddrByte(a, k) == (a \div 2^((3 - k) * PlyBits)) % PlySize

Ply(st, i) == st.pool[i + 1]

\* the slots lo .. lo + n - 1 in order, for a loop over a ply
Slots(lo, n) == [j \in 1 .. n |-> lo + j - 1]

\* ip4_mtrie_init: every root leaf is adjacency 0, with prefix length 0
MtrieInit ==
  [leaves |-> [s \in 0 .. RootSize - 1 |-> LeafSetAdjIndex(0)],
   bits   |-> [s \in 0 .. RootSize - 1 |-> 0]]

\* Variant: the new ply's leaves are left as adjacency 0 instead of the
\* leaf it replaces.
PlyCreateEmpty(st, initLeaf, prefixLen) ==
  [st EXCEPT !.pool = Append(@, [leaves |-> [i \in 0 .. PlySize - 1 |-> LeafSetAdjIndex(0)],
                                 bits   |-> [i \in 0 .. PlySize - 1 |-> prefixLen]])]

\* ply_create: mtrie_vector_get takes the next ply of the pool and
\* PLY_INIT fills it with init_leaf and leaf_prefix_len; the new ply's
\* leaf is LeafSetNextPlyIndex(Len(st.pool)) of the st passed in
PlyCreate(st, initLeaf, prefixLen) ==
  [st EXCEPT !.pool = Append(@, [leaves |-> [i \in 0 .. PlySize - 1 |-> initLeaf],
                                 bits   |-> [i \in 0 .. PlySize - 1 |-> prefixLen]])]

RECURSIVE SetPlyWithMoreSpecificLeaf(_, _, _, _), SetLeaf(_, _, _, _)

\* set_ply_with_more_specific_leaf: through ply p and the plies below it,
\* every terminal leaf no more specific than the new one is replaced
SetPlyWithMoreSpecificLeaf(st, p, newLeaf, newBits) ==
  LET Slot(s, i) ==
        LET old == Ply(s, p).leaves[i]
        IN CASE ~LeafIsTerminal(old) ->
                  SetPlyWithMoreSpecificLeaf(s, LeafIndex(old), newLeaf, newBits)
             [] newBits >= Ply(s, p).bits[i] ->
                  [s EXCEPT !.pool[p + 1].leaves[i] = newLeaf,
                            !.pool[p + 1].bits[i] = newBits]
             [] OTHER -> s
  IN FoldLeft(Slot, st, Slots(0, PlySize))

\* set_leaf: route a (masked address, length, adjacency) into ply p, which
\* covers address byte k.  A route ending in this ply fills its slots: a
\* terminal leaf no more specific is replaced, a ply below gets the route
\* as a more specific leaf, and a more specific ply below is recursed
\* into.  A longer route goes down through the slot of its byte, which
\* first becomes a new ply holding the old leaf if it was terminal.
SetLeaf(st, a, p, k) ==
  LET next == a.len - PlyBits * (k + 1)          \* n_dst_bits_next_plies
      byte == AddrByte(a.addr, k)
      newLeaf == LeafSetAdjIndex(a.adj)
      Fill(s, i) ==
        LET old == Ply(s, p).leaves[i]
        IN CASE a.len >= Ply(s, p).bits[i] /\ LeafIsTerminal(old) ->
                  [s EXCEPT !.pool[p + 1].bits[i] = a.len,
                            !.pool[p + 1].leaves[i] = newLeaf]
             [] a.len >= Ply(s, p).bits[i] ->
                  SetPlyWithMoreSpecificLeaf(s, LeafIndex(old), newLeaf, a.len)
             [] ~LeafIsTerminal(old) -> SetLeaf(s, a, LeafIndex(old), k + 1)
             [] OTHER -> s
      old == Ply(st, p).leaves[byte]
      down == IF LeafIsTerminal(old)
                THEN [PlyCreate(st, old, Ply(st, p).bits[byte])
                        EXCEPT !.pool[p + 1].leaves[byte] = LeafSetNextPlyIndex(Len(st.pool)),
                               !.pool[p + 1].bits[byte] = PlyBits * (k + 1)]
                ELSE st
      sub == IF LeafIsTerminal(old) THEN Len(st.pool) ELSE LeafIndex(old)
  IN IF next <= 0
       THEN FoldLeft(Fill, st, Slots(byte, 2^(IF PlyBits < -next THEN PlyBits ELSE -next)))
       ELSE SetLeaf(down, a, sub, k + 1)

\* set_root_leaf: the same for the root ply, which covers bytes 0 and 1;
\* the plies below it cover byte 2
SetRootLeaf(st, a) ==
  LET next == a.len - RootBits
      slot0 == a.addr \div 2^RootBits                  \* (addr >> 16) & 0xFFFF
      newLeaf == LeafSetAdjIndex(a.adj)
      Fill(s, i) ==
        LET old == s.root.leaves[i]
        IN CASE a.len >= s.root.bits[i] /\ LeafIsTerminal(old) ->
                  [s EXCEPT !.root.bits[i] = a.len, !.root.leaves[i] = newLeaf]
             [] a.len >= s.root.bits[i] ->
                  SetPlyWithMoreSpecificLeaf(s, LeafIndex(old), newLeaf, a.len)
             [] ~LeafIsTerminal(old) -> SetLeaf(s, a, LeafIndex(old), 2)
             [] OTHER -> s
      old == st.root.leaves[slot0]
      down == IF LeafIsTerminal(old)
                THEN [PlyCreate(st, old, st.root.bits[slot0])
                        EXCEPT !.root.leaves[slot0] = LeafSetNextPlyIndex(Len(st.pool)),
                               !.root.bits[slot0] = RootBits]
                ELSE st
      sub == IF LeafIsTerminal(old) THEN Len(st.pool) ELSE LeafIndex(old)
  IN IF next <= 0
       THEN FoldLeft(Fill, st, Slots(slot0, 2^(RootBits - a.len)))
       ELSE SetLeaf(down, a, sub, 2)

\* dst_address & (0xFFFFFFFF << (32 - len)).  For len = 0 the shift by
\* the full width is undefined; x86 masks the count, which leaves the
\* address whole.  Every route of length 0 the NFs add has address 0.
RouteMask(addr, len) ==
  LET s == (AddrBits - len) % AddrBits
  IN (addr \div 2^s) * 2^s

\* ip4_fib_mtrie_route_add
RouteAdd(st, addr, len, adj) ==
  SetRootLeaf(st, [addr |-> RouteMask(addr, len), len |-> len, adj |-> adj])

\* the routes of a sequence added in order
RouteAddAll(st, routes) ==
  FoldLeft(LAMBDA s, r : RouteAdd(s, r.addr, r.len, r.adj), st, routes)

\* ip4_fib_mtrie_lookup_step_one, then ip4_fib_mtrie_lookup_step for
\* bytes 2 and 3, then leaf0 >> 1, the index load_balance_get reads
LookupStep(st, leaf, a, k) ==
  IF LeafIsTerminal(leaf) THEN leaf ELSE Ply(st, LeafIndex(leaf)).leaves[AddrByte(a, k)]

Lookup(st, a) ==
  LET leaf1 == st.root.leaves[a \div 2^RootBits]
  IN LeafIndex(LookupStep(st, LookupStep(st, leaf1, a, 2), a, 3))

\* load_balance_create with one bucket: the next load balance of the pool
\* (load_balance_pool_index), holding dpo; lbs[i + 1] is load balance i
LoadBalanceCreate(lbs, dpo) == Append(lbs, dpo)

-----------------------------------------------------------------------------
(* Reference                                                               *)

\* route r covers address a: their first r.len bits agree
Covers(r, a) == a \div 2^(AddrBits - r.len) = r.addr \div 2^(AddrBits - r.len)

\* longest-prefix match over the default route every root leaf starts
\* with and the routes added in order: the longest route covering a, the
\* last added among routes of that length
LpmAdj(routes, a) ==
  LET rs == <<[addr |-> 0, len |-> 0, adj |-> 0]>> \o routes
      hits == {i \in 1 .. Len(rs) : Covers(rs[i], a)}
  IN rs[CHOOSE i \in hits : \A j \in hits : rs[j].len < rs[i].len \/ (rs[j].len = rs[i].len /\ j <= i)].adj

=============================================================================
