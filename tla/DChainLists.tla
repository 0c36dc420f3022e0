----------------------------- MODULE DChainLists -----------------------------
(***************************************************************************)
(* The lists of the index allocators read by walking next from each head, *)
(* and the structural invariants both allocators (concurrent-double-chain  *)
(* and the RLU double-chain, which share the cell layout) must keep.       *)
(***************************************************************************)
EXTENDS ConcurrentDChain, SequencesExt

(* The lists, read by following next from each head.                      *)

\* cells met following next from head h, up to the first return to h
RECURSIVE WalkFrom(_, _, _)
WalkFrom(h, x, n) ==
  IF x = h \/ n = 0 THEN <<>> ELSE <<x>> \o WalkFrom(h, cells[x].next, n - 1)

ListCells(h) == WalkFrom(h, cells[h].next, NumCells)

\* the list with head h as a sequence of indexes
IndexList(h) == LET l == ListCells(h) IN [k \in DOMAIN l |-> l[k] - INDEX_SHIFT]

Heads == {AH(c) : c \in Cores} \cup {FH(c) : c \in Cores} \cup {GH}

-----------------------------------------------------------------------------
(* Every list is a well-formed cycle through its head, whatever order the *)
(* cores' unlocked alloc-list updates and locked free-list updates and    *)
(* the global refill interleave in: an alloc list is doubly linked and    *)
(* tagged with its core, a free list has prev = next and tag -1, and no   *)
(* cell is on two lists.                                                  *)
ListsWellFormed ==
  /\ \A h \in Heads :
       LET l == ListCells(h)
       IN /\ Len(l) < NumCells
          /\ cells[IF l = <<>> THEN h ELSE Last(l)].next = h
          /\ ToSet(l) \cap Heads = {}
  /\ \A c \in Cores :
       /\ \A x \in ToSet(ListCells(AH(c))) \cup {AH(c)} : cells[cells[x].next].prev = x
       /\ \A x \in ToSet(ListCells(AH(c))) : cells[x].list_ind = c
  /\ \A h \in {FH(c) : c \in Cores} \cup {GH} :
       \A x \in ToSet(ListCells(h)) \cup {h} :
          /\ cells[x].prev = cells[x].next
          /\ x # h => cells[x].list_ind = FREE
  /\ \A h1, h2 \in Heads :
       h1 # h2 => ToSet(ListCells(h1)) \cap ToSet(ListCells(h2)) = {}

(* No index is lost: every index is on exactly one list, so every index   *)
(* set up by concurrent_dchain_impl_init can eventually be handed out.   *)
IndexesConserved ==
  \A i \in Idx : \E h \in Heads : Cell(i) \in ToSet(ListCells(h))

=============================================================================
