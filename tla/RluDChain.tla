----------------------------- MODULE RluDChain -----------------------------
(***************************************************************************)
(* The RLU index allocator (src/src/double-chain-impl.c, double-chain.c),  *)
(* used by the network functions for state outside packet sets (the      *)
(* EI-NAT's users and sessions).  It has the cell layout, lists and init *)
(* of the lock-based allocator, and no times.                            *)
(*                                                                         *)
(* Every call runs inside the caller's mv-RLU transaction: its writes go  *)
(* to RLU copies of the cells, any failing RLU_TRY_LOCK returns           *)
(* ABORT_HANDLER and the caller aborts, discarding them, and a            *)
(* transaction whose reads were overwritten fails validation.  A call    *)
(* that takes effect is therefore one atomic step on the committed cells, *)
(* and an aborted call is no step at all.  Unlike the lock-based          *)
(* allocator, allocation tries the local list, the global list and the   *)
(* refill in one call, and free accepts any allocated index, whichever    *)
(* core it is allocated to, and puts it on the caller's free list.       *)
(* Times are not used: allocated cells keep the time Never.              *)
(***************************************************************************)
EXTENDS DChainLists

VARIABLE last    \* [core, op, idx, ret] of the last call that committed

vars == <<cells, last>>

Ops == {"none", "alloc", "free"}

Call(c, op, i, r) == [core |-> c, op |-> op, idx |-> i, ret |-> r]

\* nfos_dchain_impl_init: the same chunking as concurrent_dchain_impl_init
Init ==
  /\ cells = InitCells
  /\ last = Call(0, "none", NONE, 0)

\* Variant: the alloc-list tag keeps the LIST_HEAD_PADDING shift.
RluLinkPadded(s, c, a) == LinkAtAllocTailPadded(s, c, a, Never)

\* "Add the link to the new-end alloc chain", both branches (prev of the
\* head is the head itself, or a cell)
RluLink(s, c, a) == LinkAtAllocTail(s, c, a, Never)

\* nfos_dchain_impl_allocate_new_index: the local free list, else the
\* global one, refilled from every core if empty, else failure
NfosAllocateNewIndex(c) ==
  \/ /\ HasFreeIndexes(c)
     /\ cells' = RluLink(PopFree(cells, FH(c)), c, cells[FH(c)].next)
     /\ last' = Call(c, "alloc", LocalAllocated(c), 1)
  \/ /\ ~HasFreeIndexes(c)
     /\ GlobalRefilled(cells)[GH].next # GH
     /\ LET s1 == GlobalRefilled(cells)
        IN cells' = RluLink(PopFree(s1, GH), c, s1[GH].next)
     /\ last' = Call(c, "alloc", GlobalAllocated, 1)
  \/ /\ ~HasFreeIndexes(c)
     /\ GlobalAllocFails
     /\ last' = Call(c, "alloc", NONE, 0)
     /\ UNCHANGED cells

\* Variant: the "already free" test is missing.
FreeIndexNoCheck(c, i) ==
  /\ cells' = PushFree(Unlink(cells, Cell(i)), c, Cell(i))
  /\ last' = Call(c, "free", i, 1)

\* Variant: the successor's back link is not updated (line 254 missing).
FreeIndexNoBackLink(c, i) ==
  \/ /\ cells[Cell(i)].list_ind # FREE
     /\ cells' = PushFree(UnlinkNoBackLink(cells, Cell(i)), c, Cell(i))
     /\ last' = Call(c, "free", i, 1)
  \/ /\ cells[Cell(i)].list_ind = FREE
     /\ last' = Call(c, "free", i, 0)
     /\ UNCHANGED cells

\* Variant: the freed cell goes back to the free list of the core it was
\* allocated to.
FreeIndexToOwner(c, i) ==
  \/ /\ cells[Cell(i)].list_ind # FREE
     /\ cells' = PushFree(Unlink(cells, Cell(i)), cells[Cell(i)].list_ind, Cell(i))
     /\ last' = Call(c, "free", i, 1)
  \/ /\ cells[Cell(i)].list_ind = FREE
     /\ last' = Call(c, "free", i, 0)
     /\ UNCHANGED cells

\* nfos_dchain_impl_free_index: 0 if the index is free, else unlink it
\* from whichever alloc list it is on and push it on the caller's list
NfosFreeIndex(c, i) ==
  \/ /\ cells[Cell(i)].list_ind # FREE
     /\ cells' = PushFree(Unlink(cells, Cell(i)), c, Cell(i))
     /\ last' = Call(c, "free", i, 1)
  \/ /\ cells[Cell(i)].list_ind = FREE
     /\ last' = Call(c, "free", i, 0)
     /\ UNCHANGED cells

Next ==
  \E c \in Cores :
     \/ NfosAllocateNewIndex(c)
     \/ \E i \in Idx : NfosFreeIndex(c, i)

Spec == Init /\ [][Next]_vars

-----------------------------------------------------------------------------
(* Properties                                                              *)

TypeOK ==
  /\ cells \in [Cells -> CellType]
  /\ last \in [core: Cores, op: Ops, idx: Idx \cup {NONE}, ret: {0, 1}]

(* The pointer lists implement the abstract allocator with the RLU free:  *)
(* allocation fails only when every pool is empty and the refill takes   *)
(* one index from each non-empty core pool; free succeeds exactly on      *)
(* allocated indexes, whichever core holds them, and returns them to the *)
(* pool of the freeing core.                                              *)
Abstract == INSTANCE AbstractAllocator WITH
  aAlloc  <- [c \in Cores |-> IndexList(AH(c))],
  aPool   <- [c \in Cores |-> ToSet(IndexList(FH(c)))],
  aGlobal <- ToSet(IndexList(GH)),
  aLast   <- last

ImplementsRluAllocator == Abstract!ARluSpec

(* The specification of the allocator (ownership containment) says that  *)
(* free(i, p) fails for every partition p that does not own i.           *)
(* nfos_dchain_impl_free_index checks only that i is allocated.          *)
FreeRejectsForeignIndex ==
  [][\A c \in Cores, i \in Idx :
       NfosFreeIndex(c, i) /\ last'.ret = 1 => cells[Cell(i)].list_ind = c]_vars

=============================================================================
