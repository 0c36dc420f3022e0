-------------------------- MODULE ConcurrentDChain --------------------------
(***************************************************************************)
(* The partitioned index allocator of the packet-set manager              *)
(* (src/src/concurrent-double-chain-impl.c, concurrent-double-chain.c).   *)
(*                                                                         *)
(* The allocator is one array of cells.  Each data-plane core c owns an   *)
(* "alloc" list (doubly linked, oldest first, head cell AH(c)) and a      *)
(* "free" list (singly linked through next, with prev = next, head cell   *)
(* FH(c)); one global free list (head GH) is shared.  Index i lives in    *)
(* cell i + INDEX_SHIFT.  The padding of list heads to separate cache     *)
(* lines (LIST_HEAD_PADDING) is layout only and is dropped: AH(c) = c,    *)
(* FH(c) = NumCores + c, GH = 2 * NumCores.                              *)
(*                                                                         *)
(* Each operation is written as a function from the array before the call *)
(* to the array after it, following the code's reads and writes in order; *)
(* a lock-protected section together with the owner-only list updates     *)
(* next to it is one atomic step of the callers (see README).             *)
(***************************************************************************)
EXTENDS Integers, Sequences, FiniteSets

CONSTANTS
  NumCores,   \* data-plane cores = partitions (rte_lcore_count() - 1)
  Capacity,   \* index_range: indexes are 0 .. Capacity - 1
  MaxTime     \* bound on the time values passed by callers

ASSUME NumCores \in Nat \ {0}
ASSUME Capacity \in Nat /\ Capacity >= NumCores
\* the init loop creates at most one chunk beyond the last core
ASSUME (Capacity \div NumCores) * (NumCores + 1) >= Capacity
ASSUME MaxTime \in Nat

VARIABLE cells

Cores == 0 .. NumCores - 1
Idx   == 0 .. Capacity - 1
Times == 0 .. MaxTime
\* INT64_MAX: the time of a cell that is not allocated, later than any time
Never == MaxTime + 1

AH(c) == c                      \* ALLOC_LIST_HEAD + (c << LIST_HEAD_PADDING)
FH(c) == NumCores + c           \* FREE_LIST_HEAD + (c << LIST_HEAD_PADDING)
GH    == 2 * NumCores           \* GLOBAL_FREE_LIST_HEAD
INDEX_SHIFT == GH + 1
Cell(i) == i + INDEX_SHIFT
Cells == 0 .. Capacity + INDEX_SHIFT - 1
NumCells == Capacity + INDEX_SHIFT

FREE == -1                      \* list_ind of a cell on a free list
NONE == -1                      \* "no index" result of the lookups

CellType == [prev: Cells, next: Cells, list_ind: Cores \cup {FREE}, time: 0 .. Never]

(***************************************************************************)
(* concurrent_dchain_impl_init: indexes are split into chunks of          *)
(* Capacity \div NumCores; chunk k is threaded onto the free list of core *)
(* k.  When Capacity is not a multiple of NumCores the loop produces one  *)
(* more chunk, for a core k = NumCores that has no list head: its last    *)
(* cell points at FREE_LIST_HEAD + (k << LIST_HEAD_PADDING), which is GH, *)
(* and nothing points at the chunk.                                       *)
(***************************************************************************)
Chunk == Capacity \div NumCores
ChunkOf(i) == i \div Chunk
LastOfChunk(i) == (i + 1) % Chunk = 0 \/ i = Capacity - 1

InitCells ==
  [x \in Cells |->
     CASE x \in {AH(c) : c \in Cores} ->
            [prev |-> x, next |-> x, list_ind |-> x, time |-> Never]
       [] x \in {FH(c) : c \in Cores} ->
            [prev |-> Cell(Chunk * (x - NumCores)), next |-> Cell(Chunk * (x - NumCores)),
             list_ind |-> x - NumCores, time |-> Never]
       [] x = GH ->
            [prev |-> GH, next |-> GH, list_ind |-> FREE, time |-> Never]
       [] OTHER ->
            LET i == x - INDEX_SHIFT
                nxt == IF LastOfChunk(i)
                       THEN IF ChunkOf(i) < NumCores THEN FH(ChunkOf(i)) ELSE GH
                       ELSE x + 1
            IN [prev |-> nxt, next |-> nxt, list_ind |-> FREE, time |-> Never]]

-----------------------------------------------------------------------------
(* List primitives on an array value s, in the order the code writes.     *)

\* Take the first cell off the singly linked free list with head h.
PopFree(s, h) ==
  LET a == s[h].next
  IN [s EXCEPT ![h].next = s[a].next, ![h].prev = s[a].next]

\* Variant: the alloc-list tag keeps the LIST_HEAD_PADDING shift of the
\* code (c << 3) where the rest of the model uses c.
LinkAtAllocTailPadded(s, c, a, t) ==
  LET tail == s[AH(c)].prev
  IN [s EXCEPT ![a].next = AH(c), ![a].prev = tail, ![a].list_ind = c * 8,
               ![a].time = t, ![tail].next = a, ![AH(c)].prev = a]

\* Link cell a at the "new" end of core c's alloc list, stamping time t.
LinkAtAllocTail(s, c, a, t) ==
  LET tail == s[AH(c)].prev
  IN [s EXCEPT ![a].next = AH(c), ![a].prev = tail, ![a].list_ind = c,
               ![a].time = t, ![tail].next = a, ![AH(c)].prev = a]

\* Variant: the successor's back link is not updated.
UnlinkNoBackLink(s, x) ==
  LET p == s[x].prev
      n == s[x].next
  IN [s EXCEPT ![p].next = n]

\* Extract cell x from the doubly linked alloc list it is on.
Unlink(s, x) ==
  LET p == s[x].prev
      n == s[x].next
  IN [s EXCEPT ![p].next = n, ![n].prev = p]

\* Variant: the pushed cell does not take over the old free list.
PushFreeDropsList(s, c, x) ==
  [s EXCEPT ![x].next = FH(c), ![x].prev = FH(c),
            ![x].list_ind = FREE, ![FH(c)].next = x, ![FH(c)].prev = x]

\* Push cell x on core c's free list (the locked part of free_index).
PushFree(s, c, x) ==
  [s EXCEPT ![x].next = s[FH(c)].next, ![x].prev = s[FH(c)].next,
            ![x].list_ind = FREE, ![FH(c)].next = x, ![FH(c)].prev = x]

\* concurrent_dchain_impl_fill_global_free_list: move one cell, if any,
\* from core d's free list to the global free list.
FillGlobalFreeList(s, d) ==
  LET a == s[FH(d)].next
  IN IF a = FH(d) THEN s
     ELSE [s EXCEPT ![FH(d)].next = s[a].next, ![FH(d)].prev = s[a].next,
                    ![a].next = s[GH].next, ![a].prev = s[GH].next,
                    ![a].list_ind = FREE, ![a].time = Never,
                    ![GH].next = a, ![GH].prev = a]

\* Variant: the refill loop stops one core early.
RECURSIVE RefillFromSkipLast(_, _)
RefillFromSkipLast(s, d) ==
  IF d >= NumCores - 1 THEN s ELSE RefillFromSkipLast(FillGlobalFreeList(s, d), d + 1)

\* The refill loop: one cell from each core's free list, cores 0 .. N-1.
RECURSIVE RefillFrom(_, _)
RefillFrom(s, d) ==
  IF d >= NumCores THEN s ELSE RefillFrom(FillGlobalFreeList(s, d), d + 1)

\* The global list after the first part of allocate_new_index_global:
\* refilled if it was empty.
GlobalRefilled(s) ==
  IF s[GH].next # GH THEN s ELSE RefillFrom(s, 0)

-----------------------------------------------------------------------------
(* Queries (no state change).                                              *)

\* concurrent_dchain_impl_has_free_indexes
HasFreeIndexes(c) == cells[FH(c)].next # FH(c)

\* concurrent_dchain_impl_get_oldest_index: NONE when the list is empty
GetOldestIndex(c) ==
  IF cells[AH(c)].next = cells[AH(c)].prev /\ cells[AH(c)].next = AH(c)
  THEN NONE
  ELSE cells[AH(c)].next - INDEX_SHIFT

\* concurrent_dchain_has_expired_index
HasExpiredIndex(c, t) ==
  LET o == GetOldestIndex(c)
  IN o # NONE /\ cells[Cell(o)].time < t

\* concurrent_dchain_impl_is_index_allocated
IsIndexAllocated(c, i) ==
  LET x == cells[Cell(i)]
  IN /\ x.list_ind = c
     /\ x.next # x.prev \/ x.next = AH(c)

-----------------------------------------------------------------------------
(* Operations.  Each is an action on cells; its failing outcome, where the *)
(* code returns 0 without writing, is a separate predicate.               *)

\* concurrent_dchain_impl_allocate_new_index, success path: the cells after
\* the call
LocalAllocCells(c, t) ==
  LinkAtAllocTail(PopFree(cells, FH(c)), c, cells[FH(c)].next, t)

AllocateNewIndexLocal(c, t) ==
  /\ HasFreeIndexes(c)
  /\ cells' = LocalAllocCells(c, t)

\* Variant: the cell number is returned without subtracting INDEX_SHIFT.
LocalAllocatedCell(c) == cells[FH(c)].next

\* index returned by a successful local allocation
LocalAllocated(c) == cells[FH(c)].next - INDEX_SHIFT

\* concurrent_dchain_impl_allocate_new_index_global, success path
GlobalAllocCells(c, t) ==
  LET s1 == GlobalRefilled(cells)
  IN LinkAtAllocTail(PopFree(s1, GH), c, s1[GH].next, t)

AllocateNewIndexGlobal(c, t) ==
  /\ GlobalRefilled(cells)[GH].next # GH
  /\ cells' = GlobalAllocCells(c, t)

GlobalAllocated == GlobalRefilled(cells)[GH].next - INDEX_SHIFT

\* ... and its failing path: refill found nothing to move
GlobalAllocFails == GlobalRefilled(cells)[GH].next = GH

\* concurrent_dchain_impl_free_index: the ownership and "already free" tests
FreeIndexSucceeds(c, i) ==
  LET x == cells[Cell(i)]
  IN /\ x.list_ind = c
     /\ ~(x.next = x.prev /\ x.prev # AH(c))

FreeIndex(c, i) ==
  /\ FreeIndexSucceeds(c, i)
  /\ cells' = PushFree(Unlink(cells, Cell(i)), c, Cell(i))

\* concurrent_dchain_impl_rejuvenate_index.  Three outcomes: 0 (not owned
\* or not allocated), 1 with nothing written (next = prev = head: the index
\* is the only one allocated), 1 after moving the cell to the tail.
RejuvenateFails(c, i) ==
  LET x == cells[Cell(i)]
  IN \/ x.list_ind # c
     \/ x.next = x.prev /\ x.next # AH(c)

RejuvenateAlone(c, i) ==
  LET x == cells[Cell(i)]
  IN x.list_ind = c /\ x.next = x.prev /\ x.next = AH(c)

\* Variant: the cell is moved to the tail but keeps its old timestamp.
RejuvenateKeepsTime(c, i, t) ==
  LET x == cells[Cell(i)]
  IN /\ x.list_ind = c
     /\ x.next # x.prev
     /\ cells' = LinkAtAllocTail(Unlink(cells, Cell(i)), c, Cell(i), x.time)

RejuvenateIndex(c, i, t) ==
  LET x == cells[Cell(i)]
  IN /\ x.list_ind = c
     /\ x.next # x.prev
     /\ cells' = LinkAtAllocTail(Unlink(cells, Cell(i)), c, Cell(i), t)

\* concurrent_dchain_expire_one_index: free the oldest index if its time
\* is before t
ExpireOneIndex(c, t) ==
  /\ HasExpiredIndex(c, t)
  /\ FreeIndex(c, GetOldestIndex(c))

=============================================================================
