------------------------- MODULE AbstractAllocator -------------------------
(***************************************************************************)
(* What the partitioned allocator promises its callers, without pointers. *)
(* Each core c has the sequence of indexes allocated to it, oldest first, *)
(* and a pool of free indexes; a global pool is shared.  An allocation    *)
(* takes from the core's pool or, failing that, from the global pool,     *)
(* which is refilled, when empty, with one index from every core's pool   *)
(* that has one.  Allocation fails only when no pool has an index.  Free  *)
(* and rejuvenate succeed exactly for indexes allocated to the calling    *)
(* core; rejuvenate makes the index the newest; expiry frees the oldest.  *)
(* The RLU allocator differs in its free only (ARluSpec).                 *)
(* Times are left out: ExpiryScanComplete in DChainClients is about them. *)
(***************************************************************************)
EXTENDS Integers, SequencesExt

CONSTANTS NumCores, Capacity

VARIABLES aAlloc, aPool, aGlobal, aLast

avars == <<aAlloc, aPool, aGlobal, aLast>>

Cores == 0 .. NumCores - 1
Idx   == 0 .. Capacity - 1
NONE  == -1

Call(c, op, i, r) == [core |-> c, op |-> op, idx |-> i, ret |-> r]

\* the initial split of the indexes among the cores
InitialPool(c) == {i \in Idx : i \div (Capacity \div NumCores) = c}

Allocated(c) == ToSet(aAlloc[c])

Without(s, i) == SelectSeq(s, LAMBDA j : j # i)

AInit ==
  /\ aAlloc = [c \in Cores |-> <<>>]
  /\ aPool = [c \in Cores |-> InitialPool(c)]
  /\ aGlobal = {}
  /\ aLast = Call(0, "none", NONE, 0)

TakeFor(c, i) ==
  /\ aAlloc' = [aAlloc EXCEPT ![c] = Append(@, i)]
  /\ aLast' = Call(c, "alloc", i, 1)

AAllocLocal(c) ==
  \E i \in aPool[c] :
     /\ TakeFor(c, i)
     /\ aPool' = [aPool EXCEPT ![c] = @ \ {i}]
     /\ UNCHANGED aGlobal

AAllocGlobal(c) ==
  \E i \in aGlobal :
     /\ TakeFor(c, i)
     /\ aGlobal' = aGlobal \ {i}
     /\ UNCHANGED aPool

\* a choice of one index from each core's pool, NONE for an empty pool
Picks == {p \in [Cores -> Idx \cup {NONE}] :
            \A d \in Cores : IF aPool[d] = {} THEN p[d] = NONE ELSE p[d] \in aPool[d]}

AAllocRefill(c) ==
  /\ aGlobal = {}
  /\ \E p \in Picks :
       LET moved == {p[d] : d \in Cores} \ {NONE}
       IN \E i \in moved :
            /\ TakeFor(c, i)
            /\ aGlobal' = moved \ {i}
            /\ aPool' = [d \in Cores |-> aPool[d] \ {p[d]}]

AAllocFail(c) ==
  /\ aGlobal = {}
  /\ \A d \in Cores : aPool[d] = {}
  /\ aLast' = Call(c, "alloc", NONE, 0)
  /\ UNCHANGED <<aAlloc, aPool, aGlobal>>

\* a call that returns 0 and changes nothing
ARejected(c, op, i) ==
  /\ aLast' = Call(c, op, i, 0)
  /\ UNCHANGED <<aAlloc, aPool, aGlobal>>

AFree(c, i) ==
  IF i \in Allocated(c)
  THEN /\ aAlloc' = [aAlloc EXCEPT ![c] = Without(@, i)]
       /\ aPool' = [aPool EXCEPT ![c] = @ \cup {i}]
       /\ aLast' = Call(c, "free", i, 1)
       /\ UNCHANGED aGlobal
  ELSE ARejected(c, "free", i)

ARejuvenate(c, i) ==
  IF i \in Allocated(c)
  THEN /\ aAlloc' = [aAlloc EXCEPT ![c] = Append(Without(@, i), i)]
       /\ aLast' = Call(c, "rejuvenate", i, 1)
       /\ UNCHANGED <<aPool, aGlobal>>
  ELSE ARejected(c, "rejuvenate", i)

\* expiry frees the oldest index, or (when it is not yet expired) nothing
AExpire(c) ==
  \/ /\ aAlloc[c] # <<>>
     /\ aAlloc' = [aAlloc EXCEPT ![c] = Tail(@)]
     /\ aPool' = [aPool EXCEPT ![c] = @ \cup {Head(aAlloc[c])}]
     /\ aLast' = Call(c, "expire", Head(aAlloc[c]), 1)
     /\ UNCHANGED aGlobal
  \/ ARejected(c, "expire", NONE)

ANext ==
  \E c \in Cores :
     \/ AAllocLocal(c) \/ AAllocGlobal(c) \/ AAllocRefill(c) \/ AAllocFail(c)
     \/ AExpire(c)
     \/ \E i \in Idx : AFree(c, i) \/ ARejuvenate(c, i)

ASpec == AInit /\ [][ANext]_avars

\* The RLU allocator's free: any allocated index, whichever core holds it,
\* goes to the pool of the freeing core.
ARluFree(c, i) ==
  IF \E d \in Cores : i \in Allocated(d)
  THEN /\ aAlloc' = [d \in Cores |-> Without(aAlloc[d], i)]
       /\ aPool' = [aPool EXCEPT ![c] = @ \cup {i}]
       /\ aLast' = Call(c, "free", i, 1)
       /\ UNCHANGED aGlobal
  ELSE ARejected(c, "free", i)

ARluNext ==
  \E c \in Cores :
     \/ AAllocLocal(c) \/ AAllocGlobal(c) \/ AAllocRefill(c) \/ AAllocFail(c)
     \/ \E i \in Idx : ARluFree(c, i)

ARluSpec == AInit /\ [][ARluNext]_avars

=============================================================================
