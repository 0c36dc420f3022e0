--------------------------- MODULE DChainClients ---------------------------
(***************************************************************************)
(* The partitioned allocator driven by one caller per data-plane core,    *)
(* through the entry points of src/src/concurrent-double-chain.c, under   *)
(* the MCS locks of concurrent-double-chain-impl.c: one lock per core     *)
(* (dchain_locks) and the global one (dchain_global_lock).                *)
(*                                                                         *)
(* A call in progress is prog[c], the sequence of what its core has still *)
(* to do: take a lock, run a critical section, release a lock, in the     *)
(* code's order.  Taking and releasing run McsLock statement by           *)
(* statement.  A critical section is one step on the cells, together with *)
(* the owner-only alloc-list update that the code makes just before the   *)
(* lock (free_index's unlink) or just after it (the append of allocate):  *)
(* only the owner core writes its alloc list, and other cores reach its   *)
(* free list only under its lock.  A section may replace the rest of the  *)
(* program, as the code's branches do.  A call with no lock (rejuvenate,  *)
(* and the rejecting paths of free and expire) is one step.               *)
(*                                                                         *)
(* last records the most recent call and its result, so that properties   *)
(* and the refinement mapping can speak about results.                    *)
(***************************************************************************)
EXTENDS DChainLists

VARIABLES
  prog,   \* per core: what its call in progress has still to do
  now,    \* the time passed to the calls
  last,   \* [core, op, idx, ret] of the last call that returned
  tail, qlocked, qnext, qprev, mpc, held   \* the MCS locks

GLOBAL == NumCores                     \* dchain_global_lock
LockIds == Cores \cup {GLOBAL}
NilQ == <<-1, -1>>                     \* NULL qnode pointer

Mcs == INSTANCE McsLock WITH Threads <- Cores, Locks <- LockIds, Nil <- NilQ

vars == <<cells, prog, now, last, tail, qlocked, qnext, qprev, mpc, held>>

Ops == {"none", "alloc", "free", "rejuvenate", "expire"}

NoCall == [core |-> 0, op |-> "none", idx |-> NONE, ret |-> 0]

Call(c, op, i, r) == [core |-> c, op |-> op, idx |-> i, ret |-> r]

\* the steps of a call: take or release lock l, or critical section s on
\* index i with the call's time t
Lk(l) == [op |-> "lock", lk |-> l, idx |-> NONE, t |-> 0]
Ul(l) == [op |-> "unlock", lk |-> l, idx |-> NONE, t |-> 0]
Cs(s, i, t) == [op |-> s, lk |-> GLOBAL, idx |-> i, t |-> t]

\* "for (i = 0; i < NUM_FREE_LISTS; i++) mcslock_lock / unlock"
LockAllCores == [k \in 1 .. NumCores |-> Lk(k - 1)]
UnlockAllCores == [k \in 1 .. NumCores |-> Ul(k - 1)]

Init ==
  /\ cells = InitCells
  /\ prog = [c \in Cores |-> <<>>]
  /\ now = 0
  /\ last = NoCall
  /\ Mcs!McsInit

Idle(c) == prog[c] = <<>>
At(c, s) == prog[c] # <<>> /\ Head(prog[c]).op = s

\* one step of mcslock_lock / mcslock_unlock; the program moves on when
\* the call returns
Acquire(c) ==
  /\ At(c, "lock")
  /\ Mcs!McsLockStep(c, Head(prog[c]).lk)
  /\ prog' = IF mpc'[c] = "idle" THEN [prog EXCEPT ![c] = Tail(@)] ELSE prog
  /\ UNCHANGED <<cells, now, last>>

Release(c) ==
  /\ At(c, "unlock")
  /\ Mcs!McsUnlockStep(c, Head(prog[c]).lk)
  /\ prog' = IF mpc'[c] = "idle" THEN [prog EXCEPT ![c] = Tail(@)] ELSE prog
  /\ UNCHANGED <<cells, now, last>>

\* concurrent_dchain_allocate_new_index calls
\* concurrent_dchain_impl_allocate_new_index
AllocStart(c) ==
  /\ Idle(c)
  /\ prog' = [prog EXCEPT ![c] = <<Lk(c), Cs("alloc_local", NONE, now), Ul(c)>>]
  /\ UNCHANGED <<cells, now, last, tail, qlocked, qnext, qprev, mpc, held>>

\* under the core's lock: pop the local free list, append to the alloc
\* list; an empty list unlocks and goes on to the global list
AllocLocal(c) ==
  LET t == Head(prog[c]).t
  IN /\ At(c, "alloc_local")
     /\ \/ /\ AllocateNewIndexLocal(c, t)
           /\ last' = Call(c, "alloc", LocalAllocated(c), 1)
           /\ prog' = [prog EXCEPT ![c] = Tail(@)]
        \/ /\ ~HasFreeIndexes(c)
           /\ prog' = [prog EXCEPT ![c] =
                 <<Ul(c), Lk(GLOBAL), Cs("alloc_global", NONE, t), Ul(GLOBAL)>>]
           /\ UNCHANGED <<cells, last>>
     /\ UNCHANGED <<now, tail, qlocked, qnext, qprev, mpc, held>>

\* concurrent_dchain_impl_allocate_new_index_global under the global lock:
\* pop the global list, or, when it is empty, take every core's lock
AllocGlobal(c) ==
  LET t == Head(prog[c]).t
  IN /\ At(c, "alloc_global")
     /\ \/ /\ cells[GH].next # GH
           /\ AllocateNewIndexGlobal(c, t)
           /\ last' = Call(c, "alloc", GlobalAllocated, 1)
           /\ prog' = [prog EXCEPT ![c] = Tail(@)]
        \/ /\ cells[GH].next = GH
           /\ prog' = [prog EXCEPT ![c] =
                 LockAllCores \o <<Cs("refill", NONE, t)>> \o UnlockAllCores \o Tail(@)]
           /\ UNCHANGED <<cells, last>>
     /\ UNCHANGED <<now, tail, qlocked, qnext, qprev, mpc, held>>

\* with all locks held: one index from each core's free list to the global
\* list, then pop it (after the per-core unlocks, still under the global
\* lock, which alone guards the global list), or return 0
Refill(c) ==
  LET t == Head(prog[c]).t
  IN /\ At(c, "refill")
     /\ \/ /\ AllocateNewIndexGlobal(c, t)
           /\ last' = Call(c, "alloc", GlobalAllocated, 1)
        \/ /\ GlobalAllocFails
           /\ last' = Call(c, "alloc", NONE, 0)
           /\ UNCHANGED cells
     /\ prog' = [prog EXCEPT ![c] = Tail(@)]
     /\ UNCHANGED <<now, tail, qlocked, qnext, qprev, mpc, held>>

\* concurrent_dchain_free_index: the ownership and "already free" checks
\* return 0 before the lock
FreeStart(c, i) ==
  /\ Idle(c)
  /\ \/ /\ FreeIndexSucceeds(c, i)
        /\ prog' = [prog EXCEPT ![c] = <<Lk(c), Cs("free", i, 0), Ul(c)>>]
        /\ UNCHANGED last
     \/ /\ ~FreeIndexSucceeds(c, i)
        /\ last' = Call(c, "free", i, 0)
        /\ UNCHANGED prog
  /\ UNCHANGED <<cells, now, tail, qlocked, qnext, qprev, mpc, held>>

\* the unlink from the alloc list, then under the lock the push on the
\* free list
Free(c) ==
  LET i == Head(prog[c]).idx
  IN /\ At(c, "free")
     /\ FreeIndex(c, i)
     /\ last' = Call(c, "free", i, 1)
     /\ prog' = [prog EXCEPT ![c] = Tail(@)]
     /\ UNCHANGED <<now, tail, qlocked, qnext, qprev, mpc, held>>

\* concurrent_dchain_rejuvenate_index (no lock)
Rejuvenate(c, i) ==
  /\ Idle(c)
  /\ \/ RejuvenateIndex(c, i, now) /\ last' = Call(c, "rejuvenate", i, 1)
     \/ RejuvenateAlone(c, i) /\ last' = Call(c, "rejuvenate", i, 1) /\ UNCHANGED cells
     \/ RejuvenateFails(c, i) /\ last' = Call(c, "rejuvenate", i, 0) /\ UNCHANGED cells
  /\ UNCHANGED <<prog, now, tail, qlocked, qnext, qprev, mpc, held>>

\* concurrent_dchain_expire_one_index: the oldest index and its time are
\* read without the lock; an expired one is freed
ExpireStart(c) ==
  /\ Idle(c)
  /\ \/ /\ HasExpiredIndex(c, now)
        /\ prog' = [prog EXCEPT ![c] = <<Lk(c), Cs("expire", NONE, now), Ul(c)>>]
        /\ UNCHANGED last
     \/ /\ ~HasExpiredIndex(c, now)
        /\ last' = Call(c, "expire", NONE, 0)
        /\ UNCHANGED prog
  /\ UNCHANGED <<cells, now, tail, qlocked, qnext, qprev, mpc, held>>

Expire(c) ==
  /\ At(c, "expire")
  /\ ExpireOneIndex(c, Head(prog[c]).t)
  /\ last' = Call(c, "expire", GetOldestIndex(c), 1)
  /\ prog' = [prog EXCEPT ![c] = Tail(@)]
  /\ UNCHANGED <<now, tail, qlocked, qnext, qprev, mpc, held>>

Tick ==
  /\ now < MaxTime
  /\ now' = now + 1
  /\ UNCHANGED <<cells, prog, last, tail, qlocked, qnext, qprev, mpc, held>>

\* the steps of a call in progress on core c
CallStep(c) ==
  Acquire(c) \/ Release(c) \/ AllocLocal(c) \/ AllocGlobal(c) \/ Refill(c)
  \/ Free(c) \/ Expire(c)

Next ==
  \/ Tick
  \/ \E c \in Cores :
       \/ AllocStart(c) \/ ExpireStart(c)
       \/ \E i \in Idx : FreeStart(c, i) \/ Rejuvenate(c, i)
       \/ Acquire(c) \/ Release(c)
       \/ AllocLocal(c) \/ AllocGlobal(c) \/ Refill(c) \/ Free(c) \/ Expire(c)

Spec == Init /\ [][Next]_vars

\* Each core is a pinned lcore that runs its call to the end: a step of a
\* call in progress that stays enabled is taken.  Starting a call is the
\* caller's choice and is not assumed.
FairSpec == Spec /\ \A c \in Cores : WF_vars(CallStep(c))

-----------------------------------------------------------------------------
(* Properties                                                              *)

TypeOK ==
  /\ cells \in [Cells -> CellType]
  /\ \A c \in Cores : Len(prog[c]) <= 2 * NumCores + 2
  /\ now \in Times
  /\ last \in [core: Cores, op: Ops, idx: Idx \cup {NONE}, ret: {0, 1}]
  /\ Mcs!McsTypeOK

(* delete_expired_pkt_sets stops freeing at the first index that is not   *)
(* expired: when concurrent_dchain_has_expired_index says no for time t, *)
(* no index allocated on that core has a time before t.  This holds only  *)
(* if allocation and rejuvenation keep every alloc list ordered by time. *)
ExpiryScanComplete ==
  \A c \in Cores, t \in Times :
     ~HasExpiredIndex(c, t) =>
        \A x \in ToSet(ListCells(AH(c))) : cells[x].time >= t

(* The critical sections of the allocator never overlap on a lock: the   *)
(* MCS lock keeps every dchain lock, per-core and global, held by at most *)
(* one core, through the refill that holds all of them at once.          *)
LocksExclusive == Mcs!McsMutualExclusion

(* Every allocator call returns.  The refill takes the global lock and   *)
(* then every per-core lock in ascending order while other cores take    *)
(* their own lock; the MCS queue must hand each lock on, and the order   *)
(* must leave no cycle of cores waiting on each other.                   *)
CallsReturn == \A c \in Cores : ~Idle(c) ~> Idle(c)

(* The pointer lists implement the abstract allocator: read as sequences  *)
(* and sets, every call does what AbstractAllocator allows, including     *)
(* that an allocation fails only when every pool is empty, that the       *)
(* refill takes one index from every non-empty core pool, that free and   *)
(* rejuvenate succeed exactly on the caller's own allocated indexes, and  *)
(* that rejuvenate moves the index to the newest end.                    *)
Abstract == INSTANCE AbstractAllocator WITH
  aAlloc  <- [c \in Cores |-> IndexList(AH(c))],
  aPool   <- [c \in Cores |-> ToSet(IndexList(FH(c)))],
  aGlobal <- ToSet(IndexList(GH)),
  aLast   <- last

ImplementsAbstractAllocator == Abstract!ASpec

(* The header of concurrent_dchain_rejuvenate_index promises that the     *)
(* time "will replace the old timestamp" and that 1 means "the timestamp *)
(* was updated": a rejuvenation that returns 1 leaves the index stamped   *)
(* with the time of the call.                                             *)
RejuvenateUpdatesTimestamp ==
  [][\A c \in Cores, i \in Idx :
       Rejuvenate(c, i) /\ last'.ret = 1 => cells'[Cell(i)].time = now]_vars

=============================================================================
