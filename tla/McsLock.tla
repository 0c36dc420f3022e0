------------------------------ MODULE McsLock ------------------------------
(***************************************************************************)
(* The MCS queue lock of src/src/include/lock.h, statement by statement.  *)
(*                                                                         *)
(* A lock is the pointer lock->qnode to the last queued qnode (tail).     *)
(* The qnode a thread passes for a lock is a variable on its stack; a     *)
(* thread queues on one lock at a time, so its qnode for lock l is named  *)
(* <<t, l>>.  qprev holds the local prev of mcslock_lock.  mpc[t] is the  *)
(* point thread t has reached inside mcslock_lock or mcslock_unlock;      *)
(* "idle" is outside both.  The x86 build is sequentially consistent for  *)
(* these accesses: the swap and the CAS are locked instructions and the   *)
(* stores are fenced (smp_wmb), so steps are the single reads and writes. *)
(*                                                                         *)
(* A qnode field the code never reads again is reset to its initial     *)
(* value: qprev after the link, locked after the spin, and the whole      *)
(* qnode when mcslock_unlock returns and its stack frame ends.  No one    *)
(* else refers to the qnode then: a successor links itself before the    *)
(* hand-over, and a failed CAS waits for that link.                       *)
(*                                                                         *)
(* held[t] (ghost) is the set of locks t holds: added when mcslock_lock   *)
(* returns, removed when mcslock_unlock is entered.                       *)
(***************************************************************************)
CONSTANTS
  Threads,   \* the threads that take the locks
  Locks,     \* the mcslock_t objects
  Nil        \* NULL

VARIABLES tail, qlocked, qnext, qprev, mpc, held

mvars == <<tail, qlocked, qnext, qprev, mpc, held>>

QNode == Threads \X Locks

McsInit ==
  /\ tail = [l \in Locks |-> Nil]              \* mcslock_init
  /\ qlocked = [q \in QNode |-> FALSE]
  /\ qnext = [q \in QNode |-> Nil]
  /\ qprev = [q \in QNode |-> Nil]
  /\ mpc = [t \in Threads |-> "idle"]
  /\ held = [t \in Threads |-> {}]

\* mcslock_lock up to the swap: locked = 0; next = NULL;
\* prev = smp_swap(&lock->qnode, qnode).  With no predecessor the lock is
\* taken and the call returns.
LockSwap(t, l) ==
  LET q == <<t, l>>
  IN /\ mpc[t] = "idle"
     /\ qlocked' = [qlocked EXCEPT ![q] = FALSE]
     /\ qnext' = [qnext EXCEPT ![q] = Nil]
     /\ qprev' = [qprev EXCEPT ![q] = tail[l]]
     /\ tail' = [tail EXCEPT ![l] = q]
     /\ mpc' = [mpc EXCEPT ![t] = IF tail[l] = Nil THEN "idle" ELSE "link"]
     /\ held' = IF tail[l] = Nil THEN [held EXCEPT ![t] = @ \cup {l}] ELSE held

\* Variant: the thread does not wait for the hand-over after linking.
LockLinkNoSpin(t, l) ==
  LET q == <<t, l>>
  IN /\ mpc[t] = "link"
     /\ qnext' = [qnext EXCEPT ![qprev[q]] = q]
     /\ qprev' = [qprev EXCEPT ![q] = Nil]
     /\ mpc' = [mpc EXCEPT ![t] = "idle"]
     /\ held' = [held EXCEPT ![t] = @ \cup {l}]
     /\ UNCHANGED <<tail, qlocked>>

\* prev->next = qnode
LockLink(t, l) ==
  LET q == <<t, l>>
  IN /\ mpc[t] = "link"
     /\ qnext' = [qnext EXCEPT ![qprev[q]] = q]
     /\ qprev' = [qprev EXCEPT ![q] = Nil]
     /\ mpc' = [mpc EXCEPT ![t] = "spin"]
     /\ UNCHANGED <<tail, qlocked, held>>

\* while (!qnode->locked) cpu_pause(): the spin ends when the predecessor
\* hands the lock over
LockSpin(t, l) ==
  /\ mpc[t] = "spin"
  /\ qlocked[<<t, l>>]
  /\ qlocked' = [qlocked EXCEPT ![<<t, l>>] = FALSE]
  /\ mpc' = [mpc EXCEPT ![t] = "idle"]
  /\ held' = [held EXCEPT ![t] = @ \cup {l}]
  /\ UNCHANGED <<tail, qnext, qprev>>

\* mcslock_lock: the step t takes next in it
McsLockStep(t, l) == LockSwap(t, l) \/ LockLink(t, l) \/ LockSpin(t, l)

\* mcslock_unlock: if (!qnode->next) ... else hand over
UnlockCheck(t, l) ==
  /\ mpc[t] = "idle"
  /\ mpc' = [mpc EXCEPT ![t] = IF qnext[<<t, l>>] = Nil THEN "cas" ELSE "hand"]
  /\ held' = [held EXCEPT ![t] = @ \ {l}]
  /\ UNCHANGED <<tail, qlocked, qnext, qprev>>

\* Variant: a plain store of NULL instead of the compare-and-swap.
UnlockStoreNil(t, l) ==
  /\ mpc[t] = "cas"
  /\ tail' = [tail EXCEPT ![l] = Nil]
  /\ mpc' = [mpc EXCEPT ![t] = "idle"]
  /\ UNCHANGED <<qlocked, qnext, qprev, held>>

\* smp_cas(&lock->qnode, qnode, NULL): return if no one queued behind,
\* else wait for the successor to link itself
UnlockCas(t, l) ==
  /\ mpc[t] = "cas"
  /\ tail' = IF tail[l] = <<t, l>> THEN [tail EXCEPT ![l] = Nil] ELSE tail
  /\ mpc' = [mpc EXCEPT ![t] = IF tail[l] = <<t, l>> THEN "idle" ELSE "wait"]
  /\ UNCHANGED <<qlocked, qnext, qprev, held>>

\* while (!qnode->next) smp_rmb()
UnlockWait(t, l) ==
  /\ mpc[t] = "wait"
  /\ qnext[<<t, l>>] # Nil
  /\ mpc' = [mpc EXCEPT ![t] = "hand"]
  /\ UNCHANGED <<tail, qlocked, qnext, qprev, held>>

\* qnode->next->locked = 1
UnlockHand(t, l) ==
  /\ mpc[t] = "hand"
  /\ qlocked' = [qlocked EXCEPT ![qnext[<<t, l>>]] = TRUE]
  /\ qnext' = [qnext EXCEPT ![<<t, l>>] = Nil]
  /\ mpc' = [mpc EXCEPT ![t] = "idle"]
  /\ UNCHANGED <<tail, qprev, held>>

\* mcslock_unlock: the step t takes next in it
McsUnlockStep(t, l) ==
  UnlockCheck(t, l) \/ UnlockCas(t, l) \/ UnlockWait(t, l) \/ UnlockHand(t, l)

-----------------------------------------------------------------------------
(* Properties                                                              *)

McsTypeOK ==
  /\ tail \in [Locks -> QNode \cup {Nil}]
  /\ qlocked \in [QNode -> BOOLEAN]
  /\ qnext \in [QNode -> QNode \cup {Nil}]
  /\ qprev \in [QNode -> QNode \cup {Nil}]
  /\ mpc \in [Threads -> {"idle", "link", "spin", "cas", "wait", "hand"}]
  /\ held \in [Threads -> SUBSET Locks]

(* Mutual exclusion: whatever the interleaving of swaps, links, spins,   *)
(* compare-and-swaps and hand-overs, no two threads hold the same lock.   *)
McsMutualExclusion ==
  \A l \in Locks, t1, t2 \in Threads : l \in held[t1] /\ l \in held[t2] => t1 = t2

=============================================================================
