----------------------------- MODULE DChainExp -----------------------------
(***************************************************************************)
(* The expiring RLU index allocator (src/src/double-chain-exp.c) and the  *)
(* periodic expiry sweep that the network functions run over it          *)
(* (exp_mac in src/nf/bridge/main.c; maglev's expirator is the same).    *)
(*                                                                         *)
(* The cells, layout and init are those of the lock-based allocator, and  *)
(* a cell's time is its deadline: allocation and rejuvenation stamp       *)
(* now + Validity.  Each data-plane call runs in an mv-RLU transaction    *)
(* and is one atomic step (see RluDChain).                                *)
(*                                                                         *)
(* Time: clock is the TSC; each core keeps its own snapshot coreNow[c]    *)
(* (RTE_PER_LCORE(curr_time)), refreshed once per polling iteration, and *)
(* a core's snapshot lags the clock by at most MaxSkew.  The periodic     *)
(* handler reads the clock when it starts (expNow).                       *)
(*                                                                         *)
(* The sweep is one RLU transaction on the periodic-handler core: reset   *)
(* the cursor curr_free_list, call expire_one_index until it sets         *)
(* expiration_done, then validate.  Its writes take effect only when it   *)
(* commits, so the loop and the commit are one step, and an abort in the *)
(* loop or at validation discards the cell writes.  curr_free_list and    *)
(* expiration_done are plain memory and keep their values across aborts. *)
(***************************************************************************)
EXTENDS DChainLists

CONSTANTS
  Validity,   \* validity_duration
  MaxSkew     \* how far a core's curr_time may lag the clock

ASSUME Validity \in 1 .. MaxTime /\ MaxSkew \in Nat

VARIABLES
  clock,      \* the TSC
  coreNow,    \* per core: curr_time of its current polling iteration
  xpc,        \* the periodic handler: "idle", "run" (in the transaction), "retry"
  expNow,     \* now of the running expiry handler
  cursor,     \* chain->curr_free_list
  expDone     \* the handler's local expiration_done

vars == <<cells, clock, coreNow, xpc, expNow, cursor, expDone>>

MaxClock == MaxTime - Validity
Clock == 0 .. MaxClock

Init ==
  /\ cells = InitCells
  /\ clock = 0
  /\ coreNow = [c \in Cores |-> 0]
  /\ xpc = "idle"
  /\ expNow = 0
  /\ cursor = 0
  /\ expDone = FALSE

\* the clock advances; each core's curr_time may or may not be refreshed,
\* within MaxSkew of the clock
Tick ==
  /\ clock < MaxClock
  /\ clock' = clock + 1
  /\ \E f \in [Cores -> Clock] :
       /\ \A c \in Cores : coreNow[c] <= f[c] /\ f[c] <= clock + 1 /\ clock + 1 - f[c] <= MaxSkew
       /\ coreNow' = f
  /\ UNCHANGED <<cells, xpc, expNow, cursor, expDone>>

-----------------------------------------------------------------------------
(* Data-plane calls                                                        *)

\* Variant: the alloc-list tag keeps the LIST_HEAD_PADDING shift.
ExpLinkPadded(s, c, a, t) == LinkAtAllocTailPadded(s, c, a, t)

\* "Add the link to the new-end alloc chain", stamping the deadline t
ExpLink(s, c, a, t) == LinkAtAllocTail(s, c, a, t)

\* nfos_dchain_exp_allocate_new_index_t: local free list, else global,
\* refilled if empty; deadline = now + validity_duration
ExpAllocateNewIndex(c) ==
  LET t == coreNow[c] + Validity
  IN /\ \/ /\ HasFreeIndexes(c)
           /\ cells' = ExpLink(PopFree(cells, FH(c)), c, cells[FH(c)].next, t)
        \/ /\ ~HasFreeIndexes(c)
           /\ GlobalRefilled(cells)[GH].next # GH
           /\ LET s1 == GlobalRefilled(cells)
              IN cells' = ExpLink(PopFree(s1, GH), c, s1[GH].next, t)
     /\ UNCHANGED <<clock, coreNow, xpc, expNow, cursor, expDone>>

\* ... when it fails: no local, global or refilled index
ExpAllocFailsCond(c) == ~HasFreeIndexes(c) /\ GlobalAllocFails

\* ... its failing outcome (returns 0, nothing written)
ExpAllocFails(c) ==
  /\ ExpAllocFailsCond(c)
  /\ UNCHANGED vars

\* Variant: "already at the end" is tested at the wrong end of the list.
RejuvenateWrongEnd(c, i) ==
  LET x == Cell(i)
      o == cells[x].list_ind
      t == coreNow[c] + Validity
  IN /\ o # FREE
     /\ cells' = IF cells[x].prev = AH(o)
                 THEN [cells EXCEPT ![x].time = t]
                 ELSE ExpLink(Unlink(cells, x), o, x, t)
     /\ UNCHANGED <<clock, coreNow, xpc, expNow, cursor, expDone>>

\* nfos_dchain_exp_rejuvenate_index_t, by any core, on the list the index
\* is allocated to: the tail only gets its deadline refreshed, any other
\* cell is moved to the tail.  (A free index: returns 0, nothing written.)
ExpRejuvenateIndex(c, i) ==
  LET x == Cell(i)
      o == cells[x].list_ind
      t == coreNow[c] + Validity
  IN /\ o # FREE
     /\ cells' = IF cells[x].next = AH(o)
                 THEN [cells EXCEPT ![x].time = t]
                 ELSE ExpLink(Unlink(cells, x), o, x, t)
     /\ UNCHANGED <<clock, coreNow, xpc, expNow, cursor, expDone>>

-----------------------------------------------------------------------------
(* The expiry sweep                                                        *)

\* Variant: the successor is read after the cell was pushed on the free
\* list (lines 424-425 moved after line 437).
ExpireCellsReadsAfterPush(s, x, cur) ==
  LET f == FH(cur)
      s1 == [s EXCEPT ![x].next = s[f].next, ![x].prev = s[f].next,
                      ![x].list_ind = FREE, ![x].time = Never,
                      ![f].next = x, ![f].prev = x]
      p == s1[x].prev
      n == s1[x].next
  IN [s1 EXCEPT ![p].next = n, ![n].prev = p]

\* expire_one_index, freeing path: push the oldest cell x of list cur on
\* the free list of cur (deadline INT64_MAX), then unlink it from the
\* alloc list with the neighbours read before the push
ExpireCells(s, x, cur) ==
  LET p == s[x].prev
      n == s[x].next
      f == FH(cur)
      s1 == [s EXCEPT ![x].next = s[f].next, ![x].prev = s[f].next,
                      ![x].list_ind = FREE, ![x].time = Never,
                      ![f].next = x, ![f].prev = x]
  IN [s1 EXCEPT ![p].next = n, ![n].prev = p]

\* the cursor moves to the next list; past the last it wraps and the
\* sweep is done
Advance(r) ==
  IF r.cursor + 1 >= NumCores
  THEN [r EXCEPT !.cursor = 0, !.done = TRUE]
  ELSE [r EXCEPT !.cursor = r.cursor + 1]

\* Variant: a deadline equal to now counts as passed.
ExpExpireOneIndexStrict(r, t) ==
  LET s == r.cells
      h == AH(r.cursor)
      o == s[h].next
  IN IF s[h].next = s[h].prev /\ o = h THEN Advance(r)
     ELSE IF s[o].time > t THEN Advance(r)
     ELSE [r EXCEPT !.cells = ExpireCells(s, o, r.cursor)]

\* nfos_dchain_exp_expire_one_index_t on r = [cells, cursor, done]: an
\* empty list or a live oldest index advances the cursor, else the oldest
\* index is freed
ExpExpireOneIndex(r, t) ==
  LET s == r.cells
      h == AH(r.cursor)
      o == s[h].next
  IN IF s[h].next = s[h].prev /\ o = h THEN Advance(r)
     ELSE IF s[o].time >= t THEN Advance(r)
     ELSE [r EXCEPT !.cells = ExpireCells(s, o, r.cursor)]

\* "while (!expiration_done)": at most k calls of expire_one_index
RECURSIVE ExpireLoop(_, _, _)
ExpireLoop(r, t, k) ==
  IF r.done \/ k = 0 THEN r ELSE ExpireLoop(ExpExpireOneIndex(r, t), t, k - 1)

\* every call frees an index or advances the cursor
MaxCalls == Capacity + NumCores

Loop(k) == ExpireLoop([cells |-> cells, cursor |-> cursor, done |-> expDone], expNow, k)

\* exp_mac starts: now = get_curr_time(); expiration_done = 0; then
\* retry_exp: RLU_READER_LOCK and the cursor reset
SweepStart ==
  /\ xpc = "idle"
  /\ expNow' = clock
  /\ expDone' = FALSE
  /\ cursor' = 0
  /\ xpc' = "run"
  /\ UNCHANGED <<cells, clock, coreNow>>

\* the loop runs to expiration_done and RLU_READER_UNLOCK validates: the
\* frees take effect
SweepCommit ==
  /\ xpc = "run"
  /\ cells' = Loop(MaxCalls).cells
  /\ cursor' = Loop(MaxCalls).cursor
  /\ expDone' = TRUE
  /\ xpc' = "idle"
  /\ UNCHANGED <<clock, coreNow, expNow>>

\* expire_one_index or map_erase returns ABORT_HANDLER after k calls:
\* the frees are discarded, the cursor keeps its value
SweepAbortInLoop ==
  /\ xpc = "run"
  /\ \E k \in 0 .. MaxCalls - 1 :
       /\ ~Loop(k).done
       /\ cursor' = Loop(k).cursor
  /\ xpc' = "retry"
  /\ UNCHANGED <<cells, clock, coreNow, expNow, expDone>>

\* the loop ends but validation fails: the frees are discarded;
\* expiration_done stays set
SweepValidationFails ==
  /\ xpc = "run"
  /\ cursor' = Loop(MaxCalls).cursor
  /\ expDone' = TRUE
  /\ xpc' = "retry"
  /\ UNCHANGED <<cells, clock, coreNow, expNow>>

\* goto retry_exp: RLU_READER_LOCK and the cursor reset, with the same now
\* and the same expiration_done
SweepRetry ==
  /\ xpc = "retry"
  /\ cursor' = 0
  /\ xpc' = "run"
  /\ UNCHANGED <<cells, clock, coreNow, expNow, expDone>>

Next ==
  \/ Tick
  \/ SweepStart \/ SweepCommit \/ SweepAbortInLoop \/ SweepValidationFails \/ SweepRetry
  \/ \E c \in Cores :
       \/ ExpAllocateNewIndex(c) \/ ExpAllocFails(c)
       \/ \E i \in Idx : ExpRejuvenateIndex(c, i)

Spec == Init /\ [][Next]_vars

-----------------------------------------------------------------------------
(* Properties                                                              *)

TypeOK ==
  /\ cells \in [Cells -> CellType]
  /\ clock \in Clock /\ coreNow \in [Cores -> Clock] /\ expNow \in Clock
  /\ xpc \in {"idle", "run", "retry"}
  /\ cursor \in Cores
  /\ expDone \in BOOLEAN

\* the indexes allocated on some list
AllocatedIdx(s) == {i \in Idx : s[Cell(i)].list_ind # FREE}

(* expire_one_index stops at the first live index of a list and moves to *)
(* the next list; that finds every expired index only if each alloc list *)
(* is ordered by deadline, oldest first.  Allocations append the owner's *)
(* deadlines, rejuvenations from any core append theirs.                 *)
AllocListsByDeadline ==
  \A c \in Cores :
     LET l == ListCells(AH(c))
     IN \A k \in 1 .. Len(l) - 1 : cells[l[k]].time <= cells[l[k + 1]].time

(* A committed sweep frees only indexes whose deadline has passed: every *)
(* index it frees had a deadline before the sweep's now.                 *)
SweepFreesOnlyExpired ==
  [][SweepCommit =>
       \A i \in AllocatedIdx(cells) \ AllocatedIdx(cells') : cells[Cell(i)].time < expNow]_vars

(* The specification's expiry correctness: the sweep frees every index    *)
(* whose deadline has passed, so after a committed sweep no allocated     *)
(* index has a deadline before the sweep's now.                           *)
SweepFreesAllExpired ==
  [][SweepCommit =>
       \A i \in AllocatedIdx(cells') : cells'[Cell(i)].time >= expNow]_vars

=============================================================================
