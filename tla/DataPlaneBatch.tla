--------------------------- MODULE DataPlaneBatch ---------------------------
(***************************************************************************)
(* The batching process_pkt of src/src/data-plane.c (PKT_PROCESS_BATCHING *)
(* with MUTABLE_PKT_SET_STATE), for the packets of one burst on one core. *)
(*                                                                         *)
(* A burst is a sequence of packets, each the key of its packet set or    *)
(* Unparsed (nf_pkt_parser failed).  Registered packet sets are the set   *)
(* registered; the state of set k is st[k], a counter that every handler  *)
(* run on a packet of k increments (the handler mutates its packet-set    *)
(* state in place).  The flow table itself is modelled in FlowTable; here *)
(* a lookup is membership in registered and a create adds the key.        *)
(*                                                                         *)
(* Consecutive packets of registered sets form a range and run in one RLU *)
(* transaction.  Before each handler the state it is given is logged      *)
(* (log_one_pkt_set_state); on ABORT_HANDLER or a failed validation the   *)
(* log is copied back (rollback_pkt_set_states) and the range reruns.     *)
(* A packet of an unknown set runs nf_unknown_pkt_set_handler in a        *)
(* transaction of its own, and a create it staged is committed after      *)
(* validation.  Aborts are nondeterministic (a conflict with another      *)
(* core), bounded by MaxAborts per burst.                                 *)
(*                                                                         *)
(* done[k] (ghost) counts the handler runs on packets of k in             *)
(* transactions that committed; handled[p] (ghost) counts the committed   *)
(* handler runs on packet p.                                              *)
(***************************************************************************)
EXTENDS Integers, SequencesExt

CONSTANTS
  Keys,         \* packet-set ids of the packets
  Unparsed,     \* a packet nf_pkt_parser rejects
  Registered0,  \* packet sets in the flow table when the burst arrives
  BatchSize,    \* batch_size (<= MAX_BATCH)
  MaxAborts     \* bound on the aborts in one burst

ASSUME Registered0 \subseteq Keys /\ Unparsed \notin Keys
ASSUME BatchSize \in Nat \ {0} /\ MaxAborts \in Nat

VARIABLES
  batch,       \* the burst: pkt_set_id[] and parse_res[]
  pc,          \* "start", "loop", "restart", "handler", "validate", "done"
  n, startN, endN, reg,   \* the locals of process_pkt (positions from 1)
  registered,  \* the packet sets the flow table holds
  st,          \* st[k]: the main copy of the state of set k
  log,         \* pkt_set_state_log: <<[key, val]>> in logging order
  aborts,      \* aborts so far in this burst
  done, handled

vars == <<batch, pc, n, startN, endN, reg, registered, st, log, aborts, done, handled>>

Pos == 1 .. BatchSize
Batches == [Pos -> Keys \cup {Unparsed}]
\* the largest state value a burst can produce
StateMax == (MaxAborts + 1) * BatchSize + 1
Entry == [key: Keys, val: 0 .. StateMax]

Parsed(p) == batch[p] # Unparsed

\* "do { n++; } while (n < batch_size && !parse_res[n])": the next parsed
\* position after p, or BatchSize + 1
NextParsed(b, p) ==
  LET later == {q \in p + 1 .. BatchSize : b[q] # Unparsed}
  IN IF later = {} THEN BatchSize + 1 ELSE Min(later)

\* get_pkt_set_state on the packet at position p (FALSE past the end)
Lookup(b, p, reg_sets) == p <= BatchSize /\ b[p] \in reg_sets

\* the range-finding loop: the first parsed position after p whose set is
\* not registered, or BatchSize + 1
RangeEnd(p) ==
  LET stops == {q \in p + 1 .. BatchSize : Parsed(q) /\ batch[q] \notin registered}
  IN IF stops = {} THEN BatchSize + 1 ELSE Min(stops)

\* Variant: the range's committed positions include end_n.
RangePositionsInclusive == {p \in startN .. endN : p <= BatchSize /\ Parsed(p)}

\* the parsed positions of the current range, start_n .. end_n - 1
RangePositions == {p \in startN .. endN - 1 : Parsed(p)}

\* rollback_pkt_set_states: copy every log entry back, in logging order
RollbackPktSetStates(s, lg) ==
  FoldLeft(LAMBDA acc, e : [acc EXCEPT ![e.key] = e.val], s, lg)

Init ==
  /\ batch = [p \in Pos |-> Unparsed]
  /\ pc = "start"
  /\ n = 1 /\ startN = 1 /\ endN = 1 /\ reg = FALSE
  /\ registered = Registered0
  /\ st = [k \in Keys |-> 0]
  /\ log = <<>>
  /\ aborts = 0
  /\ done = [k \in Keys |-> 0]
  /\ handled = [p \in Pos |-> 0]

\* the burst arrives; parse every packet, look up the first parsed one
Receive ==
  /\ pc = "start"
  /\ \E b \in Batches :
       /\ batch' = b
       /\ n' = NextParsed(b, 0)
       /\ reg' = Lookup(b, NextParsed(b, 0), registered)
  /\ pc' = "loop"
  /\ UNCHANGED <<startN, endN, registered, st, log, aborts, done, handled>>

\* "while (n < batch_size)" exits
Finish ==
  /\ pc = "loop"
  /\ n > BatchSize
  /\ pc' = "done"
  /\ UNCHANGED <<batch, n, startN, endN, reg, registered, st, log, aborts, done, handled>>

\* unknown path: the handler aborts or validation fails; unknown_restart
UnknownAbort ==
  /\ pc = "loop" /\ n <= BatchSize /\ ~reg
  /\ aborts < MaxAborts
  /\ aborts' = aborts + 1
  /\ UNCHANGED <<batch, pc, n, startN, endN, reg, registered, st, log, done, handled>>

\* Variant: the next packet is looked up before the commit.
UnknownCommitStaleLookup ==
  /\ pc = "loop" /\ n <= BatchSize /\ ~reg
  /\ \E create \in BOOLEAN :
       /\ registered' = IF create THEN registered \cup {batch[n]} ELSE registered
       /\ st' = IF create THEN [st EXCEPT ![batch[n]] = 1] ELSE st
       /\ done' = IF create THEN [done EXCEPT ![batch[n]] = 1] ELSE done
  /\ handled' = [handled EXCEPT ![n] = @ + 1]
  /\ n' = NextParsed(batch, n)
  /\ reg' = Lookup(batch, NextParsed(batch, n), registered)
  /\ UNCHANGED <<batch, pc, startN, endN, log, aborts>>

\* unknown path: the transaction validates; add_pkt_set_commit creates the
\* set if the handler staged it (the new state reflects this packet); the
\* next parsed packet is looked up after the commit
UnknownCommit ==
  /\ pc = "loop" /\ n <= BatchSize /\ ~reg
  /\ \E create \in BOOLEAN :
       /\ registered' = IF create THEN registered \cup {batch[n]} ELSE registered
       /\ st' = IF create THEN [st EXCEPT ![batch[n]] = 1] ELSE st
       /\ done' = IF create THEN [done EXCEPT ![batch[n]] = 1] ELSE done
  /\ handled' = [handled EXCEPT ![n] = @ + 1]
  /\ n' = NextParsed(batch, n)
  /\ reg' = Lookup(batch, NextParsed(batch, n), registered')
  /\ UNCHANGED <<batch, pc, startN, endN, log, aborts>>

\* registered path: find the range of consecutive registered packets (the
\* lookups rejuvenate them; reg ends FALSE)
RangeStart ==
  /\ pc = "loop" /\ n <= BatchSize /\ reg
  /\ startN' = n
  /\ endN' = RangeEnd(n)
  /\ n' = RangeEnd(n)
  /\ reg' = FALSE
  /\ pc' = "restart"
  /\ UNCHANGED <<batch, registered, st, log, aborts, done, handled>>

\* Variant: the log is not reset on restart.
RestartKeepsLog ==
  /\ pc = "restart"
  /\ n' = startN
  /\ pc' = "handler"
  /\ UNCHANGED <<batch, startN, endN, reg, registered, st, log, aborts, done, handled>>

\* restart: n = start_n; reset_log_pkt_set_state
Restart ==
  /\ pc = "restart"
  /\ n' = startN
  /\ log' = <<>>
  /\ pc' = "handler"
  /\ UNCHANGED <<batch, startN, endN, reg, registered, st, aborts, done, handled>>

\* log_one_pkt_set_state then the handler on packet n, which completes
HandlerRun ==
  LET k == batch[n]
  IN /\ pc = "handler"
     /\ log' = Append(log, [key |-> k, val |-> st[k]])
     /\ st' = [st EXCEPT ![k] = @ + 1]
     /\ n' = NextParsed(batch, n)
     /\ pc' = IF NextParsed(batch, n) < endN THEN "handler" ELSE "validate"
     /\ UNCHANGED <<batch, startN, endN, reg, registered, aborts, done, handled>>

\* log_one_pkt_set_state then the handler on packet n, which returns
\* ABORT_HANDLER, before or after writing its state; rollback; restart
HandlerAbort ==
  LET k == batch[n]
      lg == Append(log, [key |-> k, val |-> st[k]])
  IN /\ pc = "handler"
     /\ aborts < MaxAborts
     /\ \E wrote \in BOOLEAN :
          st' = RollbackPktSetStates(IF wrote THEN [st EXCEPT ![k] = @ + 1] ELSE st, lg)
     /\ log' = lg
     /\ aborts' = aborts + 1
     /\ pc' = "restart"
     /\ UNCHANGED <<batch, n, startN, endN, reg, registered, done, handled>>

\* RLU_READER_UNLOCK validates: the range's effects are committed
ValidateCommit ==
  /\ pc = "validate"
  /\ done' = [k \in Keys |->
                done[k] + Cardinality({p \in RangePositions : batch[p] = k})]
  /\ handled' = [p \in Pos |-> IF p \in RangePositions THEN handled[p] + 1 ELSE handled[p]]
  /\ pc' = "loop"
  /\ UNCHANGED <<batch, n, startN, endN, reg, registered, st, log, aborts>>

\* validation fails: rollback; restart
ValidateAbort ==
  /\ pc = "validate"
  /\ aborts < MaxAborts
  /\ st' = RollbackPktSetStates(st, log)
  /\ aborts' = aborts + 1
  /\ pc' = "restart"
  /\ UNCHANGED <<batch, n, startN, endN, reg, registered, log, done, handled>>

\* process_pkt has returned; the worker receives no further packets
Idle ==
  /\ pc = "done"
  /\ UNCHANGED vars

Next ==
  \/ Receive \/ Finish \/ UnknownAbort \/ UnknownCommit \/ RangeStart
  \/ Restart \/ HandlerRun \/ HandlerAbort \/ ValidateCommit \/ ValidateAbort
  \/ Idle

Spec == Init /\ [][Next]_vars

-----------------------------------------------------------------------------
(* Properties                                                              *)

TypeOK ==
  /\ batch \in Batches
  /\ pc \in {"start", "loop", "restart", "handler", "validate", "done"}
  /\ n \in 1 .. BatchSize + 1 /\ startN \in Pos /\ endN \in 1 .. BatchSize + 1
  /\ reg \in BOOLEAN
  /\ registered \subseteq Keys
  /\ st \in [Keys -> 0 .. StateMax]
  /\ log \in Seq(Entry) /\ Len(log) <= BatchSize
  /\ aborts \in 0 .. MaxAborts
  /\ done \in [Keys -> 0 .. BatchSize]
  /\ handled \in [Pos -> 0 .. MaxAborts + 1]

(* The path process_pkt takes for packet n is chosen on a current lookup: *)
(* at the top of the loop, reg_pkt_set says whether packet n's set is in  *)
(* the flow table now.  The lookups are made at different points (before *)
(* the loop, in the range-finding loop, after an unknown packet's         *)
(* commit); a stale FALSE would create a set twice, a stale TRUE would    *)
(* hand a handler a state that does not exist.                            *)
LookupCurrent ==
  pc = "loop" /\ n <= BatchSize => (reg <=> batch[n] \in registered)

(* When process_pkt returns, the handler of every parsed packet has run   *)
(* in exactly one committed transaction, and no unparsed packet's has:    *)
(* the reruns after aborts, the range boundaries and the skipping of      *)
(* unparsed packets neither drop nor repeat a packet.                     *)
AllPacketsHandledOnce ==
  pc = "done" => \A p \in Pos : handled[p] = IF Parsed(p) THEN 1 ELSE 0

(* Between transactions, the state of every registered packet set is the  *)
(* effect of exactly the committed handler runs on its packets: the       *)
(* rollback after ABORT_HANDLER or a failed validation undoes all the     *)
(* writes of the aborted run, so the rerun applies each packet once.      *)
BatchEffectsOnce ==
  pc \in {"loop", "done"} => \A k \in registered : st[k] = done[k]

=============================================================================
