# TLA+ models of the NFOS state-management core

This directory holds TLA+ models of the multi-core state-management runtime under
`src/src/`. All modules are written from the C source; line references point into
`src/src/`. `PROJECT.json` maps every modelled definition to the lines it
translates and lists the runs, mutants, findings and hazards.

## 1. The system

### Components and how they interact

| Component | Source | State | Operations |
|---|---|---|---|
| Partitioned index allocator (lock-based) | `concurrent-double-chain-impl.c`, `concurrent-double-chain.c` | one cell array (`prev`, `next`, `list_ind`, `time`, plus the map's `id` and `map_chain_next`); per core an alloc list (doubly linked, oldest first) and a free list (singly linked); one global free list; an MCS lock per core plus a global lock | init, has_free_indexes, allocate (local, then global with refill), free, rejuvenate, get_oldest, has_expired, expire_one, is_allocated |
| MCS lock | `include/lock.h` | per lock the tail pointer `lock->qnode`; per waiting thread a stack qnode (`locked`, `next`) | mcslock_init, mcslock_lock (swap, link, spin), mcslock_unlock (check, CAS, wait for the successor, hand over) |
| Hash index | `concurrent-map.c` | per partition a power-of-two bucket array; collision chains run through `map_chain_next` of the allocator cells; the key lives in the cell's `id` | get, put (append at the chain tail), erase (assumes the key is present) |
| Flow table (packet-set manager) | `pkt-set-manager.c` | allocator + hash index + a vector of packet-set states; a per-core log entry `add_pkt_set_log_entry` | add_pkt_set_log_clear / add_pkt_set_log (stage) / add_pkt_set_commit, get_pkt_set_state (lookup + rejuvenate), delete_expired_pkt_sets (sweep) |
| Data plane | `data-plane.c` | per-core transaction state; in the batching variant a per-core log of mutable packet-set states | process_pkt without batching (no-state, hit and unknown paths, each a retried transaction) and with batching (batch transaction with rollback and replay) |
| Worker loop | `nf.c` (`process_main`) | per-core partition = core | per iteration: delete_expired_pkt_sets(now, core), then receive a burst and process_pkt each packet |
| RLU index allocator | `double-chain-impl.c`, `double-chain.c` | same lists as above, cells accessed through RLU | allocate (local, global, refill with try-locks and aborts), free, is_allocated |
| RLU expiring allocator | `double-chain-exp.c` | same lists, deadlines, a shared round-robin expiry cursor `curr_free_list` | allocate, rejuvenate, expire_one_index, is_index_allocated |
| Open-addressing map | `map.c` | busybits, keys, key hashes, chain counters, values | get, put, erase |
| Mergeable object | `mergeable-obj.c` | per-core replicas, per-core cached merged value with a timestamp | update (own replica), read (re-merge when stale) |
| Consistent hashing table | `cht.c` | the Maglev preference table | fill, find_preferred_available_backend |
| IPv4 FIB | `nf/common/mtrie.c`, `mtrie.h`, `load-balance.c`, `fib_table.h` | per device a FIB: a 16-bit root ply of leaves and their prefix lengths; 8-bit plies taken from one pool `ip4_ply_pool` shared by all FIBs and never returned; a pool of load balances (one dpo: drop, forward to a device, or load-balance) | ip4_mtrie_init, ip4_fib_mtrie_route_add (set_root_leaf, set_leaf, set_ply_with_more_specific_leaf, ply_create), the three lookup steps, load_balance_create |
| Firewall (network function) | `src/nf/fw/main.c` | per connection (packet set, one id for both directions): `internal_device`, the LAN device it was opened from, and `tcp_flag`, the TCP flags seen from each side | nf_unknown_pkt_set_handler (a WAN packet is dropped, a LAN packet registers its connection through add_pkt_set), pkt_handler (track_session on a TCP packet, then send by the stored device or the LAN FIB) |
| EI-NAT (network function) | `src/nf/ei-nat/main.c` | session map and user map; two RLU allocators of session indexes (TCP, UDP) and one of users; per session a list node, `last_used` and `user_index`; per user the head of its session list and `num_sessions` | pkt_handler from the LAN: new session (allocate index, user if new, insert at the list head), known session (refresh and move to the front); nat_pkt_action (translate, look the destination up in the LAN FIB, drop or send) |

The data plane runs one pinned worker per core. RSS sends every packet of a
packet set (flow) to one core, and that core's partition holds the set's allocator
index, hash-index entry and vector slot. A core writes its own partition's lists
directly. The one piece of shared state in the lock-based allocator is the free
lists: a core whose local free list and the global list are empty refills the
global list with one index from every core's free list, under all the locks.
Application handlers run inside RLU (mv-RLU) transactions. A transaction aborts
on conflict and reruns from the start. A new packet set is staged in the per-core
log during the transaction and committed only after the transaction validates.

### Hard behaviours

- Interleaving of the owner's unlocked alloc-list updates with other cores'
  refills of its free list (allocator, lines 117-125, 184-185, 246-253).
- A stale check: `add_pkt_set_log` reads the free list in the handler, and the
  allocation happens in `add_pkt_set_commit` after validation. Its result is
  never checked (`pkt-set-manager.c:89`, `:110`).
- Rollback and replay after an abort (data-plane.c), and unbounded retry loops.
- Edge cases of the list encoding: `next == prev` means "free" or "only element";
  a remainder in the initial chunking.
- Map chains that reuse the cells of freed indexes (`map_chain_next` must be -1).
- Time: the expiry sweep stops at the first live index, which is correct only if
  every alloc list is sorted by time.

### Properties that make each component correct

- **Allocator.**
  - Every list is a well-formed cycle and no cell is on two lists.
  - Every index is on exactly one list (conservation).
  - Free and rejuvenate succeed exactly on the caller's own indexes.
  - An allocation fails only when every pool is empty.
  - Alloc lists are in recency order.
  - Rejuvenate refreshes the time.
- **Hash index + flow table.**
  - Map entries and allocated indexes agree, partition by partition.
  - Chains are well formed and hold keys of their bucket only, with no duplicates.
  - Vector slots hold the state created for their key.
  - A staged create can allocate.
  - A refused create means exhaustion.
  - An active flow is not swept.
- **Data plane.** After an abort the packet-set states are back to their values
  before the transaction, so each packet's effect is applied once.
- **Open-addressing map.** `get` finds every key that was put and not erased, and
  the chain counters count the keys whose probe passes the slot.
- **Mergeable object.** A read is never more than `staleness` behind the merge of
  the replicas (not modelled; see section 5).
- **FIB.** Every lookup returns the longest route covering the address, and
  the plies fit the pool.
- **CHT.** Every bucket's row is a permutation of the backends, and a flow that
  needs a backend gets the allocated one its hash prefers most.

## 2. Modules

| Module | Models | Notes |
|---|---|---|
| `ConcurrentDChain` | the cell array and every operation of `concurrent-double-chain-impl.c` / `concurrent-double-chain.c` | Operations are functions from the array before the call to the array after it, in the code's order of writes. An atomic step is a lock-protected section together with the owner-only unlocked list update next to it. This is sound because only the owner core touches its alloc list, and other cores reach its free list only under its lock. Head padding (`LIST_HEAD_PADDING`) is dropped: AH(c) = c, FH(c) = N + c, GH = 2N, cell = index + 2N + 1. |
| `McsLock` | `include/lock.h` | One action per statement group of `mcslock_lock` and `mcslock_unlock`: swap, link, spin; check `next`, CAS, wait for the link, hand over. `mpc[t]` is the point a thread has reached inside them. The qnode a thread passes for lock l is `<<t, l>>`, because it is a stack variable and a thread queues on one lock at a time. A field that the code never reads again is reset, which keeps dead stack frames out of the state. `held` is a ghost: the locks each thread holds. The x86 swap and CAS are locked instructions and the stores are fenced, so the steps are sequentially consistent. |
| `DChainClients` | one caller per core through the public entry points of `concurrent-double-chain.c`, under the locks of `concurrent-double-chain-impl.c` | `prog[c]` is what the core's call in progress has still to do, in the code's order: take a lock (`McsLock` steps), run a critical section, release a lock. A critical section is one step on the cells, together with the owner-only alloc-list update just before the lock (free's unlink) or just after it (allocate's append). A section may replace the rest of the program, as the code's branches do: an empty local list goes on to the global lock, and an empty global list takes every core's lock in ascending order. Calls without a lock (rejuvenate, rejected frees, nothing to expire) are one step. The time a call passes is kept in its program. `last` records the last call and its result. |
| `DChainLists` | the lists of both allocators read by walking `next` from each head, and the structural invariants | Shared by `DChainClients` and `RluDChain`. |
| `RluDChain` | `double-chain-impl.c` / `double-chain.c`, the RLU allocator used by the NFs for their own indexes (EI-NAT users and sessions) | It reuses the cell layout, init and list primitives of `ConcurrentDChain`, because the code performs the same writes. Every call is one atomic step: either its mv-RLU transaction commits, or a failing `RLU_TRY_LOCK` returns `ABORT_HANDLER` and the caller aborts, so the call leaves nothing behind. Allocation runs the local list, the global list and the refill as one step. `free` accepts an index allocated to any core and pushes it onto the caller's free list. |
| `DChainExp` | `double-chain-exp.c`, the RLU allocator with deadlines used by the bridge and maglev NFs, and the expiry transaction `exp_mac` of `nf/bridge/main.c` run by the periodic-handler core (maglev's is the same code) | A cell's `time` is its deadline, `curr_time + validity`. `clock` is the TSC and `coreNow[c]` is core c's `curr_time` snapshot; `Tick` advances the clock and lets every snapshot catch up to it, lagging by at most `MaxSkew` ticks. Allocation and rejuvenation are one step each, like `RluDChain`. The sweep is explicit: `SweepStart` reads `now` and clears `expiration_done`. The whole `while (!expiration_done)` loop of `expire_one_index_t` calls is the recursive operator `ExpireLoop`; it runs on a record of the cells, the cursor `curr_free_list` and `expiration_done`. The transaction commits, aborts inside the loop (keeping the cursor and `expiration_done` reached), or fails read validation after the loop. `SweepRetry` is the `retry_exp` label. It resets the cursor through `reset_curr_free_list` but, as in the code, not `expiration_done`. |
| `NfosMap` | `map.c`, the open-addressing map used by the NFs | Operators on a map value. A slot holds `busybits`, `khs`, the key, `vals` and `chns`. `FindFrom` is the probe loop of get and erase: it stops at the key, or at a slot that does not hold the key's hash and has `chns = 0`. `MapPut` takes the first unused slot. `ChainSlots` is the set of slots whose `chns` put and erase update, written as the code's two loops for a probe that wraps and one loop otherwise. Each put or erase is atomic, because an `ABORT_HANDLER` from a lock discards it. `NextPow2` is `next_pow2` with the bit operations of `Bitwise`; it runs once, in `MapInit`, whose result carries `capacity` as `map->capacity` does. The hash mask is written as the remainder, which it equals on a power-of-two capacity. |
| `Bridge` | the MAC table of `nf/bridge/main.c`: `pkt_handler`'s MAC learning and `exp_mac` over `dyn_map`, `dyn_heap`, `dyn_macs` and `dyn_vals` | It composes `DChainExp` and `NfosMap`. `Learn(c, k)` is one committed `pkt_handler` transaction: look up, then refresh (rejuvenate, then store `now`) only if `now > time + REFRESH_INTERVAL`, else allocate, store the MAC and time and put. `BridgeSweepCommit` is `SweepCommit` that also erases the MAC stored at every freed index. `lastSeen` is a history variable for the freshness property. |
| `Maglev` | `cht.c` and the backend choice of `nf/maglev/main.c`: `nf_init`'s fill, `heartbeat_handler`, `expire_backend`, `nf_unknown_pkt_set_handler`, `client_pkt_handler` and flow expiry | `ChtFill` is the fill loop as a RECURSIVE operator over its `(i, j)` iterations, on a record of `next[]`, the vector and `stray`, the indexes written past the vector. `Permutation` is the `offset`/`shift` construction. `ChtFindFrom` is the row scan of `find_preferred_available_backend`. The backends allocator (its deadlines and sweep are in `DChainExp`, its address map in `Bridge`) is reduced to the set `active` of allocated indexes. A heartbeat may take any free index; a sweep may free any non-empty set of them. `add_pkt_set` may fail, because the partition may be full. The FIB lookup is left out: only the load-balanced route is modelled. `out` records where the last client packet went. |
| `AbstractAllocator` | what the allocator promises, in sequences and sets | `DChainClients` instantiates it WITH a refinement mapping (lists read by walking `next` from each head) and checks `ImplementsAbstractAllocator`. |
| `FlowTable` | `pkt-set-manager.c` + `concurrent-map.c` on top of `ConcurrentDChain`, driven by the worker loop (`nf.c`) and the non-batching `process_pkt` (`data-plane.c`) | Per core: `wpc` ∈ {sweep, rx, handler, validate}. A loop iteration is a sweep of expired sets, then one packet. The transaction is a handler step that may abort nondeterministically (RLU validation failure or ABORT_HANDLER) and rerun. The network function is the firewall: a packet has a key, an incoming device and a TCP flag byte; the vector holds its `pkt_set_state` (`internal_device`, `tcp_flag` as two bytes) plus a ghost field naming the key the state was created for. Where a packet is sent is not state and is left out. The hash is a constant function, chosen so that keys collide. |
| `DataPlaneBatch` | the batching `process_pkt` of `data-plane.c` (`PKT_PROCESS_BATCHING` with `MUTABLE_PKT_SET_STATE`) for one burst on one core | `pc` follows the code's labels: the top of the `while (n < batch_size)` loop, `restart`, the handler loop and the `RLU_READER_UNLOCK` validation. An unknown packet's transaction is one step that commits (creating its set or not) or aborts. A range's handlers are one step each, and each logs the state it is given before it runs. A packet-set state is a counter that every handler run on the set increments, so the effect of a packet is visible. `log` is `pkt_set_state_log`, and a rollback is a fold over it in logging order. The flow table is reduced to the set of registered keys (it is modelled in `FlowTable`). |
| `EiNat` | `pkt_handler` of `nf/ei-nat/main.c` for packets from the LAN, with the session and user allocation, the per-user session lists and the external-tuple translation | One committed `pkt_handler` transaction is one step: `NewSession` or `KnownSession` (refresh and move to the front, refresh when already first, or no refresh within `EI_NAT_SECOND`), or `SessionPoolExhausted`, the `assert(false)` when the protocol's pool is full, which halts the NF. The allocators are sets of allocated indexes (`RluDChain` checks the allocator itself); the maps are functions, since they have twice as many slots as indexes and never fill. List writes go through `SetLink`, which resolves the head marker -1 to the user's record, as `get_sess_list_node` does. `SessIdToExtTuple` and `ExtTupleToSessId` are the code's arithmetic, byte swaps included. `Init` also builds both FIBs with `Mtrie` as `nf_init` does: the LAN's routes, then the WAN's, over one ply pool (`NfInitFibs`), and the two load balances (`Lbs`). `NatPktAction` is `nat_pkt_action`: the source rewrite, the lookup in the LAN FIB and the drop or send. `out` is the last packet translated: its key, destination, the source address and port written into it, and the device it leaves by. |
| `Mtrie` | the FIB of `nf/common/mtrie.c`, `mtrie.h` and `load-balance.c` | Pure operators on `[root, pool]`: the root ply of one FIB and the shared ply pool (`pool[i + 1]` is ply `i`, handed out in order as `ip4_ply_pool_index` does). Leaves are the code's integers (`1 + 2 * adj` terminal, `2 * i` a ply). `SetRootLeaf`, `SetLeaf` and `SetPlyWithMoreSpecificLeaf` are mutually RECURSIVE, each slot loop a `FoldLeft` over the slots in the code's order. The byte width is the constant `PlyBits` (8 in the code): root ply of two bytes, plies of one, four bytes to an address. `LpmAdj` is the reference: the longest route covering an address, the last added among equally long ones, over the default every root leaf starts with. |
| `MC_DChainClients`, `MC_FlowTable`, `MC_DataPlaneBatch`, `MC_RluDChain`, `MC_DChainExp`, `MC_Bridge`, `MC_Maglev`, `MC_EiNat` | instantiation for TLC | model values for keys, constant functions for dispatch and hash |

### Correspondence to the code

- `cells[x]` is `cells + x`, with fields `prev`, `next`, `list_ind` and `time`.
  `list_ind` is the core number, or -1 for a free cell (the code stores `c << 3`).
- The map's `id` and `map_chain_next` fields live in `FlowTable` as `cellId` and
  `chainNext`. Those are the same cell fields, kept in separate variables because
  only the map uses them.
- INT64_MAX, the time of a cell that is not allocated, is `Never` = MaxTime + 1.
  It is later than every time the model uses.
- An uninitialized `int index` in `add_pkt_set_commit` (allocation failure) is any
  index.

## 3. Runs

| Run | Config | Expect | Checks |
|---|---|---|---|
| dchain_lists | `MC_DChainClients.cfg`: 2 cores, 2 indexes, times 0..1, weak fairness of every call in progress | pass (about 244k states) | TypeOK, ListsWellFormed, IndexesConserved, ExpiryScanComplete, LocksExclusive, CallsReturn, ImplementsAbstractAllocator |
| dchain_rejuvenate_alone | `MC_DChainRejuvenate.cfg`: 1 core | violation | RejuvenateUpdatesTimestamp |
| flowtable | `MC_FlowTable.cfg`: 2 cores, 4 indexes, keys k1..k3 on core 0 (k1, k2 collide), k4 on core 1, times 0..2, validity 1; packets from the LAN or the WAN; k4 is TCP with packets carrying SYN | pass (about 1.2M states, about 80 s) | TypeOK, MapMatchesAllocator, LoggedCreateCanAllocate |
| rlu_dchain | `MC_RluDChain.cfg`: 2 cores, 4 indexes | pass (about 5.5k states) | TypeOK, IndexesConserved, ListsWellFormed, ImplementsRluAllocator |
| rlu_free_ownership | `MC_RluDChain_Ownership.cfg`: same constants | violation | FreeRejectsForeignIndex |
| exp_sweep_lost | `MC_DChainExp_SweepFreesAllExpired.cfg`: 2 cores, 4 indexes, clock 0..3, validity 1, no skew | violation | SweepFreesAllExpired |
| exp_deadline_order | `MC_DChainExp_AllocListsByDeadline.cfg`: skew 1 | violation | AllocListsByDeadline |
| bridge | `MC_Bridge.cfg`: 2 cores, 2 indexes, a 2-slot map, MACs k1..k3 (k1, k2 share a home slot), clock 0..3, validity 2, refresh interval 1 | pass (about 143k states) | BridgeTypeOK, ListsWellFormed, AllocListsByDeadline, MapChainsExact, MacTableConsistent, SweepFreesOnlyExpired, FreshMacsKept |
| maglev | `MC_Maglev.cfg`: height 5, 3 backends, flows f1, f2 with hashes 6 and 13 | pass (424 states) | TypeOK, ChtRowsArePermutations, PacketsGoToPreferred |
| batch | `MC_DataPlaneBatch.cfg`: every burst of 4 packets over sets a (registered) and b (new) or unparsed, at most 2 aborts | pass (about 5k states) | TypeOK, LookupCurrent, AllPacketsHandledOnce |
| batch_rollback | `MC_DataPlaneBatch_Effects.cfg`: same constants | violation | BatchEffectsOnce |
| einat | `MC_EiNat.cfg`: 2 cores, one external address, ports 1024..1025, 2 users, keys (a1,p1,TCP), (a1,p2,TCP), (a2,p1,TCP), (a1,p1,UDP), times 0..2, refresh interval 1; 1-bit address bytes, destinations 0, 1 and 5, ply pool of 5 | pass (about 238k states, about a minute) | TypeOK, UserListsExact, PoolsMatchSessions, TranslationInvertible, RoutedByLongestPrefix |

Why the bounds are enough:

- Two cores are the smallest number where one core's refill takes from another
  core's free list.
- In dchain_lists one index per core is enough for two-element alloc lists: a
  core whose own index is taken refills from the other core. It then holds the
  global lock and both core locks while the other core queues on its own lock,
  which is the case the lock order and the MCS hand-over must handle. Times 0
  and 1 let an index be stamped, refreshed with a newer time and found expired.
  With times 0..2 the run exceeds 5 minutes under the locks. With 4 indexes the
  refinement check runs for over 20 minutes. The list invariants alone were also
  checked with 4 indexes (about 370k states), with no error.
- Two indexes per core give two-element alloc lists. Rejuvenation then really
  moves a cell, and a map chain can hold two entries.
- Core 0 gets three keys for two indexes, so its partition fills up, refuses
  creates and recycles indexes through expiry.
- In the flowtable run, every packet may come from the LAN or the WAN, so a
  connection is registered, refused (WAN) and hit from both sides. One TCP
  connection (k4, alone on core 1 with two indexes) with one flag value
  (SYN) makes `track_session` change the stored state; the flags are not
  read by any property, so more flag values would only multiply the states.
- A burst of 4 packets over one registered and one new set covers the relevant shapes:
  - a range with two packets of one set;
  - an unknown packet that creates the set of a later packet;
  - ranges on both sides of an unknown packet;
  - leading and inner unparsed packets.
  Two aborts allow an abort in a range and another in its rerun, or one in each
  of two transactions.
- Two or three time values are enough to stamp, refresh and expire.
- The expiring allocator's own invariants (ListsWellFormed, AllocListsByDeadline,
  SweepFreesOnlyExpired) are checked in the bridge run, whose learning handler
  drives every allocator operation. The violation runs on `MC_DChainExp` use a
  larger allocator: the clock runs 0..3 with validity 1, so deadlines 1..4 are all reachable. An index can be stamped, expire and
  be swept, and a sweep can see some indexes expired and others not. `MaxCalls` (indexes plus cores) is the number of
  `expire_one_index_t` calls a sweep can make before `expiration_done` is certain, so the loop is never cut short. A skew of
  one tick is the smallest in which two cores stamp different deadlines at the same moment.
- In `Bridge`, three MACs over two indexes fill the table, so allocation fails.
  k2's home slot is taken by k1, so its probe wraps to slot 0. That exercises
  the wrapped chain update and a lookup that must skip a foreign slot.
  With validity 2 and refresh interval 1, the clock range 0..3 is the least
  in which a MAC is refreshed, skipped by the refresh optimisation, expires
  and is swept. A larger table or clock puts the run over 5 minutes.
- The refinement run uses one index per core. The walk-based mapping makes larger
  instances slow, and one index per core already makes refills take from the other
  core and makes cross-core frees and rejuvenations be rejected.
- In `EiNat`, two ports on one address give each protocol a pool of two
  session indexes. Three TCP keys over them fill the TCP pool, so the
  exhaustion `assert` is reached, and the UDP key exercises the offset of
  the UDP indexes. Address a1 has three keys, so its list grows to three
  sessions (two TCP, one UDP) and a move to the front can take a middle or
  last node. Times 0..2 with refresh interval 1 reach both the refresh and
  the skipped refresh. The run uses `CHECK_DEADLOCK FALSE`, because the
  halted NF really stops.
- The FIB has 1-bit address bytes: a root ply of 4 slots, plies of 2, 16
  addresses. The trie's control (which branch of `set_leaf` a route takes,
  when a ply is created, when a route goes around a more specific ply)
  depends on how a route's length compares with the ply boundaries, not
  on the width. nf_init's two routes (`/0`, then `0.0.0.0/32`) take two
  plies per FIB, as in the code, and the second FIB's plies come later in
  the shared pool. Destinations 0, 1 and 5 reach the drop route, the
  forward route through the plies `0.0.0.0/32` created, and a root leaf;
  `RoutedByLongestPrefix` also looks up all 16 addresses in both FIBs.

Every passing property has a mutant in `PROJECT.json`. Each mutant is a variant
operator defined next to the code definition it replaces, and TLC finds it.
Examples: the refill loop skipping the last core; `Unlink` without the back link;
`concurrent_map_erase` without resetting `map_chain_next`; `add_pkt_set_log`
without its free-list check.

### What the runs show

- The MCS lock never lets two cores hold one lock, including in the window
  where a new locker has swapped itself in but not yet linked while the holder
  releases. Every allocator call returns, so the refill's order (global lock,
  then per-core locks ascending) leaves no cycle of waiting cores. The mutants
  show what each property catches: a locker that does not wait for the
  hand-over breaks exclusion, and a release that stores NULL instead of using
  CAS leaves the waiter spinning forever.
- The lock-based allocator keeps its lists intact under every interleaving of two
  cores, loses no index that init placed on a list, and keeps alloc lists sorted
  by time. It also implements the abstract allocator (results, recency, refill
  policy, failure only on exhaustion).
- **Finding (code bug).** `rejuvenate_index` returns 1 without writing the time
  when the index is the only one allocated on its core (line 298). In the flow
  table, a partition's only packet set is then swept `validity` after its
  creation, even while packets keep arriving.
- The RLU allocator keeps its lists intact and loses no index, even when a core
  frees indexes that another core allocated. It implements `ARluSpec`, the
  abstract allocator in which a freed index joins the freeing core's pool.
  Indexes therefore drift between partitions; nothing in the code bounds
  that drift. This holds on the assumption that mv-RLU validation makes every
  committed call atomic. The unlocked read of the free-list head
  (`double-chain-impl.c:80`) relies on that validation.
- **Finding (code bug).** In the batching data plane with mutable packet-set state,
  a range that holds two packets of the same set logs that set twice. The second
  log entry already carries the first packet's write. `rollback_pkt_set_states`
  copies entries back in logging order (line 58), so the last copy wins: after
  an abort the set keeps the first packet's write, and the replay applies it a
  second time (BatchEffectsOnce). Restoring in reverse order would fix it.
  The same runs show that the path taken for each packet rests on a current
  lookup, and that every parsed packet is handled in exactly one committed
  transaction.
- For maglev, height 5 is prime and 3 backends give rows of three, so a
  backend can be first, second or last in a row. Every subset of backends comes
  and goes, and the two flows sit in different buckets (1 and 3).
- Observed while modelling the CHT fill, with no run kept because `CHT_HEIGHT` is
  set outside the repository: with a height of 4 and 2 backends, backend 1's
  shift is 2, which is not coprime with 4. The fill then writes index 8 of an
  8-entry vector, and bucket 0's row is `[0, 0]`, so its flows never reach
  backend 1 (ChtRowsArePermutations fails in the initial state). Nothing in
  `cht.c` or `nf_init` checks that the height is usable.
- Observed while modelling init, without a run of its own because a unit test
  with 5 indexes on 2 cores shows it: when `index_range` is not a multiple of
  the core count, the remainder indexes are on no list (both allocators).
- Observed while modelling, and no longer kept as a run: `add_pkt_set_log`
  refuses a new packet set as soon as the partition's own free list is empty. LoggedCreateCanAllocate
  shows the consequence: in the flow table, the global list and the refill are
  never used (the commit always finds a local index). Cross-partition migration
  therefore never happens, while the spec says exhaustion is reported only after
  the global list and refill fail.
- With the firewall as the network function, the flow table stays
  consistent while WAN packets of unknown connections are refused and LAN
  packets register theirs (MapMatchesAllocator, LoggedCreateCanAllocate).
  No property is stated about the TCP flags the firewall stores: nothing in
  the firewall reads them. The model keeps their one flaw as the code has
  it: `nf_unknown_pkt_set_handler` (`fw/main.c:313`) runs `pkt_handler` on
  its stack `local_state` after `add_pkt_set_log` has already copied it, so
  the flags of a connection's first packet, the LAN SYN, are never stored.
  It is listed as a hazard; showing it would take a violation run.

- **Finding (divergence from the spec).** The RLU `free_index` checks only that the index is not free (line 237). A core frees
  an index that another core allocated, and the index joins the freeing core's free list. spec.md (ownership containment) says
  such a free fails (FreeRejectsForeignIndex).
- The expiring allocator keeps its lists well formed through every interleaving of allocations, rejuvenations and sweeps,
  including sweeps that abort inside the loop or fail validation and retry. With one clock for all cores the alloc lists stay
  ordered by deadline, and a committed sweep frees only indexes whose deadline is before its `now`.
- **Finding (code bug).** `exp_mac` (bridge, `main.c:234`) and the maglev expirer (`main.c:609`) set `expiration_done = 0`
  before the `retry_exp` label. When `RLU_READER_UNLOCK` fails after the loop has finished, the retry skips the loop and commits
  nothing. The expired entries stay until the next period (exp_sweep_lost).
- **Finding (divergence from the spec).** `curr_time` is per core and refreshed by each core on its own schedule. A core whose
  snapshot is one tick ahead rejuvenates another core's index with a later deadline. The owner then appends an index with an
  earlier deadline behind it. `expire_one_index_t` stops at the first unexpired cell, so that earlier index is not freed when
  it expires. spec.md asks that expiry free exactly the expired indexes (exp_deadline_order).

- The bridge's map, allocator and vectors agree through every interleaving of
  MAC learning on two cores and expiry sweeps with aborts and retries. A
  lookup finds every learned MAC at its index, and no map entry survives its
  index being freed. The chain counters stay exact across probes that wrap.
  The refresh optimisation keeps its promise: a sweep never erases a MAC seen
  within `Validity - RefreshInterval`.
- With a prime height, the Maglev fill gives every bucket a row that lists each
  backend once and writes nothing past the vector. A new flow, or a flow whose
  backend expired, goes to the allocated backend its hash prefers most in
  Maglev's order, whatever backends came and went. A packet is dropped only when
  no backend is allocated.
- The EI-NAT's per-user session lists stay exact doubly linked lists through
  every interleaving of new sessions and moves to the front on two cores, with
  `num_sessions` equal to their length. The session allocators hold exactly the
  indexes of live sessions, UDP ones offset by the TCP pool size. Every sent
  packet's source tuple is in the configured pool, in network order, and maps
  back to its own session, so two sessions never share an external tuple.
- The FIBs EI-NAT's `nf_init` builds answer every address with its longest
  covering route, the WAN's FIB with its plies later in the shared pool
  included. Each EI-NAT packet leaves by the device that route names, or
  is dropped for `0.0.0.0`. `nf_init`'s plies (four) fit
  `IP4_PLY_POOL_CAPACITY` (five). Routes added in other orders (a shorter
  route after longer ones, the path through `set_ply_with_more_specific_leaf`)
  never happen in this program and are not checked.
- Observed while modelling EI-NAT, with no run kept: `drop_pkt` is a no-op,
  so a packet with TTL <= 1 that the handler decides to drop is sent anyway.
  Packets from the WAN hit `assert(false)`.

## 4. Fairness

`dchain_lists` checks `CallsReturn` under `FairSpec`: weak fairness of
`CallStep(c)`, the steps of a call already in progress on core c. Each core is
a pinned lcore thread that runs its call to the end. The spin loops are guards
that stay true once the hand-over or the link has happened, because nothing
resets them, so weak fairness is enough. Starting a call is not assumed: a core
may stay idle.

No other liveness property is checked. The bridge's expiry is the natural
candidate: `periodic_handler_main` runs `while (1) { sleep; tick; handler }`,
which justifies weak fairness of the sweep's start and retry. An expired MAC is
then freed only if validation eventually succeeds, so the property needs strong
fairness of the commit as a hypothesis. At the bridge run's bounds, that check
ran for over 13 minutes without finishing, and a smaller instance would no
longer reach the allocation failures and wrapped probes the run is for. A worker loops forever, but each of its
transactions may abort and restart without bound (`goto restart`). Progress of a
flow therefore needs an assumption that validation eventually succeeds, and the
code does not guarantee it. This is recorded as a hazard.

## 5. Not modelled, and the plan

Order of the remaining work, most important first:

1. (done: `DataPlaneBatch`.) Its remaining piece is the no-pkt-set path, which
   touches no packet-set state.
2. (done: `RluDChain`.)
3. (done: `DChainExp`.) Still open: a refinement of `AbstractAllocator`
   extended with deadlines, and the liveness of a sweep under a fairness
   assumption on validation.
4. (done: `NfosMap`, checked through `Bridge`.) The map is checked only as the
   bridge uses it, with two slots. A run of its own with four slots would
   reach the first loop of the wrapped chain update.
5. (done: `Maglev`, for the CHT fill and find and maglev's backend choice.)
6. `MergeableObj`: replicas and a cached merge with the staleness bound. No
   network function uses it, only `tests/me-obj`, so it is not in the hazard list. The case worth a run is that
   the cache is refreshed inside a transaction that can abort. RLU_DEREF of the
   caller's own locked replica returns its uncommitted copy, so after an abort
   the cache keeps a sum that counts an update which never committed.

Left out for good:

- DPDK I/O and setup, the load-balancing migration (`LOAD_BALANCING`) and
  `scalability-profiler.c`.
- The NF applications under `src/nf/` beyond those modelled (bridge in
  `Bridge` and `DChainExp`, maglev in `Maglev`, ei-nat in `EiNat`, the
  firewall in `FlowTable`): see the entries below.
- maglev's FIB: `nf/maglev/main.c` uses `IP4_PLY_POOL_CAPACITY`,
  `LB_CAPACITY`, `N_FIB_TABLE` and the LAN device numbers, and nothing in the
  repository defines them, so the pool sizes its routes must fit are unknown.
  `load_balance_set_dscp`, which only maglev calls, is left out with it.
- In `Mtrie`: `n_non_empty_leafs` and `dst_address_bits_base`, which the code
  only writes (and asserts the count is not negative).
- In `EiNat`: the WAN path (an `assert(false)` in this prototype), the TTL
  check (its drop is a no-op), the static mappings (`mapping_hash` is never
  filled) and session expiry (`dealloc_session` is never called).
- The firewall's forwarding: the TTL check (its `drop_pkt` is a no-op, so a
  packet with TTL 1 is still sent), the FIB (the same two routes as
  ei-nat's, checked in `EiNat`) and the MAC rewrite decide only where a
  packet goes, which `FlowTable` leaves out.
- fw-nat: its header says this prototype does not compile, its WAN handler is
  `assert(false)`, and its LAN path is ei-nat's without users. It has the
  firewall's first-packet loss too: `flow_size` is incremented on the
  local copy after `add_pkt_set` has copied it.
- The dummy NF: its handlers only write 0 into a vector initialised to 0 and
  register every new packet set, which `FlowTable` already covers.
- The related-packet-set hack (`has_related_pkt_sets`).
- The mv-RLU library, which is not in the repository.
