----------------------------- MODULE FlowTable -----------------------------
(***************************************************************************)
(* The packet-set manager (src/src/pkt-set-manager.c) with its hash index *)
(* (src/src/concurrent-map.c) and the allocator (ConcurrentDChain), driven *)
(* by the per-core worker loop of src/src/nf.c (process_main) and the      *)
(* non-batching process_pkt of src/src/data-plane.c.                      *)
(*                                                                         *)
(* Each core c owns partition c: its map buckets, the collision chains    *)
(* threaded through map_chain_next of its allocated cells, its alloc list *)
(* and its free list.  The only state another core writes is c's free    *)
(* list, when a global allocation refills the global list.               *)
(*                                                                         *)
(* A worker loop iteration first sweeps expired packet sets              *)
(* (delete_expired_pkt_sets), then handles one packet whose packet-set id *)
(* (a key) RSS dispatched to this core.  A packet of a known key runs the *)
(* handler on its state; a packet of an unknown key runs                  *)
(* nf_unknown_pkt_set_handler, which may stage a new packet set           *)
(* (add_pkt_set_log); the transaction may abort and rerun, and once it    *)
(* validates, add_pkt_set_commit allocates, puts and writes the vector.  *)
(*                                                                         *)
(* The network function is the firewall of src/nf/fw/main.c.  Its        *)
(* dispatcher gives the packets of a connection one packet-set id in both *)
(* directions; a packet set's state is the LAN device the connection was  *)
(* opened from and the TCP flags seen from each side.  An unknown         *)
(* connection is registered by its first LAN packet and a WAN packet of   *)
(* one is dropped.  Where a packet is sent (the FIB for LAN packets, the  *)
(* stored LAN device for WAN packets) is not state and is left out.      *)
(***************************************************************************)
EXTENDS ConcurrentDChain, SequencesExt, Bitwise

CONSTANTS
  Keys,       \* packet-set ids
  NoKey,      \* model value: an id field never written
  KeyCore,    \* [Keys -> Cores]: the core RSS dispatches a key to
  NumBuckets, \* num_buckets_per_partition (a power of two)
  KeyHash,    \* [Keys -> Nat]: rehash(khash(key))
  Validity,   \* pkt_set_validity_duration
  KeyProto,   \* [Keys -> {PROTOCOL_TCP, UDP}]: the connection's protocol
  TcpFlags    \* the TCP flag bytes (payload[13]) the packets carry

ASSUME KeyCore \in [Keys -> Cores]
ASSUME KeyHash \in [Keys -> Nat]
ASSUME Validity \in Nat
ASSUME TcpFlags \subseteq 0 .. 255

PROTOCOL_TCP == 6
LAN_DEVICE == 0
WAN_DEVICE == 1
Devices == {LAN_DEVICE, WAN_DEVICE}

VARIABLES
  buckets,    \* [Cores -> [Buckets -> Idx \cup {-1}]]: map->buckets
  chainNext,  \* [Idx -> Idx \cup {-1}]: cell->map_chain_next
  cellId,     \* [Idx -> Keys \cup {NoKey}]: cell->id
  vec,        \* [Idx -> PktSetState]: the pkt_set_state vector; a state
              \* also names (ghost field key) the key it was created for
  logEntry,   \* per core add_pkt_set_log_entry: [add, state]
  wpc,        \* per core: "sweep", "rx", "handler", "validate"
  pktKey,     \* per core: key of the packet being handled
  pktDev,     \* per core: its incoming device
  pktTime,    \* per core: the now passed to process_pkt
  now,        \* nfos_get_time()
  lastSeen    \* ghost: per key, time of the last packet that was handled

vars == <<cells, buckets, chainNext, cellId, vec, logEntry, wpc, pktKey,
          pktDev, pktTime, now, lastSeen>>

Buckets == 0 .. NumBuckets - 1

\* bucket_id within the partition: hash & (num_buckets_per_partition - 1)
BucketOf(k) == KeyHash[k] % NumBuckets

\* pkt_set_state_allocate: the vector's initial states
NoFlags == [side \in 0 .. 1 |-> 0]
NoState == [key |-> NoKey, internal_device |-> 0, tcp_flag |-> NoFlags]

NoLog == [add |-> FALSE, state |-> NoState]

Init ==
  /\ cells = InitCells
  /\ buckets = [c \in Cores |-> [b \in Buckets |-> -1]]
  /\ chainNext = [i \in Idx |-> -1]
  /\ cellId = [i \in Idx |-> NoKey]
  /\ vec = [i \in Idx |-> NoState]
  /\ logEntry = [c \in Cores |-> NoLog]
  /\ wpc = [c \in Cores |-> "sweep"]
  /\ pktKey = [c \in Cores |-> NoKey]
  /\ pktDev = [c \in Cores |-> LAN_DEVICE]
  /\ pktTime = [c \in Cores |-> 0]
  /\ now = 0
  /\ lastSeen = [k \in Keys |-> -1]

-----------------------------------------------------------------------------
(* The hash index: one bucket array per partition, chains through cells. *)

\* the indexes on the chain of bucket b of partition c, in order
ChainOf(c, b) ==
  LET RECURSIVE Walk(_, _)
      Walk(i, n) == IF i = -1 \/ n = 0 THEN <<>> ELSE <<i>> \o Walk(chainNext[i], n - 1)
  IN Walk(buckets[c][b], Capacity + 1)

\* concurrent_map_get: the index holding key k, or -1
MapGet(k, c) ==
  LET ch == ChainOf(c, BucketOf(k))
      hits == {p \in DOMAIN ch : cellId[ch[p]] = k}
  IN IF hits = {} THEN -1 ELSE ch[Min(hits)]

\* concurrent_map_put: append index i at the end of k's chain and write
\* its id; the new entry's map_chain_next is left as it is.
MapPut(k, c, i) ==
  LET b  == BucketOf(k)
      ch == ChainOf(c, b)
  IN /\ IF ch = <<>>
        THEN buckets' = [buckets EXCEPT ![c][b] = i] /\ UNCHANGED chainNext
        ELSE chainNext' = [chainNext EXCEPT ![Last(ch)] = i] /\ UNCHANGED buckets
     /\ cellId' = [cellId EXCEPT ![i] = k]

\* Variant: the erased entry keeps its map_chain_next.
MapEraseNoReset(k, c) ==
  LET b  == BucketOf(k)
      ch == ChainOf(c, b)
      p  == Min({q \in DOMAIN ch : cellId[ch[q]] = k})
  IN IF p = 1
     THEN /\ buckets' = [buckets EXCEPT ![c][b] = chainNext[ch[1]]]
          /\ UNCHANGED chainNext
     ELSE /\ chainNext' = [chainNext EXCEPT ![ch[p - 1]] = chainNext[ch[p]]]
          /\ UNCHANGED buckets

\* concurrent_map_erase: unlink the first entry with key k (the code
\* assumes one exists) and reset its map_chain_next to -1.
MapErase(k, c) ==
  LET b  == BucketOf(k)
      ch == ChainOf(c, b)
      p  == Min({q \in DOMAIN ch : cellId[ch[q]] = k})
  IN IF p = 1
     THEN /\ buckets' = [buckets EXCEPT ![c][b] = chainNext[ch[1]]]
          /\ chainNext' = [chainNext EXCEPT ![ch[1]] = -1]
     ELSE /\ chainNext' = [chainNext EXCEPT ![ch[p - 1]] = chainNext[ch[p]], ![ch[p]] = -1]
          /\ UNCHANGED buckets

-----------------------------------------------------------------------------
(* Worker steps of core c.                                                 *)

\* One iteration of the while loop of delete_expired_pkt_sets(now, c):
\* the oldest index expired before now - validity; the expired handler's
\* transaction (retried until it validates) reads its state; the map entry
\* is erased via the id stored in the cell; the index is freed.
SweepOne(c) ==
  LET o == GetOldestIndex(c)
  IN /\ wpc[c] = "sweep"
     /\ HasExpiredIndex(c, now - Validity)
     /\ MapErase(cellId[o], c)
     /\ FreeIndex(c, o)
     /\ UNCHANGED <<cellId, vec, logEntry, wpc, pktKey, pktDev, pktTime, now, lastSeen>>

\* ... the loop condition fails: the sweep is over, receive a packet
SweepDone(c) ==
  /\ wpc[c] = "sweep"
  /\ ~HasExpiredIndex(c, now - Validity)
  /\ wpc' = [wpc EXCEPT ![c] = "rx"]
  /\ UNCHANGED <<cells, buckets, chainNext, cellId, vec, logEntry, pktKey,
                 pktDev, pktTime, now, lastSeen>>

-----------------------------------------------------------------------------
(* The firewall's handlers (src/nf/fw/main.c).                            *)

\* the flag bytes a packet of key k can carry: payload[13] is read only
\* for TCP
PktFlags(k) == IF KeyProto[k] = PROTOCOL_TCP THEN TcpFlags ELSE {0}

\* track_session: as_u8[is_input] becomes old_flags | tcp_flag
TrackSession(st, isInput, f) == [st EXCEPT !.tcp_flag[isInput] = @ | f]

\* pkt_handler on the state st of a packet of key k from device d with
\* flags f: a TCP packet's flags are tracked on the side it came from
\* (is_input: not the WAN device); the rest of the handler (the TTL check,
\* the FIB lookup or the stored LAN device, send_pkt) only decides where
\* the packet goes
FwPktHandler(st, k, d, f) ==
  IF KeyProto[k] = PROTOCOL_TCP
  THEN TrackSession(st, IF d # WAN_DEVICE THEN 1 ELSE 0, f)
  ELSE st

\* nf_unknown_pkt_set_handler: a WAN packet is dropped; a LAN packet's
\* connection is registered with local_state = {internal_device: d,
\* tcp_flag: 0} through add_pkt_set, whose add_pkt_set_log copies the
\* state unless hasFree (the partition's own free list has an index) is
\* false; the pkt_handler call that follows updates only the local copy.
FwUnknownHandler(c, hasFree) ==
  LET st == [key |-> pktKey[c], internal_device |-> pktDev[c], tcp_flag |-> NoFlags]
  IN \/ pktDev[c] = WAN_DEVICE /\ logEntry' = [logEntry EXCEPT ![c] = NoLog]
     \/ pktDev[c] # WAN_DEVICE /\ hasFree
        /\ logEntry' = [logEntry EXCEPT ![c] = [add |-> TRUE, state |-> st]]
     \/ pktDev[c] # WAN_DEVICE /\ ~hasFree /\ logEntry' = [logEntry EXCEPT ![c] = NoLog]

-----------------------------------------------------------------------------
(* Worker steps of core c, continued.                                      *)

\* process_pkt for a packet of key k, from device d with TCP flags f, that
\* is in the map: get_pkt_set_state rejuvenates the index (its result is
\* ignored) and the handler's transaction runs on the state; an aborted
\* attempt is rolled back or, without MUTABLE_PKT_SET_STATE, left in place
\* and ORed again by the rerun, which comes to the same state.
PacketHit(c, k, d, f) ==
  LET i == MapGet(k, c)
  IN /\ wpc[c] = "rx"
     /\ KeyCore[k] = c
     /\ i # -1
     /\ \/ RejuvenateIndex(c, i, now)
        \/ (RejuvenateAlone(c, i) \/ RejuvenateFails(c, i)) /\ UNCHANGED cells
     /\ vec' = [vec EXCEPT ![i] = FwPktHandler(@, k, d, f)]
     /\ lastSeen' = [lastSeen EXCEPT ![k] = now]
     /\ wpc' = [wpc EXCEPT ![c] = "sweep"]
     /\ UNCHANGED <<buckets, chainNext, cellId, logEntry, pktKey, pktDev, pktTime, now>>

\* ... a packet of a key that is not in the map: the unknown-packet-set path
PacketMiss(c, k, d) ==
  /\ wpc[c] = "rx"
  /\ KeyCore[k] = c
  /\ MapGet(k, c) = -1
  /\ wpc' = [wpc EXCEPT ![c] = "handler"]
  /\ pktKey' = [pktKey EXCEPT ![c] = k]
  /\ pktDev' = [pktDev EXCEPT ![c] = d]
  /\ pktTime' = [pktTime EXCEPT ![c] = now]
  /\ lastSeen' = [lastSeen EXCEPT ![k] = now]
  /\ UNCHANGED <<cells, buckets, chainNext, cellId, vec, logEntry, now>>

\* add_pkt_set_log_clear, then nf_unknown_pkt_set_handler.
\* Variant: add_pkt_set_log does not check the partition's free list.
UnknownHandlerNoCheck(c) ==
  /\ wpc[c] = "handler"
  /\ FwUnknownHandler(c, TRUE)
  /\ wpc' = [wpc EXCEPT ![c] = "validate"]
  /\ UNCHANGED <<cells, buckets, chainNext, cellId, vec, pktKey, pktDev, pktTime, now, lastSeen>>

UnknownHandler(c) ==
  /\ wpc[c] = "handler"
  /\ FwUnknownHandler(c, HasFreeIndexes(c))
  /\ wpc' = [wpc EXCEPT ![c] = "validate"]
  /\ UNCHANGED <<cells, buckets, chainNext, cellId, vec, pktKey, pktDev, pktTime, now, lastSeen>>

\* RLU_READER_UNLOCK fails (or the handler returned ABORT_HANDLER):
\* nfos_abort_txn, goto restart_third
UnknownAbort(c) ==
  /\ wpc[c] = "validate"
  /\ wpc' = [wpc EXCEPT ![c] = "handler"]
  /\ UNCHANGED <<cells, buckets, chainNext, cellId, vec, logEntry, pktKey, pktDev, pktTime, now, lastSeen>>

\* The map put and vector write of add_pkt_set_commit, at index i
CommitAt(c, i) ==
  /\ MapPut(pktKey[c], c, i)
  /\ vec' = [vec EXCEPT ![i] = logEntry[c].state]

\* The transaction validated: add_pkt_set_commit.  The result of
\* concurrent_dchain_allocate_new_index (local list, else global list) is
\* not checked: when it fails, index is an uninitialized local, here any
\* index.
AddPktSetCommit(c) ==
  LET t == pktTime[c]
  IN /\ wpc[c] = "validate"
     /\ IF ~logEntry[c].add
        THEN UNCHANGED <<cells, buckets, chainNext, cellId, vec>>
        ELSE IF HasFreeIndexes(c)
        THEN cells' = LocalAllocCells(c, t) /\ CommitAt(c, LocalAllocated(c))
        ELSE IF ~GlobalAllocFails
        THEN cells' = GlobalAllocCells(c, t) /\ CommitAt(c, GlobalAllocated)
        ELSE UNCHANGED cells /\ \E i \in Idx : CommitAt(c, i)
     /\ wpc' = [wpc EXCEPT ![c] = "sweep"]
     /\ pktKey' = [pktKey EXCEPT ![c] = NoKey]
     /\ pktDev' = [pktDev EXCEPT ![c] = LAN_DEVICE]
     /\ pktTime' = [pktTime EXCEPT ![c] = 0]
     /\ UNCHANGED <<logEntry, now, lastSeen>>

Tick ==
  /\ now < MaxTime
  /\ now' = now + 1
  /\ UNCHANGED <<cells, buckets, chainNext, cellId, vec, logEntry, wpc, pktKey, pktDev, pktTime, lastSeen>>

Next ==
  \/ Tick
  \/ \E c \in Cores :
       \/ SweepOne(c) \/ SweepDone(c)
       \/ UnknownHandler(c) \/ UnknownAbort(c) \/ AddPktSetCommit(c)
       \/ \E k \in Keys, d \in Devices :
            \/ \E f \in PktFlags(k) : PacketHit(c, k, d, f)
            \/ PacketMiss(c, k, d)

Spec == Init /\ [][Next]_vars

-----------------------------------------------------------------------------
(* Properties                                                              *)

\* struct pkt_set_state of fw/pkt_set.h, with the ghost key
PktSetState ==
  [key: Keys \cup {NoKey}, internal_device: Devices, tcp_flag: [0 .. 1 -> 0 .. 255]]

TypeOK ==
  /\ cells \in [Cells -> CellType]
  /\ buckets \in [Cores -> [Buckets -> Idx \cup {-1}]]
  /\ chainNext \in [Idx -> Idx \cup {-1}]
  /\ cellId \in [Idx -> Keys \cup {NoKey}]
  /\ vec \in [Idx -> PktSetState]
  /\ logEntry \in [Cores -> [add: BOOLEAN, state: PktSetState]]
  /\ wpc \in [Cores -> {"sweep", "rx", "handler", "validate"}]
  /\ pktKey \in [Cores -> Keys \cup {NoKey}]
  /\ pktDev \in [Cores -> Devices]
  /\ pktTime \in [Cores -> Times]
  /\ now \in Times
  /\ lastSeen \in [Keys -> Times \cup {-1}]

\* the indexes on some chain of partition c
MapEntries(c) == UNION {ToSet(ChainOf(c, b)) : b \in Buckets}

(* The hash index and the allocator agree, whatever the cores interleave: *)
(* the entries on partition c's chains are exactly the indexes allocated  *)
(* to c; each chain ends in -1, holds only keys hashing to its bucket,    *)
(* never a key twice, and the vector slot of every entry holds the state  *)
(* created for its key; an index that is not allocated has                *)
(* map_chain_next = -1, which concurrent_map_put relies on when it reuses *)
(* the cell.                                                              *)
MapMatchesAllocator ==
  /\ \A c \in Cores :
       /\ MapEntries(c) = {i \in Idx : cells[Cell(i)].list_ind = c}
       /\ \A b \in Buckets :
            LET ch == ChainOf(c, b)
            IN /\ ch # <<>> => chainNext[Last(ch)] = -1
               /\ \A p \in DOMAIN ch :
                    /\ cellId[ch[p]] \in Keys
                    /\ BucketOf(cellId[ch[p]]) = b
                    /\ vec[ch[p]].key = cellId[ch[p]]
                    /\ \A q \in DOMAIN ch : q # p => cellId[ch[q]] # cellId[ch[p]]
  /\ \A i \in Idx : cells[Cell(i)].list_ind = FREE => chainNext[i] = -1

(* add_pkt_set_commit ignores the result of                               *)
(* concurrent_dchain_allocate_new_index and then uses index, which is     *)
(* uninitialized if the allocation failed.  That never happens: a staged  *)
(* packet set is only committed when the partition's own free list still  *)
(* has an index, though other cores' global allocations may take indexes *)
(* from it between add_pkt_set_log and the commit.                       *)
LoggedCreateCanAllocate ==
  \A c \in Cores : wpc[c] = "validate" /\ logEntry[c].add => HasFreeIndexes(c)

(* Spec 4.1 and 7: allocation falls back to the global list and a refill *)
(* from the other partitions, and "no capacity" is reported only when     *)
(* there is no free index in the partition, globally, or after refill.   *)
(* add_pkt_set refuses a new packet set (add_pkt_set_log returns false)   *)
(* only when no free list has an index.                                   *)
CreateRefusedOnlyWhenExhausted ==
  [][\A c \in Cores :
       UnknownHandler(c) /\ ~HasFreeIndexes(c) =>
          /\ \A d \in Cores : ~HasFreeIndexes(d)
          /\ cells[GH].next = GH]_vars

=============================================================================
