------------------------------- MODULE Bridge -------------------------------
(***************************************************************************)
(* The MAC table of the bridge network function (src/nf/bridge/main.c):  *)
(* three structures that must agree.  dyn_map (NfosMap) maps a MAC to    *)
(* an index, dyn_heap (the expiring allocator, DChainExp) owns the index *)
(* and its deadline, and the vectors dyn_macs and dyn_vals hold, at that *)
(* index, the MAC and the time it was last refreshed.                    *)
(*                                                                         *)
(* pkt_handler learns the source MAC of a packet in one mv-RLU            *)
(* transaction; an abort of it leaves nothing behind and is retried, so   *)
(* only its committed outcomes are steps.  The forwarding half only reads *)
(* the map and is left out.  exp_mac is the sweep of DChainExp, whose     *)
(* loop also erases from the map the MAC stored at every freed index.     *)
(*                                                                         *)
(* lastSeen is a history variable, not program state: the latest curr_time *)
(* at which a packet from each MAC was handled.                           *)
(***************************************************************************)
EXTENDS DChainExp, NfosMap

CONSTANT RefreshInterval   \* REFRESH_INTERVAL

ASSUME RefreshInterval \in Nat /\ RefreshInterval < Validity

VARIABLES
  map,       \* dyn_map
  macs,      \* dyn_macs: the MAC stored at each index
  vtime,     \* dyn_vals[i].time
  lastSeen   \* history: latest now at which each MAC was seen

bvars == <<map, macs, vtime, lastSeen>>
allvars == <<vars, bvars>>

\* nf_init: empty map and allocator; dev_allocate sets every time to
\* INT64_MAX, and no MAC is stored yet
BridgeInit ==
  /\ Init
  /\ map = MapInit
  /\ macs = [i \in Idx |-> NoKey]
  /\ vtime = [i \in Idx |-> Never]
  /\ lastSeen = [k \in Keys |-> 0]

\* the index allocate_new_index_t returns on its success path
AllocIndex(c) == IF HasFreeIndexes(c) THEN LocalAllocated(c) ELSE GlobalAllocated

\* Variant: the stored time is refreshed but the index is not rejuvenated.
RefreshVectorOnly(c, i) ==
  /\ vtime' = [vtime EXCEPT ![i] = coreNow[c]]
  /\ UNCHANGED vars

\* the refresh of a known MAC: rejuvenate_index, then value->time = now
Refresh(c, i) ==
  /\ ExpRejuvenateIndex(c, i)
  /\ vtime' = [vtime EXCEPT ![i] = coreNow[c]]

\* pkt_handler, MAC learning for source MAC k on core c, committed
Learn(c, k) ==
  LET now == coreNow[c]
      g == MapGet(map, k)
  IN /\ \/ /\ g # NotFound
           /\ now > vtime[g] + RefreshInterval
           /\ Refresh(c, g)
           /\ UNCHANGED <<map, macs>>
        \/ /\ g # NotFound
           /\ now <= vtime[g] + RefreshInterval
           /\ UNCHANGED <<vars, map, macs, vtime>>
        \/ /\ g = NotFound
           /\ ExpAllocateNewIndex(c)
           /\ macs' = [macs EXCEPT ![AllocIndex(c)] = k]
           /\ vtime' = [vtime EXCEPT ![AllocIndex(c)] = now]
           /\ map' = MapPut(map, k, AllocIndex(c))
        \/ /\ g = NotFound
           /\ ExpAllocFails(c)
           /\ UNCHANGED <<map, macs, vtime>>
     /\ lastSeen' = [lastSeen EXCEPT ![k] = IF now > @ THEN now ELSE @]

\* the indexes a committed sweep frees
Freed == AllocatedIdx(cells) \ AllocatedIdx(cells')

\* exp_mac commits: every index freed by expire_one_index has the MAC
\* stored at it erased from the map.  Erasures of distinct keys commute
\* here (each clears its own slot and decrements the chns of its own
\* probe path; none moves an entry), so the set is folded in any order.
BridgeSweepCommit ==
  /\ SweepCommit
  /\ map' = FoldSet(LAMBDA i, m : MapErase(m, macs[i]), map, Freed)
  /\ UNCHANGED <<macs, vtime, lastSeen>>

BridgeNext ==
  \/ Tick /\ UNCHANGED bvars
  \/ (SweepStart \/ SweepAbortInLoop \/ SweepValidationFails \/ SweepRetry) /\ UNCHANGED bvars
  \/ BridgeSweepCommit
  \/ \E c \in Cores, k \in Keys : Learn(c, k)

BridgeSpec == BridgeInit /\ [][BridgeNext]_allvars

-----------------------------------------------------------------------------
(* Properties                                                              *)

BridgeTypeOK ==
  /\ TypeOK
  /\ map.capacity \in {2^e : e \in 0 .. 30} /\ map.capacity >= MapCapArg
  /\ map.entries \in [Slots(map) -> [busybits: {0, 1}, khs: {0} \cup {KeyHash[k] : k \in Keys},
                                    key: Keys \cup {NoKey}, vals: Idx \cup {0}, chns: 0 .. map.capacity]]
  /\ macs \in [Idx -> Keys \cup {NoKey}]
  /\ vtime \in [Idx -> Clock \cup {Never}]
  /\ lastSeen \in [Keys -> Clock]

(* The chain counters of the map stay exact through every put and erase  *)
(* of the learning handler and the expiry sweep, including probes that   *)
(* wrap round the end of the table, and no MAC is stored twice.          *)
MapChainsExact == ChainCountsExact(map)

(* The MAC table agrees with itself: the MAC stored at every allocated  *)
(* index is found in the map with that index, and every MAC the map      *)
(* finds is at an allocated index that stores it.  A lookup that missed *)
(* a learned MAC would make pkt_handler allocate a second index for it;  *)
(* a map entry left at a freed index would forward to a reused slot.    *)
MacTableConsistent ==
  /\ \A i \in AllocatedIdx(cells) : MapGet(map, macs[i]) = i
  /\ \A k \in Keys :
       MapGet(map, k) # NotFound =>
          MapGet(map, k) \in AllocatedIdx(cells) /\ macs[MapGet(map, k)] = k

(* The comment on the refresh optimisation in pkt_handler: the bridge    *)
(* works as if a MAC expires between EXPIRATION_TIME - REFRESH_INTERVAL  *)
(* and EXPIRATION_TIME after it was last seen.  So a sweep never erases  *)
(* a MAC seen at t while its now is at most t + Validity - RefreshInterval. *)
FreshMacsKept ==
  [][BridgeSweepCommit =>
       \A k \in Keys :
          MapGet(map, k) # NotFound /\ MapGet(map', k) = NotFound =>
             lastSeen[k] + Validity - RefreshInterval < expNow]_allvars

=============================================================================
