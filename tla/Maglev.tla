------------------------------- MODULE Maglev -------------------------------
(***************************************************************************)
(* The backend choice of the Maglev load balancer (src/nf/maglev/main.c)  *)
(* and its consistent-hash table (src/src/cht.c).                          *)
(*                                                                         *)
(* nf_init fills the table once: for every bucket (a hash modulo          *)
(* cht_height) a row of backend_capacity backend indexes, in the order a  *)
(* flow of that bucket prefers them.  A new flow takes the first backend  *)
(* of its row that is allocated in the backends allocator, and keeps it   *)
(* while that backend stays allocated; a packet of a flow whose backend   *)
(* has expired picks again the same way.                                  *)
(*                                                                         *)
(* The backends allocator (an expiring allocator, modelled in DChainExp   *)
(* and, with its map of addresses, in Bridge) is abstracted to the set of *)
(* its allocated indexes: a heartbeat of an unknown backend may take any  *)
(* free index, and the expiry sweep may free any non-empty set of them.   *)
(* Every handler runs as one mv-RLU transaction, so only committed steps  *)
(* are modelled.  The flow table is the packet-set manager's; adding a    *)
(* flow may fail when its partition is full.                             *)
(***************************************************************************)
EXTENDS Integers, FiniteSets

CONSTANTS
  ChtHeight,        \* CHT_HEIGHT
  BackendCapacity,  \* BACKEND_CAPACITY
  Flows,            \* the flows (packet sets) clients open
  FlowHash          \* get_hash_from_pkt, per flow

ASSUME ChtHeight \in Nat \ {0, 1} /\ BackendCapacity \in Nat \ {0}
ASSUME FlowHash \in [Flows -> Nat]

VARIABLES
  cht,      \* the cht vector (backend_capacity * cht_height entries)
  stray,    \* indexes past the end of the vector that the fill wrote
  active,   \* indexes allocated in the backends allocator
  flow,     \* the backend_id of each registered flow, or NoBackend
  out       \* where the last handled client packet went

vars == <<cht, stray, active, flow, out>>

Backends == 0 .. BackendCapacity - 1
Buckets  == 0 .. ChtHeight - 1
ChtIdx   == 0 .. BackendCapacity * ChtHeight - 1

NoBackend == -1
Drop == -2
NoPkt == -3

\* loop
Loop(k, capacity) == k % capacity

\* Variant: the shift misses its + 1, so it can be zero.
PermutationShiftFromZero(i, j) ==
  LET offset == Loop(i * 31, ChtHeight)
      shift == Loop(i, ChtHeight - 1)
  IN Loop(offset + shift * j, ChtHeight)

\* permutations[i * cht_height + j]: the bucket backend i takes at step j
Permutation(i, j) ==
  LET offset == Loop(i * 31, ChtHeight)
      shift == Loop(i, ChtHeight - 1) + 1
  IN Loop(offset + shift * j, ChtHeight)

\* One iteration of the fill loop, for hash step i and backend j: the
\* bucket's next priority is taken and backend j is written at it.  A
\* write past the end of the vector is recorded in stray.
FillStep(s, i, j) ==
  LET bucket == Permutation(j, i)
      index == BackendCapacity * bucket + s.next[bucket]
  IN [next |-> [s.next EXCEPT ![bucket] = @ + 1],
      cht |-> IF index \in ChtIdx THEN [s.cht EXCEPT ![index] = j] ELSE s.cht,
      stray |-> IF index \in ChtIdx THEN s.stray ELSE s.stray \cup {index}]

\* the loops over i < cht_height and, inside, j < backend_capacity, from
\* iteration n on
RECURSIVE FillFrom(_, _)
FillFrom(s, n) ==
  IF n >= ChtHeight * BackendCapacity THEN s
  ELSE FillFrom(FillStep(s, n \div BackendCapacity, n % BackendCapacity), n + 1)

\* nfos_cht_fill_cht on the vector as cht_null_init leaves it
ChtFill ==
  FillFrom([next |-> [b \in Buckets |-> 0], cht |-> [x \in ChtIdx |-> 0], stray |-> {}], 0)

\* Variant: the vector index of the entry is returned, not the entry.
RECURSIVE ChtFindFromIndex(_, _, _)
ChtFindFromIndex(start, act, i) ==
  IF i >= BackendCapacity THEN NoBackend
  ELSE IF cht[start * BackendCapacity + i] \in act THEN start * BackendCapacity + i
  ELSE ChtFindFromIndex(start, act, i + 1)

\* Variant: the row is scanned one entry short.
RECURSIVE ChtFindFromShort(_, _, _)
ChtFindFromShort(start, act, i) ==
  IF i >= BackendCapacity - 1 THEN NoBackend
  ELSE IF cht[start * BackendCapacity + i] \in act THEN cht[start * BackendCapacity + i]
  ELSE ChtFindFromShort(start, act, i + 1)

\* the scan of nfos_cht_find_preferred_available_backend from entry i of
\* row start: the first entry whose index is allocated, or NoBackend
RECURSIVE ChtFindFrom(_, _, _)
ChtFindFrom(start, act, i) ==
  IF i >= BackendCapacity THEN NoBackend
  ELSE IF cht[start * BackendCapacity + i] \in act THEN cht[start * BackendCapacity + i]
  ELSE ChtFindFrom(start, act, i + 1)

\* nfos_cht_find_preferred_available_backend for hash h
FindPreferred(h, act) == ChtFindFrom(Loop(h, ChtHeight), act, 0)

\* nf_init: the cht vector filled; no backend, no flow
Init ==
  /\ cht = ChtFill.cht
  /\ stray = ChtFill.stray
  /\ active = {}
  /\ flow = [f \in Flows |-> NoBackend]
  /\ out = NoPkt

\* heartbeat_handler for a backend not in the table: it takes a free
\* index if there is one (a full table ignores it; a known backend only
\* has its index rejuvenated, which leaves the set as it is)
Heartbeat ==
  /\ \E b \in Backends \ active : active' = active \cup {b}
  /\ UNCHANGED <<cht, stray, flow, out>>

\* expire_backend: a committed sweep frees the expired indexes
ExpireBackends ==
  /\ \E gone \in SUBSET active : gone # {} /\ active' = active \ gone
  /\ UNCHANGED <<cht, stray, flow, out>>

\* nf_unknown_pkt_set_handler: a packet of flow f, not registered.  Found:
\* add_pkt_set registers f with the backend (or fails, table full) and the
\* packet goes to it; not found: the packet is dropped.
UnknownFlowPkt(f) ==
  LET b == FindPreferred(FlowHash[f], active)
  IN /\ flow[f] = NoBackend
     /\ \/ /\ b # NoBackend
           /\ \E added \in BOOLEAN : flow' = IF added THEN [flow EXCEPT ![f] = b] ELSE flow
           /\ out' = b
        \/ /\ b = NoBackend
           /\ out' = Drop
           /\ UNCHANGED flow
     /\ UNCHANGED <<cht, stray, active>>

\* client_pkt_handler, load-balanced route: a flow whose backend is still
\* allocated sends to it; otherwise it picks again, and drops the packet
\* (keeping its old backend_id) when no backend is allocated
ClientPkt(f) ==
  LET b == FindPreferred(FlowHash[f], active)
  IN /\ flow[f] # NoBackend
     /\ \/ /\ flow[f] \in active
           /\ out' = flow[f]
           /\ UNCHANGED flow
        \/ /\ flow[f] \notin active
           /\ b # NoBackend
           /\ flow' = [flow EXCEPT ![f] = b]
           /\ out' = b
        \/ /\ flow[f] \notin active
           /\ b = NoBackend
           /\ out' = Drop
           /\ UNCHANGED flow
     /\ UNCHANGED <<cht, stray, active>>

\* delete_expired_pkt_sets: flow f expires (nf_expired_pkt_set_handler
\* does nothing)
FlowExpires(f) ==
  /\ flow[f] # NoBackend
  /\ flow' = [flow EXCEPT ![f] = NoBackend]
  /\ UNCHANGED <<cht, stray, active, out>>

Next ==
  \/ Heartbeat
  \/ ExpireBackends
  \/ \E f \in Flows : UnknownFlowPkt(f) \/ ClientPkt(f) \/ FlowExpires(f)

Spec == Init /\ [][Next]_vars

-----------------------------------------------------------------------------
(* Reference definitions                                                   *)

\* Maglev's preference of a flow of bucket h: backend j ranks by the first
\* step at which its permutation reaches h, ties to the lower index
Rank(h, j) == CHOOSE i \in Buckets : Permutation(j, i) = h

MostPreferred(h, act) ==
  CHOOSE j \in act :
     \A k \in act \ {j} : Rank(h, j) < Rank(h, k) \/ (Rank(h, j) = Rank(h, k) /\ j < k)

-----------------------------------------------------------------------------
(* Properties                                                              *)

TypeOK ==
  /\ cht \in [ChtIdx -> Backends]
  /\ stray \subseteq Nat
  /\ active \subseteq Backends
  /\ flow \in [Flows -> Backends \cup {NoBackend}]
  /\ out \in Backends \cup {Drop, NoPkt}

(* nfos_cht_fill_cht builds, for every bucket, a row that lists each     *)
(* backend exactly once and writes nothing past the vector.  This needs *)
(* every backend's step sequence to be a permutation of the buckets,     *)
(* which the offset/shift construction gives only when cht_height is     *)
(* coprime with every shift it uses.                                     *)
ChtRowsArePermutations ==
  /\ stray = {}
  /\ \A h \in Buckets :
       {cht[h * BackendCapacity + p] : p \in Backends} = Backends

(* A client packet that needs a backend (a new flow, or one whose backend *)
(* has expired) goes to the allocated backend its hash prefers most, in  *)
(* the Maglev preference the permutations define, and is dropped only    *)
(* when no backend is allocated at all.                                  *)
PacketsGoToPreferred ==
  [][\A f \in Flows :
       (UnknownFlowPkt(f) \/ (ClientPkt(f) /\ flow[f] \notin active)) =>
          out' = IF active = {} THEN Drop ELSE MostPreferred(Loop(FlowHash[f], ChtHeight), active)]_vars

=============================================================================
