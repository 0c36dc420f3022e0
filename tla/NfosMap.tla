------------------------------- MODULE NfosMap -------------------------------
(***************************************************************************)
(* The open-addressing hash map of src/src/map.c (NfosMap), used by the   *)
(* network functions for their own tables.  Each slot holds busybits,    *)
(* the key's hash khs, the key, its value vals and chns, the number of   *)
(* stored keys whose probe sequence runs past the slot.  The capacity is  *)
(* rounded up to a power of two and a hash is reduced with a mask.        *)
(*                                                                         *)
(* The operations are operators from a map value to a result or a new    *)
(* map value.  Under mv-RLU a put or erase either commits all its writes  *)
(* or returns ABORT_HANDLER and the caller aborts, so only the committed  *)
(* outcome is modelled; the order in which the code locks the slots      *)
(* (wrapped part first) only avoids deadlock and does not change it.     *)
(***************************************************************************)
EXTENDS Integers, FiniteSets, Bitwise

CONSTANTS
  Keys,         \* keys the callers may use
  NoKey,        \* the key bytes of a slot never written
  KeyHash,      \* map->khash, as a function on Keys
  MapCapArg     \* the capacity argument of nfos_map_allocate

ASSUME KeyHash \in [Keys -> Nat] /\ NoKey \notin Keys
\* next_pow2 wraps its 32-bit unsigned argument only for 0 and for values
\* above 2^31; capacities are taken from 1 .. 2^30, where it does not
ASSUME MapCapArg \in 1 .. 2^30

\* next_pow2, for 1 <= v <= 2^30
NextPow2(v) ==
  LET v0 == v - 1
      v1 == v0 | shiftR(v0, 1)
      v2 == v1 | shiftR(v1, 2)
      v3 == v2 | shiftR(v2, 4)
      v4 == v3 | shiftR(v3, 8)
      v5 == v4 | shiftR(v4, 16)
  IN v5 + 1

NotFound == -1

\* nfos_map_allocate_t: map->capacity = next_pow2(capacity); busybits and
\* chns cleared; khs, key and vals are left as allocated and are read only
\* where busybits is set
MapInit ==
  LET cap == NextPow2(MapCapArg)
  IN [capacity |-> cap,
      entries |-> [j \in 0 .. cap - 1 |->
                     [busybits |-> 0, khs |-> 0, key |-> NoKey, vals |-> 0, chns |-> 0]]]

Slots(m) == 0 .. m.capacity - 1

\* hash & (capacity - 1), and the i-th slot of the probe from it; the
\* capacity is a power of two, so the mask is the remainder
Start(m, k) == KeyHash[k] % m.capacity
Probe(m, k, i) == (Start(m, k) + i) % m.capacity

\* Variant: the wrapped branch updates only the wrapped-around slots.
ChainSlotsWrapOnlyHead(m, st, i) ==
  IF st + i >= m.capacity
  THEN 0 .. st + i - m.capacity - 1
  ELSE st .. st + i - 1

\* the slots whose chns a put or erase at probe step i updates, as the two
\* loops of the wrapped case and the one loop otherwise enumerate them
ChainSlots(m, st, i) ==
  IF st + i >= m.capacity
  THEN (0 .. st + i - m.capacity - 1) \cup (st .. m.capacity - 1)
  ELSE st .. st + i - 1

\* Variant: the probe stops at the first unused slot, ignoring chns.
RECURSIVE FindFromStopAtEmpty(_, _, _)
FindFromStopAtEmpty(m, k, i) ==
  IF i >= m.capacity THEN NotFound
  ELSE LET e == m.entries[Probe(m, k, i)]
       IN IF e.busybits # 0 /\ e.khs = KeyHash[k]
          THEN IF e.key = k THEN i ELSE FindFromStopAtEmpty(m, k, i + 1)
          ELSE IF e.busybits = 0 THEN NotFound ELSE FindFromStopAtEmpty(m, k, i + 1)

\* the probe loop of get and erase from step i: the step at which the key
\* is found, or NotFound (chns = 0 on a slot that does not hold the key's
\* hash, or the whole table probed)
RECURSIVE FindFrom(_, _, _)
FindFrom(m, k, i) ==
  IF i >= m.capacity THEN NotFound
  ELSE LET e == m.entries[Probe(m, k, i)]
       IN IF e.busybits # 0 /\ e.khs = KeyHash[k]
          THEN IF e.key = k THEN i ELSE FindFrom(m, k, i + 1)
          ELSE IF e.chns = 0 THEN NotFound ELSE FindFrom(m, k, i + 1)

Find(m, k) == FindFrom(m, k, 0)

\* nfos_map_get_t: the value stored with k, or NotFound (returns 0)
MapGet(m, k) ==
  IF Find(m, k) = NotFound THEN NotFound ELSE m.entries[Probe(m, k, Find(m, k))].vals

\* the put loop: the first step at which the slot is unused
RECURSIVE FreeFrom(_, _, _)
FreeFrom(m, k, i) ==
  IF i >= m.capacity THEN NotFound
  ELSE IF m.entries[Probe(m, k, i)].busybits = 0 THEN i ELSE FreeFrom(m, k, i + 1)

\* the entries after a put or erase at probe step i of key k: slot j
\* becomes e, and the chns of the slots the probe skipped change by d
Rechain(m, k, i, j, e, d) ==
  [m EXCEPT !.entries =
     [s \in Slots(m) |->
        IF s = j THEN e
        ELSE IF s \in ChainSlots(m, Start(m, k), i) THEN [m.entries[s] EXCEPT !.chns = @ + d]
        ELSE m.entries[s]]]

\* nfos_map_put_t (its caller ensures k is absent): the key goes to the
\* first unused slot and every slot it skipped counts one more chain;
\* a full table is left as it is (returns 0)
MapPut(m, k, v) ==
  LET i == FreeFrom(m, k, 0)
      j == Probe(m, k, i)
  IN IF i = NotFound THEN m
     ELSE Rechain(m, k, i, j,
            [m.entries[j] EXCEPT !.busybits = 1, !.key = k, !.khs = KeyHash[k], !.vals = v], 1)

\* nfos_map_erase_t: the key's slot is released and every slot its probe
\* skipped counts one chain less; an absent key leaves the map as it is
MapErase(m, k) ==
  LET i == Find(m, k)
      j == Probe(m, k, i)
  IN IF i = NotFound THEN m
     ELSE Rechain(m, k, i, j, [m.entries[j] EXCEPT !.busybits = 0], -1)

-----------------------------------------------------------------------------
(* Reference definitions                                                   *)

\* the slots strictly between a home slot st and slot j, going round the
\* table
Between(m, st, j) == {(st + d) % m.capacity : d \in 0 .. ((j - st) % m.capacity) - 1}

\* each slot's chns counts exactly the stored keys whose probe passed it,
\* and no key is stored twice
ChainCountsExact(m) ==
  LET E == m.entries
  IN /\ \A s \in Slots(m) :
          E[s].chns = Cardinality({q \in Slots(m) : E[q].busybits # 0 /\ s \in Between(m, E[q].khs % m.capacity, q)})
     /\ \A q1, q2 \in Slots(m) :
          q1 # q2 /\ E[q1].busybits # 0 /\ E[q2].busybits # 0 => E[q1].key # E[q2].key

=============================================================================
