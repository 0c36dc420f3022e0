------------------------------- MODULE EiNat -------------------------------
(***************************************************************************)
(* The endpoint-independent NAT (src/nf/ei-nat/main.c), for packets from  *)
(* the LAN.  A session is keyed by (source address, source port,          *)
(* protocol) and owns an index of sess_indexes_tcp or sess_indexes_udp;   *)
(* the index names its external (address, port).  A user is a LAN source *)
(* address; user_data holds the head of a doubly linked list, threaded   *)
(* through session_data, of the user's sessions, most recently refreshed *)
(* first.  -1 (SESS_LIST_HEAD) in a link means the user's head.          *)
(*                                                                         *)
(* pkt_handler runs as one mv-RLU transaction and an abort is retried, so *)
(* only committed outcomes are steps.  The index allocators are reduced  *)
(* to their sets of allocated indexes (the RLU allocator, checked in      *)
(* RluDChain, fails only when no index is free).  The maps are functions  *)
(* that never fill: session_map and user_map have twice as many slots as  *)
(* indexes.  Nothing in the NF frees a session (dealloc_session is never *)
(* called and do_expiration is false).  Packets from the WAN hit          *)
(* assert(false) in this prototype and are not generated.                *)
(*                                                                         *)
(* nat_pkt_action routes the translated packet through the FIB of its     *)
(* incoming device, built by nf_init with the Mtrie operators; addresses *)
(* there have 4 * PlyBits bits (32 in the code).                          *)
(***************************************************************************)
EXTENDS Integers, Sequences, FiniteSets

CONSTANTS
  Cores,             \* the data-plane lcores
  Keys,              \* the sessions LAN hosts open: [src_addr, src_port, proto]
  PortLow,           \* EXTERNAL_PORT_LOW
  PortHigh,          \* EXTERNAL_PORT_HIGH
  ExternalAddr,      \* EXTERNAL_ADDR
  NumExternalAddrs,  \* NUM_EXTERNAL_ADDRS
  NumUsers,          \* MAX_NUM_USERS
  EiNatSecond,       \* EI_NAT_SECOND, the refresh interval
  MaxTime,           \* bound on each core's curr_time
  Dsts,              \* the destination addresses of LAN packets
  PlyBits,           \* bits of an address byte (8 in the code)
  PlyPoolCapacity    \* IP4_PLY_POOL_CAPACITY

TCP == 6
UDP == 17

Addrs == {k.src_addr : k \in Keys}

ASSUME /\ \A k \in Keys : k.proto \in {TCP, UDP}
       /\ PortLow <= PortHigh /\ NumExternalAddrs > 0
       /\ EiNatSecond \in Nat /\ MaxTime \in Nat
\* MAX_NUM_USERS exceeds both session pools together, so alloc_user never
\* finds the user allocator full; MAX_NUM_SESSIONS_PER_USER likewise
ASSUME NumUsers >= Cardinality(Addrs)

\* num_avail_ext_tuples
PortSpace == PortHigh - PortLow + 1
N == PortSpace * NumExternalAddrs

SessIds == 0 .. 2 * N - 1
UserIds == 0 .. NumUsers - 1
HEAD == -1
NotFound == -2
NoPkt == [key |-> NotFound]

Fib == INSTANCE Mtrie

LAN == 0            \* LAN_DEVICE
WAN == 1            \* WAN_DEVICE
Devices == {LAN, WAN}
NoDevice == 65535   \* the send_device of the drop route, 0xFFFF

ASSUME Dsts \subseteq Fib!Addresses

VARIABLES
  sessMap,   \* session_map: the session index of each key, or NotFound
  tcpIdx,    \* indexes allocated in sess_indexes_tcp
  udpIdx,    \* indexes allocated in sess_indexes_udp
  sess,      \* session_data: list node, last_used, user_index
  userMap,   \* user_map: the user index of each address, or NotFound
  userIdx,   \* indexes allocated in user_indexes
  user,      \* user_data: list head and num_sessions
  coreNow,   \* each core's curr_time
  halted,    \* an assert(false) has stopped the NF
  out,       \* the last packet translated: key, destination, external
             \* tuple and the device it leaves by
  fib        \* the FIBs' root plies and the shared ip4_ply_pool

vars == <<sessMap, tcpIdx, udpIdx, sess, userMap, userIdx, user, coreNow, halted, out, fib>>

\* Variant: (x << 8) | (x >> 8), not masked to 16 bits.
Bswap16NoMask(x) == x * 256 + (x \div 256)

\* RTE_STATIC_BSWAP16 and RTE_STATIC_BSWAP32
Bswap16(x) == (x % 256) * 256 + (x \div 256)
Bswap32(x) ==
  (x % 256) * 16777216 + ((x \div 256) % 256) * 65536
    + ((x \div 65536) % 256) * 256 + x \div 16777216

\* Variant: the UDP offset is not taken off.
SessIdToExtTupleNoOffset(id, proto) ==
  [ext_ip |-> Bswap32(id \div PortSpace + ExternalAddr),
   ext_port |-> Bswap16((id % PortSpace) + PortLow)]

\* sess_id_to_ext_tuple: the external (address, port), in network order
SessIdToExtTuple(id, proto) ==
  LET sid == IF proto # TCP THEN id - N ELSE id
  IN [ext_ip |-> Bswap32(sid \div PortSpace + ExternalAddr),
      ext_port |-> Bswap16((sid % PortSpace) + PortLow)]

\* ext_tuple_to_sess_id
ExtTupleToSessId(ext_ip, ext_port, proto) ==
  LET sid == (Bswap16(ext_port) - PortLow) + PortSpace * (Bswap32(ext_ip) - ExternalAddr)
  IN IF proto # TCP THEN sid + N ELSE sid

\* nat_static_mapping_match: nat_static_mapping_init allocates mapping_hash
\* empty and nothing adds to it, so the lookup always misses
StaticMappingMatch(k) == FALSE

\* the allocator of a protocol's session indexes
Pool(proto) == IF proto = TCP THEN tcpIdx ELSE udpIdx

\* Variant: the UDP index is not moved past the TCP ones.
SessIndexNoOffset(i, proto) == i

\* the session index alloc_session returns for index i of the allocator
SessIndex(i, proto) == IF proto = TCP THEN i ELSE i + N

\* the indexes nfos_dchain_allocate_new_index may return for a new user
FreeUsers == UserIds \ userIdx

\* the load balances nf_init creates: index0 drops, index1 forwards to
\* the WAN (lbs[i + 1] is load balance i)
Lbs ==
  Fib!LoadBalanceCreate(
    Fib!LoadBalanceCreate(<<>>, [action |-> "DROP", send_device |-> NoDevice]),
    [action |-> "FORWARD", send_device |-> WAN])

\* the routes nf_init adds to each FIB: 0.0.0.0/0 to index1, then
\* 0.0.0.0/32 to index0
FibRoutes ==
  << [addr |-> 0, len |-> 0, adj |-> 1], [addr |-> 0, len |-> Fib!AddrBits, adj |-> 0] >>

\* nf_init: both FIBs' root plies initialised, then the routes added to the
\* LAN's FIB and then to the WAN's, their plies taken from one pool
NfInitFibs ==
  LET lan == Fib!RouteAddAll([root |-> Fib!MtrieInit, pool |-> <<>>], FibRoutes)
      wan == Fib!RouteAddAll([root |-> Fib!MtrieInit, pool |-> lan.pool], FibRoutes)
  IN [root |-> [d \in Devices |-> IF d = LAN THEN lan.root ELSE wan.root], pool |-> wan.pool]

\* nf_init: empty maps and allocators; the vectors as the memset null
\* initialisers leave them; the load balances and FIBs
Init ==
  /\ sessMap = [k \in Keys |-> NotFound]
  /\ tcpIdx = {} /\ udpIdx = {}
  /\ sess = [i \in SessIds |-> [next |-> 0, prev |-> 0, last_used |-> 0, user_index |-> 0]]
  /\ userMap = [a \in Addrs |-> NotFound]
  /\ userIdx = {}
  /\ user = [u \in UserIds |-> [next |-> 0, prev |-> 0, num_sessions |-> 0]]
  /\ coreNow = [c \in Cores |-> 0]
  /\ halted = FALSE
  /\ out = NoPkt
  /\ fib = NfInitFibs

\* nfos_timer_tick: a core's curr_time advances
Tick(c) ==
  /\ ~halted
  /\ coreNow[c] < MaxTime
  /\ coreNow' = [coreNow EXCEPT ![c] = @ + 1]
  /\ UNCHANGED <<sessMap, tcpIdx, udpIdx, sess, userMap, userIdx, user, halted, out, fib>>

\* The list links live in user_data (the head, at HEAD) and session_data;
\* st is [sess, user], u the user whose head HEAD stands for.
SetLink(st, u, p, f, v) ==
  IF p = HEAD THEN [st EXCEPT !.user[u][f] = v] ELSE [st EXCEPT !.sess[p][f] = v]

\* "Insert it to the session chain of the user": head_next is the first
\* session, or the head itself when the list is empty
InsertAtHead(st, u, id) ==
  LET hn == st.user[u].next
      s1 == SetLink(st, u, id, "next", hn)
      s2 == SetLink(s1, u, id, "prev", HEAD)
      s3 == SetLink(s2, u, hn, "prev", id)
  IN SetLink(s3, u, HEAD, "next", id)

\* Variant: the unlink leaves the next node's back link.
MoveToFrontNoBackLink(st, u, id) ==
  LET x == st.sess[id]
      s1 == SetLink(st, u, x.prev, "next", x.next)
      hn == s1.user[u].next
      s3 == SetLink(s1, u, id, "next", hn)
      s4 == SetLink(s3, u, id, "prev", HEAD)
      s5 == SetLink(s4, u, HEAD, "next", id)
  IN SetLink(s5, u, hn, "prev", id)

\* "bring the session to the head of the list": extract the node (its next
\* is the head when it is last), then insert it after the head, whose next
\* is read after the extraction
MoveToFront(st, u, id) ==
  LET x == st.sess[id]
      s1 == SetLink(st, u, x.prev, "next", x.next)
      s2 == SetLink(s1, u, x.next, "prev", x.prev)
      hn == s2.user[u].next
      s3 == SetLink(s2, u, id, "next", hn)
      s4 == SetLink(s3, u, id, "prev", HEAD)
      s5 == SetLink(s4, u, HEAD, "next", id)
  IN SetLink(s5, u, hn, "prev", id)

\* nat_pkt_action: the source is rewritten to the session's external
\* tuple, then the destination is looked up in the FIB of the incoming
\* device (the LAN) and the packet dropped or sent as the dpo of that load
\* balance says; dev is the device it leaves by, NoDevice when dropped
NatPktAction(k, id, d) ==
  LET t == SessIdToExtTuple(id, k.proto)
      dpo == Lbs[Fib!Lookup([root |-> fib.root[LAN], pool |-> fib.pool], d) + 1]
  IN [key |-> k, dst |-> d, ext_ip |-> t.ext_ip, ext_port |-> t.ext_port,
      dev |-> IF dpo.action = "FORWARD" THEN dpo.send_device ELSE NoDevice]

\* pkt_handler, a key with no session and no static mapping, when
\* alloc_session finds its protocol's allocator full: assert(false)
SessionPoolExhausted(c, k) ==
  /\ ~halted
  /\ sessMap[k] = NotFound /\ ~StaticMappingMatch(k)
  /\ Pool(k.proto) = 0 .. N - 1
  /\ halted' = TRUE
  /\ UNCHANGED <<sessMap, tcpIdx, udpIdx, sess, userMap, userIdx, user, coreNow, out, fib>>

\* alloc_user, success path: the new user's list is empty (the user
\* allocator and user_map never fill, see the ASSUME)
AllocUser(st, u) == [st EXCEPT !.user[u] = [next |-> HEAD, prev |-> HEAD, num_sessions |-> 0]]

\* alloc_session, success path after the index: the key is put (the map
\* never fills) and last_used stamped; int_ip and int_port are never read
AllocSession(st, id, now) == [st EXCEPT !.sess[id].last_used = now]

\* pkt_handler, a key with no session: alloc_session takes free index i of
\* its protocol's allocator; a new source address gets a user from
\* alloc_user; the session goes first in the user's list, num_sessions
\* grows and user_index is stored.  last_used = now, so no refresh follows.
NewSession(c, k, d) ==
  LET a == k.src_addr
      known == userMap[a] # NotFound
  IN /\ ~halted
     /\ sessMap[k] = NotFound /\ ~StaticMappingMatch(k)
     /\ \E i \in (0 .. N - 1) \ Pool(k.proto), u \in IF known THEN {userMap[a]} ELSE FreeUsers :
          LET id == SessIndex(i, k.proto)
              st0 == AllocSession([sess |-> sess, user |-> user], id, coreNow[c])
              st1 == InsertAtHead(IF known THEN st0 ELSE AllocUser(st0, u), u, id)
              st2 == [st1 EXCEPT !.user[u].num_sessions = @ + 1, !.sess[id].user_index = u]
          IN /\ sessMap' = [sessMap EXCEPT ![k] = id]
             /\ tcpIdx' = IF k.proto = TCP THEN tcpIdx \cup {i} ELSE tcpIdx
             /\ udpIdx' = IF k.proto = TCP THEN udpIdx ELSE udpIdx \cup {i}
             /\ userMap' = [userMap EXCEPT ![a] = u]
             /\ userIdx' = userIdx \cup {u}
             /\ sess' = st2.sess
             /\ user' = st2.user
             /\ out' = NatPktAction(k, id, d)
     /\ UNCHANGED <<coreNow, halted, fib>>

\* pkt_handler, a key with a session: if it was last refreshed more than
\* EI_NAT_SECOND ago, last_used = now and, unless it is first already, the
\* session moves to the front of its user's list; then it is translated
KnownSession(c, k, d) ==
  LET now == coreNow[c]
      id == sessMap[k]
      x == sess[id]
      st0 == [sess |-> [sess EXCEPT ![id].last_used = now], user |-> user]
  IN /\ ~halted
     /\ id # NotFound
     /\ \/ /\ now > x.last_used + EiNatSecond
           /\ x.prev # HEAD
           /\ LET st1 == MoveToFront(st0, x.user_index, id)
              IN sess' = st1.sess /\ user' = st1.user
        \/ /\ now > x.last_used + EiNatSecond
           /\ x.prev = HEAD
           /\ sess' = st0.sess
           /\ UNCHANGED user
        \/ /\ now <= x.last_used + EiNatSecond
           /\ UNCHANGED <<sess, user>>
     /\ out' = NatPktAction(k, id, d)
     /\ UNCHANGED <<sessMap, tcpIdx, udpIdx, userMap, userIdx, coreNow, halted, fib>>

Next ==
  \/ \E c \in Cores : Tick(c)
  \/ \E c \in Cores, k \in Keys :
       \/ SessionPoolExhausted(c, k)
       \/ \E d \in Dsts : NewSession(c, k, d) \/ KnownSession(c, k, d)

Spec == Init /\ [][Next]_vars

-----------------------------------------------------------------------------
(* Properties                                                              *)

\* the keys that have a session
Live == {k \in Keys : sessMap[k] # NotFound}

\* the sessions on user u's list, walked from the head along next, at most
\* n steps
RECURSIVE WalkFrom(_, _, _)
WalkFrom(p, acc, n) ==
  IF p = HEAD \/ n = 0 THEN acc ELSE WalkFrom(sess[p].next, Append(acc, p), n - 1)

SessList(u) == WalkFrom(user[u].next, <<>>, 2 * N + 1)

TypeOK ==
  /\ sessMap \in [Keys -> SessIds \cup {NotFound}]
  /\ tcpIdx \subseteq 0 .. N - 1 /\ udpIdx \subseteq 0 .. N - 1
  /\ sess \in [SessIds -> [next: SessIds \cup {HEAD}, prev: SessIds \cup {HEAD},
                           last_used: 0 .. MaxTime, user_index: UserIds]]
  /\ userMap \in [Addrs -> UserIds \cup {NotFound}]
  /\ userIdx \subseteq UserIds
  /\ user \in [UserIds -> [next: SessIds \cup {HEAD}, prev: SessIds \cup {HEAD},
                           num_sessions: 0 .. 2 * N]]
  /\ coreNow \in [Cores -> 0 .. MaxTime]
  /\ halted \in BOOLEAN
  /\ out \in {NoPkt} \cup [key: Keys, dst: Dsts, ext_ip: Nat, ext_port: 0 .. 65535,
                            dev: Devices \cup {NoDevice}]
  /\ fib.root \in [Devices -> [leaves: [0 .. Fib!RootSize - 1 -> Nat],
                                bits: [0 .. Fib!RootSize - 1 -> 0 .. Fib!AddrBits]]]

(* The users and their session lists stay exact through session creation *)
(* and every move to the front: each allocated user belongs to one       *)
(* address, and walking its list from the head visits exactly the        *)
(* sessions of that address, once each, with every prev link pointing    *)
(* back, the head's prev at the last one, num_sessions equal to the      *)
(* length, and every session's user_index naming that user.              *)
UserListsExact ==
  /\ {userMap[a] : a \in {b \in Addrs : userMap[b] # NotFound}} = userIdx
  /\ \A a \in Addrs : userMap[a] # NotFound =>
       LET u == userMap[a]
           l == SessList(u)
           mine == {sessMap[k] : k \in {j \in Live : j.src_addr = a}}
       IN /\ Len(l) = Cardinality(mine)
          /\ {l[j] : j \in 1 .. Len(l)} = mine
          /\ \A j \in 1 .. Len(l) : sess[l[j]].prev = IF j = 1 THEN HEAD ELSE l[j - 1]
          /\ user[u].prev = IF l = <<>> THEN HEAD ELSE l[Len(l)]
          /\ user[u].num_sessions = Len(l)
          /\ \A id \in mine : sess[id].user_index = u

(* The session allocators account for the sessions exactly: the indexes  *)
(* allocated in each protocol's allocator are those of that protocol's   *)
(* sessions (UDP ones offset by num_avail_ext_tuples), so no index leaks  *)
(* and the NF stops on assert(false) only when every external tuple of    *)
(* the protocol is in use.                                                *)
PoolsMatchSessions ==
  /\ \A k, j \in Live : k # j => sessMap[k] # sessMap[j]
  /\ tcpIdx = {sessMap[k] : k \in {j \in Live : j.proto = TCP}}
  /\ udpIdx = {sessMap[k] - N : k \in {j \in Live : j.proto # TCP}}

(* Every packet the NAT translates carries, as its source, an external    *)
(* address and port from the configured pool, in network order, that     *)
(* ext_tuple_to_sess_id maps back to the session of the packet's key; so *)
(* two live sessions of a protocol never share an external tuple.        *)
TranslationInvertible ==
  out # NoPkt =>
    /\ Bswap32(out.ext_ip) - ExternalAddr \in 0 .. NumExternalAddrs - 1
    /\ Bswap16(out.ext_port) \in PortLow .. PortHigh
    /\ ExtTupleToSessId(out.ext_ip, out.ext_port, out.key.proto) = sessMap[out.key]

(* The FIBs nf_init builds implement longest-prefix matching, and the    *)
(* packets follow them: in both FIBs every address looks up the longest  *)
(* of nf_init's routes covering it (the root leaves' default, 0.0.0.0/0, *)
(* 0.0.0.0/32), and a LAN packet leaves by the device of its             *)
(* destination's route or is dropped when that route is the drop route; *)
(* so route_add's ply creation and slot fills, the three lookup steps of *)
(* nat_pkt_action and the load balance they select agree.  Both FIBs'    *)
(* plies fit ip4_ply_pool, so the assert of mtrie_vector_get never fires *)
(* in nf_init.                                                            *)
RoutedByLongestPrefix ==
  /\ Len(fib.pool) <= PlyPoolCapacity
  /\ \A d \in Devices, a \in Fib!Addresses :
       Fib!Lookup([root |-> fib.root[d], pool |-> fib.pool], a) = Fib!LpmAdj(FibRoutes, a)
  /\ out # NoPkt =>
       LET dpo == Lbs[Fib!LpmAdj(FibRoutes, out.dst) + 1]
       IN out.dev = IF dpo.action = "FORWARD" THEN dpo.send_device ELSE NoDevice
=============================================================================
