CONSTANTS
  a1 = a1
  a2 = a2
  p1 = p1
  p2 = p2
  Cores = {0, 1}
  Keys <- MC_Keys
  PortLow = 1024
  PortHigh = 1025
  ExternalAddr = 167772161
  NumExternalAddrs = 1
  NumUsers = 2
  EiNatSecond = 1
  MaxTime = 2
  Dsts = {0, 1, 5}
  PlyBits = 1
  PlyPoolCapacity = 5
SPECIFICATION Spec
\* assert(false) on a full session allocator stops the NF for good
CHECK_DEADLOCK FALSE
INVARIANT TypeOK
INVARIANT UserListsExact
INVARIANT PoolsMatchSessions
INVARIANT TranslationInvertible
INVARIANT RoutedByLongestPrefix
