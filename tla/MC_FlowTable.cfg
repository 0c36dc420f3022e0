CONSTANTS
  NumCores = 2
  Capacity = 4
  MaxTime = 2
  Validity = 1
  NumBuckets = 2
  k1 = k1
  k2 = k2
  k3 = k3
  k4 = k4
  NoKey = NoKey
  Keys <- MC_Keys
  KeyCore <- MC_KeyCore
  KeyHash <- MC_KeyHash
  KeyProto <- MC_KeyProto
  TcpFlags = {2}
SPECIFICATION Spec
INVARIANT TypeOK
INVARIANT MapMatchesAllocator
INVARIANT LoggedCreateCanAllocate
