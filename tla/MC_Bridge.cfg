CONSTANTS
  k1 = k1
  k2 = k2
  k3 = k3
  NoKey = NoKey
  Keys <- MC_Keys
  KeyHash <- MC_KeyHash
  NumCores = 2
  Capacity = 2
  MapCapArg = 2
  MaxTime = 5
  Validity = 2
  RefreshInterval = 1
  MaxSkew = 0
SPECIFICATION BridgeSpec
INVARIANT BridgeTypeOK
INVARIANT ListsWellFormed
INVARIANT AllocListsByDeadline
INVARIANT MapChainsExact
INVARIANT MacTableConsistent
PROPERTY SweepFreesOnlyExpired
PROPERTY FreshMacsKept
