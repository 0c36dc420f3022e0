CONSTANTS
  NumCores <- MC_NumCores
  Capacity <- MC_Capacity
  MaxTime <- MC_MaxTime
SPECIFICATION FairSpec
INVARIANT TypeOK
INVARIANT ListsWellFormed
INVARIANT IndexesConserved
INVARIANT ExpiryScanComplete
INVARIANT LocksExclusive
PROPERTY CallsReturn
PROPERTY ImplementsAbstractAllocator
