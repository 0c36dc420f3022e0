CONSTANTS
  NumCores = 2
  Capacity = 4
  MaxTime = 0
SPECIFICATION Spec
INVARIANT TypeOK
INVARIANT IndexesConserved
INVARIANT ListsWellFormed
PROPERTY ImplementsRluAllocator
