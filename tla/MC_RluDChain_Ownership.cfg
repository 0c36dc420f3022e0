CONSTANTS
  NumCores = 2
  Capacity = 4
  MaxTime = 0
SPECIFICATION Spec
PROPERTY FreeRejectsForeignIndex
