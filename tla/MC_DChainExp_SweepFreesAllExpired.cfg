CONSTANTS
  NumCores = 2
  Capacity = 4
  MaxTime = 4
  Validity = 1
  MaxSkew = 0
SPECIFICATION Spec
PROPERTY SweepFreesAllExpired
