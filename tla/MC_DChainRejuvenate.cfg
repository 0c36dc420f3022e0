\* One core is enough: a single allocated index, rejuvenated later.
CONSTANTS
  NumCores = 1
  Capacity = 2
  MaxTime = 1
SPECIFICATION Spec
PROPERTY RejuvenateUpdatesTimestamp
