CONSTANTS
  a = a
  b = b
  Unparsed = Unparsed
  Keys <- MC_Keys
  Registered0 <- MC_Registered0
  BatchSize = 4
  MaxAborts = 2
SPECIFICATION Spec



INVARIANT BatchEffectsOnce
