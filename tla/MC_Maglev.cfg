CONSTANTS
  f1 = f1
  f2 = f2
  Flows <- MC_Flows
  FlowHash <- MC_FlowHash
  ChtHeight = 5
  BackendCapacity = 3
SPECIFICATION Spec
INVARIANT TypeOK
INVARIANT ChtRowsArePermutations
PROPERTY PacketsGoToPreferred
