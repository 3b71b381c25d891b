SPECIFICATION Spec
CONSTANTS
  Slots = {s1, s2}
  StartPort = 3129
  Ports = {3128, 3129, 3130, 3131, 3132, 3133}
  Foreign = {3129, 3130}
  MaxRetry = 3
  MaxOps = 3
  MaxFaults = 2
SYMMETRY Symmetric
CHECK_DEADLOCK FALSE
INVARIANTS
  PickedIsFree
  RefusedLeavesNothing
  NoSelfConflict
  RetriesSuffice
