SPECIFICATION Spec
CONSTANTS
  Identity = {i1, i2}
  Password = {w1, w2}
  NoIdentity = NoIdentity
  NoPassword = NoPassword
  Slots = {s1, s2}
  MaxOps = 4
  MaxParallel = 2
  MaxFaults = 2
SYMMETRY Symmetric
CHECK_DEADLOCK FALSE
INVARIANTS
  TypeOK
  KeyNotLost
  CreatedIsWhole
  RefusedLeavesNothing
  AddHeals
  RemovedIsGone
  InStep
PROPERTIES
  ImplementsRegistry
