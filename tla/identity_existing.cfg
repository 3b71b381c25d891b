SPECIFICATION Spec
CONSTANTS
  Identity = {i1}
  Password = {w1, w2}
  NoIdentity = NoIdentity
  NoPassword = NoPassword
  Slots = {s1}
  MaxOps = 3
  MaxParallel = 2
  MaxFaults = 1
CHECK_DEADLOCK FALSE
INVARIANTS
  ExistingRefused
