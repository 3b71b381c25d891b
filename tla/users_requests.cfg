SPECIFICATION Spec
CONSTANTS
  Name = {n1, n2}
  Password = {w1, w2}
  NoPassword = NoPassword
  Slots = {s1, s2}
  MaxOps = 4
  MaxFaults = 2
SYMMETRY Symmetric
CHECK_DEADLOCK FALSE
INVARIANTS
  TypeOK
  OkMeansBoth
  InStep
  UniqueName
