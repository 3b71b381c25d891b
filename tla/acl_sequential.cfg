SPECIFICATION Spec
CONSTANTS
  User = {u1, u2}
  Port = {p1, p2}
  AllUsers = AllUsers
  Slots = {s1}
  MaxOps = 4
  MaxFaults = 2
SYMMETRY Symmetric
CHECK_DEADLOCK FALSE
INVARIANTS
  NoDuplicateGrant
  FileIntact
PROPERTIES
  ImplementsStore
