SPECIFICATION Spec
CONSTANTS
  User = {u1, u2}
  Port = {p1}
  AllUsers = AllUsers
  Slots = {s1, s2}
  MaxOps = 3
  MaxFaults = 1
SYMMETRY Symmetric
CHECK_DEADLOCK FALSE
INVARIANTS
  TypeOK
  NginxAgrees
