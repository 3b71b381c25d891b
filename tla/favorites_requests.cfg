SPECIFICATION Spec
CONSTANTS
  User = {u1, u2}
  Port = {p1, p2, p3}
  Kind = {k1, k2}
  Nobody = Nobody
  Other = Other
  All = All
  PageLimit = 2
  MaxProxies = 3
  Slots = {s1, s2}
  MaxEvents = 4
SYMMETRY Symmetric
CHECK_DEADLOCK FALSE
INVARIANTS
  AllOrNothing
PROPERTIES
  ListShowsTold
  StaysRemoved
