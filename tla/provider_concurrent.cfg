SPECIFICATION Spec
CONSTANTS
  Provider = {p1, p2}
  Identity = {i1, i2}
  NoProvider = NoProvider
  NoIdentity = NoIdentity
  Slots = {s1, s2}
  Kinds = {"up", "down", "create", "remove", "upCreate", "downAll"}
  MaxOps = 3
  MaxFaults = 1
SYMMETRY Symmetric
CHECK_DEADLOCK FALSE
INVARIANTS
  TypeOK
PROPERTIES
  EstablishedSurvivesUp
