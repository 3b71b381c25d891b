SPECIFICATION Spec
CONSTANTS
  Provider = {p1, p2}
  Identity = {i1, i2}
  NoProvider = NoProvider
  NoIdentity = NoIdentity
  Slots = {s1}
  Kinds = {"up", "down", "create", "remove", "upCreate", "downAll"}
  MaxOps = 5
  MaxFaults = 2
SYMMETRY Symmetric
CHECK_DEADLOCK FALSE
INVARIANTS
  NoSharedIdentity
  ProxyHasConnection
  EnvoyBehindSocat
  NoHijack
  ConnectFindsNoTunnel
  DownAllLeavesNothing
PROPERTIES
  ImplementsLease
