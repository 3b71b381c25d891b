SPECIFICATION FairSpec
CONSTANTS
  Provider = {p1, p2}
  Identity = {i1}
  NoProvider = NoProvider
  NoIdentity = NoIdentity
  Slots = {s1}
  Kinds = {"up", "down"}
  MaxOps = 3
  MaxFaults = 2
  MaxLapses = 2
CHECK_DEADLOCK FALSE
PROPERTIES
  TunnelRecovers
  SparesWorkingTunnel
  ImplementsLifecycle
