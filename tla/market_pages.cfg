SPECIFICATION Spec
CONSTANTS
  DefaultLimit = 4
  Provider = {p1, p2, p3}
  Odd = {p3}
  None = None
  MaxProxies = 2
  Slots = {s1, s2}
  MaxEvents = 1
CHECK_DEADLOCK FALSE
INVARIANTS
  MarketPages
