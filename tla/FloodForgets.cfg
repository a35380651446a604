SPECIFICATION FairSpec
CONSTANTS
  a = a
  b = b
  c = c
  d = d
  e = e
  p = p
  q = q
  none = none
  ZeroKey = none
  Keys <- TwoKeys
  Node = {a, b, c, d, e}
  Neighbours <- Row
  RoleOf <- Clients
  Packets = {p, q}
  From <- FromOuter
  HopStart = 2
  N = 1
  MaxAttempts = 2
  Airtime = 0
  Lossy = TRUE
  MaxReboots = 0
  Window = 2
  LimitPermille = 500
  MaxTime = 0
  Counted = 0
INVARIANTS
  WithinReach
PROPERTIES
  FloodEnds
CHECK_DEADLOCK FALSE
