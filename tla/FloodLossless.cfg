SPECIFICATION FairSpec
CONSTANTS
  a = a
  b = b
  c = c
  d = d
  e = e
  p = p
  q = q
  none = none
  ZeroKey = none
  Keys <- OneKey
  Node = {a, b, c, d}
  Neighbours <- Kite
  RoleOf <- Routers
  Packets = {p}
  From <- FromCorner
  HopStart = 2
  N = 1
  MaxAttempts = 1
  Airtime = 1
  Lossy = FALSE
  MaxReboots = 0
  Window = 10
  LimitPermille = 1000
  MaxTime = 0
  Counted = 0
PROPERTIES
  EverybodyHears
CHECK_DEADLOCK FALSE
