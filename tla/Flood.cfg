SPECIFICATION Spec
CONSTANTS
  a = a
  b = b
  c = c
  d = d
  e = e
  p = p
  q = q
  none = none
  ZeroKey = none
  Keys <- OneKey
  Node = {a, b, c, d}
  Neighbours <- Ring
  RoleOf <- Mixed
  Packets = {p}
  From <- FromCorner
  HopStart = 2
  N = 1
  MaxAttempts = 2
  Airtime = 1
  Lossy = TRUE
  MaxReboots = 1
  Window = 1
  LimitPermille = 1000
  MaxTime = 1
  Counted = 3
INVARIANTS
  RelayedOncePerLife
  
CHECK_DEADLOCK FALSE
