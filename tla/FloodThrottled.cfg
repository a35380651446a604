SPECIFICATION Spec
CONSTANTS
  a = a
  b = b
  c = c
  d = d
  e = e
  p = p
  q = q
  none = none
  ZeroKey = none
  Keys <- TwoKeys
  Node = {a, b, c}
  Neighbours <- Line
  RoleOf <- Clients
  Packets = {p, q}
  From <- FromEnds
  HopStart = 1
  N = 2
  MaxAttempts = 2
  Airtime = 1
  Lossy = TRUE
  MaxReboots = 0
  Window = 2
  LimitPermille = 500
  MaxTime = 3
  Counted = 0
PROPERTIES
  ThrottledIsRelayedLater
CHECK_DEADLOCK FALSE
