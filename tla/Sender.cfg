SPECIFICATION FairSpec
CONSTANTS
  p1 = p1
  p2 = p2
  p3 = p3
  Packets <- MCPackets
  IdOf <- MCIdOf
  WellSized <- MCPackets
  Capacity = 2
  MaxAttempts = 2
  Interval = 2
  Window = 3
  LimitPermille = 700
  Airtime = 1
  MaxTaken = 2
  MaxTime = 13
  QuietAfter = 3
  Lateness = 1
INVARIANTS
  EachPendingInOneSlot
  NeverBeyondTheCeiling
  
PROPERTIES
  HandedOutInTime
  GiveUpIsEvidence
  EventuallyRetired
CHECK_DEADLOCK FALSE
