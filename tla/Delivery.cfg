SPECIFICATION Spec
CONSTANTS
  BROADCAST_ADDR = BROADCAST_ADDR
  Nodes = {1, 2, 257}
  Sender = 1
  Relays = {257}
  Traffics <- MCTraffics
  Packets <- MCPackets
  IdOf <- MCIdOf
  WellSized <- MCPackets
  Names <- MCNames
  KeyIndex = 1
  HopStart = 1
  MaxAcks = 2
  MaxRelayed = 1
  HISTORY = 1
  MaxHeard = 3
  MaxRestarts = 1
  Capacity = 1
  MaxAttempts = 2
  Interval = 0
  Window = 1
  LimitPermille = 1000
INVARIANTS
  AckMeansProcessed
  ProcessedOnce
  GivenUpWasNotAnswered
  OnlyZeroHashIsMisread
  NoKeystreamTwice
  AcksAreFinal
  AttemptsAreAccounted
CHECK_DEADLOCK FALSE
