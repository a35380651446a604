SPECIFICATION CalcSpec
CONSTANTS
  Second = 8
  MaxMicros = 6000000
  MaxSignal = 10
  Modems <- MCModems
  Lengths <- MCLengths
  Windows <- MCWindows
  Signals <- MCSignals
  Block = 7
  WordLen = 1
  Radix = 4
  TagLen = 4
  Packets <- MCPackets
  Epochs = {0, 1}
  Texts <- MCTexts
  Rests = {3, 4}
  MaxSent = 2
  P = 89
  CurveA = 8
  A24 = 47
  Bits = 6
  Scalars <- MCScalars
  PublicKeys <- MCPublicKeys
INVARIANTS
  AirtimeIsTheFormula
  KeystreamOnce
  AlteredIsRefused
  AgreesWithTheCurve
PROPERTIES
  WindowFollowsSignal
CHECK_DEADLOCK FALSE
