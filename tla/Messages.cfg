SPECIFICATION Spec
CONSTANTS
  Absent = Absent
  WordBits = 15
  U32Bits = 10
  Inputs <- SampleInputs
  RequestIds <- Ids
  Nodes = 2
  Room = 16
  MaxFields = 2
INVARIANTS
  NodesAgree
  CanonicalIsBitIdentical
  AckIsRecognised
CHECK_DEADLOCK FALSE
