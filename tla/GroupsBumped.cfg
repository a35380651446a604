SPECIFICATION Spec
CONSTANTS
  BROADCAST_ADDR = BROADCAST_ADDR
  NoKey = NoKey
  Nodes = {1, 2, 3}
  Owner = 1
  PublicKeys = {k}
  Capacity = 2
  MaxEpoch = 1
  GroupId = 7
  Texts <- MCTexts
  HopStart = 1
  Relays = {3}
  ChannelHash = 8
  Foreign <- MCForeign
  MaxKeys = 1
  MaxIds <- MCMaxIds
  MaxInvites = 2
INVARIANTS
  BumpRevokes
CHECK_DEADLOCK FALSE
