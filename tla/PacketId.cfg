SPECIFICATION FairSpec
CONSTANTS
  MaxId = 7
  DefaultBlock = 2
  Blocks <- MCBlocks
  Seeds <- MCSeeds
  NoMark = NoMark
INVARIANTS
  IssuedBelowDurable
PROPERTIES
  NeverReissued
  RestartSkipsAtMostABlock
  KeepsAnswering
