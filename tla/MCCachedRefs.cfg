SPECIFICATION RefSpec
CONSTANTS
  MaxSlots = 3
  GenMax = 1
  Block <- SomeBlocks
  MaxPoolSize = 2
  AgeThreshold = 1
  Component <- TwoComponents
  SizeOf <- Sizes
  AlignOf <- Alignments
  IdBytes = 8
  BlockBytes = 24
  MatcherBits = 63
  EpochMax = 2
  Present = present
  Creations <- SomeCreations
  Changeable = {64}
  Queries = {}
  RefComponent = 1
  MaxVersion = 4
INVARIANT
  StableVersionIsValid
CHECK_DEADLOCK FALSE
