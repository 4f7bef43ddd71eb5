SPECIFICATION StorageSpec
CONSTANTS
  MaxSlots = 3
  GenMax = 1
  Block <- SomeBlocks
  MaxPoolSize = 2
  AgeThreshold = 0
  Component <- SmallComponents
  SizeOf <- Sizes
  AlignOf <- Alignments
  IdBytes = 8
  BlockBytes = 24
  MatcherBits = 63
  EpochMax = 1
  Present = present
  Creations <- SomeCreations
  Changeable = {2, 64}
  Queries <- SomeQueries
  MaxVersion = 4
INVARIANTS
  RowsMatchSlots
  BlocksOwnedOnce
  CacheComplete
  LayoutSound
PROPERTY
  StorageRefinesStore
  VersionGuardsAddresses
CHECK_DEADLOCK FALSE
