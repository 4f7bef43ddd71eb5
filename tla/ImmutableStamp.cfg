SPECIFICATION SlotSpec
CONSTANTS
  MaxSlots = 1
  MaxQueued = 1
  GenMax = 3
INVARIANTS ImmutableAsCreated
