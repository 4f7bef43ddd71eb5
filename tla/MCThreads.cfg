SPECIFICATION ThreadsSpec
CONSTANTS
  Owner = owner
  WORK_BUNDLE_COUNT = 3
  MaxHardware = 4
  MaxItems = 4
  ItemKinds = {"country", "province"}
  Phases <- MCPhases
  t1 = t1
  t2 = t2
  panel = panel
  chart = chart
  p1 = p1
  p2 = p2
  p3 = p3
  Emitter <- TwoThreads
  Slot <- TwoSlots
  Payload <- ThreePayloads
  NoPayload = NoPayload
  Free = Free
  Thread <- TwoThreads
  Mutable <- MutableStates
  Derived <- DerivedStates
  Observer <- Panels
  On <- Shown
  Values <- SomeValues
  Initial <- AtStart
  NextRead <- tariff_read
  Result <- tariff_result
  Done = "done"
  MaxReads = 3
  NoThread = NoThread
  Unread = Unread
INVARIANTS
  DrawsIndependentOfThreads
  CleanIsCurrent
  TrackedOnce
  EmissionsKeepTheirList
PROPERTIES
  PhaseIsForkJoin
  NobodyWaitsForEver
CHECK_DEADLOCK FALSE
