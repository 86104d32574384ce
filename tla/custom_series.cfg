SPECIFICATION SlotsSpec
CONSTANTS
  MaxFields = 2
  MaxDepth = 2
  MaxSteps = 3
  Keys <- MCKeys
  Values <- MCValues
  LongPaths <- MCLongPaths
  Bodies <- MCBodies
  MaxSlots = 2
  MaxHistory = 2
  TypedPaths = {}
  MaxEdits = 2
INVARIANTS PickedFieldPolls
CHECK_DEADLOCK FALSE
