SPECIFICATION FairSpec
CONSTANTS
  Obj = {0, 1, 2}
  Main = 0
  Slot = {1}
  CoSlot = {1}
  Programs <- OneProgram
  LateGC = FALSE
  None = None
PROPERTIES GarbageFreed
CHECK_DEADLOCK FALSE
