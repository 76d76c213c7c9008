SPECIFICATION Spec
CONSTANTS
  Obj = {0, 1, 2, 3}
  Main = 0
  Slot = {1, 2}
  CoSlot = {1}
  Programs <- FivePrograms
  LateGC = FALSE
  None = None
INVARIANTS TypeOK ReachableAlive BlackNeverToWhite GrayInOneList
PROPERTIES FinalizedFirst
CHECK_DEADLOCK FALSE
