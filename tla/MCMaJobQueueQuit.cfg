SPECIFICATION FairSpec
CONSTANTS
  Capacity = 3
  GroupBits = 2
  Client = {main}
  Main = main
  Worker = {w1}
  Job = {j1, j2, j3}
  j1 = j1
  j2 = j2
  j3 = j3
  QUIT = QUIT
  NoJob = NoJob
  Follow <- MCFollow
  Scripts <- MCFull
PROPERTIES
  UninitReturns
CHECK_DEADLOCK FALSE
