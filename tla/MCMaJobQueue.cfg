SPECIFICATION FairSpec
CONSTANTS
  Capacity = 3
  GroupBits = 2
  Client = {main, app}
  Main = main
  Worker = {w1, w2}
  Job = {j1, j2, j3}
  j1 = j1
  j2 = j2
  j3 = j3
  QUIT = QUIT
  NoJob = NoJob
  Follow <- MCFollow
  Scripts <- MCScripts
INVARIANTS
  TypeOK
  SlotsAccounted
  CountExact
  SemaphoreExact
PROPERTIES
  ImplementsFifo
  QuitReachesAll
CHECK_DEADLOCK FALSE
