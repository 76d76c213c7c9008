SPECIFICATION Spec
CONSTANTS
  Buffer = {b1, b2}
  Worker = {w1, w2}
  b1 = b1
  w1 = w1
  w2 = w2
  MaxPages = 1
  Nobody = Nobody
  Configs <- MCTwoThreads
INVARIANTS
  NodeHeld
CHECK_DEADLOCK FALSE
