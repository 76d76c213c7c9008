SPECIFICATION FairSpec
CONSTANTS
  Buffer = {b1, b2}
  Worker = {w1, w2}
  b1 = b1
  w1 = w1
  w2 = w2
  MaxPages = 1
  Nobody = Nobody
  Configs <- MCConfigs
INVARIANTS
  TypeOK
  NodeHeld
  CountsExact
PROPERTIES
  Settles
CHECK_DEADLOCK FALSE
