SPECIFICATION Spec
CONSTANTS
  h1 = h1
  h2 = h2
  r1 = r1
  r2 = r2
  r3 = r3
  None = None
  Main = h1
  Heap <- TwoHeaps
  Region <- ThreeRegions
  Configs <- OneConfig
  HeapSpans = 1
  CacheTransfer = 1
  GlobalCache = TRUE
SYMMETRY RegionSymmetry
CHECK_DEADLOCK FALSE
INVARIANTS GlobalLockHeld
