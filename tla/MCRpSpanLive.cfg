SPECIFICATION FairSpec
CONSTANTS
  t1 = t1
  t2 = t2
  t3 = t3
  h1 = h1
  h2 = h2
  s1 = s1
  s2 = s2
  None = None
  INVALID = INVALID
  Thread <- ThreeThreads
  Heap <- TwoHeaps
  Span <- OneSpan
  BlockCount = 3
  PageBlocks = 2
  CacheLimit = 1
INVARIANTS CountersExact
PROPERTIES EndsWhenAlone ImplementsBlockPool
