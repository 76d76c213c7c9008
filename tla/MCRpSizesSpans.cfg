SPECIFICATION Spec
CONSTANTS
  None = None
  SpanSize = 128
  PageSize = 32
  HeaderSize = 8
  SmallGranularity = 2
  SmallClasses = 9
  MediumGranularity = 8
  MediumClasses = 8
  LargeClasses = 3
  Sizes <- BoundarySizes
  Slots = 2
  Alignments <- LegalAlignments
INVARIANTS
  TypeOK
  BlockHoldsRequest
  FreeFindsBlock
  AlignedAsPromised
  MergedFully
PROPERTIES
  ReallocPreserves
