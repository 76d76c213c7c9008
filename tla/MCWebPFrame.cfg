SPECIFICATION FairSpec
CONSTANTS
  Rows = 5
  Shown <- MCShown
INVARIANTS
  TypeOK
  RowIntact
  IdleOutside
PROPERTIES
  ImplementsRowOutput
  DecodeEnds
