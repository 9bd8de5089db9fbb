CONSTANTS
  Bytes <- MCBytes
  Needles <- MCNeedles
  BytesOf <- MCBytesOf
  Positions <- MCPositions
  Table <- MCTable
  Lines <- MCLines
SPECIFICATION Spec
INVARIANTS TypeOK MemoIsTruthful ScansOnce NothingSkippedMatches
PROPERTY ImplementsTableOrder
CHECK_DEADLOCK FALSE
