CONSTANTS
  ByteCount = 3
  Bit31 = 8
  Tables <- MCTables
SPECIFICATION RangesSpec
INVARIANTS RangesCorrect PanicsOnlyWithoutRow
CHECK_DEADLOCK FALSE
