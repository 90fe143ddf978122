CONSTANTS
  ByteCount = 2
  Bit31 = 8
  Tables <- FlaggedTables
SPECIFICATION Spec
INVARIANTS SameLanguage
CHECK_DEADLOCK FALSE
