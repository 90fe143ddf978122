CONSTANTS
  ByteCount = 2
  Bit31 = 64
  MaxStates = 16
  MaxText = 5
  PatternLists <- OneLiteral
SPECIFICATION Spec
INVARIANTS LiteralWidth
CHECK_DEADLOCK FALSE
