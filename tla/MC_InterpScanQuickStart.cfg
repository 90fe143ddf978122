CONSTANTS
  ByteCount = 2
  Bit31 = 8
  Programs <- QuickStart
  Inputs <- QuickStartInput
  Caps = {0}
SPECIFICATION Spec
INVARIANTS ScanReturnsAllMatches
CHECK_DEADLOCK FALSE
