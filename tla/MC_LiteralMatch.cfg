CONSTANTS
  ByteCount = 2
  Bit31 = 16
  MaxStates = 9
  PatternLists <- MCLists
  Inputs <- MCInputs
  Caps <- MCCaps
SPECIFICATION MatchSpec
INVARIANTS ScanIsNaive HasMatchIffOccurs
CHECK_DEADLOCK FALSE
