CONSTANTS
  ByteCount = 2
  Bit31 = 64
  MaxStates = 16
  MaxText = 5
  PatternLists <- MCLists
SPECIFICATION FairSpec
INVARIANTS DiscoversReachable FindsPatterns CompilesIffUnambiguous
PROPERTIES Terminates
CHECK_DEADLOCK FALSE
