CONSTANTS
  ByteCount = 2
  Bit31 = 8
  Tables <- MCTables
SPECIFICATION FairSpec
INVARIANTS MinimizedEquivalent NoTwoStatesEquivalent ValidNeverPanics
PROPERTIES OnlySplits Terminates
CHECK_DEADLOCK FALSE
