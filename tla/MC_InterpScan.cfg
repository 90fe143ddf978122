CONSTANTS
  ByteCount = 2
  Bit31 = 8
  Programs <- SmallPrograms
  Inputs <- MCInputs
  Caps <- MCCaps
SPECIFICATION FairSpec
INVARIANTS TypeOK ResultCorrect OffsetsSound
PROPERTIES SlotsWrittenOnce Terminates
CHECK_DEADLOCK FALSE
