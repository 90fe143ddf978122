CONSTANTS
  ByteCount = 2
  Bit31 = 8
  MaxJitStates = 8
  Junk = {5}
  Programs <- SmallPrograms
  Inputs <- MCInputs
  Caps <- MCCaps
SPECIFICATION Spec
INVARIANTS TypeOK LoadsInTable
PROPERTIES ImplementsInterp
CHECK_DEADLOCK FALSE
