CONSTANTS
  ByteCount = 2
  Bit31 = 2
  MaxStates = 2
  MaxTransitions = 4
  Shapes <- MCShapes
  Targets = {1, 3}
  Pids = {0, 3}
  Lengths = {2}
  MaxAccepts = 2
SPECIFICATION Spec
INVARIANTS
  BuilderConsistent LastCallWins StorageLossless TruncationRejected CompiledIsStorable
CHECK_DEADLOCK FALSE
