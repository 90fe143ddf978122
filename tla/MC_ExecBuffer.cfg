CONSTANTS
  t1 = t1  t2 = t2
  large = large  interpreted = interpreted  huge = huge
  NoDfa = NoDfa
  Threads = {t1, t2}
  Dfas = {large, interpreted, huge}
  StateCount <- MCStateCount
  CodeLength <- MCCodeLength
  PageSize = 4
  PageCount = 4
  MaxStates = 8
  MaxJitStates = 2
SPECIFICATION FairSpec
INVARIANTS TypeOK PagesAccounted CodeIntact
PROPERTIES ExecutableIsFinal ImplementsHandle CompileReturns MemoryGivenUp
CHECK_DEADLOCK FALSE
