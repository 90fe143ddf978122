CONSTANTS
  ByteCount = 2
  Bit31 = 16
  MaxStates = 9
  PatternLists <- MCLists
SPECIFICATION Spec
INVARIANTS
  TypeOK TrieIsPrefixTree FailIsLongestSuffix LinksAreNextPattern
  AcceptsLongestSuffix DenseIsLongestSuffix BuildsWellFormed
CHECK_DEADLOCK FALSE
