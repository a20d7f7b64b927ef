CONSTANTS
  NumReaders = 2
  ArraySize = 2
  MaxSpurious = 0
SPECIFICATION FairSpec
INVARIANT ExitMeansNoMoreData
