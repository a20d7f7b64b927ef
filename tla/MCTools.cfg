CONSTANTS
  Contents <- SmallFiles
  MaxFiles = 2
  Runs = {1, 2}
  Arguments <- TwoArguments
  InitialMode <- Mode06644
  Pieces = 3
  Numbers = 3
SPECIFICATION FairSpec
INVARIANTS TypeOK PrintsAndReports OnlyWellFormed OneAfterTheOther
PROPERTIES LinesAreCurrent ReaderKeepsUp
