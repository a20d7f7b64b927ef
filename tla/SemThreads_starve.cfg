CONSTANTS
  Pieces = 2
  Numbers = 2
SPECIFICATION FairSpec
PROPERTY WriterKeepsWriting
