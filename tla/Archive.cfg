CONSTANTS
  Names = {f, g}
  Contents <- MCContents
  MaxCells = 5
SPECIFICATION Spec
INVARIANTS TypeOK NothingIsLost
PROPERTIES ExtractedBeforeDeleted
