CONSTANTS
  Names = {f, g}
  Contents <- MCContents
  MaxCells = 5
SPECIFICATION Spec
PROPERTIES AddedMeansThere
