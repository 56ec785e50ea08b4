SPECIFICATION Spec
CONSTANTS
  Rows = 1
  Cols = 3
  v = v
  f = f
  x = x
  InputValue <- MCInputValue
  ArrayValue <- MCArrayValue
  Formula <- MCFormula
  Blank = Blank
  SpillError = SpillError
  NoFormula = NoFormula
  NoCell = NoCell
  NoOwner = NoOwner
  Areas <- FirstCellAndPair
  MaxExtent = 2
  Scopes <- WholeSheet
  LoadedSheets <- MCLoadedSheets
INVARIANTS
  DirtyCellsAreAnnounced
PROPERTIES
  ChangesAreMarkedDirty
  ImplementsInputs
