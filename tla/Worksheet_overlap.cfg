SPECIFICATION Spec
CONSTANTS
  Rows = 2
  Cols = 2
  v = v
  f = f
  x = x
  InputValue <- MCInputValue
  ArrayValue <- MCBlankArrayValue
  Formula <- MCFormula
  Blank = Blank
  SpillError = SpillError
  NoFormula = NoFormula
  NoCell = NoCell
  NoOwner = NoOwner
  Areas <- SingleCells
  MaxExtent = 2
  Scopes <- WholeSheet
  LoadedSheets <- NewSheetOnly
INVARIANTS
  SpillRangesDisjoint
