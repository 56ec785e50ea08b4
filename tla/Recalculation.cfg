SPECIFICATION Spec
CONSTANTS
  SheetCells <- OneAndThree
  Books <- MCBooks
  Typed = {0, 1}
  Cap = 1
  MaxIterations = 3
  MaxChange = 0
INVARIANT TypeOK
INVARIANT FullFilesAreSettled
INVARIANT DependentsShareDraws
PROPERTY CalculationsEnd
