SPECIFICATION Spec
CONSTANTS
  SheetCells <- OneAndThree
  Books <- PartedBooks
  Typed = {0, 1}
  Cap = 1
  MaxIterations = 3
  MaxChange = 0
INVARIANT DependentsShareDraws
