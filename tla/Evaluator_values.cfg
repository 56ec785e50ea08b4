SPECIFICATION Spec
CONSTANTS
  N = 3
  Formulas <- Direct
  Iterative = FALSE
INVARIANT TypeOK
INVARIANT RecursionIsShallow
PROPERTY ImplementsCalculation
PROPERTY CalculationsEnd
PROPERTY ResultsAreShared
