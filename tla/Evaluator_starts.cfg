SPECIFICATION Spec
CONSTANTS
  N = 2
  Formulas <- Catching
  Iterative = FALSE
PROPERTY IndependentOfStart
