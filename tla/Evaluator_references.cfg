SPECIFICATION Spec
CONSTANTS
  N = 2
  Formulas <- Referring
  Iterative = FALSE
INVARIANT OnlyCyclesAreCircular
