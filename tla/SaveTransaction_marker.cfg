SPECIFICATION Spec
CONSTANTS
  p = p
  q = q
  Path <- TwoPaths
  MaxBooks = 1
  MaxContent = 2
  InitialFiles <- BlankAtP
  FirstEdit = 1
  NoFile = NoFile
  Torn = Torn
  Closed = Closed
  NoPath = NoPath
  NoOp = NoOp
INVARIANT EditsAreSemantic
