SPECIFICATION Spec
CONSTANTS
  Files <- ChartFiles
  Kinds = {"chart"}
  ReadOnly = {TRUE, FALSE}
  MaxBooks = 2
  MaxSheets = 2
  MaxId = 2
  MaxHandles = 1
INVARIANT TypeOK
INVARIANT SomethingIsShown
INVARIANT HandlesDenoteTheirSheets
INVARIANT FailuresChangeNothing
PROPERTY OnlyDeletingLosesData
