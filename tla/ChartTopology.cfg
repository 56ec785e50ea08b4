SPECIFICATION Spec
CONSTANTS
  Types = {"Column", "Line", "Scatter", "Pie"}
  HasAxes = {"Column", "Line", "Scatter"}
  XYTypes = {"Scatter"}
  Files <- Charts
  NewTypes = {"Pie", "Column"}
  MaxSeries = 3
  MaxGroups = 4
  MaxAxes = 5
  MaxHidden = 1
  MaxRaw = 3
  MaxOps = 5
INVARIANT TypeOK
INVARIANT AxesAreBound
INVARIANT SavesKeepTheGroups
PROPERTY PartitionIsKept
PROPERTY HandlesDenote
CHECK_DEADLOCK FALSE
