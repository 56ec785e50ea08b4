SPECIFICATION Spec
CONSTANTS
  Text <- Texts
  Valid <- Texts
  Canonical <- Lower
  Hidings = {FALSE}
  Target <- TwoTitles
  Slots = {1}
  MaxNameId = 3
  MaxSheetId = 2
  Titles <- TwoTitles
  File <- LocalNames
  Operations = {"remove", "save"}
INVARIANT CanBeSaved
