SPECIFICATION Spec
CONSTANTS
  Text <- Texts
  Valid <- Texts
  Canonical <- Lower
  Hidings = {FALSE}
  Target <- TwoTitles
  Slots = {1}
  MaxNameId = 4
  MaxSheetId = 2
  Titles <- TwoTitles
  File <- LocalNamesAndChart
  Operations = {"add", "delete", "rename", "refers", "hide", "append", "insert", "move", "remove", "retitle", "reopen"}
INVARIANT TypeOK
INVARIANT TableIsABijection
PROPERTY NamesKeepTheirIds
