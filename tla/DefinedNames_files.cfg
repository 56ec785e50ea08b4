SPECIFICATION Spec
CONSTANTS
  Text <- TwoTexts
  Valid <- TwoTexts
  Canonical <- Itself
  Hidings = {FALSE}
  Target <- TwoTitles
  Slots = {1}
  MaxNameId = 3
  MaxSheetId = 2
  Titles <- TwoTitles
  File <- LocalNameAndChart
  Operations = {"add", "delete", "refers", "hide", "source", "save", "reopen"}
INVARIANT CleanNamesAreOnDisk
INVARIANT SourcesAreResolved
