CONSTANTS
  NoName = NoName
  NoWorkspace = NoWorkspace
  RootName = "repository"
  NoSelection = NoSelection
  Histories <- AllHistories
  Selections <- AllSelections
  Edits = 2
  Absent = Absent
SPECIFICATION Spec
INVARIANT ExcludedNotDiscovered
