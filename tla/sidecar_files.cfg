SPECIFICATION Spec
CONSTANTS
  Checkouts <- SomeCheckouts
  Places <- SomePlaces
  Directories <- SomeDirectories
  Outside <- Elsewhere
  Bytes = {"v1", "v2"}
  Released = "v1"
  NoDir = NoDir
  Refused = Refused
  PathLength = 2
  WorkingDirs <- SomeWorkingDirs
  Args <- SomeArgs
  Spellings <- AnySpelling
  MaxEdits = 2
INVARIANTS RunsWhatWasSigned MovesFreely RunsInWorkspace FoundWhereItIs
CHECK_DEADLOCK FALSE
