\* Windows that end between the events of one change, and paths that are taken again in
\* their window, without renames; on Windows.
SPECIFICATION Spec
CONSTANTS
  FilePaths <- FlatFiles
  FolderPaths <- FlatFolders
  Present <- FlatPresent
  Kinds = {"create", "write", "save", "leave", "return", "replace", "replace folder"}
  Windows = TRUE
  Reuse = TRUE
  Calm = FALSE
  MaxChanges = 3
  MaxEarly = 2
  MaxWindows = 3
INVARIANTS PanicNeedsReuse Mirrors
\* The user stops after MaxChanges.
CHECK_DEADLOCK FALSE
