\* One window, everything the user can do to nested folders, no path taken twice.
SPECIFICATION Spec
CONSTANTS
  FilePaths <- DeepFiles
  FolderPaths <- DeepFolders
  Present <- DeepPresent
  Kinds = {"create", "write", "save", "leave", "return", "rename", "replace", "replace folder"}
  Windows = FALSE
  Reuse = FALSE
  Calm = TRUE
  MaxChanges = 4
  MaxEarly = 2
  MaxWindows = 1
INVARIANTS PanicNeedsReuse Mirrors FolderMovesFirst
\* The user stops after MaxChanges.
CHECK_DEADLOCK FALSE
