CONSTANTS
  Files = {f1, f2}
  Handlers = {1, 2}
  FolderOf <- MCFolderOf
  Root = f1
  Incomplete <- MCIncomplete
  MaxShown = 1
  MaxConns = 2
  AtStart = 3
  MaxRevisions = 4
  MaxFaults = 1
SPECIFICATION ShellSpec
INVARIANTS PanicNeedsBrokenClient ShowsOwnAnswer ShownListIsWhole MissingNeedsCause CacheIsNewest
CHECK_DEADLOCK FALSE
