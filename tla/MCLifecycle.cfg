\* Two accounts, two folders, two dialogs, and two starts after the first.
CONSTANTS
  Accounts = {a1, a2}
  Folders = {f1, f2}
  NoFolder = NoFolder
  Unreadable = Unreadable
  MaxDialogs = 2
  MaxRestarts = 2
SPECIFICATION Spec
SYMMETRY Symmetry
INVARIANTS  RestartKeepsState PanicNeedsCutOffWrite IndexOfRoot
CHECK_DEADLOCK FALSE
