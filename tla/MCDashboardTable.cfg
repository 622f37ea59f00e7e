SPECIFICATION Spec
CONSTANTS
  Starts = {"SignedIn", "OrgCreated"}
  Emails = {a, b}
  Lists <- MCAnyLists
  Members = {a}
  NoAccount = {b}
  MaxToken = 1
  MaxLoads = 1
  MaxRuns = 1
  MaxRevokes = 1
  MaxFaults = 1
  MaxRestarts = 1
INVARIANTS  TableIsTrue
CHECK_DEADLOCK FALSE
