SPECIFICATION Spec
CONSTANTS
  Starts = {"SignedIn"}
  Emails = {a, b}
  Lists <- MCLists
  Members = {}
  NoAccount = {}
  MaxToken = 3
  MaxLoads = 0
  MaxRuns = 1
  MaxRevokes = 0
  MaxFaults = 0
  MaxRestarts = 0
INVARIANTS TwinsNeedCause DoneMeansSent
PROPERTIES InviteRunEnds
CHECK_DEADLOCK FALSE
