\* A token expires at any moment, one call fails, and the program restarts once.
SPECIFICATION Spec
CONSTANTS
  Scenarios <- Few
  MaxFaults = 1
  MaxExpiries = 1
  MaxCrashes = 1
INVARIANTS IndexIsTrue Mirrors
PROPERTIES DeletesOnlyWhatIsGone
\* The windows end.
CHECK_DEADLOCK FALSE
