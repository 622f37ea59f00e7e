\* Calls fail, answers are lost, and the program restarts.
SPECIFICATION Spec
CONSTANTS
  Scenarios <- All
  MaxFaults = 3
  MaxExpiries = 0
  MaxCrashes = 2
INVARIANTS PanicNeedsRace DeliveredAfterFailure
PROPERTIES CreatesNoTwin
\* The windows end.
CHECK_DEADLOCK FALSE
