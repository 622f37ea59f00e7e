CONSTANTS
  Threads = {t1, t2}
  Objects = {o1, o2, o3}
  Pointers = {p1, p2, p3, p4}
  NoObject = none
  NoPointer = null
  MaxLocks = 1
  MaxFailures = 1
SPECIFICATION MCSpec
INVARIANTS DeletedOnce CountIsRight HandlersKeepLibrary RegistrationIsWhole
CHECK_DEADLOCK FALSE
