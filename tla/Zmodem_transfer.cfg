SPECIFICATION Spec
CONSTANTS
  Transfers = {t1, t2}
  Programs = {"rz", "sz"}
  QueueCap = 1
  LateCalls = 2
  Jams = TRUE
  None = None
INVARIANTS ActiveIsComplete OwnsTheOutput
SYMMETRY Interchangeable
CHECK_DEADLOCK FALSE
