SPECIFICATION FairShareSpec
CONSTANTS
  Requests = {r1}
  Gui = {g1, g2}
  Interfaces = {i1, i2}
  Fetches = {f1}
  Removals = {}
  Sync = sync
  MaxFailures = 1
  Faults = FALSE
  None = None
PROPERTIES PairingsSettle
CHECK_DEADLOCK FALSE
