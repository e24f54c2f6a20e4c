SPECIFICATION FairSpec
CONSTANTS
  Calls = {c1, c2}
  Clients = {k1}
  Sessions = {s1}
  None = None
  MaxAnswering = 1
  Ops <- EveryOp
PROPERTIES NothingHeldForEver
CHECK_DEADLOCK FALSE
