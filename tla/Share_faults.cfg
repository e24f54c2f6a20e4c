SPECIFICATION ShareSpec
CONSTANTS
  Requests = {r1, r2}
  Gui = {g1, g2}
  Interfaces = {i1, i2}
  Fetches = {}
  Removals = {m1}
  Sync = sync
  MaxFailures = 2
  Faults = TRUE
  None = None
INVARIANTS ServesWhileEnabled IssuedIsApproved PairedWasApproved
SYMMETRY Symmetry
CHECK_DEADLOCK FALSE
