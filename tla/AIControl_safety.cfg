SPECIFICATION Spec
CONSTANTS
  Calls = {c1, c2, c3}
  Clients = {k1, k2}
  Sessions = {s1}
  None = None
  MaxAnswering = 1
  Ops <- OnSessions
SYMMETRY Symmetry
INVARIANTS RevokedIsLeaving DelegationBelongs OnlyConsented AuditBeforeInjection
PROPERTIES GateSpec
CHECK_DEADLOCK FALSE
