SPECIFICATION FairSpec
CONSTANTS
  c1 = c1
  c2 = c2
  k1 = k1
  k2 = k2
  s1 = s1
  s2 = s2
  h1 = h1
  h2 = h2
  old = old
  other = other
  None = None
  Conns = {c1, c2}
  KnownClients = {old, other}
  Scenes <- AllScenes
  Connects = {k1, k2}
  Scopings = {s1, s2}
  Hosts = {h1, h2}
  Asks <- AsksOfCalls
INVARIANTS TypeOK TokensAreApproved SessionsAreAgreed CapIsKeptUncrossed
PROPERTIES ConnectionsEnd
CHECK_DEADLOCK FALSE
