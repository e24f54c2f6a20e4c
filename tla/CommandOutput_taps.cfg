SPECIFICATION FairSpec
CONSTANTS
  r1 = r1
  r2 = r2
  r3 = r3
  r4 = r4
  u1 = u1
  q1 = q1
  b1 = b1
  j1 = j1
  None = None
  Scenes <- AllScenes
  Commands = {r1, r2, r3, r4, u1}
  Runs = {r1, r2, r3, r4}
  Unrecorded = {r4}
  FullScreen = {r2}
  Queries = {q1}
  Reinjects = {j1}
  Suspends = {b1}
  MaxChunk = 3
  MaxWait = 4
  MaxWire = 1
  Cap = 4
INVARIANTS ScriptNotShown RowsDisjoint TrailingChunkIncluded
PROPERTIES ProbesNeverBlock
CHECK_DEADLOCK FALSE
