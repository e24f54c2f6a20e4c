SPECIFICATION FairPageSpec
CONSTANTS
  Tasks = {t1, t2}
  Cancels = {k1}
  MaxConcurrent = 1
  MaxFiles = 2
  MaxChunks = 1
  Sessions = {s1, s2}
  Dirs = {home, other}
  Home = home
  Movers = {t1}
  MaxVisits = 1
  Scenes <- AllScenes
  None = None
INVARIANTS SlotsInUse CancelTakesHold MovedFilesArrive DeletedAtItsSource
PROPERTIES CancelIsHarmless TasksSettle
CHECK_DEADLOCK FALSE
