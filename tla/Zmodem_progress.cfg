SPECIFICATION FairEngineSpec
CONSTANTS
  Transfers = {t1, t2}
  Programs = {"sz"}
  QueueCap = 1
  LateCalls = 1
  Jams = FALSE
  None = None
PROPERTIES TerminalRecovers

CHECK_DEADLOCK FALSE
