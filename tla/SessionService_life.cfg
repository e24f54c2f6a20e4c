SPECIFICATION FairSpec
CONSTANTS
  Sessions = {s1}
  Kinds = {"local", "ssh"}
  ChanCap = 1
  MaxChunks = 2
  FileBrowser = TRUE
  Panics = TRUE
INVARIANTS NothingLostAtClose OneTruthfulEnd
 
CHECK_DEADLOCK FALSE
