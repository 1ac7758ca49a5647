SPECIFICATION FairSpec
CONSTANTS
  Dirs <- Duplex
  NChunks = 1
  Opened = TRUE
  Faults <- FwFaults
  MaxCount = 1
CHECK_DEADLOCK FALSE
INVARIANTS UseCountsMatch
PROPERTIES StopExcludesEnable TriggersReturn
