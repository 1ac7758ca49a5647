SPECIFICATION FairSpec
CONSTANTS
  Dirs <- PlaybackOnly
  NChunks = 3
  Opened = FALSE
  Faults <- OpenFaults
  MaxCount = 1
CHECK_DEADLOCK TRUE
INVARIANTS EnginesOff StartDrainsIdleContext DmaOnlyInSession
PROPERTY TxKeepsFed
