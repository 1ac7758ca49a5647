SPECIFICATION FairSpec
CONSTANTS
  Dirs <- PlaybackOnly
  NChunks = 3
  Opened = FALSE
  Faults <- AllFaults
  MaxCount = 1
CHECK_DEADLOCK TRUE
INVARIANTS TypeOK ChunksConserved
PROPERTY CalloutDies
