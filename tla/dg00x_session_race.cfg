SPECIFICATION Spec
CONSTANTS
  Dirs <- Duplex
  NChunks = 1
  Opened = TRUE
  Faults <- NoFaults
  MaxCount = 1
CHECK_DEADLOCK TRUE
INVARIANT SessionOutlivesStreams
