SPECIFICATION Spec
CONSTANTS
  Rates <- AllRates
  Dirs <- PlaybackOnly
  RingOf <- SmallRing
  AheadOf <- SmallAhead
  NChunks = 2
CHECK_DEADLOCK TRUE
INVARIANTS TypeOK Cadence InStep
PROPERTIES PlaysQueue
