SPECIFICATION FairSpec
CONSTANTS
  OpenSets <- AnyOpen
  Traced <- AnyAlone
  PeriodOf <- OfAny
  LapsOf <- OfAny
CHECK_DEADLOCK FALSE
INVARIANTS PlaybackInOrder FeederAlive FeederDrained SoloRunning
PROPERTIES FeederDies CallsReturn
