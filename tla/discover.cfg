SPECIFICATION FairSpec
CONSTANTS
  Faults <- InitFails
  MaxCards = 2
CHECK_DEADLOCK FALSE
INVARIANTS OneDiscoverer SearchGoesOn MatchHasCard
PROPERTY DeviceFound
