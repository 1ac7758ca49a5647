SPECIFICATION FairSpec
CONSTANTS
    Settings <- Machines
    MaxCalls = 3
INVARIANTS OwnAnswer
PROPERTIES Returns
CHECK_DEADLOCK FALSE
