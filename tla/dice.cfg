SPECIFICATION FairSpec
CONSTANTS
    Settings <- Uses
    NChunks = 1
    StallLimit = 2
    MaxResets = 2
    MaxRefusals = 1
    MaxCount = 2
INVARIANTS UseCountsMatch StopsQuiet CalloutAlive OnlyDeadRestarted
PROPERTIES PlaybackRevives
