SPECIFICATION FairSpec
CONSTANTS
    Settings <- Uses
    NXfers = 2
    NFrames = 2
    Fps = 3
    Rate = 5
    MaxGroups = 1
INVARIANTS StartedStreams NoOrphans BandwidthReleased HelperServesCapture NoDrift
PROPERTIES NoLateSubmit TriggersReturn
CHECK_DEADLOCK FALSE
