SPECIFICATION Spec
CONSTANTS
    Settings <- Takeover
    NXfers = 2
    NFrames = 2
    Fps = 3
    Rate = 5
    MaxGroups = 2
INVARIANT StartedStreams
CHECK_DEADLOCK FALSE
