SPECIFICATION FairSpec
CONSTANTS
    Streams <- MCStreams
    MaxEvents = 2
    MaxBuffer = 10
    MaxTokens = 2
    MaxEndpoints = 2
    MaxCycles = 3
INVARIANTS ChunksDoNotMatter DamagedWhereCut FileIsWhole CapturesToTheEnd
PROPERTIES CaptureEnds
CHECK_DEADLOCK FALSE
