CONSTANTS
    MaxBytes = 3
    MaxChunk = 2
    PreviewLimit = 2
    MaxHeaderBytes = 12
    Streams <- SomeStreams
SPECIFICATION FairSpec
INVARIANTS
    TypeOK
    CaptureIsFinal
    RequestArrivesWhole
    HostIsRewritten
PROPERTIES
    OneEndClosesBoth
    NoCopierLeaks
CHECK_DEADLOCK FALSE
