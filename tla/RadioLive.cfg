\* One frame to send and to receive; the synthesizer locks.
CONSTANTS
    h1 = h1
    h2 = h2
    h3 = h3
    h4 = h4
    ALLOC_ERROR = ALLOC_ERROR
    Handle <- MCThreeHandles
    Frame <- MCOneFrame
    Channel = {0}
    ChannelCount = 3
    Psdu <- MCOneFrame
    MaxPsduLength = 2
    RxBufferLength = 3
    Power = {2}
    PowerTable = {1, 3}
    Capacity = {0, 1}
    MaxQueue = 2
    FsCanFail = FALSE
    MacWaits = TRUE
    SwiPrompt = TRUE
SPECIFICATION FairSpec
INVARIANTS EndNotLost
PROPERTIES FrameEnds
