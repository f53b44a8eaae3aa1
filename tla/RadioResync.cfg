\* The MAC goes from Idle to RxNow in one interrupt, as it does to synchronize.
CONSTANTS
    h1 = h1
    h2 = h2
    h3 = h3
    h4 = h4
    ALLOC_ERROR = ALLOC_ERROR
    Handle <- MCHandle
    Frame <- MCFrame
    Channel = {0}
    ChannelCount = 3
    Psdu <- MCPsdu
    MaxPsduLength = 2
    RxBufferLength = 3
    Power = {2}
    PowerTable = {1, 3}
    Capacity = {0, 1}
    MaxQueue = 3
    FsCanFail = FALSE
    MacWaits = FALSE
    SwiPrompt = FALSE
SYMMETRY HandleSymmetry
SPECIFICATION Spec
INVARIANTS IdleSilences
