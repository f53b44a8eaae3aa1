\* Four handles, three commands in the driver, two frames to send.
CONSTANTS
    h1 = h1
    h2 = h2
    h3 = h3
    h4 = h4
    ALLOC_ERROR = ALLOC_ERROR
    Handle <- MCHandle
    Frame <- MCFrame
    Channel = {0}
    ChannelCount = 3
    Psdu <- MCPsdu
    MaxPsduLength = 2
    RxBufferLength = 3
    Power = {0, 4}
    PowerTable = {1, 3}
    Capacity = {0, 1}
    MaxQueue = 3
    FsCanFail = TRUE
    MacWaits = TRUE
    SwiPrompt = FALSE
SYMMETRY HandleSymmetry
SPECIFICATION Spec
INVARIANTS TypeOK IdleSilences EndOfFrameDelivers CallsExpected
PROPERTIES TxBufferStable ImplementsInterface
