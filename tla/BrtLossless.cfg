\* Rings that hold all that is sent, and no reset: nothing is lost.
CONSTANTS
    Packet <- MCPacket
    Raw = {}
    Fcs <- MCCrcFcs
    HDLC_FLAG = 126
    HDLC_ESCAPE = 125
    HDLC_ESCAPE_MASK = 32
    MaxFrameSize = 4
    BufferSize = {2}
    RawBufferSize = {}
    TxRing = 16
    RxRing = 16
    MaxPackets = 2
    MaxResets = 0
SPECIFICATION FairSpec
INVARIANTS ChecksumIsCrc16 Transparent
PROPERTIES AllDelivered
