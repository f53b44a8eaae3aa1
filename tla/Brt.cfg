\* Rings smaller than a frame, raw bytes, and a reset: bytes are lost anywhere.
CONSTANTS
    Packet <- MCShortPacket
    Raw <- MCRaw
    Fcs <- MCFcs
    HDLC_FLAG = 7
    HDLC_ESCAPE = 6
    HDLC_ESCAPE_MASK = 4
    MaxFrameSize = 3
    BufferSize = {1}
    RawBufferSize = {0}
    TxRing = 1
    RxRing = 1
    MaxPackets = 3
    MaxResets = 1
SPECIFICATION Spec
INVARIANTS TypeOK Resynchronized
PROPERTIES ImplementsChannel
