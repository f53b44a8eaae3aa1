-------------------------------- MODULE Brt --------------------------------
(***************************************************************************)
(* The link between a root node and its border router,                     *)
(* embenet_node_port/src/embenet_brt.c: packets with a two-byte checksum   *)
(* in HDLC framing over a UART.                                            *)
(*                                                                         *)
(* One direction is modelled, from EMBENET_BRT_Send to EMBENET_BRT_Receive *)
(* (the border router runs the same protocol, so each end may be either).  *)
(* The UART driver's rings (external) are bounded and drop what does not   *)
(* fit, the receiving node may be reset or its link closed, and it may     *)
(* read bytes raw: these are the ways in which bytes are lost to Receive.  *)
(* A byte on the line is given by its place in what was sent: the driver   *)
(* loses bytes, but does not change or reorder them.                       *)
(***************************************************************************)
EXTENDS Naturals, Sequences, SequencesExt

CONSTANTS
    Packet,        \* packets to be sent, sequences of bytes
    Raw,           \* raw chunks to be sent, sequences of bytes
    Fcs(_),        \* the two bytes of the checksum of a sequence of bytes
    HDLC_FLAG, HDLC_ESCAPE, HDLC_ESCAPE_MASK,
    MaxFrameSize,  \* EMBENET_BRT_MAX_FRAME_SIZE
    BufferSize,    \* sizes of the buffers passed to EMBENET_BRT_Receive
    RawBufferSize, \* sizes of those passed to EMBENET_BRT_ReceiveRaw
    TxRing,        \* capacity of the UART's transmit ring
    RxRing,        \* capacity of the UART's receive ring
    MaxPackets,    \* bound on the packets and raw chunks sent
    MaxResets      \* bound on how often the receiving node is reset or its link closed

ASSUME HdlcAssumption ==
    /\ {HDLC_FLAG, HDLC_ESCAPE, HDLC_ESCAPE_MASK} \subseteq Nat
    /\ HDLC_FLAG # HDLC_ESCAPE /\ HDLC_ESCAPE_MASK > 0
ASSUME PacketAssumption ==
    /\ MaxFrameSize \in Nat
    /\ \A p \in Packet : p \in Seq(Nat) /\ p # <<>> /\ Len(p) + 2 =< MaxFrameSize
    /\ \A p \in Packet : Fcs(p) \in Seq(Nat) /\ Len(Fcs(p)) = 2
    /\ \A r \in Raw : r \in Seq(Nat)
ASSUME SizeAssumption ==
    /\ BufferSize \subseteq Nat /\ RawBufferSize \subseteq Nat
    /\ {TxRing, RxRing, MaxPackets, MaxResets} \subseteq Nat

\* data ^ HDLC_ESCAPE_MASK: the mask is a single bit.
XorMask(byte) ==
    IF (byte \div HDLC_ESCAPE_MASK) % 2 = 1
    THEN byte - HDLC_ESCAPE_MASK ELSE byte + HDLC_ESCAPE_MASK

ASSUME EscapeAssumption ==
    \A byte \in {HDLC_FLAG, HDLC_ESCAPE} :
        XorMask(byte) \notin {HDLC_FLAG, HDLC_ESCAPE} /\ XorMask(XorMask(byte)) = byte

VARIABLES
    sent,          \* what has been passed to Send and SendRaw so far
    next,          \* the place of the byte that Send or SendRaw writes next
    txRing, rxRing,\* places of the bytes that the UARTs hold
    open,          \* whether the receiving node has opened its UART
    inputFrame,    \* the bytes of the frame being received
    receiving,     \* inputFrameReceiving
    lastDataByte,
    delivered,     \* the packets Receive has returned, with their numbers
    damaged,       \* numbers of the packets and raw chunks that lost a byte
    current,       \* the place of the byte that Receive has read last
    resets

sender == <<sent, next, txRing>>
decoder == <<inputFrame, receiving, lastDataByte>>
receiver == <<rxRing, open, resets>>
vars == <<sender, receiver, decoder, delivered, damaged, current>>

\* A place: the number of what was sent, the index of a byte of its frame, and
\* which of the two bytes it is that an escaped one becomes.
Place(no, at) == [no |-> no, at |-> at, part |-> 1]

Init ==
    /\ sent = <<>> /\ next = Place(0, 1) /\ txRing = <<>> /\ rxRing = <<>>
    /\ open = FALSE
    /\ inputFrame = <<>> /\ receiving = FALSE /\ lastDataByte = 0
    /\ delivered = <<>>
    /\ damaged = {} /\ current = Place(0, 0) /\ resets = 0

----------------------------------------------------------------------------
\* What EMBENET_BRT_Send and EMBENET_BRT_SendRaw write, before it is escaped.
Frame(item) ==
    IF item.kind = "raw" THEN item.data
    ELSE <<HDLC_FLAG>> \o item.data \o Fcs(item.data) \o <<HDLC_FLAG>>

\* Fault: the escape byte itself is not escaped.
EscapesFlagOnly(item, at) ==
    /\ item.kind = "packet" /\ at \notin {1, Len(Frame(item))}
    /\ Frame(item)[at] = HDLC_FLAG

\* EMBENET_BRT_EncodeAndWrite: all of a packet but the flags at its ends.
Escapes(item, at) ==
    /\ item.kind = "packet" /\ at \notin {1, Len(Frame(item))}
    /\ Frame(item)[at] \in {HDLC_FLAG, HDLC_ESCAPE}

\* The byte on the line.
ByteAt(place) ==
    LET item == sent[place.no]
        byte == Frame(item)[place.at]
    IN  IF ~Escapes(item, place.at) THEN byte
        ELSE IF place.part = 2 THEN XorMask(byte) ELSE HDLC_ESCAPE

\* The place after this one.
Succ(place) ==
    IF Escapes(sent[place.no], place.at) /\ place.part = 1
    THEN [place EXCEPT !.part = 2] ELSE Place(place.no, place.at + 1)

\* A call of EMBENET_BRT_Send or EMBENET_BRT_SendRaw has bytes to write.
Writing == next.no # 0 /\ next.at =< Len(Frame(sent[next.no]))

\* EMBENET_BRT_Send begins; its loop writes one byte after another.
Send(packet) ==
    /\ ~Writing /\ Len(sent) < MaxPackets
    /\ sent' = Append(sent, [data |-> packet, kind |-> "packet"])
    /\ next' = Place(Len(sent'), 1)
    /\ UNCHANGED <<txRing, receiver, decoder, delivered, damaged, current>>

\* EMBENET_BRT_SendRaw: the bytes as they are.
SendRaw(chunk) ==
    /\ ~Writing /\ Len(sent) < MaxPackets
    /\ sent' = Append(sent, [data |-> chunk, kind |-> "raw"])
    /\ next' = Place(Len(sent'), 1)
    /\ UNCHANGED <<txRing, receiver, decoder, delivered, damaged, current>>

\* EMBENET_BRT_WriteByte: the non-blocking UART2_write of a byte that does
\* not fit stores nothing, and its result is ignored.
WriteByte ==
    /\ Writing
    /\ next' = Succ(next)
    /\ IF Len(txRing) < TxRing
       THEN txRing' = Append(txRing, next) /\ UNCHANGED damaged
       ELSE damaged' = damaged \cup {next.no} /\ UNCHANGED txRing
    /\ UNCHANGED <<sent, receiver, decoder, delivered, current>>

\* The UART carries a byte over; it is dropped if the receiving driver is not
\* open or its ring is full (external).
Transfer ==
    /\ txRing # <<>>
    /\ txRing' = Tail(txRing)
    /\ IF open /\ Len(rxRing) < RxRing
       THEN rxRing' = Append(rxRing, Head(txRing)) /\ UNCHANGED damaged
       ELSE damaged' = damaged \cup {Head(txRing).no} /\ UNCHANGED rxRing
    /\ UNCHANGED <<sent, next, open, resets, decoder, delivered, current>>

----------------------------------------------------------------------------
(* EMBENET_BRT_Receive: one pass of its loop reads one byte.  Between two  *)
(* passes it may return and be called again: its state is static.          *)

dataByte == ByteAt(Head(rxRing))

\* UART2_read of one byte, and `lastDataByte = dataByte` after the body.
ReadByte ==
    /\ rxRing # <<>>
    /\ rxRing' = Tail(rxRing)
    /\ lastDataByte' = dataByte
    /\ current' = Head(rxRing)
    /\ UNCHANGED <<sender, open, resets, damaged>>

\* Outside a frame anything but a flag is skipped, and a flag begins one.
ReceiveOutside ==
    /\ ~receiving /\ ReadByte
    /\ IF dataByte = HDLC_FLAG
       THEN receiving' = TRUE /\ inputFrame' = <<>>
       ELSE UNCHANGED <<receiving, inputFrame>>
    /\ UNCHANGED delivered

\* Fault: two flags in a row end an empty frame.
ReceiveRepeatedFlagEnds ==
    /\ receiving /\ ReadByte
    /\ dataByte = HDLC_FLAG /\ lastDataByte = HDLC_FLAG
    /\ receiving' = FALSE /\ inputFrame' = <<>>
    /\ UNCHANGED delivered

\* Two flags in a row: the second one begins the frame.
ReceiveRepeatedFlag ==
    /\ receiving /\ ReadByte
    /\ dataByte = HDLC_FLAG /\ lastDataByte = HDLC_FLAG
    /\ inputFrame' = <<>>
    /\ UNCHANGED <<receiving, delivered>>

\* Fault: the bound of the buffer is off by one.
ReceiveDataOverrun ==
    /\ receiving /\ ReadByte /\ dataByte # HDLC_FLAG
    /\ IF Len(inputFrame) =< MaxFrameSize
       THEN /\ receiving' = receiving
            /\ inputFrame' =
                  IF dataByte = HDLC_ESCAPE THEN inputFrame
                  ELSE Append(inputFrame,
                              IF lastDataByte = HDLC_ESCAPE THEN XorMask(dataByte) ELSE dataByte)
       ELSE receiving' = FALSE /\ inputFrame' = <<>>
    /\ UNCHANGED delivered

\* A data byte is stored, an escape changes the byte after it, and a frame
\* that is too long is dropped.
ReceiveData ==
    /\ receiving /\ ReadByte /\ dataByte # HDLC_FLAG
    /\ IF Len(inputFrame) < MaxFrameSize
       THEN /\ receiving' = receiving
            /\ inputFrame' =
                  IF dataByte = HDLC_ESCAPE THEN inputFrame
                  ELSE Append(inputFrame,
                              IF lastDataByte = HDLC_ESCAPE THEN XorMask(dataByte) ELSE dataByte)
       ELSE receiving' = FALSE /\ inputFrame' = <<>>
    /\ UNCHANGED delivered

\* Fault: the checksum is not looked at.
FrameGoodAlways == Len(inputFrame) > 2

\* if (inputFrameDataIndex > 2) frameComplete = true; and the CRC check.
FrameGood ==
    LET n == Len(inputFrame)
    IN  n > 2 /\ SubSeq(inputFrame, n - 1, n) = Fcs(SubSeq(inputFrame, 1, n - 2))

\* A flag ends the frame.  Receive returns its packet if the checksum is good
\* and the buffer is large enough; otherwise 0.
ReceiveEnd(packetBufferSize) ==
    /\ receiving /\ ReadByte
    /\ dataByte = HDLC_FLAG /\ lastDataByte # HDLC_FLAG
    /\ receiving' = FALSE
    /\ LET returnSize == Len(inputFrame) - 2
       IN  IF FrameGood /\ packetBufferSize >= returnSize
           THEN delivered' = Append(delivered,
                    [packet |-> SubSeq(inputFrame, 1, returnSize), no |-> current.no])
           ELSE UNCHANGED delivered
    /\ UNCHANGED inputFrame

Receive ==
    \/ ReceiveOutside \/ ReceiveRepeatedFlag \/ ReceiveData
    \/ \E size \in BufferSize : ReceiveEnd(size)

\* EMBENET_BRT_ReceiveRaw takes the bytes that are there, as many as fit, but
\* one before it looks at the size of the buffer.
ReceiveRaw(size) ==
    /\ rxRing # <<>>
    /\ LET fit == IF size = 0 THEN 1 ELSE size
           n == IF fit < Len(rxRing) THEN fit ELSE Len(rxRing)
       IN  /\ rxRing' = SubSeq(rxRing, n + 1, Len(rxRing))
           /\ damaged' = damaged \cup {rxRing[i].no : i \in 1 .. n}
    /\ UNCHANGED <<sender, open, resets, decoder, delivered, current>>

\* What the driver holds for the receiver, and the rest of the packet of which
\* it has read a byte, are lost.
LoseInput ==
    /\ rxRing' = <<>>
    /\ damaged' = damaged \cup {current.no} \cup {rxRing[i].no : i \in DOMAIN rxRing}

\* EMBENET_BRT_Init: UART2_open and UART2_rxEnable.  If the first fails the program
\* is aborted, and the link never opened.
Open == ~open /\ open' = TRUE /\ UNCHANGED <<sender, rxRing, resets, decoder, delivered, damaged, current>>

\* EMBENET_BRT_Deinit: UART2_close; the statics of Receive stay.
Close ==
    /\ open /\ resets < MaxResets
    /\ open' = FALSE /\ resets' = resets + 1
    /\ LoseInput
    /\ UNCHANGED <<sender, decoder, delivered, current>>

\* EMBENET_BRT_Reset or a power failure of the receiving node: the statics
\* start anew.
Reset ==
    /\ resets < MaxResets
    /\ open' = FALSE /\ resets' = resets + 1
    /\ LoseInput
    /\ inputFrame' = <<>> /\ receiving' = FALSE /\ lastDataByte' = 0
    /\ UNCHANGED <<sender, delivered, current>>

\* EMBENET_BRT_IsBusy of the sender.
IsBusy == txRing # <<>>

\* All that was sent has been read.
Idle == ~Writing /\ ~IsBusy /\ rxRing = <<>>

Done == Idle /\ Len(sent) = MaxPackets /\ UNCHANGED vars

Next ==
    \/ \E packet \in Packet : Send(packet)
    \/ \E chunk \in Raw : SendRaw(chunk)
    \/ \E size \in RawBufferSize : ReceiveRaw(size)
    \/ WriteByte \/ Transfer \/ Receive \/ Open \/ Close \/ Reset \/ Done

\* Send finishes, the line carries what it is given, and the stack polls.
Fairness == WF_vars(WriteByte) /\ WF_vars(Transfer) /\ WF_vars(Receive)

Spec == Init /\ [][Next]_vars
FairSpec == Spec /\ Fairness

----------------------------------------------------------------------------
(* Properties.                                                             *)

Byte == {HDLC_FLAG, HDLC_ESCAPE, XorMask(HDLC_FLAG), XorMask(HDLC_ESCAPE)}
           \cup (UNION {Range(p) \cup Range(Fcs(p)) : p \in Packet})
           \cup (UNION {Range(r) : r \in Raw})

\* What inputFrame may hold if an escape byte was lost or is followed by any other.
Stored == Byte \cup {XorMask(byte) : byte \in Byte}

Item == [data : Packet, kind : {"packet"}] \cup [data : Raw, kind : {"raw"}]

Places == [no : 0 .. MaxPackets, at : Nat, part : 1 .. 2]

\* Places of bytes of what has been sent.
OnLine(place) ==
    /\ place \in Places
    /\ place.no \in DOMAIN sent /\ place.at \in DOMAIN Frame(sent[place.no])
    /\ place.part = 2 => Escapes(sent[place.no], place.at)

LineOK ==
    /\ sent \in Seq(Item) /\ Len(sent) =< MaxPackets
    /\ txRing \in Seq(Places) /\ Len(txRing) =< TxRing
    /\ rxRing \in Seq(Places) /\ Len(rxRing) =< RxRing
    /\ \A i \in DOMAIN txRing : OnLine(txRing[i])
    /\ \A i \in DOMAIN rxRing : OnLine(rxRing[i])
    /\ current = Place(0, 0) \/ OnLine(current)
    /\ open \in BOOLEAN /\ resets \in 0 .. MaxResets /\ damaged \subseteq 0 .. MaxPackets

DecoderOK ==
    /\ inputFrame \in Seq(Stored) /\ Len(inputFrame) =< MaxFrameSize
    /\ receiving \in BOOLEAN /\ lastDataByte \in Byte \cup {0}

\* Every variable has its type; the frame never outgrows its buffer.
TypeOK ==
    /\ LineOK /\ DecoderOK
    /\ delivered \in Seq([packet : Seq(Stored), no : 0 .. MaxPackets])

Intact == {i \in DOMAIN sent : sent[i].kind = "packet" /\ i \notin damaged}

\* The packets whose last byte the receiver has read, or a byte after it.
Over == IF Idle THEN DOMAIN sent ELSE 1 .. current.no - 1

\* The proviso of ImplementsChannel, not a property of the code: the checksum
\* detects every error, so that a frame that passes the check when it ends is
\* that of the packet its last byte belongs to.
ErrorsDetected ==
    (/\ rxRing # <<>> /\ dataByte = HDLC_FLAG /\ lastDataByte # HDLC_FLAG
     /\ receiving /\ FrameGood)
        => LET item == sent[current.no]
           IN  item.kind = "packet" /\ inputFrame = item.data \o Fcs(item.data)

\* embenet_brt.c:102-180: whatever bytes are lost, what Receive returns are
\* packets that were sent, in their order and none of them twice, provided
\* the checksum detects every error.
Link == INSTANCE Channel WITH Data <- Packet \cup Raw

ImplementsChannel == Link!Spec

\* embenet_brt.c:117-149: the framing recovers.  A packet that arrives whole
\* right after another that did is delivered as it was sent and once, whatever came
\* before the two (a large enough buffer provided); the first of all needs nothing
\* before it.
Resynchronized ==
    \A i \in Over : (i \in Intact /\ (i = 1 \/ i - 1 \in Intact))
        => \E j \in DOMAIN delivered :
              /\ delivered[j] = [packet |-> sent[i].data, no |-> i]
              /\ \A k \in DOMAIN delivered : delivered[k].no = i => k = j

Lossless == damaged = {} /\ \A i \in DOMAIN sent : sent[i].kind = "packet"

\* embenet_brt.c:102-180: until a byte is lost the link is transparent.  Receive has
\* returned the packets as they were sent, each of them once and nothing else,
\* up to the one it is at (a large enough buffer provided).
Transparent ==
    Lossless =>
        /\ Over \subseteq DOMAIN delivered
        /\ \A j \in DOMAIN delivered :
              j \in DOMAIN sent /\ delivered[j] = [packet |-> sent[j].data, no |-> j]

\* Without loss all that is sent is delivered.
AllDelivered ==
    \A n \in 1 .. MaxPackets : (Len(sent) = n /\ Writing) ~>
        (damaged # {} \/ \E j \in DOMAIN delivered : delivered[j].no = n)

=============================================================================
