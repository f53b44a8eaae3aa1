------------------------------- MODULE Radio -------------------------------
(***************************************************************************)
(* The transceiver driver of the port, embenet_node_port/src/              *)
(* embenet_radio.c, between the MAC of the stack library and TI's RF       *)
(* driver.                                                                 *)
(*                                                                         *)
(* Three actors interleave.  The MAC (external) calls the EMBENET_RADIO_   *)
(* functions from the compare interrupt of the timer.  The RF core with    *)
(* its driver (external) executes the posted commands in order and raises  *)
(* events.  rxProcessCb and txProcessCb run in a software interrupt, which *)
(* the compare interrupt preempts: a whole call of the MAC may come        *)
(* between the test of `idle`, the body and the call of a capture handler. *)
(* Events of a command that come before its callback has run are passed in *)
(* one mask.                                                               *)
(***************************************************************************)
EXTENDS Naturals, Sequences, FiniteSets, SequencesExt

CONSTANTS
    Handle,       \* RF_CmdHandle values of posted commands
    ALLOC_ERROR,  \* RF_ALLOC_ERROR, not a handle
    Channel,      \* channel numbers the MAC asks for
    ChannelCount, \* BAND_CHANNEL_COUNT
    Psdu,         \* frames the MAC transmits: records with a length and contents
    MaxPsduLength,\* EMBENET_RADIO_MAX_PSDU_LENGTH
    Power,        \* output powers the MAC asks for
    PowerTable,   \* the powers in txPowerTable_custom868_0
    Frame,        \* frames the RF core receives: records with a length and contents
    RxBufferLength, \* RX_BUFFER_LENGTH
    Capacity,     \* buffer lengths the MAC passes to GetReceivedFrame
    MaxQueue,     \* entries of the RF driver's command pool
    FsCanFail,    \* whether the synthesizer may fail to lock
    MacWaits,     \* whether the MAC lets the callbacks run before it listens again
    SwiPrompt     \* whether a callback runs within the duration of a frame

ASSUME AllocErrorAssumption == ALLOC_ERROR \notin Handle
ASSUME ChannelAssumption == Channel \subseteq Nat /\ ChannelCount \in Nat \ {0}
ASSUME FrameAssumption ==
    /\ \A f \in Frame \cup Psdu : f = [len |-> f.len, data |-> f.data] /\ f.len \in Nat
    /\ \A f \in Frame : f.len =< MaxPsduLength   \* rxChainDoRx.maxPktLen
ASSUME PsduAssumption == MaxPsduLength \in Nat \ {0}
ASSUME RxBufferAssumption == RxBufferLength \in Nat /\ MaxPsduLength =< RxBufferLength
ASSUME PowerAssumption ==
    /\ Power \subseteq Nat /\ PowerTable \subseteq Nat
    /\ \E highest \in PowerTable : \A power \in PowerTable : power =< highest
ASSUME MaxQueueAssumption == MaxQueue \in Nat
ASSUME MacAssumption == FsCanFail \in BOOLEAN /\ MacWaits \in BOOLEAN /\ SwiPrompt \in BOOLEAN

None == "none"

\* The static buffers start zeroed.
NoFrame == [len |-> 0, data |-> 0]

TxEvent == {"txCmdDone", "txLastCmdDone"}
RxEvent == {"rxMdmSoft", "rxOk", "rxNOk", "rxLastCmdDone"}

VARIABLES
    idle,           \* the static `idle`
    txTransaction,  \* handle of the transmit chain, or ALLOC_ERROR
    rxTransaction,  \* handle of the receive chain, or ALLOC_ERROR
    rxItem,         \* rxItem.status: the only entry of the receive queue
    radioRxBuffer,  \* what the RF core wrote into it
    rxPacket,       \* the copy that GetReceivedFrame hands out
    rxPacketLength, \* and its length
    radioTxBuffer,  \* the frame that CMD_PROP_TX sends
    txPower,        \* the power set in the RF driver
    txFs, rxFs,     \* channel in the synthesizer commands txChainSetFs, rxChainSetFs
    queue,          \* the RF driver's commands, the first one executing
    txStatus,       \* txChainDoTx.status
    rxStatus,       \* rxChainDoRx.status
    events,         \* of each command, those its callback has not been given
    cb,             \* the callback that is executing, and how far
    handlers,       \* whether the capture handlers are set, not NULL
    mac             \* the transceiver state as the MAC knows it (embenet_radio.h)

statics == <<idle, txTransaction, rxTransaction>>
rxData == <<rxItem, radioRxBuffer, rxPacket, rxPacketLength>>
given == <<radioTxBuffer, txPower, txFs, rxFs, handlers>>
rf == <<queue, txStatus, rxStatus, events>>
vars == <<statics, rxData, given, rf, cb, mac>>

\* The states of embenet_radio.h; besides, ABORTED is the end of the program, TEST
\* is for ever, and REFUSED is where RxEnable returned WRONG_STATE.
MacState == {"UNINITIALIZED", "ABORTED", "TEST", "IDLE", "TX_READY", "RX_READY", "REFUSED",
             "LISTEN", "TX", "RX", "ACTIVE"}

NoCallback == [stage |-> "none", mask |-> {}, call |-> None]

Init ==
    /\ idle = FALSE
    /\ txTransaction = ALLOC_ERROR /\ rxTransaction = ALLOC_ERROR
    /\ rxItem = "PENDING" /\ radioRxBuffer = NoFrame
    /\ rxPacket = NoFrame /\ rxPacketLength = 0
    /\ radioTxBuffer = NoFrame /\ txPower = Max(PowerTable) /\ txFs = 0 /\ rxFs = 0
    /\ queue = <<>> /\ txStatus = "IDLE" /\ rxStatus = "IDLE"
    /\ events = [h \in Handle |-> {}]
    /\ cb = NoCallback
    /\ handlers = FALSE
    /\ mac = "UNINITIALIZED"

----------------------------------------------------------------------------
(* The RF driver's calls (external).                                       *)

\* A handle that neither the driver nor the statics still know.
FreeHandle ==
    {h \in Handle \ {txTransaction, rxTransaction} :
        events[h] = {} /\ \A i \in DOMAIN queue : queue[i].h # h}

Command(h, op) == [h |-> h, op |-> op, phase |-> "queued", flushed |-> FALSE]

\* RF_flushCmd(rfHandle, ch, 0): abort ch and whatever was posted after it.
\* A handle that is not in the queue has no effect.
Flush(q, ch) ==
    [i \in DOMAIN q |->
        IF \E j \in 1 .. i : q[j].h = ch THEN [q[i] EXCEPT !.flushed = TRUE] ELSE q[i]]

\* RF_postCmd for the commonFsOff command, whose handle nobody keeps.
PostFsOff(q) ==
    IF Len(q) < MaxQueue THEN Append(q, Command(ALLOC_ERROR, "fsOff")) ELSE q

----------------------------------------------------------------------------
(* The functions of the port, called by the MAC from the compare interrupt *)

\* Fault: Idle aborts only what it last posted, a transmission.
GoIdleFromTx ==
    /\ idle' = TRUE
    /\ queue' = PostFsOff(IF txTransaction = ALLOC_ERROR THEN queue
                          ELSE Flush(queue, txTransaction))

\* The body of EMBENET_RADIO_Idle.
GoIdle ==
    /\ idle' = TRUE
    /\ LET flushTx == IF txTransaction = ALLOC_ERROR THEN queue
                      ELSE Flush(queue, txTransaction)
           flushRx == IF rxTransaction = ALLOC_ERROR THEN flushTx
                      ELSE Flush(flushTx, rxTransaction)
       IN  queue' = PostFsOff(flushRx)

EMBENET_RADIO_Init ==
    /\ mac = "UNINITIALIZED"
    /\ txTransaction' = ALLOC_ERROR /\ rxTransaction' = ALLOC_ERROR
    /\ \/ /\ mac' = "IDLE"
          /\ idle' = TRUE
          /\ queue' = PostFsOff(queue)
       \/ /\ mac' = "ABORTED"         \* RF_open failed
          /\ UNCHANGED <<idle, queue>>
    /\ UNCHANGED <<rxData, given, txStatus, rxStatus, events, cb>>

\* The MAC sets its handlers when it starts and in every slot, and takes them
\* away when it ends; it wakes the transceiver with handlers only.
EMBENET_RADIO_SetCallbacks(set) ==
    /\ mac \notin {"ABORTED", "TEST"} /\ (set \/ mac \in {"UNINITIALIZED", "IDLE"})
    /\ handlers' = set
    /\ UNCHANGED <<statics, rxData, radioTxBuffer, txPower, txFs, rxFs, rf, cb, mac>>

\* Idle, then RF_close, which waits for the commands and drops callbacks.
EMBENET_RADIO_Deinit ==
    /\ mac \notin {"UNINITIALIZED", "ABORTED", "TEST"} /\ cb = NoCallback
    /\ idle' = TRUE
    /\ queue' = <<>> /\ events' = [h \in Handle |-> {}]
    /\ mac' = "UNINITIALIZED"
    /\ UNCHANGED <<txTransaction, rxTransaction, rxData, given, txStatus, rxStatus, cb>>

EMBENET_RADIO_Idle ==
    /\ mac \notin {"UNINITIALIZED", "ABORTED", "TEST"}
    /\ GoIdle
    /\ mac' = "IDLE"
    /\ UNCHANGED <<txTransaction, rxTransaction, rxData, given, txStatus, rxStatus, events, cb>>

\* Every callback of what the MAC ended or aborted has run.
Settled ==
    /\ cb = NoCallback /\ \A h \in Handle : events[h] = {}
    /\ \A i \in DOMAIN queue :
          queue[i].op = "fsOff" \/ (~queue[i].flushed /\ queue[i].phase # "ended")

\* The MAC transmits, and receives once it is synchronized, in a later slot
\* than the one it ended.  To synchronize it listens right after Idle.
MayListen == MacWaits => Settled

\* setChannel clips the channel and then overwrites it with 0.
setChannel(channel) ==
    LET clipped == IF channel >= ChannelCount THEN ChannelCount - 1 ELSE channel
    IN  0 * clipped

\* RF_TxPowerTable_findValue: the highest power in the table that is not above.
FindValue(txp) == Max({power \in PowerTable : power =< txp})

\* setTxp clips the power to the table's, so that one will be found.
setTxp(txp) ==
    txPower' = IF txp > Max(PowerTable) THEN Max(PowerTable)
               ELSE IF txp < Min(PowerTable) THEN Min(PowerTable)
               ELSE FindValue(txp)

\* A frame that is too long is cut.
TxEnable(channel, txp, psdu) ==
    /\ mac \in {"IDLE", "ACTIVE"} /\ handlers /\ Settled
    /\ idle' = FALSE
    /\ txFs' = setChannel(channel)
    /\ setTxp(txp)
    /\ radioTxBuffer' = [psdu EXCEPT !.len = IF @ > MaxPsduLength THEN MaxPsduLength ELSE @]

EMBENET_RADIO_TxEnable(channel, txp, psdu) ==
    /\ TxEnable(channel, txp, psdu)
    /\ mac' = "TX_READY"
    /\ UNCHANGED <<txTransaction, rxTransaction, rxData, rxFs, handlers, rf, cb>>

\* The driver sets the status of the commands back when it takes them.
EMBENET_RADIO_TxNow ==
    /\ mac = "TX_READY"
    /\ \/ \E h \in FreeHandle :
            /\ Len(queue) < MaxQueue
            /\ queue' = Append(queue, Command(h, "tx"))
            /\ txTransaction' = h /\ txStatus' = "IDLE"
            /\ mac' = "TX"
       \/ /\ txTransaction' = ALLOC_ERROR   \* GENERAL_ERROR
          /\ UNCHANGED <<queue, txStatus, mac>>
    /\ UNCHANGED <<idle, rxTransaction, rxData, given, rxStatus, events, cb>>

\* The status that EMBENET_RADIO_RxEnable returns.
RxEnableStatus == IF rxTransaction # ALLOC_ERROR THEN "WRONG_STATE" ELSE "SUCCESS"

\* Nothing is prepared for a reception that is refused.
EMBENET_RADIO_RxEnable(channel) ==
    /\ mac \in {"IDLE", "ACTIVE"} /\ handlers /\ MayListen
    /\ idle' = FALSE
    /\ rxFs' = IF RxEnableStatus = "SUCCESS" THEN setChannel(channel) ELSE rxFs
    /\ mac' = IF RxEnableStatus = "SUCCESS" THEN "RX_READY" ELSE "REFUSED"
    /\ UNCHANGED <<txTransaction, rxTransaction, rxData, radioTxBuffer, txPower, txFs, handlers, rf, cb>>

\* The MAC goes on to RxNow also when it was refused: the port would never
\* receive again if it did not.
EMBENET_RADIO_RxNow ==
    /\ mac \in {"RX_READY", "REFUSED"}
    /\ \/ \E h \in FreeHandle :
            /\ Len(queue) < MaxQueue
            /\ queue' = Append(queue, Command(h, "rx"))
            /\ rxTransaction' = h /\ rxStatus' = "IDLE"
            /\ mac' = "LISTEN"
       \/ /\ rxTransaction' = ALLOC_ERROR   \* GENERAL_ERROR
          /\ UNCHANGED <<queue, rxStatus, mac>>
    /\ UNCHANGED <<idle, txTransaction, rxData, given, txStatus, events, cb>>

\* Prepares for a frame of one byte and runs the test command, which the RF core
\* does not end; its caller waits for ever.
EMBENET_RADIO_StartContinuousTx(channel, txp) ==
    /\ TxEnable(channel, txp, [len |-> 1, data |-> 0])
    /\ mac' = "TEST"
    /\ UNCHANGED <<txTransaction, rxTransaction, rxData, rxFs, handlers, rf, cb>>

\* A buffer that is too short makes the frame unavailable for good.
EMBENET_RADIO_GetReceivedFrame(bufferLength) ==
    /\ mac = "ACTIVE"
    /\ rxPacketLength' = IF bufferLength < rxPacketLength THEN 0 ELSE rxPacketLength
    /\ UNCHANGED <<statics, rxItem, radioRxBuffer, rxPacket, given, rf, cb, mac>>

----------------------------------------------------------------------------
(* The RF core and its driver (external).                                  *)

Executing(op, phase) ==
    queue # <<>> /\ Head(queue).op = op /\ Head(queue).phase = phase

Phase(phase) == queue' = [queue EXCEPT ![1].phase = phase]

Raise(e) == events' = [events EXCEPT ![Head(queue).h] = @ \cup e]

\* CMD_FS: the synthesizer locks and the chained command starts, or the chain
\* ends with nothing but its last event.
RfFs ==
    /\ \/ Executing("tx", "queued")
       \/ Executing("rx", "queued")
    /\ ~Head(queue).flushed
    /\ LET tx == Head(queue).op = "tx"
       IN  \/ /\ Phase("on")
              /\ IF tx THEN Raise({"txCmdDone"}) ELSE UNCHANGED events
           \/ /\ FsCanFail
              /\ queue' = Tail(queue)
              /\ Raise(IF tx THEN {"txLastCmdDone"} ELSE {"rxLastCmdDone"})
    /\ UNCHANGED <<statics, rxData, given, txStatus, rxStatus, cb, mac>>

RfFsOff ==
    /\ Executing("fsOff", "queued")
    /\ queue' = Tail(queue)
    /\ UNCHANGED <<statics, rxData, given, txStatus, rxStatus, events, cb, mac>>

\* CMD_PROP_TX ends, perhaps just before an abort reaches it.
RfTxDone ==
    /\ Executing("tx", "on")
    /\ queue' = Tail(queue)
    /\ txStatus' = "DONE_OK"
    /\ Raise({"txLastCmdDone"})
    /\ UNCHANGED <<statics, rxData, given, rxStatus, cb, mac>>

\* A sync word is found.  Without a free entry in the receive queue the
\* reception ends in an error that rxProcessCb has not subscribed to.
RfSync ==
    /\ Executing("rx", "on") /\ ~Head(queue).flushed
    /\ IF rxItem = "PENDING"
       THEN Phase("sync") /\ Raise({"rxMdmSoft"}) /\ UNCHANGED rxStatus
       ELSE Phase("ended") /\ rxStatus' = "RXBUF" /\ UNCHANGED events
    /\ UNCHANGED <<statics, rxData, given, txStatus, cb, mac>>

FrameLasts == SwiPrompt => events[Head(queue).h] = {} /\ cb = NoCallback

\* The frame ends with a good CRC: its entry is finished.
RfRxOk(f) ==
    /\ Executing("rx", "sync") /\ FrameLasts
    /\ radioRxBuffer' = f /\ rxItem' = "FINISHED"
    /\ rxStatus' = "DONE_OK"
    /\ Phase("ended") /\ Raise({"rxOk"})
    /\ UNCHANGED <<statics, rxPacket, rxPacketLength, given, txStatus, cb, mac>>

\* The frame ends with a bad CRC: the entry is flushed for reuse.
RfRxNOk(f) ==
    /\ Executing("rx", "sync") /\ FrameLasts
    /\ radioRxBuffer' = f
    /\ rxStatus' = "RXERR"
    /\ Phase("ended") /\ Raise({"rxNOk"})
    /\ UNCHANGED <<statics, rxItem, rxPacket, rxPacketLength, given, txStatus, cb, mac>>

\* The last event of the receive chain comes with the one before or apart
\* from it.
RfRxEnd ==
    /\ Executing("rx", "ended")
    /\ queue' = Tail(queue) /\ Raise({"rxLastCmdDone"})
    /\ UNCHANGED <<statics, rxData, given, txStatus, rxStatus, cb, mac>>

\* An aborted command ends, wherever it was.
RfAbort ==
    /\ queue # <<>> /\ Head(queue).flushed /\ Head(queue).phase # "ended"
    /\ queue' = Tail(queue)
    /\ CASE Head(queue).op = "tx" ->
              txStatus' = "ABORTED" /\ Raise({"txLastCmdDone"}) /\ UNCHANGED rxStatus
         [] Head(queue).op = "rx" ->
              rxStatus' = "ABORTED" /\ Raise({"rxLastCmdDone"}) /\ UNCHANGED txStatus
         [] OTHER -> UNCHANGED <<txStatus, rxStatus, events>>
    /\ UNCHANGED <<statics, rxData, given, cb, mac>>

----------------------------------------------------------------------------
(* rxProcessCb and txProcessCb, in the software interrupt.                 *)

\* The driver calls back with all events so far; `idle` is tested.
CallbackEnter(h) ==
    /\ cb = NoCallback /\ events[h] # {}
    /\ events' = [events EXCEPT ![h] = {}]
    /\ cb' = IF idle THEN NoCallback ELSE [stage |-> "body", mask |-> events[h], call |-> None]
    /\ UNCHANGED <<statics, rxData, given, queue, txStatus, rxStatus, mac>>

InBody(set) == cb.stage = "body" /\ cb.mask \cap set # {}

\* The body is over: the capture handler is called if it is set, or the
\* callback returns.
Capture(call) ==
    cb' = IF call = None \/ ~handlers THEN NoCallback
          ELSE [stage |-> "handler", mask |-> cb.mask, call |-> call]

\* Fault: the start of a received frame is not passed on.
RxStartedSilent ==
    /\ InBody({"rxMdmSoft"})
    /\ Capture(None)
    /\ UNCHANGED <<statics, rxData, given, rf, mac>>

\* rxProcessCb, start of frame.
RxStarted ==
    /\ InBody({"rxMdmSoft"})
    /\ Capture("startRx")
    /\ UNCHANGED <<statics, rxData, given, rf, mac>>

\* Fault: the length counts the RSSI byte that the RF core appends.
RxFinishedWithRssi ==
    /\ InBody({"rxOk", "rxNOk"}) /\ "rxMdmSoft" \notin cb.mask
    /\ IF rxStatus \in {"DONE_OK", "RXERR"}
       THEN /\ rxPacketLength' = radioRxBuffer.len + 1 /\ rxPacket' = radioRxBuffer
            /\ rxItem' = "PENDING"
            /\ rxTransaction' = ALLOC_ERROR
            /\ Capture("endRx")
       ELSE Capture(None) /\ UNCHANGED <<rxPacket, rxPacketLength, rxItem, rxTransaction>>
    /\ UNCHANGED <<idle, txTransaction, radioRxBuffer, given, rf, mac>>

\* Fault: a frame with a bad CRC leaves the previous packet in place.
RxFinishedStale ==
    /\ InBody({"rxOk", "rxNOk"}) /\ "rxMdmSoft" \notin cb.mask
    /\ IF rxStatus \in {"DONE_OK", "RXERR"}
       THEN /\ IF rxStatus = "DONE_OK" /\ radioRxBuffer.len =< RxBufferLength
               THEN rxPacketLength' = radioRxBuffer.len /\ rxPacket' = radioRxBuffer
               ELSE UNCHANGED <<rxPacket, rxPacketLength>>
            /\ rxItem' = "PENDING"
            /\ rxTransaction' = ALLOC_ERROR
            /\ Capture("endRx")
       ELSE Capture(None) /\ UNCHANGED <<rxPacket, rxPacketLength, rxItem, rxTransaction>>
    /\ UNCHANGED <<idle, txTransaction, radioRxBuffer, given, rf, mac>>

\* rxProcessCb, end of frame; one with a bad CRC, or too long, leaves no packet.
RxFinished ==
    /\ InBody({"rxOk", "rxNOk"}) /\ "rxMdmSoft" \notin cb.mask
    /\ IF rxStatus \in {"DONE_OK", "RXERR"}
       THEN /\ IF rxStatus = "DONE_OK" /\ radioRxBuffer.len =< RxBufferLength
               THEN rxPacketLength' = radioRxBuffer.len /\ rxPacket' = radioRxBuffer
               ELSE rxPacketLength' = 0 /\ UNCHANGED rxPacket
            /\ rxItem' = "PENDING"
            /\ rxTransaction' = ALLOC_ERROR
            /\ Capture("endRx")
       ELSE Capture(None) /\ UNCHANGED <<rxPacket, rxPacketLength, rxItem, rxTransaction>>
    /\ UNCHANGED <<idle, txTransaction, radioRxBuffer, given, rf, mac>>

\* rxProcessCb, any other mask: "Transaction error".
RxError ==
    /\ InBody({"rxLastCmdDone"}) /\ cb.mask \subseteq {"rxLastCmdDone"}
    /\ rxItem' = "PENDING"
    /\ rxTransaction' = ALLOC_ERROR
    /\ Capture(None)
    /\ UNCHANGED <<idle, txTransaction, radioRxBuffer, rxPacket, rxPacketLength, given, rf, mac>>

\* Fault: the end of the transmission is not passed on.
TxFinishedSilent ==
    /\ InBody({"txLastCmdDone"})
    /\ txTransaction' = ALLOC_ERROR
    /\ Capture(None)
    /\ UNCHANGED <<idle, rxTransaction, rxData, given, rf, mac>>

\* txProcessCb, end of transmission.
TxFinished ==
    /\ InBody({"txLastCmdDone"})
    /\ txTransaction' = ALLOC_ERROR
    /\ Capture(IF txStatus = "DONE_OK" THEN "endTx" ELSE None)
    /\ UNCHANGED <<idle, rxTransaction, rxData, given, rf, mac>>

\* Fault: any event of the transmit chain counts as its end.
TxStartedAsEnd ==
    /\ InBody({"txCmdDone"}) /\ "txLastCmdDone" \notin cb.mask
    /\ Capture("endTx")
    /\ UNCHANGED <<statics, rxData, given, rf, mac>>

\* txProcessCb, the synthesizer is set and the frame is about to start.  It has
\* subscribed to these two events, so its last branch is not reached.
TxStarted ==
    /\ InBody({"txCmdDone"}) /\ "txLastCmdDone" \notin cb.mask
    /\ Capture("startTx")
    /\ UNCHANGED <<statics, rxData, given, rf, mac>>

\* onStartOfFrameHandler or onEndOfFrameHandler of the MAC (external), which
\* ignores a call that its own state does not expect.
CaptureHandler ==
    /\ cb.stage = "handler"
    /\ mac' = CASE cb.call = "startRx" /\ mac = "LISTEN" -> "RX"
                [] cb.call = "endRx" /\ mac \in {"LISTEN", "RX"} -> "ACTIVE"
                [] cb.call = "endTx" /\ mac = "TX" -> "ACTIVE"
                [] OTHER -> mac
    /\ cb' = NoCallback
    /\ UNCHANGED <<statics, rxData, given, rf>>

----------------------------------------------------------------------------
MacCall ==
    \/ EMBENET_RADIO_Init \/ EMBENET_RADIO_Deinit \/ EMBENET_RADIO_Idle
    \/ \E set \in BOOLEAN : EMBENET_RADIO_SetCallbacks(set)
    \/ \E channel \in Channel, txp \in Power :
          \/ \E psdu \in Psdu : EMBENET_RADIO_TxEnable(channel, txp, psdu)
          \/ EMBENET_RADIO_StartContinuousTx(channel, txp)
    \/ \E channel \in Channel : EMBENET_RADIO_RxEnable(channel)
    \/ EMBENET_RADIO_TxNow \/ EMBENET_RADIO_RxNow
    \/ \E n \in Capacity : EMBENET_RADIO_GetReceivedFrame(n)

RfCore ==
    \/ RfFs \/ RfFsOff \/ RfTxDone \/ RfSync \/ RfRxEnd \/ RfAbort
    \/ \E f \in Frame : RfRxOk(f) \/ RfRxNOk(f)

Callback ==
    \/ \E h \in Handle : CallbackEnter(h)
    \/ RxStarted \/ RxFinished \/ RxError \/ TxFinished \/ TxStarted
    \/ CaptureHandler

\* The program stops in EXPECT_OnAbortHandler when RF_open fails, and in the test.
Aborted == mac \in {"ABORTED", "TEST"} /\ UNCHANGED vars

Next == MacCall \/ RfCore \/ Callback \/ Aborted

\* The RF core ends what it transmits or has begun to receive (no sync word
\* need ever come), and the software interrupt runs once it is posted.
RfProgress ==
    \/ RfFs \/ RfFsOff \/ RfTxDone \/ RfRxEnd \/ RfAbort
    \/ \E f \in Frame : RfRxOk(f) \/ RfRxNOk(f)

Spec == Init /\ [][Next]_vars
FairSpec == Spec /\ WF_vars(RfProgress) /\ WF_vars(Callback)

----------------------------------------------------------------------------
(* Properties.                                                             *)

Cmd == [h : Handle \cup {ALLOC_ERROR}, op : {"tx", "rx", "fsOff"},
        phase : {"queued", "on", "sync", "ended"}, flushed : BOOLEAN]

Event == TxEvent \cup RxEvent

StaticsOK == idle \in BOOLEAN /\ {txTransaction, rxTransaction} \subseteq Handle \cup {ALLOC_ERROR}

RxDataOK ==
    /\ rxItem \in {"PENDING", "FINISHED"}
    /\ {radioRxBuffer, rxPacket} \subseteq Frame \cup {NoFrame}
    /\ rxPacketLength \in {0} \cup {f.len : f \in Frame}

GivenOK ==
    /\ radioTxBuffer.len =< MaxPsduLength /\ txPower \in PowerTable
    /\ txFs \in 0 .. ChannelCount - 1 /\ rxFs \in 0 .. ChannelCount - 1
    /\ handlers \in BOOLEAN

RfOK ==
    /\ queue \in Seq(Cmd) /\ Len(queue) =< MaxQueue
    /\ txStatus \in {"IDLE", "DONE_OK", "ABORTED"}
    /\ rxStatus \in {"IDLE", "DONE_OK", "RXERR", "RXBUF", "ABORTED"}

\* A command has events of one of the two kinds.
CallbackOK ==
    /\ events \in [Handle -> (SUBSET TxEvent) \cup (SUBSET RxEvent)]
    /\ cb \in [stage : {"none", "body", "handler"}, mask : (SUBSET TxEvent) \cup (SUBSET RxEvent),
               call : {None, "startRx", "endRx", "startTx", "endTx"}]

\* Every variable has its type: indices, lengths and powers stay in their
\* ranges, and no command has events of both kinds.
TypeOK == StaticsOK /\ RxDataOK /\ GivenOK /\ RfOK /\ CallbackOK /\ mac \in MacState

\* embenet_radio.h:181, embenet_radio.c:216-223: once the MAC has called Idle,
\* every transmission or reception still known to the RF driver is over or
\* being aborted.  Idle knows them only through two handles that the callbacks
\* clear and TxNow and RxNow set.
IdleSilences ==
    idle => \A i \in DOMAIN queue :
                queue[i].op = "fsOff" \/ queue[i].flushed \/ queue[i].phase = "ended"

\* embenet_radio.c:98-107, 235: the frame buffer is not rewritten while a
\* transmission that is not being aborted reads it.
TxBufferStable ==
    [][(\E i \in DOMAIN queue : queue[i].op = "tx" /\ ~queue[i].flushed)
          => radioTxBuffer' = radioTxBuffer]_vars

\* embenet_radio.c:315-330: when the MAC is told that a frame has ended, the
\* packet it can fetch is the frame the RF core received last, or none if its
\* CRC was bad, and the entry is free for the next frame.
EndOfFrameDelivers ==
    cb.stage = "handler" /\ cb.call = "endRx" /\ ~idle =>
        /\ IF rxStatus = "DONE_OK"
           THEN rxPacket = radioRxBuffer /\ rxPacketLength = radioRxBuffer.len
           ELSE rxPacketLength = 0
        /\ rxItem = "PENDING"

\* embenet_radio.h:33,168: a transmission or a reception that the MAC knows to
\* have begun reaches an end that the MAC learns of.  (The MAC lets the callbacks of
\* the last slot run, MacWaits, a callback runs within the duration of a frame,
\* SwiPrompt, and the synthesizer locks, ~FsCanFail.)
FrameEnds == mac \in {"TX", "RX"} ~> mac \notin {"TX", "RX"}

\* A frame is being transmitted, or received.
InTx == \E i \in DOMAIN queue : queue[i].op = "tx" /\ ~queue[i].flushed
InSync == \E i \in DOMAIN queue : queue[i].op = "rx" /\ queue[i].phase = "sync" /\ ~queue[i].flushed

\* One of the events will be told: the start of a frame in the mask would hide it.
Told(mask, set) == mask \cap set # {} /\ "rxMdmSoft" \notin mask
Pending(set) == (\E h \in Handle : Told(events[h], set)) \/ (cb.stage = "body" /\ Told(cb.mask, set))

\* embenet_radio.c:306-353: no end of a frame is lost on its way to the MAC: in the
\* queue, in the events, of which only one branch is taken, in the callback or in its
\* handler.  (MacWaits, SwiPrompt and ~FsCanFail, as for FrameEnds.)
EndNotLost ==
    /\ mac = "TX" =>
          \/ InTx
          \/ Pending({"txLastCmdDone"}) /\ txStatus = "DONE_OK"
          \/ cb.stage = "handler" /\ cb.call = "endTx"
    /\ mac = "RX" =>
          \/ InSync
          \/ Pending({"rxOk", "rxNOk"}) /\ rxStatus \in {"DONE_OK", "RXERR"}
          \/ cb.stage = "handler" /\ cb.call = "endRx"

\* embenet_radio.h:29-33,49-54: a capture handler is called in the state in which the
\* header has its event: no frame starts that the MAC does not wait for, and none
\* ends that has not started for it, whatever events are handed over in one mask.
\* Only Idle may come between the test of `idle` and the call.
CallsExpected ==
    cb.stage = "handler" /\ ~idle =>
        /\ cb.call = "startRx" => mac = "LISTEN"
        /\ cb.call = "endRx" => mac = "RX"
        /\ cb.call \in {"startTx", "endTx"} => mac = "TX"

\* embenet_radio.h:10-37: to the MAC the driver is the transceiver of the header,
\* REFUSED being none of its states: the next three actions are what the code does
\* against the header, and it does nothing else against it.  No frame ends that has
\* not begun, and the packet that can be fetched stays while the MAC may fetch it.
Interface == INSTANCE RadioInterface WITH
    Packet <- Frame,
    LengthOf <- LAMBDA f : f.len,
    state <- IF mac = "ABORTED" THEN "UNINITIALIZED" ELSE mac,
    loaded <- IF mac \in {"TX_READY", "TX"} THEN radioTxBuffer ELSE NoFrame,
    packet <- IF mac = "ACTIVE" /\ rxPacketLength # 0 THEN rxPacket ELSE NoFrame

\* embenet_radio.c:250-252: the handle of an aborted reception makes RxEnable refuse
\* in IDLE and ACTIVE, from where embenet_radio.h:25,35 leads to RX_READY.
RxRefused ==
    \E channel \in Channel : EMBENET_RADIO_RxEnable(channel) /\ RxEnableStatus = "WRONG_STATE"

\* embenet_radio.c:260: RxNow listens all the same, on the channel of the reception before.
UnpreparedListen == EMBENET_RADIO_RxNow /\ mac = "REFUSED"

\* embenet_radio.c:228-230: a frame that is too long is cut, for which
\* embenet_radio.h:196 has an error.
FrameCut ==
    \E channel \in Channel, txp \in Power, psdu \in Psdu :
        EMBENET_RADIO_TxEnable(channel, txp, psdu) /\ psdu.len > MaxPsduLength

ImplementsInterface ==
    /\ Interface!Init
    /\ [][Interface!Next \/ RxRefused \/ UnpreparedListen \/ FrameCut]_(Interface!vars)

=============================================================================
