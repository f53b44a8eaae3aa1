---------------------------- MODULE RadioProofs ----------------------------
(***************************************************************************)
(* For any number of handles, frames and commands the transceiver's driver *)
(* is silent after Idle, hands out the frame it received, and to the MAC   *)
(* is the transceiver of embenet_radio.h, provided the MAC lets the        *)
(* callbacks of what it aborted run before it listens again (MacWaits).    *)
(***************************************************************************)
EXTENDS Radio, WellFoundedInduction, TLAPS

\* A command goes by its handle, which tells its events from those of others.
Handles ==
    \A i \in DOMAIN queue :
        /\ IF queue[i].op = "fsOff" THEN queue[i].h = ALLOC_ERROR /\ queue[i].phase = "queued"
           ELSE queue[i].h \in Handle
        /\ queue[i].op = "tx" =>
              queue[i].phase \in {"queued", "on"} /\ events[queue[i].h] \subseteq TxEvent
        /\ queue[i].op = "rx" => events[queue[i].h] \subseteq RxEvent
        /\ \A j \in DOMAIN queue : queue[i].h = queue[j].h /\ queue[i].op # "fsOff" => i = j

\* The length of the packet is 0 or that of the frame copied.
PacketKept == rxPacketLength # 0 => rxPacket \in Frame /\ rxPacketLength = rxPacket.len

TInv == TypeOK /\ Handles /\ PacketKept

----------------------------------------------------------------------------
(* What holds of the only command that is under way if the MAC waits.      *)

IsCmd(i) == i \in DOMAIN queue /\ queue[i].op # "fsOff"

NoCmd == \A i \in DOMAIN queue : queue[i].op = "fsOff"

NoEvents == \A h \in Handle : events[h] = {}

EndEvent == {"rxOk", "rxNOk"}
LastEvent == {"txLastCmdDone", "rxLastCmdDone"}

\* One command is in the queue or still has events to be passed on.
Single ==
    /\ \A i, j \in DOMAIN queue : IsCmd(i) /\ IsCmd(j) => i = j
    /\ \A g, h \in Handle : events[g] # {} /\ events[h] # {} => g = h
    /\ \A i \in DOMAIN queue, h \in Handle :
          IsCmd(i) /\ events[h] # {} => h = queue[i].h

\* Before it posts a command the MAC has nothing under way.
Ready ==
    mac \in {"UNINITIALIZED", "ABORTED", "TX_READY", "RX_READY", "REFUSED", "TEST"} =>
        cb = NoCallback /\ NoEvents /\ NoCmd

\* `idle` and the handlers are as the MAC left them.
Known ==
    /\ mac = "IDLE" => idle
    /\ mac \in {"TX_READY", "RX_READY", "REFUSED", "LISTEN", "TX", "RX", "ACTIVE"} =>
          ~idle /\ handlers

\* A command that is neither aborted nor over is the one the MAC has posted,
\* and the port has its handle.
Live ==
    \A i \in DOMAIN queue : IsCmd(i) /\ ~queue[i].flushed /\ queue[i].phase # "ended" =>
        /\ queue[i].op = "tx" => mac = "TX" /\ queue[i].h = txTransaction
        /\ queue[i].op = "rx" => mac \in {"LISTEN", "RX"} /\ queue[i].h = rxTransaction

\* No event follows the last one of a chain, and only the last follows the end
\* of a frame.
Order ==
    /\ \A h \in Handle : events[h] \cap LastEvent # {} => NoCmd
    /\ cb.stage # "none" /\ cb.mask \cap LastEvent # {} => NoCmd /\ NoEvents
    /\ \A h \in Handle : events[h] \cap EndEvent # {} =>
          \A i \in DOMAIN queue : IsCmd(i) => queue[i].phase = "ended"
    /\ cb.stage # "none" /\ cb.mask \cap EndEvent # {} =>
          /\ \A i \in DOMAIN queue : IsCmd(i) => queue[i].phase = "ended"
          /\ \A h \in Handle : events[h] \subseteq {"rxLastCmdDone"}

\* A capture handler is called for the event it stands for.
Calls ==
    /\ cb.stage = "none" => cb = NoCallback
    /\ cb.stage = "handler" =>
          /\ cb.call = "endRx" => cb.mask \cap EndEvent # {}
          /\ cb.call = "endTx" => "txLastCmdDone" \in cb.mask
          /\ "rxMdmSoft" \in cb.mask <=> cb.call = "startRx"

\* Once the MAC knows the end, only the last event of a reception is left.
Active ==
    mac = "ACTIVE" =>
        /\ \A i \in DOMAIN queue : IsCmd(i) => queue[i].phase = "ended"
        /\ \A h \in Handle : events[h] \subseteq {"rxLastCmdDone"}
        /\ cb.stage # "handler" /\ cb.mask \subseteq {"rxLastCmdDone"}

\* The start of a frame that the MAC does not know of yet is on its way to it.
Soft(h) == "rxMdmSoft" \in events[h] \/ (cb.stage # "none" /\ "rxMdmSoft" \in cb.mask)

Listening ==
    mac = "LISTEN" =>
        /\ \A i \in DOMAIN queue : IsCmd(i) /\ queue[i].phase = "sync" => Soft(queue[i].h)
        /\ \A h \in Handle : events[h] \cap EndEvent # {} => Soft(h)
        /\ cb.stage # "none" /\ cb.mask \cap EndEvent # {} => "rxMdmSoft" \in cb.mask

OneCommand ==
    /\ Single /\ Ready /\ Known /\ IdleSilences /\ Live /\ Order /\ Calls /\ Active
    /\ Listening /\ EndOfFrameDelivers

IInv == TInv /\ OneCommand

----------------------------------------------------------------------------
(* Numbers and queues.                                                     *)

\* A set of natural numbers that is not empty has a least element.
LEMMA LeastExists ==
    ASSUME NEW S, S \subseteq Nat, S # {}
    PROVE  \E least \in S : \A n \in S : least =< n
<1> DEFINE R == OpToRel(<, Nat)
<1>1. IsWellFoundedOn(R, Nat)
  BY NatLessThanWellFounded
<1>2. \A m, n \in Nat : m < n => <<m, n>> \in R
  BY DEF OpToRel
<1> HIDE DEF R
<1>3. PICK least \in S : \A n \in S : ~ (<<n, least>> \in R)
  BY <1>1, WFMin
<1>4. \A n \in S : n \in Nat /\ least \in Nat /\ ~ (n < least)
  BY <1>2, <1>3, Zenon
<1>5. \A n \in S : least =< n
  BY <1>4
<1> QED BY <1>5

\* Min yields it.
LEMMA MinIsLeast ==
    ASSUME NEW S, S \subseteq Nat, S # {}
    PROVE  Min(S) \in S /\ \A n \in S : Min(S) =< n
<1>1. \E least \in S : \A n \in S : least =< n
  BY LeastExists
<1> QED BY <1>1 DEF Min

\* Max yields the greatest element of a set with an upper bound.
LEMMA MaxIsGreatest ==
    ASSUME NEW S, S \subseteq Nat, S # {}, NEW bound \in Nat, \A n \in S : n =< bound
    PROVE  Max(S) \in S /\ \A n \in S : n =< Max(S)
<1> DEFINE T == {bound - n : n \in S}
<1>1. T \subseteq Nat /\ T # {}
  OBVIOUS
<1>2. PICK least \in T : \A t \in T : least =< t
  BY <1>1, LeastExists
<1>3. PICK greatest \in S : least = bound - greatest
  BY <1>2
<1>4. \A n \in S : n =< greatest
  <2> SUFFICES ASSUME NEW n \in S PROVE n =< greatest
    OBVIOUS
  <2>1. least =< bound - n
    BY <1>2
  <2> QED BY <1>3, <2>1
<1>5. \E m \in S : \A n \in S : m >= n
  BY <1>3, <1>4
<1> QED BY <1>5 DEF Max

\* setTxp always finds a power in the table.
LEMMA PowerFound ==
    ASSUME NEW txp \in Power, setTxp(txp) PROVE txPower' \in PowerTable
<1>1. PICK highest \in PowerTable : \A power \in PowerTable : power =< highest
  BY PowerAssumption
<1>2. Min(PowerTable) \in PowerTable /\ Max(PowerTable) \in PowerTable
  BY <1>1, PowerAssumption, MinIsLeast, MaxIsGreatest
<1>3. CASE txp >= Min(PowerTable)
  <2> DEFINE S == {power \in PowerTable : power =< txp}
  <2>1. S \subseteq Nat /\ S # {} /\ txp \in Nat /\ \A n \in S : n =< txp
    BY <1>2, <1>3, PowerAssumption
  <2>2. Max(S) \in S
    <3> HIDE DEF S
    <3> QED BY <2>1, MaxIsGreatest
  <2> QED BY <1>2, <1>3, <2>2, PowerAssumption DEF setTxp, FindValue
<1>4. CASE txp < Min(PowerTable)
  BY <1>2, <1>4 DEF setTxp
<1>5. txp \in Nat /\ Min(PowerTable) \in Nat
  BY <1>2, PowerAssumption
<1> QED BY <1>3, <1>4, <1>5

\* A posted command is the last of the queue.
LEMMA AppendFacts ==
    ASSUME NEW q \in Seq(Cmd), NEW c \in Cmd
    PROVE  /\ Append(q, c) \in Seq(Cmd) /\ Len(Append(q, c)) = Len(q) + 1
           /\ DOMAIN q = 1 .. Len(q) /\ DOMAIN Append(q, c) = 1 .. Len(q) + 1
           /\ \A i \in DOMAIN q : Append(q, c)[i] = q[i]
           /\ Append(q, c)[Len(q) + 1] = c
  OBVIOUS

\* The first command leaves the queue, the others move up.
LEMMA TailFacts ==
    ASSUME NEW q \in Seq(Cmd), q # <<>>
    PROVE  /\ 1 \in DOMAIN q /\ Head(q) = q[1] /\ q[1] \in Cmd
           /\ Tail(q) \in Seq(Cmd) /\ Len(Tail(q)) = Len(q) - 1
           /\ DOMAIN q = 1 .. Len(q) /\ DOMAIN Tail(q) = 1 .. Len(q) - 1
           /\ \A i \in DOMAIN Tail(q) : i + 1 \in DOMAIN q /\ Tail(q)[i] = q[i + 1]
  OBVIOUS

\* The first command goes on to another phase.
LEMMA PhaseFacts ==
    ASSUME queue \in Seq(Cmd), queue # <<>>,
           NEW phase \in {"queued", "on", "sync", "ended"}, Phase(phase)
    PROVE  /\ queue' \in Seq(Cmd) /\ Len(queue') = Len(queue)
           /\ 1 \in DOMAIN queue /\ Head(queue) = queue[1] /\ queue[1] \in Cmd
           /\ DOMAIN queue' = DOMAIN queue
           /\ queue'[1] = [queue[1] EXCEPT !.phase = phase]
           /\ \A i \in DOMAIN queue : i # 1 => queue'[i] = queue[i]
<1> DEFINE c == [queue[1] EXCEPT !.phase = phase]
<1>1. 1 \in DOMAIN queue /\ Head(queue) = queue[1] /\ queue[1] \in Cmd
  OBVIOUS
<1>2. c \in Cmd
  BY <1>1 DEF Cmd
<1>3. queue' = [queue EXCEPT ![1] = c]
  BY DEF Phase
<1> HIDE DEF c
<1>4. queue' \in Seq(Cmd) /\ Len(queue') = Len(queue) /\ DOMAIN queue' = DOMAIN queue
      /\ queue'[1] = c /\ \A i \in DOMAIN queue : i # 1 => queue'[i] = queue[i]
  BY <1>1, <1>2, <1>3
<1> QED BY <1>1, <1>4 DEF c

\* An item of a queue after Flush or PostFsOff, and the item it was before.
SameCommand(new, old) == new.h = old.h /\ new.op = old.op /\ new.phase = old.phase

\* RF_flushCmd aborts at least the command it is given.
LEMMA FlushFacts ==
    ASSUME NEW q \in Seq(Cmd), NEW ch
    PROVE  /\ Flush(q, ch) \in Seq(Cmd) /\ Len(Flush(q, ch)) = Len(q)
           /\ DOMAIN Flush(q, ch) = DOMAIN q
           /\ \A i \in DOMAIN q :
                 /\ SameCommand(Flush(q, ch)[i], q[i])
                 /\ q[i].flushed \/ q[i].h = ch => Flush(q, ch)[i].flushed
<1>1. DOMAIN q = 1 .. Len(q) /\ Len(q) \in Nat
  OBVIOUS
<1>2. ASSUME NEW i \in DOMAIN q
      PROVE  /\ Flush(q, ch)[i] \in Cmd /\ SameCommand(Flush(q, ch)[i], q[i])
             /\ q[i].flushed \/ q[i].h = ch => Flush(q, ch)[i].flushed
  <2>1. q[i] \in Cmd
    OBVIOUS
  <2>2. Flush(q, ch)[i] = q[i] \/ Flush(q, ch)[i] = [q[i] EXCEPT !.flushed = TRUE]
    BY DEF Flush
  <2>3. q[i].h = ch => Flush(q, ch)[i] = [q[i] EXCEPT !.flushed = TRUE]
    BY <1>1 DEF Flush
  <2> QED BY <2>1, <2>2, <2>3 DEF SameCommand, Cmd
<1>3. DOMAIN Flush(q, ch) = 1 .. Len(q)
  BY <1>1 DEF Flush
<1>4. Flush(q, ch) \in [1 .. Len(q) -> Cmd]
  BY <1>1, <1>2, <1>3 DEF Flush
<1> QED BY <1>1, <1>2, <1>3, <1>4

\* Idle adds at most the commonFsOff command.
LEMMA PostFsOffFacts ==
    ASSUME NEW q \in Seq(Cmd), Len(q) =< MaxQueue
    PROVE  /\ PostFsOff(q) \in Seq(Cmd) /\ Len(PostFsOff(q)) =< MaxQueue
           /\ DOMAIN q \subseteq DOMAIN PostFsOff(q)
           /\ \A i \in DOMAIN PostFsOff(q) :
                 \/ i \in DOMAIN q /\ PostFsOff(q)[i] = q[i]
                 \/ PostFsOff(q)[i] = Command(ALLOC_ERROR, "fsOff")
<1>1. Command(ALLOC_ERROR, "fsOff") \in Cmd
  BY DEF Command, Cmd
<1> QED BY <1>1, AppendFacts, MaxQueueAssumption DEF PostFsOff

\* EMBENET_RADIO_Idle: what is in the queue stays, and is aborted if the port
\* has its handle.
LEMMA GoIdleFacts ==
    ASSUME queue \in Seq(Cmd), Len(queue) =< MaxQueue, GoIdle
    PROVE  /\ queue' \in Seq(Cmd) /\ Len(queue') =< MaxQueue
           /\ \A i \in DOMAIN queue' :
                 \/ /\ i \in DOMAIN queue /\ SameCommand(queue'[i], queue[i])
                    /\ queue[i].flushed => queue'[i].flushed
                    /\ queue[i].h \in {txTransaction, rxTransaction} \ {ALLOC_ERROR}
                          => queue'[i].flushed
                 \/ queue'[i] = Command(ALLOC_ERROR, "fsOff")
<1> DEFINE flushTx == IF txTransaction = ALLOC_ERROR THEN queue ELSE Flush(queue, txTransaction)
           flushRx == IF rxTransaction = ALLOC_ERROR THEN flushTx ELSE Flush(flushTx, rxTransaction)
<1>1. /\ flushTx \in Seq(Cmd) /\ Len(flushTx) =< MaxQueue /\ DOMAIN flushTx = DOMAIN queue
      /\ \A i \in DOMAIN queue :
            /\ SameCommand(flushTx[i], queue[i]) /\ (queue[i].flushed => flushTx[i].flushed)
            /\ queue[i].h = txTransaction /\ txTransaction # ALLOC_ERROR => flushTx[i].flushed
  BY FlushFacts DEF SameCommand
<1>2. /\ flushRx \in Seq(Cmd) /\ Len(flushRx) =< MaxQueue /\ DOMAIN flushRx = DOMAIN queue
      /\ \A i \in DOMAIN queue :
            /\ SameCommand(flushRx[i], flushTx[i]) /\ (flushTx[i].flushed => flushRx[i].flushed)
            /\ flushTx[i].h = rxTransaction /\ rxTransaction # ALLOC_ERROR => flushRx[i].flushed
  <2> HIDE DEF flushTx
  <2> QED BY <1>1, FlushFacts DEF SameCommand
<1>3. queue' = PostFsOff(flushRx)
  BY DEF GoIdle
<1> HIDE DEF flushTx, flushRx
<1>4. /\ queue' \in Seq(Cmd) /\ Len(queue') =< MaxQueue
      /\ \A i \in DOMAIN queue' :
            \/ i \in DOMAIN flushRx /\ queue'[i] = flushRx[i]
            \/ queue'[i] = Command(ALLOC_ERROR, "fsOff")
  BY <1>2, <1>3, PostFsOffFacts
<1> QED BY <1>1, <1>2, <1>4 DEF SameCommand

----------------------------------------------------------------------------
(* Types.                                                                  *)

\* The driver starts with an empty queue and no callback.
LEMMA InitTInv == Init => TInv
<1> SUFFICES ASSUME Init PROVE TInv
  OBVIOUS
<1>1. txPower \in PowerTable
  <2>1. PICK highest \in PowerTable : \A power \in PowerTable : power =< highest
    BY PowerAssumption
  <2>2. highest \in Nat /\ PowerTable \subseteq Nat /\ PowerTable # {}
    BY PowerAssumption
  <2> QED BY <2>1, <2>2, MaxIsGreatest DEF Init
<1>2. queue \in Seq(Cmd) /\ DOMAIN queue = {} /\ Len(queue) =< MaxQueue
  BY MaxQueueAssumption DEF Init
<1>3. StaticsOK /\ RxDataOK /\ RfOK /\ mac \in MacState
  BY <1>2 DEF Init, StaticsOK, RxDataOK, RfOK, MacState
<1>4. GivenOK
  <2>1. radioTxBuffer.len = 0 /\ 0 =< MaxPsduLength
    BY PsduAssumption DEF Init, NoFrame
  <2>2. 0 \in 0 .. ChannelCount - 1
    BY ChannelAssumption
  <2> QED BY <1>1, <2>1, <2>2 DEF Init, GivenOK
<1>5. CallbackOK
  BY DEF Init, CallbackOK, NoCallback, None
<1> QED BY <1>2, <1>3, <1>4, <1>5 DEF TInv, TypeOK, Handles, PacketKept, Init

\* The calls that do not touch the queue.
LEMMA CallKeepsTInv ==
    ASSUME TInv,
           \/ \E set \in BOOLEAN : EMBENET_RADIO_SetCallbacks(set)
           \/ \E channel \in Channel, txp \in Power :
                 \/ \E psdu \in Psdu : EMBENET_RADIO_TxEnable(channel, txp, psdu)
                 \/ EMBENET_RADIO_StartContinuousTx(channel, txp)
           \/ \E channel \in Channel : EMBENET_RADIO_RxEnable(channel)
           \/ \E n \in Capacity : EMBENET_RADIO_GetReceivedFrame(n)
    PROVE  TInv'
<1> USE DEF TInv, TypeOK, MacState, statics, rxData, given, rf
<1>1. ASSUME NEW set \in BOOLEAN, EMBENET_RADIO_SetCallbacks(set) PROVE TInv'
  BY <1>1 DEF EMBENET_RADIO_SetCallbacks, StaticsOK, RxDataOK, GivenOK, RfOK, CallbackOK, Handles, PacketKept
<1>2. ASSUME NEW channel \in Channel, NEW txp \in Power, NEW psdu,
             psdu = [len |-> psdu.len, data |-> psdu.data], psdu.len \in Nat,
             TxEnable(channel, txp, psdu), UNCHANGED <<rxFs, handlers>>
      PROVE  GivenOK' /\ idle' = FALSE
  <2>1. txPower' \in PowerTable
    BY <1>2, PowerFound DEF TxEnable
  <2>2. txFs' \in 0 .. ChannelCount - 1
    BY <1>2, ChannelAssumption DEF TxEnable, setChannel
  <2>3. radioTxBuffer'.len = IF psdu.len > MaxPsduLength THEN MaxPsduLength ELSE psdu.len
    BY <1>2 DEF TxEnable
  <2>4. radioTxBuffer'.len =< MaxPsduLength
    BY <1>2, <2>3, PsduAssumption
  <2> QED BY <1>2, <2>1, <2>2, <2>4 DEF TxEnable, GivenOK
<1>3. ASSUME idle' = FALSE, mac' \in {"TX_READY", "RX_READY", "REFUSED", "TEST"}, GivenOK',
             UNCHANGED <<txTransaction, rxTransaction, rxData, rf, cb>>
      PROVE  TInv'
  <2>1. StaticsOK' /\ RxDataOK' /\ PacketKept'
    BY <1>3 DEF StaticsOK, RxDataOK, PacketKept
  <2>2. RfOK' /\ CallbackOK' /\ Handles'
    BY <1>3 DEF RfOK, CallbackOK, Handles
  <2> QED BY <1>3, <2>1, <2>2
<1>4. ASSUME NEW channel \in Channel, NEW txp \in Power, NEW psdu \in Psdu,
             EMBENET_RADIO_TxEnable(channel, txp, psdu)
      PROVE  TInv'
  <2>1. psdu = [len |-> psdu.len, data |-> psdu.data] /\ psdu.len \in Nat
    BY FrameAssumption
  <2>2. mac' = "TX_READY" /\ UNCHANGED <<txTransaction, rxTransaction, rxData, rf, cb>>
    BY <1>4 DEF EMBENET_RADIO_TxEnable
  <2>3. GivenOK' /\ idle' = FALSE
    BY <1>2, <1>4, <2>1 DEF EMBENET_RADIO_TxEnable
  <2> QED BY <1>3, <2>2, <2>3
<1>5. ASSUME NEW channel \in Channel, NEW txp \in Power,
             EMBENET_RADIO_StartContinuousTx(channel, txp)
      PROVE  TInv'
  <2>1. mac' = "TEST" /\ UNCHANGED <<txTransaction, rxTransaction, rxData, rf, cb>>
    BY <1>5 DEF EMBENET_RADIO_StartContinuousTx
  <2>2. GivenOK' /\ idle' = FALSE
    BY <1>2, <1>5 DEF EMBENET_RADIO_StartContinuousTx
  <2> QED BY <1>3, <2>1, <2>2
<1>6. ASSUME NEW channel \in Channel, EMBENET_RADIO_RxEnable(channel) PROVE TInv'
  <2>1. rxFs' \in 0 .. ChannelCount - 1
    BY <1>6, ChannelAssumption DEF EMBENET_RADIO_RxEnable, setChannel, GivenOK
  <2>2. idle' = FALSE /\ mac' \in {"RX_READY", "REFUSED"}
        /\ UNCHANGED <<txTransaction, rxTransaction, rxData, radioTxBuffer, txPower, txFs, handlers, rf, cb>>
    BY <1>6 DEF EMBENET_RADIO_RxEnable
  <2>3. GivenOK'
    BY <2>1, <2>2 DEF GivenOK
  <2> QED BY <1>3, <2>2, <2>3
<1>7. ASSUME NEW n \in Capacity, EMBENET_RADIO_GetReceivedFrame(n) PROVE TInv'
  BY <1>7 DEF EMBENET_RADIO_GetReceivedFrame, StaticsOK, RxDataOK, GivenOK, RfOK, CallbackOK, Handles, PacketKept
<1> QED BY <1>1, <1>4, <1>5, <1>6, <1>7

\* Init, Idle and Deinit abort what is in the queue, or empty it.
LEMMA IdleKeepsTInv ==
    ASSUME TInv, EMBENET_RADIO_Init \/ EMBENET_RADIO_Deinit \/ EMBENET_RADIO_Idle
    PROVE  TInv'
<1> USE DEF TInv, TypeOK, MacState, rxData, given
<1>0. queue \in Seq(Cmd) /\ Len(queue) =< MaxQueue
  BY DEF RfOK
<1>1. ASSUME queue' \in Seq(Cmd), events' = events,
             \A i \in DOMAIN queue' :
                \/ i \in DOMAIN queue /\ SameCommand(queue'[i], queue[i])
                \/ queue'[i] = Command(ALLOC_ERROR, "fsOff")
      PROVE  Handles'
  <2> USE <1>1, AllocErrorAssumption DEF Handles, SameCommand, Command
  <2>1. ASSUME NEW i \in DOMAIN queue', queue'[i] = Command(ALLOC_ERROR, "fsOff")
        PROVE  queue'[i].op = "fsOff" /\ queue'[i].h = ALLOC_ERROR /\ queue'[i].phase = "queued"
    BY <2>1
  <2>2. ASSUME NEW i \in DOMAIN queue', NEW j \in DOMAIN queue', queue'[i].op # "fsOff",
               queue'[i].h = queue'[j].h
        PROVE  i = j
    BY <2>1, <2>2
  <2> QED BY <2>1, <2>2
<1>2. CASE EMBENET_RADIO_Idle
  <2>1. /\ queue' \in Seq(Cmd) /\ Len(queue') =< MaxQueue
        /\ \A i \in DOMAIN queue' :
              \/ i \in DOMAIN queue /\ SameCommand(queue'[i], queue[i])
              \/ queue'[i] = Command(ALLOC_ERROR, "fsOff")
    BY <1>0, <1>2, GoIdleFacts DEF EMBENET_RADIO_Idle
  <2>2. Handles'
    BY <1>1, <1>2, <2>1 DEF EMBENET_RADIO_Idle
  <2> QED BY <1>2, <2>1, <2>2 DEF EMBENET_RADIO_Idle, GoIdle, StaticsOK, RxDataOK, GivenOK, RfOK, CallbackOK, PacketKept
<1>3. CASE EMBENET_RADIO_Init
  <2>1. /\ queue' \in Seq(Cmd) /\ Len(queue') =< MaxQueue
        /\ \A i \in DOMAIN queue' :
              \/ i \in DOMAIN queue /\ SameCommand(queue'[i], queue[i])
              \/ queue'[i] = Command(ALLOC_ERROR, "fsOff")
    <3>1. \A i \in DOMAIN queue : SameCommand(queue[i], queue[i])
      BY DEF SameCommand
    <3>2. CASE queue' = queue
      BY <1>0, <3>1, <3>2
    <3>3. CASE queue' = PostFsOff(queue)
      BY <1>0, <3>1, <3>3, PostFsOffFacts
    <3> QED BY <1>3, <3>2, <3>3 DEF EMBENET_RADIO_Init
  <2>2. Handles'
    BY <1>1, <1>3, <2>1 DEF EMBENET_RADIO_Init
  <2>3. StaticsOK' /\ mac' \in MacState
    BY <1>3 DEF EMBENET_RADIO_Init, StaticsOK
  <2>4. RxDataOK' /\ GivenOK' /\ PacketKept' /\ CallbackOK'
    BY <1>3 DEF EMBENET_RADIO_Init, RxDataOK, GivenOK, CallbackOK, PacketKept
  <2>5. RfOK'
    BY <1>3, <2>1 DEF EMBENET_RADIO_Init, RfOK
  <2> QED BY <2>2, <2>3, <2>4, <2>5
<1>4. CASE EMBENET_RADIO_Deinit
  <2>1. queue' \in Seq(Cmd) /\ DOMAIN queue' = {} /\ Len(queue') =< MaxQueue
    BY <1>4, MaxQueueAssumption DEF EMBENET_RADIO_Deinit
  <2> QED BY <1>4, <2>1 DEF EMBENET_RADIO_Deinit, StaticsOK, RxDataOK, GivenOK, RfOK, CallbackOK, Handles, PacketKept
<1> QED BY <1>2, <1>3, <1>4

\* TxNow and RxNow post a command under a handle that nobody knows.
LEMMA PostKeepsTInv == ASSUME TInv, EMBENET_RADIO_TxNow \/ EMBENET_RADIO_RxNow PROVE TInv'
<1> USE DEF TInv, TypeOK, MacState, rxData, given
<1>0. queue \in Seq(Cmd) /\ Len(queue) \in Nat
  BY DEF RfOK
<1>1. ASSUME NEW h \in FreeHandle, NEW op \in {"tx", "rx"}, Len(queue) < MaxQueue,
             queue' = Append(queue, Command(h, op)), events' = events
      PROVE  Handles' /\ Len(queue') =< MaxQueue /\ queue' \in Seq(Cmd) /\ h \in Handle
  <2>1. h \in Handle /\ events[h] = {} /\ \A i \in DOMAIN queue : queue[i].h # h
    BY DEF FreeHandle
  <2>2. Command(h, op) \in Cmd
    BY <2>1 DEF Command, Cmd
  <2>3. queue' \in Seq(Cmd) /\ Len(queue') = Len(queue) + 1
    BY <1>0, <1>1, <2>2, AppendFacts
  <2>4. \A i \in DOMAIN queue' :
             \/ i \in DOMAIN queue /\ queue'[i] = queue[i]
             \/ i = Len(queue) + 1 /\ queue'[i] = Command(h, op)
    BY <1>0, <1>1, <2>2, AppendFacts
  <2>5. Handles'
    BY <1>1, <2>1, <2>4, AllocErrorAssumption DEF Command, Handles
  <2> QED BY <1>0, <1>1, <2>1, <2>3, <2>5, MaxQueueAssumption
<1>2. CASE EMBENET_RADIO_TxNow
  <2>1. Handles' /\ Len(queue') =< MaxQueue /\ queue' \in Seq(Cmd)
        /\ txTransaction' \in Handle \cup {ALLOC_ERROR}
    BY <1>1, <1>2 DEF EMBENET_RADIO_TxNow, RfOK, Handles
  <2> QED BY <1>2, <2>1 DEF EMBENET_RADIO_TxNow, StaticsOK, RxDataOK, GivenOK, RfOK, CallbackOK, PacketKept
<1>3. CASE EMBENET_RADIO_RxNow
  <2>1. Handles' /\ Len(queue') =< MaxQueue /\ queue' \in Seq(Cmd)
        /\ rxTransaction' \in Handle \cup {ALLOC_ERROR}
    BY <1>1, <1>3 DEF EMBENET_RADIO_RxNow, RfOK, Handles
  <2> QED BY <1>3, <2>1 DEF EMBENET_RADIO_RxNow, StaticsOK, RxDataOK, GivenOK, RfOK, CallbackOK, PacketKept
<1> QED BY <1>2, <1>3

\* An event is added to those of the command that executes, and of its kind.
LEMMA RaiseFacts ==
    ASSUME TInv, queue # <<>>, NEW e, Raise(e),
           \/ Head(queue).op = "tx" /\ e \subseteq TxEvent
           \/ Head(queue).op = "rx" /\ e \subseteq RxEvent
    PROVE  /\ Head(queue).h \in Handle
           /\ events' \in [Handle -> (SUBSET TxEvent) \cup (SUBSET RxEvent)]
           /\ events'[Head(queue).h] = events[Head(queue).h] \cup e
           /\ \A h \in Handle : h # Head(queue).h => events'[h] = events[h]
<1>1. /\ queue \in Seq(Cmd)
      /\ events \in [Handle -> (SUBSET TxEvent) \cup (SUBSET RxEvent)]
  BY DEF TInv, TypeOK, RfOK, CallbackOK
<1>2. 1 \in DOMAIN queue /\ Head(queue) = queue[1]
  BY <1>1, TailFacts
<1>3. /\ Head(queue).h \in Handle
      /\ Head(queue).op = "tx" => events[Head(queue).h] \subseteq TxEvent
      /\ Head(queue).op = "rx" => events[Head(queue).h] \subseteq RxEvent
  BY <1>2 DEF TInv, Handles
<1>4. events[Head(queue).h] \cup e \in (SUBSET TxEvent) \cup (SUBSET RxEvent)
  BY <1>3
<1> QED BY <1>1, <1>3, <1>4 DEF Raise

\* A command that ends or goes on to another phase raises events of its kind.
LEMMA RfStepKeepsHandles ==
    ASSUME TInv, queue # <<>>,
           \/ queue' = Tail(queue)
           \/ \E phase \in {"on", "sync", "ended"} :
                 /\ Phase(phase) /\ Head(queue).op # "fsOff"
                 /\ Head(queue).op = "tx" => phase = "on",
           \/ UNCHANGED events
           \/ Head(queue).op = "tx" /\ \E e \in SUBSET TxEvent : Raise(e)
           \/ Head(queue).op = "rx" /\ \E e \in SUBSET RxEvent : Raise(e)
    PROVE  /\ Handles'
           /\ queue' \in Seq(Cmd) /\ Len(queue') =< MaxQueue
           /\ events' \in [Handle -> (SUBSET TxEvent) \cup (SUBSET RxEvent)]
<1>1. /\ queue \in Seq(Cmd) /\ Len(queue) =< MaxQueue
      /\ events \in [Handle -> (SUBSET TxEvent) \cup (SUBSET RxEvent)]
  BY DEF TInv, TypeOK, RfOK, CallbackOK
<1>2. /\ queue' \in Seq(Cmd) /\ Len(queue') =< MaxQueue
      /\ \A i \in DOMAIN queue' : \E k \in DOMAIN queue :
            /\ queue'[i].h = queue[k].h /\ queue'[i].op = queue[k].op
            /\ queue[k].op = "fsOff" => queue'[i].phase = queue[k].phase
            /\ queue[k].op = "tx" =>
                  queue'[i].phase = queue[k].phase \/ queue'[i].phase = "on"
      /\ \A i, j \in DOMAIN queue' : queue'[i].op # "fsOff" /\ queue'[i].h = queue'[j].h => i = j
  <2>1. CASE queue' = Tail(queue)
    <3>1. /\ Tail(queue) \in Seq(Cmd) /\ Len(Tail(queue)) = Len(queue) - 1
          /\ DOMAIN Tail(queue) = 1 .. Len(queue) - 1
          /\ \A i \in DOMAIN Tail(queue) : i + 1 \in DOMAIN queue /\ Tail(queue)[i] = queue[i + 1]
      BY <1>1, TailFacts
    <3>2. Len(queue) \in Nat /\ Len(queue') =< MaxQueue
      BY <1>1, <2>1, <3>1, MaxQueueAssumption
    <3>3. ASSUME NEW i \in DOMAIN queue', NEW j \in DOMAIN queue',
                 queue'[i].op # "fsOff", queue'[i].h = queue'[j].h
          PROVE  i = j
      <4>1. i + 1 = j + 1
        BY <2>1, <3>1, <3>3 DEF TInv, Handles
      <4> QED BY <2>1, <3>1, <3>2, <4>1
    <3> QED BY <2>1, <3>1, <3>2, <3>3
  <2>2. ASSUME NEW phase \in {"on", "sync", "ended"},
               Phase(phase), Head(queue).op # "fsOff", Head(queue).op = "tx" => phase = "on"
        PROVE  <1>2!1 /\ <1>2!2 /\ <1>2!3
    <3>1. /\ queue' \in Seq(Cmd) /\ Len(queue') = Len(queue)
          /\ 1 \in DOMAIN queue /\ Head(queue) = queue[1] /\ queue[1] \in Cmd
          /\ DOMAIN queue' = DOMAIN queue
          /\ queue'[1] = [queue[1] EXCEPT !.phase = phase]
          /\ \A i \in DOMAIN queue : i # 1 => queue'[i] = queue[i]
      BY <1>1, <2>2, PhaseFacts
    <3>2. queue'[1].h = queue[1].h /\ queue'[1].op = queue[1].op /\ queue'[1].phase = phase
      BY <3>1 DEF Cmd
    <3>3. \A i \in DOMAIN queue : queue'[i].h = queue[i].h /\ queue'[i].op = queue[i].op
      BY <3>1, <3>2
    <3>4. \A i \in DOMAIN queue : i # 1 => queue'[i].phase = queue[i].phase
      BY <3>1
    <3>5. \A i \in DOMAIN queue :
             /\ queue[i].op = "fsOff" => queue'[i].phase = queue[i].phase
             /\ queue[i].op = "tx" => queue'[i].phase = queue[i].phase \/ queue'[i].phase = "on"
      BY <2>2, <3>1, <3>2, <3>4
    <3>6. \A i, j \in DOMAIN queue : queue[i].op # "fsOff" /\ queue[i].h = queue[j].h => i = j
      BY DEF TInv, Handles
    <3>7. Len(queue') =< MaxQueue /\ <1>2!3
      BY <1>1, <3>1, <3>3, <3>6
    <3>8. <1>2!2
      BY <3>1, <3>3, <3>5
    <3> QED BY <3>1, <3>7, <3>8
  <2> QED BY <2>1, <2>2
<1>3. \/ UNCHANGED events
      \/ /\ Head(queue) = queue[1] /\ 1 \in DOMAIN queue
         /\ events' \in [Handle -> (SUBSET TxEvent) \cup (SUBSET RxEvent)]
         /\ \A h \in Handle : h # queue[1].h => events'[h] = events[h]
         /\ queue[1].op = "tx" => events'[queue[1].h] \subseteq TxEvent
         /\ queue[1].op = "rx" => events'[queue[1].h] \subseteq RxEvent
         /\ queue[1].op # "fsOff"
  <2>1. Head(queue) = queue[1] /\ 1 \in DOMAIN queue
    BY <1>1, TailFacts
  <2>2. ASSUME Head(queue).op = "tx", NEW e \in SUBSET TxEvent, Raise(e) PROVE <1>3!2
    BY <2>1, <2>2, RaiseFacts DEF TInv, Handles
  <2>3. ASSUME Head(queue).op = "rx", NEW e \in SUBSET RxEvent, Raise(e) PROVE <1>3!2
    BY <2>1, <2>3, RaiseFacts DEF TInv, Handles
  <2> QED BY <2>2, <2>3
<1>4. \A k \in DOMAIN queue :
         /\ queue[k].op = "tx" => events'[queue[k].h] \subseteq TxEvent
         /\ queue[k].op = "rx" => events'[queue[k].h] \subseteq RxEvent
  BY <1>3 DEF TInv, Handles
<1>5. events' \in [Handle -> (SUBSET TxEvent) \cup (SUBSET RxEvent)]
  BY <1>1, <1>3
<1>6. Handles'
  BY <1>2, <1>4 DEF TInv, Handles
<1> QED BY <1>2, <1>5, <1>6

\* What a step of the RF core may change.
RfStep ==
    /\ queue # <<>>
    /\ \/ queue' = Tail(queue)
       \/ \E phase \in {"on", "sync", "ended"} :
             /\ Phase(phase) /\ Head(queue).op # "fsOff"
             /\ Head(queue).op = "tx" => phase = "on"
    /\ \/ UNCHANGED events
       \/ Head(queue).op = "tx" /\ \E e \in SUBSET TxEvent : Raise(e)
       \/ Head(queue).op = "rx" /\ \E e \in SUBSET RxEvent : Raise(e)
    /\ txStatus' \in {txStatus, "DONE_OK", "ABORTED"}
    /\ rxStatus' \in {rxStatus, "DONE_OK", "RXERR", "RXBUF", "ABORTED"}
    /\ rxItem' \in {rxItem, "FINISHED"}
    /\ radioRxBuffer' \in {radioRxBuffer} \cup Frame
    /\ UNCHANGED <<idle, txTransaction, rxTransaction, rxPacket, rxPacketLength,
                   given, cb, mac>>

\* Every action of the RF core is such a step.
LEMMA RfCoreIsRfStep == ASSUME RfCore PROVE RfStep
<1> USE DEF RfStep, Executing, statics, rxData
<1>0. {"txCmdDone"} \subseteq TxEvent /\ {"txLastCmdDone"} \subseteq TxEvent
      /\ {"rxMdmSoft"} \subseteq RxEvent /\ {"rxOk"} \subseteq RxEvent
      /\ {"rxNOk"} \subseteq RxEvent /\ {"rxLastCmdDone"} \subseteq RxEvent
  BY DEF TxEvent, RxEvent
<1>1. CASE RfFs
  <2>1. CASE Head(queue).op = "tx"
    BY <1>0, <1>1, <2>1 DEF RfFs
  <2>2. CASE Head(queue).op = "rx"
    BY <1>0, <1>1, <2>2 DEF RfFs
  <2> QED BY <1>1, <2>1, <2>2 DEF RfFs
<1>2. CASE RfFsOff
  BY <1>2 DEF RfFsOff
<1>3. CASE RfTxDone
  BY <1>0, <1>3 DEF RfTxDone
<1>4. CASE RfSync
  BY <1>0, <1>4 DEF RfSync
<1>5. CASE RfRxEnd
  BY <1>0, <1>5 DEF RfRxEnd
<1>6. CASE RfAbort
  BY <1>0, <1>6 DEF RfAbort
<1>7. ASSUME NEW f \in Frame, RfRxOk(f) PROVE RfStep
  BY <1>0, <1>7 DEF RfRxOk
<1>8. ASSUME NEW f \in Frame, RfRxNOk(f) PROVE RfStep
  BY <1>0, <1>8 DEF RfRxNOk
<1> QED BY <1>1, <1>2, <1>3, <1>4, <1>5, <1>6, <1>7, <1>8 DEF RfCore

\* The RF core keeps the types.
LEMMA RfKeepsTInv == ASSUME TInv, RfCore PROVE TInv'
<1>1. RfStep
  BY RfCoreIsRfStep
<1>2. /\ Handles' /\ queue' \in Seq(Cmd) /\ Len(queue') =< MaxQueue
      /\ events' \in [Handle -> (SUBSET TxEvent) \cup (SUBSET RxEvent)]
  BY <1>1, RfStepKeepsHandles DEF RfStep
<1> QED BY <1>1, <1>2
        DEF TInv, RfStep, given, TypeOK, StaticsOK, RxDataOK, GivenOK, RfOK, CallbackOK, PacketKept

\* The callbacks.
LEMMA CallbackKeepsTInv == ASSUME TInv, Callback PROVE TInv'
<1> USE DEF TInv, TypeOK, statics, rxData, given, rf
<1>0. /\ events \in [Handle -> (SUBSET TxEvent) \cup (SUBSET RxEvent)]
      /\ cb \in [stage : {"none", "body", "handler"},
                 mask : (SUBSET TxEvent) \cup (SUBSET RxEvent),
                 call : {None, "startRx", "endRx", "startTx", "endTx"}]
      /\ cb.mask \in (SUBSET TxEvent) \cup (SUBSET RxEvent)
      /\ NoCallback \in [stage : {"none", "body", "handler"},
                 mask : (SUBSET TxEvent) \cup (SUBSET RxEvent),
                 call : {None, "startRx", "endRx", "startTx", "endTx"}]
  BY DEF CallbackOK, NoCallback
<1>1. ASSUME NEW h \in Handle, CallbackEnter(h) PROVE TInv'
  <2>1. events' \in [Handle -> (SUBSET TxEvent) \cup (SUBSET RxEvent)]
        /\ \A g \in Handle : events'[g] \subseteq events[g]
    BY <1>0, <1>1 DEF CallbackEnter
  <2>2. cb' \in [stage : {"none", "body", "handler"},
                 mask : (SUBSET TxEvent) \cup (SUBSET RxEvent),
                 call : {None, "startRx", "endRx", "startTx", "endTx"}]
    BY <1>0, <1>1 DEF CallbackEnter
  <2>3. Handles'
    BY <1>1, <2>1 DEF CallbackEnter, Handles
  <2> QED BY <1>1, <2>1, <2>2, <2>3
          DEF CallbackEnter, StaticsOK, RxDataOK, GivenOK, RfOK, CallbackOK, PacketKept
<1>2. ASSUME NEW call \in {None, "startRx", "endRx", "startTx", "endTx"}, Capture(call),
             events' = events
      PROVE  CallbackOK'
  BY <1>0, <1>2 DEF Capture, CallbackOK
<1>3. CASE RxFinished
  <2>1. CallbackOK'
    BY <1>2, <1>3 DEF RxFinished
  <2>2. RxDataOK' /\ PacketKept'
    BY <1>3, FrameAssumption DEF RxFinished, RxDataOK, PacketKept, NoFrame
  <2> QED BY <1>3, <2>1, <2>2 DEF RxFinished, StaticsOK, GivenOK, RfOK, Handles
<1>4. CASE RxError
  <2>1. CallbackOK'
    BY <1>2, <1>4 DEF RxError
  <2> QED BY <1>4, <2>1 DEF RxError, StaticsOK, RxDataOK, GivenOK, RfOK, Handles, PacketKept
<1>5. CASE TxFinished
  <2>1. CallbackOK'
    BY <1>2, <1>5 DEF TxFinished
  <2> QED BY <1>5, <2>1 DEF TxFinished, StaticsOK, RxDataOK, GivenOK, RfOK, Handles, PacketKept
<1>6. CASE RxStarted \/ TxStarted
  <2>1. CallbackOK'
    BY <1>2, <1>6 DEF RxStarted, TxStarted
  <2> QED BY <1>6, <2>1 DEF RxStarted, TxStarted, StaticsOK, RxDataOK, GivenOK, RfOK, Handles, PacketKept
<1>7. CASE CaptureHandler
  <2>1. mac' \in MacState
    BY <1>7 DEF CaptureHandler, MacState
  <2>2. CallbackOK'
    BY <1>0, <1>7 DEF CaptureHandler, CallbackOK
  <2> QED BY <1>7, <2>1, <2>2 DEF CaptureHandler, StaticsOK, RxDataOK, GivenOK, RfOK, Handles, PacketKept
<1> QED BY <1>1, <1>3, <1>4, <1>5, <1>6, <1>7 DEF Callback

\* The port keeps indices, lengths and powers in their ranges, and never has
\* events of a reception for a transmission's command, whatever the MAC calls.
THEOREM TypeInductive == Spec => []TInv
<1>1. TInv /\ [Next]_vars => TInv'
  <2> SUFFICES ASSUME TInv, [Next]_vars PROVE TInv'
    OBVIOUS
  <2>1. CASE MacCall
    BY <2>1, CallKeepsTInv, IdleKeepsTInv, PostKeepsTInv DEF MacCall
  <2>2. CASE RfCore
    BY <2>2, RfKeepsTInv
  <2>3. CASE Callback
    BY <2>3, CallbackKeepsTInv
  <2>4. CASE Aborted \/ UNCHANGED vars
    BY <2>4 DEF Aborted, vars, statics, rxData, given, rf, TInv, TypeOK, StaticsOK, RxDataOK,
       GivenOK, RfOK, CallbackOK, Handles, PacketKept
  <2> QED BY <2>1, <2>2, <2>3, <2>4 DEF Next
<1> QED BY <1>1, InitTInv, PTL DEF Spec

\* Every variable has its type.
THEOREM TypeCorrect == Spec => []TypeOK
<1>1. TInv => TypeOK
  BY DEF TInv
<1> QED BY <1>1, TypeInductive, PTL

----------------------------------------------------------------------------
(* A MAC that waits has one command under way.                             *)

\* With nothing under way there is nothing to say but of `idle` and the
\* handlers.
LEMMA QuietIsOneCommand ==
    ASSUME NoCmd', NoEvents', cb' = NoCallback, Known' PROVE OneCommand'
<1>1. cb'.stage = "none" /\ cb'.mask = {} /\ \A i \in DOMAIN queue' : ~IsCmd(i)'
  BY DEF NoCallback, IsCmd, NoCmd
<1> QED BY <1>1 DEF OneCommand, Single, Ready, IdleSilences, Live, Order, Calls, Active, Listening,
           EndOfFrameDelivers, NoCmd, NoEvents

\* There are two operations besides commonFsOff.
LEMMA OpOfCmd ==
    ASSUME TInv
    PROVE  \A i \in DOMAIN queue : IsCmd(i) => queue[i].op = "tx" \/ queue[i].op = "rx"
<1>1. \A i \in DOMAIN queue : queue[i] \in Cmd
  BY DEF TInv, TypeOK, RfOK
<1> QED BY <1>1 DEF IsCmd, Cmd

\* If the callbacks have run, nothing is left of what the MAC aborted or of
\* what it knows to have ended.
LEMMA SettledIsQuiet ==
    ASSUME IInv, mac \in {"IDLE", "ACTIVE"}, Settled
    PROVE  NoCmd /\ NoEvents /\ cb = NoCallback
<1>1. NoEvents /\ cb = NoCallback
  BY DEF Settled, NoEvents
<1>2. ASSUME NEW i \in DOMAIN queue, queue[i].op # "fsOff" PROVE FALSE
  <2>1. ~queue[i].flushed /\ queue[i].phase # "ended"
    BY <1>2 DEF Settled
  <2>2. queue[i].op = "tx" \/ queue[i].op = "rx"
    BY <1>2, OpOfCmd DEF IsCmd, IInv
  <2> QED BY <1>2, <2>1, <2>2 DEF IInv, OneCommand, Live, IsCmd
<1> QED BY <1>1, <1>2 DEF NoCmd

\* MacWaits: the calls that do not touch the queue.
LEMMA CallKeepsOneCommand ==
    ASSUME MacWaits, IInv,
           \/ \E set \in BOOLEAN : EMBENET_RADIO_SetCallbacks(set)
           \/ \E channel \in Channel, txp \in Power :
                 \/ \E psdu \in Psdu : EMBENET_RADIO_TxEnable(channel, txp, psdu)
                 \/ EMBENET_RADIO_StartContinuousTx(channel, txp)
           \/ \E channel \in Channel : EMBENET_RADIO_RxEnable(channel)
           \/ \E n \in Capacity : EMBENET_RADIO_GetReceivedFrame(n)
    PROVE  OneCommand'
<1>1. ASSUME NEW set \in BOOLEAN, EMBENET_RADIO_SetCallbacks(set) PROVE OneCommand'
  <2>1. UNCHANGED <<statics, rxData, rf, cb, mac>>
    BY <1>1 DEF EMBENET_RADIO_SetCallbacks
  <2>2. Known'
    BY <1>1 DEF EMBENET_RADIO_SetCallbacks, IInv, OneCommand, Known, statics
  <2> QED BY <2>1, <2>2 DEF statics, rxData, rf, IInv, OneCommand, Single, Ready, IdleSilences,
             Live, Order, Calls, Active, Listening, Soft, EndOfFrameDelivers, NoCmd, NoEvents, IsCmd
<1>2. ASSUME mac \in {"IDLE", "ACTIVE"}, Settled, UNCHANGED <<queue, events, cb>>, Known'
      PROVE  OneCommand'
  BY <1>2, SettledIsQuiet, QuietIsOneCommand DEF NoCmd, NoEvents
<1>3. ASSUME NEW channel \in Channel, NEW txp \in Power, NEW psdu \in Psdu,
             EMBENET_RADIO_TxEnable(channel, txp, psdu)
      PROVE  OneCommand'
  BY <1>2, <1>3 DEF EMBENET_RADIO_TxEnable, TxEnable, rf, Known
<1>4. ASSUME NEW channel \in Channel, NEW txp \in Power,
             EMBENET_RADIO_StartContinuousTx(channel, txp)
      PROVE  OneCommand'
  BY <1>2, <1>4 DEF EMBENET_RADIO_StartContinuousTx, TxEnable, rf, Known
<1>5. ASSUME NEW channel \in Channel, EMBENET_RADIO_RxEnable(channel) PROVE OneCommand'
  BY <1>2, <1>5 DEF EMBENET_RADIO_RxEnable, MayListen, rf, Known
<1>6. ASSUME NEW n \in Capacity, EMBENET_RADIO_GetReceivedFrame(n) PROVE OneCommand'
  BY <1>6 DEF EMBENET_RADIO_GetReceivedFrame, statics, rf, given, IInv, OneCommand, Single, Ready,
     Known, IdleSilences, Live, Order, Calls, Active, Listening, Soft, EndOfFrameDelivers,
     NoCmd, NoEvents, IsCmd
<1> QED BY <1>1, <1>3, <1>4, <1>5, <1>6

\* Init, Idle and Deinit: Idle aborts the one command, whose handle the port has.
LEMMA IdleKeepsOneCommand ==
    ASSUME IInv, EMBENET_RADIO_Init \/ EMBENET_RADIO_Deinit \/ EMBENET_RADIO_Idle
    PROVE  OneCommand'
<1>0. queue \in Seq(Cmd) /\ Len(queue) =< MaxQueue
  BY DEF IInv, TInv, TypeOK, RfOK
<1>1. CASE EMBENET_RADIO_Idle
  <2>1. \A i \in DOMAIN queue' : IsCmd(i)' =>
           /\ IsCmd(i) /\ SameCommand(queue'[i], queue[i])
           /\ queue[i].flushed => queue'[i].flushed
           /\ queue[i].h \in {txTransaction, rxTransaction} => queue'[i].flushed
    <3>1. \A i \in DOMAIN queue' :
             \/ /\ i \in DOMAIN queue /\ SameCommand(queue'[i], queue[i])
                /\ queue[i].flushed => queue'[i].flushed
                /\ queue[i].h \in {txTransaction, rxTransaction} \ {ALLOC_ERROR}
                      => queue'[i].flushed
             \/ queue'[i] = Command(ALLOC_ERROR, "fsOff")
      BY <1>0, <1>1, GoIdleFacts DEF EMBENET_RADIO_Idle
    <3>2. Command(ALLOC_ERROR, "fsOff").op = "fsOff"
      BY DEF Command
    <3> QED BY <3>1, <3>2, AllocErrorAssumption DEF IsCmd, SameCommand, IInv, TInv, Handles
  <2>2. idle' = TRUE /\ mac' = "IDLE" /\ UNCHANGED <<events, cb, txTransaction, rxTransaction>>
    BY <1>1 DEF EMBENET_RADIO_Idle, GoIdle
  <2>3. IdleSilences' /\ Live'
    <3>1. ASSUME NEW i \in DOMAIN queue', IsCmd(i)'
          PROVE  queue'[i].flushed \/ queue'[i].phase = "ended"
      <4>1. queue[i].op = "tx" \/ queue[i].op = "rx"
        BY <2>1, <3>1, OpOfCmd DEF IInv, IsCmd
      <4> QED BY <2>1, <3>1, <4>1 DEF IInv, OneCommand, Live, SameCommand, IsCmd
    <3> QED BY <3>1 DEF IdleSilences, Live, IsCmd
  <2>4. Single' /\ Order'
    <3>1. NoCmd => NoCmd'
      BY <2>1 DEF IsCmd, NoCmd
    <3> QED BY <2>1, <2>2, <3>1 DEF IInv, OneCommand, Single, Order, IsCmd, SameCommand, NoEvents
  <2> QED BY <2>2, <2>3, <2>4
          DEF IInv, OneCommand, Ready, Known, Calls, Active, Listening, EndOfFrameDelivers
<1>2. CASE EMBENET_RADIO_Init
  <2>1. NoCmd /\ NoEvents /\ cb = NoCallback
    BY <1>2 DEF EMBENET_RADIO_Init, IInv, OneCommand, Ready
  <2>2. NoCmd'
    <3>1. Command(ALLOC_ERROR, "fsOff").op = "fsOff"
      BY DEF Command
    <3>2. CASE queue' = PostFsOff(queue)
      BY <1>0, <2>1, <3>1, <3>2, PostFsOffFacts DEF NoCmd
    <3> QED BY <1>2, <2>1, <3>2 DEF EMBENET_RADIO_Init, NoCmd
  <2> QED BY <1>2, <2>1, <2>2, QuietIsOneCommand DEF EMBENET_RADIO_Init, NoEvents, Known
<1>3. CASE EMBENET_RADIO_Deinit
  <2>1. NoCmd' /\ NoEvents'
    BY <1>3 DEF EMBENET_RADIO_Deinit, NoCmd, NoEvents
  <2> QED BY <1>3, <2>1, QuietIsOneCommand DEF EMBENET_RADIO_Deinit, Known
<1> QED BY <1>1, <1>2, <1>3

\* TxNow and RxNow post the one command.
LEMMA PostKeepsOneCommand ==
    ASSUME IInv, EMBENET_RADIO_TxNow \/ EMBENET_RADIO_RxNow PROVE OneCommand'
<1>1. /\ NoCmd /\ NoEvents /\ cb = NoCallback /\ ~idle /\ handlers
      /\ queue \in Seq(Cmd) /\ Len(queue) \in Nat
      /\ UNCHANGED <<events, cb, idle, handlers>>
  BY DEF EMBENET_RADIO_TxNow, EMBENET_RADIO_RxNow, given, IInv, OneCommand, Ready, Known, TInv, TypeOK, RfOK
<1>2. CASE UNCHANGED <<queue, mac>>
  BY <1>1, <1>2, QuietIsOneCommand DEF NoCmd, NoEvents, Known, IInv, OneCommand
<1>3. ASSUME NEW h \in FreeHandle, NEW op \in {"tx", "rx"},
             queue' = Append(queue, Command(h, op)),
             \/ op = "tx" /\ mac' = "TX" /\ txTransaction' = h
             \/ op = "rx" /\ mac' = "LISTEN" /\ rxTransaction' = h
      PROVE  OneCommand'
  <2>1. Command(h, op) \in Cmd
    BY DEF FreeHandle, Command, Cmd
  <2>2. \A i \in DOMAIN queue' : IsCmd(i)' =>
           /\ i = Len(queue) + 1 /\ queue'[i].h = h /\ queue'[i].op = op
           /\ queue'[i].phase = "queued"
    <3>1. \A i \in DOMAIN queue' :
             \/ i \in DOMAIN queue /\ queue'[i] = queue[i]
             \/ i = Len(queue) + 1 /\ queue'[i] = Command(h, op)
      BY <1>1, <1>3, <2>1, AppendFacts
    <3> QED BY <1>1, <3>1 DEF NoCmd, IsCmd, Command
  <2>3. cb'.stage = "none" /\ cb'.mask = {} /\ cb' = NoCallback /\ NoEvents' /\ idle' = FALSE
    BY <1>1 DEF NoCallback, NoEvents, IInv, TInv, TypeOK, StaticsOK
  <2> QED BY <1>1, <1>3, <2>2, <2>3
          DEF OneCommand, Single, Ready, Known, IdleSilences, Live, Order, Calls, Active, Listening,
              EndOfFrameDelivers, NoEvents, IsCmd
<1>4. CASE EMBENET_RADIO_TxNow
  BY <1>2, <1>3, <1>4 DEF EMBENET_RADIO_TxNow
<1>5. CASE EMBENET_RADIO_RxNow
  BY <1>2, <1>3, <1>5 DEF EMBENET_RADIO_RxNow
<1> QED BY <1>4, <1>5

\* The command that executes, if it is not commonFsOff, is the only one.
LEMMA HeadIsOnlyCmd ==
    ASSUME IInv, queue # <<>>, Head(queue).op # "fsOff"
    PROVE  /\ 1 \in DOMAIN queue /\ Head(queue) = queue[1] /\ IsCmd(1)
           /\ \A i \in DOMAIN queue : IsCmd(i) => i = 1
           /\ Head(queue).h \in Handle
           /\ \A h \in Handle : events[h] # {} => h = Head(queue).h
           /\ \A i \in DOMAIN Tail(queue) : Tail(queue)[i].op = "fsOff"
<1>1. queue \in Seq(Cmd) /\ Len(queue) \in Nat
  BY DEF IInv, TInv, TypeOK, RfOK
<1>2. /\ 1 \in DOMAIN queue /\ Head(queue) = queue[1]
      /\ DOMAIN queue = 1 .. Len(queue) /\ DOMAIN Tail(queue) = 1 .. Len(queue) - 1
      /\ \A i \in DOMAIN Tail(queue) : i + 1 \in DOMAIN queue /\ Tail(queue)[i] = queue[i + 1]
  BY <1>1, TailFacts
<1>3. IsCmd(1) /\ \A i \in DOMAIN queue : IsCmd(i) => i = 1
  BY <1>2 DEF IInv, OneCommand, Single, IsCmd
<1>4. Head(queue).h \in Handle /\ \A h \in Handle : events[h] # {} => h = Head(queue).h
  BY <1>2, <1>3 DEF IInv, TInv, Handles, OneCommand, Single, IsCmd
<1>5. ASSUME NEW i \in DOMAIN Tail(queue) PROVE Tail(queue)[i].op = "fsOff"
  <2>1. i + 1 # 1 /\ i + 1 \in DOMAIN queue /\ Tail(queue)[i] = queue[i + 1]
    BY <1>1, <1>2
  <2> QED BY <1>3, <2>1 DEF IsCmd
<1> QED BY <1>2, <1>3, <1>4, <1>5

\* commonFsOff ends and the command behind it moves up.
LEMMA FsOffKeepsOneCommand ==
    ASSUME IInv, queue # <<>>, Head(queue).op = "fsOff", queue' = Tail(queue),
           UNCHANGED <<statics, rxData, given, txStatus, rxStatus, events, cb, mac>>
    PROVE  OneCommand'
<1>1. queue \in Seq(Cmd) /\ Len(queue) \in Nat
  BY DEF IInv, TInv, TypeOK, RfOK
<1>2. /\ DOMAIN queue = 1 .. Len(queue) /\ DOMAIN queue' = 1 .. Len(queue) - 1
      /\ \A i \in DOMAIN queue' : i + 1 \in DOMAIN queue /\ queue'[i] = queue[i + 1]
  BY <1>1, TailFacts
<1>3. \A i \in DOMAIN queue' : IsCmd(i)' => IsCmd(i + 1) /\ queue'[i] = queue[i + 1]
  BY <1>2 DEF IsCmd
<1>4. Single'
  <2>1. ASSUME NEW i \in DOMAIN queue', NEW j \in DOMAIN queue', IsCmd(i)', IsCmd(j)' PROVE i = j
    <3>1. i + 1 = j + 1
      BY <1>2, <1>3, <2>1 DEF IInv, OneCommand, Single
    <3> QED BY <1>1, <1>2, <3>1
  <2> QED BY <1>2, <1>3, <2>1 DEF IInv, OneCommand, Single
<1>5. IdleSilences' /\ Live'
  BY <1>2, <1>3 DEF statics, IInv, OneCommand, IdleSilences, Live, IsCmd
<1>6. NoCmd => NoCmd'
  BY <1>2 DEF NoCmd
<1>7. Order' /\ Active' /\ Listening'
  BY <1>2, <1>3, <1>6 DEF IInv, OneCommand, Order, Active, Listening, Soft, NoEvents
<1> QED BY <1>4, <1>5, <1>6, <1>7 DEF statics, rxData, given, IInv, OneCommand, Ready, Known, Calls,
           EndOfFrameDelivers, NoEvents

\* The one command ends, with the last event of its chain.
LEMMA LastKeepsOneCommand ==
    ASSUME IInv, queue # <<>>, queue' = Tail(queue),
           \/ Head(queue).op = "tx" /\ Raise({"txLastCmdDone"})
           \/ /\ Head(queue).op = "rx" /\ Raise({"rxLastCmdDone"})
              /\ Head(queue).phase = "ended" => UNCHANGED rxStatus,
           UNCHANGED <<statics, rxData, given, cb, mac>>
    PROVE  OneCommand'
<1> DEFINE h == Head(queue).h
<1>1. /\ 1 \in DOMAIN queue /\ Head(queue) = queue[1] /\ IsCmd(1)
      /\ h \in Handle /\ \A g \in Handle : events[g] # {} => g = h
      /\ NoCmd'
  BY HeadIsOnlyCmd DEF NoCmd
<1>2. PICK last \in {"txLastCmdDone", "rxLastCmdDone"} :
         /\ events' = [events EXCEPT ![h] = @ \cup {last}]
         /\ last = "txLastCmdDone" => queue[1].op = "tx"
         /\ last = "rxLastCmdDone" => queue[1].op = "rx"
  BY <1>1 DEF Raise
<1>3. /\ events'[h] = events[h] \cup {last}
      /\ \A g \in Handle : g # h => events'[g] = {}
  BY <1>1, <1>2 DEF IInv, TInv, TypeOK, CallbackOK
<1>4. Single' /\ IdleSilences' /\ Live'
  BY <1>1, <1>3 DEF Single, IdleSilences, Live, NoCmd, IsCmd
<1>5. /\ ~NoCmd
      /\ queue[1].phase = "ended" => queue[1].op = "rx"
  BY <1>1, OpOfCmd DEF NoCmd, IInv, TInv, Handles, IsCmd
<1>6. /\ cb.stage # "none" => cb.mask \cap LastEvent = {}
      /\ cb.stage # "none" /\ cb.mask \cap EndEvent # {} =>
            queue[1].phase = "ended" /\ \A g \in Handle : events[g] \subseteq {"rxLastCmdDone"}
  BY <1>1, <1>5 DEF IInv, OneCommand, Order
<1>7. last \notin EndEvent
  BY DEF EndEvent
<1>8. Order'
  <2>1. cb.stage # "none" /\ cb.mask \cap EndEvent # {} =>
           \A g \in Handle : events'[g] \subseteq {"rxLastCmdDone"}
    BY <1>2, <1>3, <1>5, <1>6
  <2> QED BY <1>1, <1>6, <2>1 DEF Order, NoCmd, IsCmd
<1>9. Active'
  <2>1. mac = "ACTIVE" => \A g \in Handle : events'[g] \subseteq {"rxLastCmdDone"}
    <3>1. mac = "ACTIVE" => queue[1].phase = "ended" /\ \A g \in Handle : events[g] \subseteq {"rxLastCmdDone"}
      BY <1>1 DEF IInv, OneCommand, Active
    <3> QED BY <1>2, <1>3, <1>5, <3>1
  <2> QED BY <1>1, <2>1 DEF Active, NoCmd, IsCmd, IInv, OneCommand
<1>10. Listening'
  <2>1. \A g \in Handle : events'[g] \cap EndEvent # {} => events[g] \cap EndEvent # {}
    BY <1>3, <1>7
  <2>2. \A g \in Handle : Soft(g) => Soft(g)'
    BY <1>1, <1>3 DEF Soft
  <2> QED BY <1>1, <2>1, <2>2 DEF IInv, OneCommand, Listening, NoCmd, IsCmd
<1>11. EndOfFrameDelivers'
  <2>1. queue[1].phase = "ended" => UNCHANGED rxStatus
    BY <1>1, <1>5
  <2>2. cb.stage = "handler" /\ cb.call = "endRx" => queue[1].phase = "ended"
    BY <1>6 DEF IInv, OneCommand, Calls
  <2> QED BY <2>1, <2>2 DEF IInv, OneCommand, EndOfFrameDelivers, statics, rxData
<1>12. Ready' /\ Known' /\ Calls'
  BY <1>5 DEF IInv, OneCommand, Ready, Known, Calls, statics, given
<1> QED BY <1>4, <1>8, <1>9, <1>10, <1>11, <1>12 DEF OneCommand

\* The one command goes on: the synthesizer is set, a sync word or a frame
\* comes, or there is no entry for it.
LEMMA PhaseKeepsOneCommand ==
    ASSUME IInv, queue # <<>>, Head(queue).op # "fsOff",
           NEW phase \in {"on", "sync", "ended"}, Phase(phase),
           Head(queue).phase # "ended",
           \/ phase = "on" /\ UNCHANGED events
           \/ phase = "on" /\ Raise({"txCmdDone"})
           \/ phase = "sync" /\ Raise({"rxMdmSoft"})
           \/ phase = "ended" /\ Head(queue).phase = "sync"
                 /\ \E e \in EndEvent : Raise({e})
           \/ phase = "ended" /\ UNCHANGED events,
           UNCHANGED <<statics, given, cb, mac>>
    PROVE  OneCommand'
<1> DEFINE h == Head(queue).h
<1>1. /\ 1 \in DOMAIN queue /\ Head(queue) = queue[1] /\ IsCmd(1)
      /\ \A i \in DOMAIN queue : IsCmd(i) => i = 1
      /\ h \in Handle /\ \A g \in Handle : events[g] # {} => g = h
  BY HeadIsOnlyCmd
<1>2. /\ DOMAIN queue' = DOMAIN queue
      /\ queue'[1].h = h /\ queue'[1].op = queue[1].op
      /\ queue'[1].flushed = queue[1].flushed /\ queue'[1].phase = phase
      /\ \A i \in DOMAIN queue : i # 1 => queue'[i] = queue[i]
  <2>1. queue \in Seq(Cmd)
    BY DEF IInv, TInv, TypeOK, RfOK
  <2>2. /\ DOMAIN queue' = DOMAIN queue /\ queue[1] \in Cmd
        /\ queue'[1] = [queue[1] EXCEPT !.phase = phase]
        /\ \A i \in DOMAIN queue : i # 1 => queue'[i] = queue[i]
    BY <2>1, PhaseFacts
  <2> QED BY <1>1, <2>2 DEF Cmd
<1>3. \A i \in DOMAIN queue' : IsCmd(i)' <=> i = 1
  BY <1>1, <1>2 DEF IsCmd
<1>4. PICK new \in SUBSET {"txCmdDone", "rxMdmSoft", "rxOk", "rxNOk"} :
         /\ events'[h] = events[h] \cup new
         /\ \A g \in Handle : g # h => events'[g] = {}
         /\ phase = "sync" => "rxMdmSoft" \in new
         /\ new \cap EndEvent # {} => phase = "ended" /\ queue[1].phase = "sync"
  <2>1. events \in [Handle -> (SUBSET TxEvent) \cup (SUBSET RxEvent)]
    BY DEF IInv, TInv, TypeOK, CallbackOK
  <2>2. CASE UNCHANGED events
    <3>1. events'[h] = events[h] \cup {} /\ \A g \in Handle : g # h => events'[g] = {}
      BY <1>1, <2>2
    <3>2. phase # "sync" \/ \E e \in {"rxMdmSoft"} : Raise({e})
      BY <2>2
    <3>3. phase = "sync" => events'[h] = events[h] \cup {"rxMdmSoft"}
      BY <1>1, <2>1, <3>2 DEF Raise
    <3>4. CASE phase = "sync"
      <4> WITNESS {"rxMdmSoft"} \in SUBSET {"txCmdDone", "rxMdmSoft", "rxOk", "rxNOk"}
      <4> QED BY <3>1, <3>3, <3>4 DEF EndEvent
    <3>5. CASE phase # "sync"
      <4> WITNESS {} \in SUBSET {"txCmdDone", "rxMdmSoft", "rxOk", "rxNOk"}
      <4> QED BY <3>1, <3>5
    <3> QED BY <3>4, <3>5
  <2>3. ASSUME NEW e \in {"txCmdDone", "rxMdmSoft", "rxOk", "rxNOk"}, Raise({e}),
               phase = "sync" => e = "rxMdmSoft",
               e \in EndEvent => phase = "ended" /\ Head(queue).phase = "sync"
        PROVE  \E new \in SUBSET {"txCmdDone", "rxMdmSoft", "rxOk", "rxNOk"} :
                  /\ events'[h] = events[h] \cup new
                  /\ \A g \in Handle : g # h => events'[g] = {}
                  /\ phase = "sync" => "rxMdmSoft" \in new
                  /\ new \cap EndEvent # {} => phase = "ended" /\ queue[1].phase = "sync"
    <3>1. /\ events'[h] = events[h] \cup {e}
          /\ \A g \in Handle : g # h => events'[g] = {}
      BY <1>1, <2>1, <2>3 DEF Raise
    <3> WITNESS {e} \in SUBSET {"txCmdDone", "rxMdmSoft", "rxOk", "rxNOk"}
    <3> QED BY <1>1, <2>3, <3>1
  <2> QED BY <2>2, <2>3 DEF EndEvent
<1>5. /\ ~NoCmd /\ queue[1].phase # "ended"
      /\ mac # "ACTIVE"
      /\ cb.stage # "none" => cb.mask \cap LastEvent = {} /\ cb.mask \cap EndEvent = {}
      /\ \A g \in Handle : events[g] \cap LastEvent = {} /\ events[g] \cap EndEvent = {}
  BY <1>1 DEF NoCmd, IsCmd, IInv, OneCommand, Order, Active
<1>6. Single'
  BY <1>2, <1>3, <1>4 DEF Single
<1>7. IdleSilences' /\ Live'
  <2>1. queue[1].flushed => queue'[1].flushed
    BY <1>2
  <2>2. IdleSilences'
    BY <1>1, <1>2, <1>3, <1>5 DEF IInv, OneCommand, IdleSilences, statics, IsCmd
  <2>3. Live'
    BY <1>1, <1>2, <1>3, <1>5 DEF IInv, OneCommand, Live, statics
  <2> QED BY <2>2, <2>3
<1>8. \A g \in Handle : /\ events'[g] \cap LastEvent = {}
                        /\ events'[g] \cap EndEvent # {} => g = h /\ phase = "ended" /\ queue[1].phase = "sync"
  BY <1>4, <1>5 DEF LastEvent
<1>9. Order'
  BY <1>2, <1>3, <1>5, <1>8 DEF Order
<1>10. Listening'
  <2>1. \A g \in Handle : Soft(g) => Soft(g)'
    BY <1>1, <1>4 DEF Soft
  <2>2. mac = "LISTEN" /\ queue[1].phase = "sync" => Soft(h)
    BY <1>1 DEF IInv, OneCommand, Listening
  <2>3. \A g \in Handle : g = h /\ phase = "sync" => Soft(g)'
    BY <1>1, <1>4 DEF Soft
  <2> QED BY <1>1, <1>2, <1>3, <1>5, <1>8, <2>1, <2>2, <2>3 DEF Listening
<1>11. Ready' /\ Known' /\ Calls' /\ Active' /\ EndOfFrameDelivers'
  BY <1>5 DEF IInv, OneCommand, Ready, Known, Calls, Active, EndOfFrameDelivers, statics, given
<1> QED BY <1>6, <1>7, <1>9, <1>10, <1>11 DEF OneCommand

\* The RF core.
LEMMA RfKeepsOneCommand == ASSUME IInv, RfCore PROVE OneCommand'
<1>0. queue # <<>> => Head(queue) = queue[1] /\ 1 \in DOMAIN queue
  <2>1. queue \in Seq(Cmd)
    BY DEF IInv, TInv, TypeOK, RfOK
  <2> QED BY <2>1, TailFacts
<1>1. CASE RfFs
  <2>1. /\ queue # <<>> /\ Head(queue).op \in {"tx", "rx"} /\ Head(queue).phase = "queued"
        /\ UNCHANGED <<statics, rxData, given, txStatus, rxStatus, cb, mac>>
    BY <1>1 DEF RfFs, Executing
  <2>2. CASE Phase("on") /\ (UNCHANGED events \/ Raise({"txCmdDone"}))
    BY <2>1, <2>2, PhaseKeepsOneCommand
  <2>3. CASE /\ queue' = Tail(queue)
             /\ \/ Head(queue).op = "tx" /\ Raise({"txLastCmdDone"})
                \/ Head(queue).op = "rx" /\ Raise({"rxLastCmdDone"})
    BY <2>1, <2>3, LastKeepsOneCommand
  <2>4. CASE Head(queue).op = "tx"
    BY <1>1, <2>2, <2>3, <2>4 DEF RfFs
  <2>5. CASE Head(queue).op = "rx"
    BY <1>1, <2>2, <2>3, <2>5 DEF RfFs
  <2> QED BY <2>1, <2>4, <2>5
<1>2. CASE RfFsOff
  BY <1>2, FsOffKeepsOneCommand DEF RfFsOff, Executing
<1>3. CASE RfTxDone
  BY <1>3, LastKeepsOneCommand DEF RfTxDone, Executing
<1>4. CASE RfSync
  BY <1>4, PhaseKeepsOneCommand DEF RfSync, Executing
<1>5. CASE RfRxEnd
  BY <1>5, LastKeepsOneCommand DEF RfRxEnd, Executing
<1>6. CASE RfAbort
  <2>1. queue # <<>> /\ Head(queue).phase # "ended" /\ queue' = Tail(queue)
        /\ UNCHANGED <<statics, rxData, given, cb, mac>>
    BY <1>6 DEF RfAbort
  <2>2. CASE Head(queue).op = "tx" \/ Head(queue).op = "rx"
    <3>1. \/ Head(queue).op = "tx" /\ Raise({"txLastCmdDone"})
          \/ Head(queue).op = "rx" /\ Raise({"rxLastCmdDone"})
      BY <1>6, <2>2 DEF RfAbort
    <3> QED BY <2>1, <3>1, LastKeepsOneCommand
  <2>3. CASE Head(queue).op = "fsOff"
    <3>1. UNCHANGED <<txStatus, rxStatus, events>>
      BY <1>6, <2>3 DEF RfAbort
    <3> QED BY <2>1, <2>3, <3>1, FsOffKeepsOneCommand
  <2> QED BY <1>0, <2>1, <2>2, <2>3, OpOfCmd DEF IInv, IsCmd
<1>7. ASSUME NEW f \in Frame, RfRxOk(f) \/ RfRxNOk(f) PROVE OneCommand'
  <2>1. /\ queue # <<>> /\ Head(queue).op = "rx" /\ Head(queue).phase = "sync"
        /\ Phase("ended") /\ UNCHANGED <<statics, given, cb, mac>>
    BY <1>7 DEF RfRxOk, RfRxNOk, Executing
  <2>2. \E e \in EndEvent : Raise({e})
    BY <1>7 DEF RfRxOk, RfRxNOk, EndEvent
  <2> QED BY <2>1, <2>2, PhaseKeepsOneCommand
<1> QED BY <1>1, <1>2, <1>3, <1>4, <1>5, <1>6, <1>7 DEF RfCore

\* A callback begins: it takes the events over.
LEMMA EnterKeepsOneCommand ==
    ASSUME IInv, NEW h \in Handle, CallbackEnter(h) PROVE OneCommand'
<1>1. /\ cb.stage = "none" /\ cb.mask = {} /\ events[h] # {}
      /\ \A g \in Handle : events'[g] = {}
      /\ \A g \in Handle : events[g] # {} => g = h
      /\ UNCHANGED <<statics, rxData, given, queue, txStatus, rxStatus, mac>>
  BY DEF CallbackEnter, NoCallback, IInv, TInv, TypeOK, CallbackOK, OneCommand, Single
<1>2. \/ idle /\ cb' = NoCallback /\ cb'.stage = "none" /\ cb'.mask = {}
      \/ ~idle /\ cb'.stage = "body" /\ cb'.mask = events[h]
  BY DEF CallbackEnter, NoCallback
<1>3. Single' /\ Known' /\ IdleSilences' /\ Live' /\ EndOfFrameDelivers'
  BY <1>1, <1>2 DEF statics, given, IInv, OneCommand, Single, Known, IdleSilences, Live, IsCmd,
                    EndOfFrameDelivers
<1>4. Ready' /\ Calls'
  BY <1>1, <1>2 DEF IInv, OneCommand, Ready, Calls, NoEvents
<1>5. Order'
  BY <1>1, <1>2 DEF IInv, OneCommand, Order, NoCmd, NoEvents, IsCmd
<1>6. Active'
  BY <1>1, <1>2 DEF IInv, OneCommand, Active, IsCmd
<1>7. Listening'
  <2>1. \A g \in Handle : Soft(g) => g = h /\ "rxMdmSoft" \in events[h]
    BY <1>1 DEF Soft
  <2>2. mac = "LISTEN" => ~idle /\ cb'.stage = "body" /\ cb'.mask = events[h]
    BY <1>2 DEF IInv, OneCommand, Known
  <2>3. \A i \in DOMAIN queue : IsCmd(i) => queue[i].h \in Handle
    BY DEF IInv, TInv, Handles, IsCmd
  <2> QED BY <1>1, <2>1, <2>2, <2>3 DEF IInv, OneCommand, Listening, Soft, IsCmd
<1> QED BY <1>3, <1>4, <1>5, <1>6, <1>7 DEF OneCommand

\* Once the body has ended the handler is called, for the same events.
LEMMA CaptureFacts ==
    ASSUME IInv, NEW call, Capture(call), cb.stage = "body"
    PROVE  /\ mac # "UNINITIALIZED" /\ mac # "ABORTED" /\ mac # "TEST"
           /\ mac # "TX_READY" /\ mac # "RX_READY" /\ mac # "REFUSED"
           /\ \/ /\ cb' = NoCallback /\ cb'.stage = "none" /\ cb'.mask = {}
                 /\ call = None \/ mac \notin {"LISTEN", "TX", "RX", "ACTIVE"}
              \/ /\ call # None
                 /\ cb'.stage = "handler" /\ cb'.mask = cb.mask /\ cb'.call = call
<1>1. cb # NoCallback
  BY DEF NoCallback
<1> QED BY <1>1 DEF Capture, NoCallback, IInv, OneCommand, Ready, Known

\* The start of a frame.
LEMMA StartedKeepsOneCommand ==
    ASSUME IInv, RxStarted \/ TxStarted PROVE OneCommand'
<1>1. /\ cb.stage = "body" /\ UNCHANGED <<statics, rxData, given, rf, mac>>
      /\ \/ "rxMdmSoft" \in cb.mask /\ Capture("startRx")
         \/ /\ "txCmdDone" \in cb.mask /\ "txLastCmdDone" \notin cb.mask
            /\ "rxMdmSoft" \notin cb.mask /\ cb.mask \cap EndEvent = {}
            /\ Capture("startTx")
  <2>1. cb.mask \in (SUBSET TxEvent) \cup (SUBSET RxEvent)
    BY DEF IInv, TInv, TypeOK, CallbackOK
  <2> QED BY <2>1 DEF RxStarted, TxStarted, InBody, TxEvent, RxEvent, EndEvent
<1>2. PICK call \in {"startRx", "startTx"} :
         Capture(call) /\ (call = "startRx" <=> "rxMdmSoft" \in cb.mask)
  BY <1>1
<1>3. /\ mac # "UNINITIALIZED" /\ mac # "ABORTED" /\ mac # "TEST"
      /\ mac # "TX_READY" /\ mac # "RX_READY" /\ mac # "REFUSED"
      /\ \/ /\ cb' = NoCallback /\ cb'.stage = "none" /\ cb'.mask = {}
            /\ mac \notin {"LISTEN", "TX", "RX", "ACTIVE"}
         \/ cb'.stage = "handler" /\ cb'.mask = cb.mask /\ cb'.call = call
  BY <1>1, <1>2, CaptureFacts DEF None
<1>4. mac # "ACTIVE"
  BY <1>1 DEF IInv, OneCommand, Active
<1>5. Single' /\ Ready' /\ Known' /\ IdleSilences' /\ Live' /\ Active' /\ EndOfFrameDelivers'
  BY <1>1, <1>3, <1>4 DEF statics, rxData, given, rf, IInv, OneCommand, Single, Ready, Known,
     IdleSilences, Live, Active, EndOfFrameDelivers, IsCmd
<1>6. Order'
  BY <1>1, <1>3 DEF rf, IInv, OneCommand, Order, NoCmd, NoEvents, IsCmd
<1>7. Calls'
  BY <1>2, <1>3 DEF Calls
<1>8. Listening'
  <2>1. mac = "LISTEN" => \A g \in Handle : Soft(g) => Soft(g)'
    BY <1>1, <1>3 DEF rf, Soft
  <2>2. \A i \in DOMAIN queue : IsCmd(i) => queue[i].h \in Handle
    BY DEF IInv, TInv, Handles, IsCmd
  <2> QED BY <1>1, <1>3, <2>1, <2>2 DEF rf, IInv, OneCommand, Listening, IsCmd
<1> QED BY <1>5, <1>6, <1>7, <1>8 DEF OneCommand

\* What was received fits in the entry (maxPktLen), so the check of its length holds.
LEMMA EntryFits == ASSUME IInv PROVE radioRxBuffer.len =< RxBufferLength
<1>1. radioRxBuffer \in Frame \cup {NoFrame}
  BY DEF IInv, TInv, TypeOK, RxDataOK
<1>2. radioRxBuffer.len \in Nat /\ radioRxBuffer.len =< MaxPsduLength
  BY <1>1, FrameAssumption, PsduAssumption DEF NoFrame
<1> QED BY <1>2, PsduAssumption, RxBufferAssumption

\* The end of a frame: the packet is the frame that was received last.
LEMMA RxFinishedKeepsOneCommand == ASSUME IInv, RxFinished PROVE OneCommand'
<1>1. /\ cb.stage = "body" /\ cb.mask \cap EndEvent # {} /\ "rxMdmSoft" \notin cb.mask
      /\ UNCHANGED <<idle, txTransaction, radioRxBuffer, given, rf, mac>>
  BY DEF RxFinished, InBody, EndEvent
<1>2. PICK call \in {None, "endRx"} :
         /\ Capture(call)
         /\ call = "endRx" =>
               /\ IF rxStatus = "DONE_OK"
                  THEN rxPacketLength' = radioRxBuffer.len /\ rxPacket' = radioRxBuffer
                  ELSE rxPacketLength' = 0
               /\ rxItem' = "PENDING"
  <2>1. CASE Capture(None)
    BY <2>1 DEF None
  <2>2. CASE Capture("endRx") /\ rxStatus \in {"DONE_OK", "RXERR"}
    BY <2>2, EntryFits DEF RxFinished
  <2> QED BY <2>1, <2>2 DEF RxFinished
<1>3. /\ mac # "UNINITIALIZED" /\ mac # "ABORTED" /\ mac # "TEST"
      /\ mac # "TX_READY" /\ mac # "RX_READY" /\ mac # "REFUSED"
      /\ \/ cb' = NoCallback /\ cb'.stage = "none" /\ cb'.mask = {}
         \/ cb'.stage = "handler" /\ cb'.mask = cb.mask /\ cb'.call = "endRx" /\ call = "endRx"
  BY <1>1, <1>2, CaptureFacts DEF None
<1>4. /\ mac # "ACTIVE" /\ mac # "LISTEN"
      /\ \A i \in DOMAIN queue : IsCmd(i) => queue[i].phase = "ended"
  BY <1>1 DEF IInv, OneCommand, Active, Listening, Order, EndEvent
<1>5. Single' /\ Ready' /\ Known' /\ IdleSilences' /\ Live' /\ Active' /\ Listening'
  BY <1>1, <1>3, <1>4 DEF given, rf, IInv, OneCommand, Single, Ready, Known,
     IdleSilences, Live, Active, Listening, IsCmd
<1>6. Order'
  BY <1>1, <1>3 DEF rf, IInv, OneCommand, Order, NoCmd, NoEvents, IsCmd
<1>7. Calls' /\ EndOfFrameDelivers'
  BY <1>1, <1>2, <1>3 DEF rf, Calls, EndOfFrameDelivers
<1> QED BY <1>5, <1>6, <1>7 DEF OneCommand

\* The last event of a chain: nothing is under way any more.
LEMMA LastEventKeepsOneCommand == ASSUME IInv, RxError \/ TxFinished PROVE OneCommand'
<1>1. /\ cb.stage = "body" /\ cb.mask \cap LastEvent # {}
      /\ UNCHANGED <<idle, radioRxBuffer, given, rf, mac>>
      /\ \/ Capture(None)
         \/ Capture("endTx") /\ "txLastCmdDone" \in cb.mask
  BY DEF RxError, TxFinished, InBody, LastEvent, rxData
<1>2. NoCmd' /\ NoEvents'
  BY <1>1 DEF rf, IInv, OneCommand, Order, NoCmd, NoEvents
<1>3. Known'
  BY <1>1 DEF given, IInv, OneCommand, Known
<1>4. CASE cb' = NoCallback
  BY <1>2, <1>3, <1>4, QuietIsOneCommand
<1>5. CASE cb' # NoCallback
  <2>1. /\ mac # "UNINITIALIZED" /\ mac # "ABORTED" /\ mac # "TEST"
        /\ mac # "TX_READY" /\ mac # "RX_READY" /\ mac # "REFUSED"
        /\ cb'.stage = "handler" /\ cb'.mask = cb.mask /\ cb'.call = "endTx"
        /\ "txLastCmdDone" \in cb.mask
    BY <1>1, <1>5, CaptureFacts DEF None
  <2>2. "rxMdmSoft" \notin cb.mask /\ cb.mask \cap EndEvent = {} /\ mac # "ACTIVE"
    <3>1. cb.mask \in (SUBSET TxEvent) \cup (SUBSET RxEvent)
      BY DEF IInv, TInv, TypeOK, CallbackOK
    <3> QED BY <2>1, <3>1 DEF TxEvent, RxEvent, EndEvent, IInv, OneCommand, Active
  <2>3. mac' = mac /\ \A i \in DOMAIN queue' : ~IsCmd(i)'
    BY <1>1, <1>2 DEF NoCmd, IsCmd
  <2> QED BY <1>2, <1>3, <2>1, <2>2, <2>3 DEF OneCommand, Single, Ready, IdleSilences, Live, Order,
          Calls, Active, Listening, EndOfFrameDelivers, NoEvents, IsCmd
<1> QED BY <1>4, <1>5

\* The MAC learns of the start or of the end of a frame.
LEMMA HandlerKeepsOneCommand == ASSUME IInv, CaptureHandler PROVE OneCommand'
<1>1. /\ cb.stage = "handler" /\ cb # NoCallback
      /\ cb' = NoCallback /\ cb'.stage = "none" /\ cb'.mask = {}
      /\ UNCHANGED <<statics, rxData, given, rf>>
  BY DEF CaptureHandler, NoCallback
<1>2. /\ mac # "UNINITIALIZED" /\ mac # "ABORTED" /\ mac # "TEST"
      /\ mac # "TX_READY" /\ mac # "RX_READY" /\ mac # "REFUSED" /\ mac # "ACTIVE"
  BY <1>1 DEF IInv, OneCommand, Ready, Active
<1>3. Single' /\ IdleSilences' /\ Calls' /\ EndOfFrameDelivers'
  BY <1>1 DEF statics, rxData, rf, IInv, OneCommand, Single, IdleSilences, Calls,
     EndOfFrameDelivers, IsCmd
<1>4. Order'
  BY <1>1 DEF rf, IInv, OneCommand, Order, NoCmd, IsCmd
<1>5. CASE cb.call = "startRx" /\ mac = "LISTEN"
  <2>1. mac' = "RX"
    BY <1>5 DEF CaptureHandler
  <2> QED BY <1>1, <1>2, <1>3, <1>4, <1>5, <2>1
          DEF statics, given, rf, IInv, OneCommand, Ready, Known, Live, Active, Listening, IsCmd
<1>6. CASE cb.call = "endRx" /\ mac \in {"LISTEN", "RX"}
  <2>1. mac' = "ACTIVE" /\ cb.mask \cap EndEvent # {} /\ "rxMdmSoft" \notin cb.mask
    BY <1>1, <1>6 DEF CaptureHandler, IInv, OneCommand, Calls
  <2>2. /\ \A i \in DOMAIN queue : IsCmd(i) => queue[i].phase = "ended"
        /\ \A h \in Handle : events[h] \subseteq {"rxLastCmdDone"}
    BY <1>1, <2>1 DEF IInv, OneCommand, Order
  <2> QED BY <1>1, <1>3, <1>4, <1>6, <2>1, <2>2
          DEF statics, given, rf, IInv, OneCommand, Ready, Known, Live, Active, Listening, IsCmd
<1>7. CASE cb.call = "endTx" /\ mac = "TX"
  <2>1. mac' = "ACTIVE" /\ cb.mask \cap LastEvent # {}
    BY <1>1, <1>7 DEF CaptureHandler, IInv, OneCommand, Calls, LastEvent
  <2>2. NoCmd' /\ NoEvents'
    BY <1>1, <2>1 DEF rf, IInv, OneCommand, Order, NoCmd, NoEvents
  <2>3. Known'
    BY <1>1, <1>7, <2>1 DEF statics, given, IInv, OneCommand, Known
  <2> QED BY <1>1, <2>2, <2>3, QuietIsOneCommand
<1>8. CASE mac' = mac
  <2>1. Ready' /\ Known' /\ Live' /\ Active'
    BY <1>1, <1>2, <1>8 DEF statics, given, rf, IInv, OneCommand, Ready, Known, Live, Active, IsCmd
  <2>2. CASE mac = "LISTEN" /\ cb.call # "startRx"
    <3>1. "rxMdmSoft" \notin cb.mask
      BY <1>1, <2>2 DEF IInv, OneCommand, Calls
    <3>2. \A g \in Handle : Soft(g) => Soft(g)'
      BY <1>1, <3>1 DEF rf, Soft
    <3>3. \A i \in DOMAIN queue : IsCmd(i) => queue[i].h \in Handle
      BY DEF IInv, TInv, Handles, IsCmd
    <3>4. Listening'
      BY <1>1, <1>8, <3>2, <3>3 DEF rf, IInv, OneCommand, Listening, IsCmd
    <3> QED BY <1>3, <1>4, <2>1, <3>4 DEF OneCommand
  <2>3. CASE mac # "LISTEN"
    BY <1>3, <1>4, <1>8, <2>1, <2>3 DEF OneCommand, Listening
  <2> QED BY <1>5, <2>2, <2>3
<1> QED BY <1>5, <1>6, <1>7, <1>8 DEF CaptureHandler

\* MacWaits: at any time at most one command or its events are under way, and
\* the port, the RF driver and the MAC agree on how far it is.
THEOREM Inductive == ASSUME MacWaits PROVE Spec => []IInv
<1>1. Init => IInv
  <2> SUFFICES ASSUME Init PROVE IInv
    OBVIOUS
  <2>1. TInv
    BY InitTInv
  <2>2. DOMAIN queue = {} /\ cb.stage = "none" /\ cb.mask = {} /\ \A h \in Handle : events[h] = {}
    BY DEF Init, NoCallback
  <2> QED BY <2>1, <2>2 DEF Init, IInv, OneCommand, Single, Ready, Known, IdleSilences, Live, Order,
          Calls, Active, Listening, EndOfFrameDelivers, NoCmd, NoEvents, IsCmd
<1>2. IInv /\ [Next]_vars => OneCommand'
  <2> SUFFICES ASSUME IInv, [Next]_vars PROVE OneCommand'
    OBVIOUS
  <2>1. CASE MacCall
    BY <2>1, CallKeepsOneCommand, IdleKeepsOneCommand, PostKeepsOneCommand DEF MacCall
  <2>2. CASE RfCore
    BY <2>2, RfKeepsOneCommand
  <2>3. CASE Callback
    BY <2>3, EnterKeepsOneCommand, StartedKeepsOneCommand, RxFinishedKeepsOneCommand,
       LastEventKeepsOneCommand, HandlerKeepsOneCommand DEF Callback
  <2>4. CASE Aborted \/ UNCHANGED vars
    BY <2>4 DEF Aborted, vars, statics, rxData, given, rf, IInv, OneCommand, Single, Ready, Known,
       IdleSilences, Live, Order, Calls, Active, Listening, Soft, EndOfFrameDelivers,
       NoCmd, NoEvents, IsCmd
  <2> QED BY <2>1, <2>2, <2>3, <2>4 DEF Next
<1>3. OneCommand /\ TInv <=> IInv
  BY DEF IInv
<1> QED BY <1>1, <1>2, <1>3, TypeInductive, PTL DEF Spec

\* embenet_radio.h:181: after Idle the RF driver has nothing but what is over
\* or being aborted, and commonFsOff.
THEOREM IdleIsSilent == ASSUME MacWaits PROVE Spec => []IdleSilences
<1>1. IInv => IdleSilences
  BY DEF IInv, OneCommand
<1> QED BY <1>1, Inductive, PTL

\* embenet_radio.c:315-330: the end of a frame is told with the frame that was
\* received last, or with none.
THEOREM PacketIsFrame == ASSUME MacWaits PROVE Spec => []EndOfFrameDelivers
<1>1. IInv => EndOfFrameDelivers
  BY DEF IInv, OneCommand
<1> QED BY <1>1, Inductive, PTL

\* embenet_radio.c:98-107, 235: TxEnable writes the frame buffer only while no
\* transmission is in the queue.
THEOREM BufferIsStable == ASSUME MacWaits PROVE Spec => TxBufferStable
<1> DEFINE Stable == (\E i \in DOMAIN queue : queue[i].op = "tx" /\ ~queue[i].flushed)
                        => radioTxBuffer' = radioTxBuffer
<1>1. IInv /\ [Next]_vars => [Stable]_vars
  <2> SUFFICES ASSUME IInv, Next PROVE Stable
    BY DEF vars
  <2>1. ASSUME NEW channel, NEW txp, NEW psdu, TxEnable(channel, txp, psdu) PROVE Stable
    <3>1. NoCmd
      BY <2>1, SettledIsQuiet DEF TxEnable
    <3> QED BY <3>1 DEF NoCmd
  <2>2. CASE MacCall
    <3>1. \/ radioTxBuffer' = radioTxBuffer
          \/ \E channel \in Channel, txp \in Power :
                \/ \E psdu \in Psdu : EMBENET_RADIO_TxEnable(channel, txp, psdu)
                \/ EMBENET_RADIO_StartContinuousTx(channel, txp)
      BY <2>2 DEF MacCall, EMBENET_RADIO_Init, EMBENET_RADIO_Deinit, EMBENET_RADIO_Idle,
         EMBENET_RADIO_SetCallbacks, EMBENET_RADIO_RxEnable, EMBENET_RADIO_TxNow,
         EMBENET_RADIO_RxNow, EMBENET_RADIO_GetReceivedFrame, given
    <3> QED BY <2>1, <3>1 DEF EMBENET_RADIO_TxEnable, EMBENET_RADIO_StartContinuousTx
  <2>3. CASE RfCore
    BY <2>3, RfCoreIsRfStep DEF RfStep, given
  <2>4. CASE Callback
    BY <2>4 DEF Callback, CallbackEnter, RxStarted, RxFinished, RxError, TxFinished, TxStarted,
       CaptureHandler, given
  <2>5. CASE Aborted
    BY <2>5 DEF Aborted, vars, given
  <2> QED BY <2>2, <2>3, <2>4, <2>5 DEF Next
<1>2. TxBufferStable <=> [][Stable]_vars
  BY DEF TxBufferStable
<1> HIDE DEF Stable
<1> QED BY <1>1, <1>2, Inductive, PTL DEF Spec

----------------------------------------------------------------------------
(* The calls of the capture handlers.                                      *)

\* What is under way is what the MAC transmits or listens for.
OfKind(op, set) ==
    /\ \A i \in DOMAIN queue : IsCmd(i) => queue[i].op = op
    /\ \A h \in Handle : events[h] \subseteq set
    /\ cb.mask \subseteq set

\* The sync word of the one reception has been found.
Synced == \A i \in DOMAIN queue : IsCmd(i) => queue[i].phase \in {"sync", "ended"}

SoftInMask == cb.stage # "none" /\ "rxMdmSoft" \in cb.mask
SoftInEvents == \E h \in Handle : "rxMdmSoft" \in events[h]

\* The start of a frame is told once, to a MAC that listens.
Heard ==
    /\ mac = "TX" => OfKind("tx", TxEvent)
    /\ mac \in {"LISTEN", "RX"} => OfKind("rx", RxEvent)
    /\ mac = "LISTEN" => /\ SoftInMask \/ SoftInEvents => Synced
                         /\ ~(SoftInMask /\ SoftInEvents)
    /\ mac = "RX" => Synced /\ ~SoftInMask /\ ~SoftInEvents
    /\ cb.stage = "handler" /\ cb.call = "startTx" => cb.mask \cap TxEvent # {}

\* The MAC posts a command, or has nothing under way.
LEMMA CallKeepsHeard == ASSUME IInv, Heard, MacCall PROVE Heard'
<1>1. ASSUME mac' \notin {"TX", "LISTEN", "RX"}, cb' = cb PROVE Heard'
  BY <1>1 DEF Heard
<1>2. ASSUME NEW set \in BOOLEAN, EMBENET_RADIO_SetCallbacks(set) PROVE Heard'
  BY <1>2 DEF EMBENET_RADIO_SetCallbacks, rf, Heard, OfKind, Synced, SoftInMask, SoftInEvents, IsCmd
<1>3. ASSUME NEW h \in FreeHandle, NEW op \in {"tx", "rx"},
             queue' = Append(queue, Command(h, op)), UNCHANGED <<events, cb>>,
             mac \in {"TX_READY", "RX_READY", "REFUSED"},
             mac' = IF op = "tx" THEN "TX" ELSE "LISTEN"
      PROVE  Heard'
  <2>1. NoCmd /\ NoEvents /\ cb = NoCallback /\ queue \in Seq(Cmd)
    BY <1>3 DEF IInv, OneCommand, Ready, TInv, TypeOK, RfOK
  <2>2. Command(h, op) \in Cmd
    BY DEF FreeHandle, Command, Cmd
  <2>3. \A i \in DOMAIN queue' : IsCmd(i)' => queue'[i].op = op
    <3>1. \A i \in DOMAIN queue' :
             \/ i \in DOMAIN queue /\ queue'[i] = queue[i]
             \/ queue'[i] = Command(h, op)
      BY <1>3, <2>1, <2>2, AppendFacts
    <3> QED BY <2>1, <3>1 DEF NoCmd, IsCmd, Command
  <2>4. cb'.stage = "none" /\ cb'.mask = {} /\ \A g \in Handle : events'[g] = {}
    BY <1>3, <2>1 DEF NoEvents, NoCallback
  <2> QED BY <1>3, <2>3, <2>4 DEF Heard, OfKind, SoftInMask, SoftInEvents
<1>4. CASE EMBENET_RADIO_TxNow
  BY <1>1, <1>3, <1>4 DEF EMBENET_RADIO_TxNow
<1>5. CASE EMBENET_RADIO_RxNow
  BY <1>1, <1>3, <1>5 DEF EMBENET_RADIO_RxNow
<1>6. ASSUME NEW n \in Capacity, EMBENET_RADIO_GetReceivedFrame(n) PROVE Heard'
  BY <1>1, <1>6 DEF EMBENET_RADIO_GetReceivedFrame
<1> QED BY <1>1, <1>2, <1>4, <1>5, <1>6 DEF MacCall, EMBENET_RADIO_Init, EMBENET_RADIO_Deinit,
        EMBENET_RADIO_Idle, EMBENET_RADIO_TxEnable, EMBENET_RADIO_StartContinuousTx,
        EMBENET_RADIO_RxEnable

\* The RF core raises the start of a frame when it finds the sync word, and else
\* only what the command's kind has.
LEMMA RfSoftFacts ==
    ASSUME RfCore
    PROVE  \/ RfSync /\ Phase("sync") /\ Raise({"rxMdmSoft"})
           \/ /\ queue' = Tail(queue) \/ Phase("ended") \/ (Phase("on") /\ Executing("tx", "queued"))
                 \/ (Phase("on") /\ UNCHANGED events /\ Executing("rx", "queued"))
              /\ UNCHANGED events \/ \E e \in {"txCmdDone", "txLastCmdDone", "rxOk", "rxNOk",
                                               "rxLastCmdDone"} : Raise({e})
<1>1. CASE RfFs
  <2>1. CASE Executing("tx", "queued")
    BY <1>1, <2>1 DEF RfFs, Executing
  <2>2. CASE Executing("rx", "queued")
    BY <1>1, <2>2 DEF RfFs, Executing
  <2> QED BY <1>1, <2>1, <2>2 DEF RfFs
<1>2. CASE RfFsOff \/ RfTxDone \/ RfRxEnd
  BY <1>2 DEF RfFsOff, RfTxDone, RfRxEnd
<1>3. CASE RfSync
  BY <1>3 DEF RfSync
<1>4. CASE RfAbort
  BY <1>4 DEF RfAbort
<1>5. CASE \E f \in Frame : RfRxOk(f) \/ RfRxNOk(f)
  BY <1>5 DEF RfRxOk, RfRxNOk
<1> QED BY <1>1, <1>2, <1>3, <1>4, <1>5 DEF RfCore

\* A sync word is found once in a reception, while the MAC listens.
LEMMA RfKeepsHeard == ASSUME IInv, Heard, RfCore PROVE Heard'
<1>1. RfStep /\ queue # <<>> /\ UNCHANGED <<cb, mac>>
  BY RfCoreIsRfStep DEF RfStep
<1>2. queue \in Seq(Cmd) /\ TInv
  BY DEF IInv, TInv, TypeOK, RfOK
<1>3. CASE mac \notin {"TX", "LISTEN", "RX"}
  BY <1>1, <1>3 DEF Heard
<1>4. CASE mac \in {"TX", "LISTEN", "RX"} /\ Head(queue).op = "fsOff"
  <2>1. queue' = Tail(queue) /\ UNCHANGED events
    BY <1>1, <1>4 DEF RfStep
  <2>2. \A i \in DOMAIN queue' : IsCmd(i)' => IsCmd(i + 1) /\ queue'[i] = queue[i + 1] /\ i + 1 \in DOMAIN queue
    BY <1>1, <1>2, <2>1, TailFacts DEF IsCmd
  <2> QED BY <1>1, <2>1, <2>2 DEF Heard, OfKind, Synced, SoftInMask, SoftInEvents
<1>5. CASE mac \in {"TX", "LISTEN", "RX"} /\ Head(queue).op # "fsOff"
  <2>1. /\ 1 \in DOMAIN queue /\ Head(queue) = queue[1] /\ IsCmd(1)
        /\ \A i \in DOMAIN queue : IsCmd(i) => i = 1
        /\ Head(queue).h \in Handle
        /\ \A i \in DOMAIN Tail(queue) : Tail(queue)[i].op = "fsOff"
    BY <1>1, <1>5, HeadIsOnlyCmd
  <2>2. /\ queue[1].op = IF mac = "TX" THEN "tx" ELSE "rx"
        /\ \A h \in Handle : events[h] \subseteq IF mac = "TX" THEN TxEvent ELSE RxEvent
    BY <1>5, <2>1 DEF Heard, OfKind
  <2>3. /\ \/ UNCHANGED events
           \/ \E e \in SUBSET (IF mac = "TX" THEN TxEvent ELSE RxEvent) : Raise(e)
        /\ \A h \in Handle : events'[h] \subseteq IF mac = "TX" THEN TxEvent ELSE RxEvent
    <3>1. \/ UNCHANGED events
          \/ \E e \in SUBSET (IF mac = "TX" THEN TxEvent ELSE RxEvent) : Raise(e)
      BY <1>1, <2>1, <2>2 DEF RfStep
    <3>2. ASSUME NEW e \in SUBSET (IF mac = "TX" THEN TxEvent ELSE RxEvent), Raise(e)
          PROVE  \A h \in Handle : events'[h] \subseteq IF mac = "TX" THEN TxEvent ELSE RxEvent
      <4>1. /\ events'[Head(queue).h] = events[Head(queue).h] \cup e
            /\ \A h \in Handle : h # Head(queue).h => events'[h] = events[h]
        BY <1>1, <1>2, <2>1, <2>2, <3>2, RaiseFacts
      <4> QED BY <2>1, <2>2, <4>1
    <3> QED BY <2>2, <3>1, <3>2
  <2>4. \A i \in DOMAIN queue' : IsCmd(i)' =>
           i = 1 /\ queue'[1].op = queue[1].op /\ \E phase \in {"on", "sync", "ended"} : Phase(phase)
    <3>1. CASE queue' = Tail(queue)
      BY <2>1, <3>1 DEF IsCmd
    <3>2. ASSUME NEW phase \in {"on", "sync", "ended"}, Phase(phase)
          PROVE  \A i \in DOMAIN queue' : IsCmd(i)' => i = 1 /\ queue'[1].op = queue[1].op
      <4>1. /\ DOMAIN queue' = DOMAIN queue /\ queue[1] \in Cmd
            /\ queue'[1] = [queue[1] EXCEPT !.phase = phase]
            /\ \A i \in DOMAIN queue : i # 1 => queue'[i] = queue[i]
        BY <1>1, <1>2, <3>2, PhaseFacts
      <4> QED BY <2>1, <4>1 DEF IsCmd, Cmd
    <3> QED BY <1>1, <3>1, <3>2 DEF RfStep
  <2>5. /\ mac = "TX" => OfKind("tx", TxEvent)'
        /\ mac \in {"LISTEN", "RX"} => OfKind("rx", RxEvent)'
    BY <1>1, <1>5, <2>2, <2>3, <2>4 DEF Heard, OfKind
  <2>6. \A phase \in {"on", "sync", "ended"} : Phase(phase) => queue'[1].phase = phase
    BY <1>1, <1>2, PhaseFacts DEF Cmd
  <2>7. CASE mac = "TX"
    BY <1>1, <2>5, <2>7 DEF Heard
  <2>8. CASE mac \in {"LISTEN", "RX"} /\ RfSync /\ Phase("sync") /\ Raise({"rxMdmSoft"})
    <3>1. queue[1].phase = "on"
      BY <2>1, <2>8 DEF RfSync, Executing
    <3>2. mac = "LISTEN" /\ ~SoftInMask /\ ~SoftInEvents
      BY <2>1, <2>8, <3>1 DEF Heard, Synced
    <3>3. Synced'
      BY <2>4, <2>6, <2>8 DEF Synced
    <3> QED BY <1>1, <2>5, <3>2, <3>3 DEF Heard, SoftInMask
  <2>9. CASE /\ mac \in {"LISTEN", "RX"}
             /\ queue' = Tail(queue) \/ Phase("ended") \/ (Phase("on") /\ Executing("tx", "queued"))
                \/ (Phase("on") /\ UNCHANGED events /\ Executing("rx", "queued"))
             /\ UNCHANGED events \/ \E e \in {"txCmdDone", "txLastCmdDone", "rxOk", "rxNOk",
                                              "rxLastCmdDone"} : Raise({e})
    <3>1. SoftInEvents' => SoftInEvents
      BY <1>2, <2>9 DEF SoftInEvents, Raise, TInv, TypeOK, CallbackOK
    <3>2. SoftInMask' = SoftInMask
      BY <1>1 DEF SoftInMask
    <3>3. Synced => Synced'
      <4>1. CASE queue' = Tail(queue)
        BY <2>1, <4>1 DEF Synced, IsCmd
      <4>2. CASE Phase("ended")
        BY <2>4, <2>6, <4>2 DEF Synced
      <4>3. CASE Executing("tx", "queued") \/ Executing("rx", "queued")
        BY <2>1, <4>3 DEF Synced, Executing
      <4> QED BY <2>9, <4>1, <4>2, <4>3
    <3> QED BY <1>1, <2>5, <2>9, <3>1, <3>2, <3>3 DEF Heard
  <2> QED BY <1>5, <2>7, <2>8, <2>9, RfSoftFacts
<1> QED BY <1>3, <1>4, <1>5

\* The start of a frame goes from the events into the mask, and from there to the MAC.
LEMMA CallbackKeepsHeard == ASSUME IInv, Heard, Callback PROVE Heard'
<1>1. queue' = queue /\ (Synced' <=> Synced) /\ \A i : IsCmd(i)' <=> IsCmd(i)
  BY DEF Callback, CallbackEnter, RxStarted, RxFinished, RxError, TxFinished, TxStarted, CaptureHandler,
     rf, Synced, IsCmd
<1>2. ASSUME NEW h \in Handle, CallbackEnter(h) PROVE Heard'
  <2>1. /\ cb.stage = "none" /\ mac' = mac
        /\ \A g \in Handle : events'[g] = {}
        /\ cb'.stage # "handler" /\ cb'.mask \in {{}, events[h]}
    BY <1>2 DEF CallbackEnter, NoCallback, IInv, TInv, TypeOK, CallbackOK, OneCommand, Single
  <2>2. ~SoftInEvents' /\ (SoftInMask' => SoftInEvents)
    BY <2>1 DEF SoftInEvents, SoftInMask
  <2> QED BY <1>1, <2>1, <2>2 DEF Heard, OfKind
<1>3. ASSUME NEW call, Capture(call), cb.stage = "body", UNCHANGED <<events, mac>>,
             call = "startTx" => cb.mask \cap TxEvent # {}
      PROVE  Heard'
  <2>1. \/ cb'.stage = "none" /\ cb'.mask = {}
        \/ cb'.stage = "handler" /\ cb'.mask = cb.mask /\ cb'.call = call
    BY <1>3 DEF Capture, NoCallback
  <2>2. (SoftInMask' => SoftInMask) /\ (SoftInEvents' <=> SoftInEvents)
    BY <1>3, <2>1 DEF SoftInMask, SoftInEvents
  <2> QED BY <1>1, <1>3, <2>1, <2>2 DEF Heard, OfKind
<1>4. CASE RxStarted
  BY <1>3, <1>4 DEF RxStarted, InBody, rf
<1>5. CASE TxStarted
  BY <1>3, <1>5 DEF TxStarted, InBody, rf, TxEvent
<1>6. CASE RxError
  BY <1>3, <1>6 DEF RxError, InBody, rf, None
<1>7. CASE TxFinished
  BY <1>3, <1>7 DEF TxFinished, InBody, rf, None
<1>8. CASE RxFinished
  BY <1>3, <1>8 DEF RxFinished, InBody, rf, None
<1>9. CASE CaptureHandler
  <2>1. /\ cb.stage = "handler" /\ cb'.stage = "none" /\ cb'.mask = {} /\ events' = events
        /\ mac' \in {mac, "ACTIVE"} \/ (mac = "LISTEN" /\ mac' = "RX" /\ cb.call = "startRx")
    BY <1>9 DEF CaptureHandler, NoCallback, rf
  <2>2. ~SoftInMask' /\ (SoftInEvents' <=> SoftInEvents)
    BY <2>1 DEF SoftInMask, SoftInEvents
  <2>3. cb.call = "startRx" => SoftInMask
    BY <2>1 DEF SoftInMask, IInv, OneCommand, Calls
  <2> QED BY <1>1, <2>1, <2>2, <2>3 DEF Heard, OfKind
<1> QED BY <1>2, <1>4, <1>5, <1>6, <1>7, <1>8, <1>9 DEF Callback

\* embenet_radio.h:29-33,49-54: to a MAC that waits, a capture handler is called only in
\* the state in which the header has its event, or after an Idle that came between.
THEOREM HandlersExpected == ASSUME MacWaits PROVE Spec => []CallsExpected
<1>1. Init => Heard
  BY DEF Init, Heard, NoCallback
<1>2. IInv /\ Heard /\ [Next]_vars => Heard'
  <2> SUFFICES ASSUME IInv, Heard, [Next]_vars PROVE Heard'
    OBVIOUS
  <2>1. CASE Aborted \/ UNCHANGED vars
    BY <2>1 DEF Aborted, vars, rf, Heard, OfKind, Synced, SoftInMask, SoftInEvents, IsCmd
  <2> QED BY <2>1, CallKeepsHeard, RfKeepsHeard, CallbackKeepsHeard DEF Next
<1>3. IInv /\ Heard => CallsExpected
  <2> SUFFICES ASSUME IInv, Heard, cb.stage = "handler", ~idle
               PROVE  /\ cb.call = "startRx" => mac = "LISTEN"
                      /\ cb.call = "endRx" => mac = "RX"
                      /\ cb.call \in {"startTx", "endTx"} => mac = "TX"
    BY DEF CallsExpected
  <2>1. cb # NoCallback
    BY DEF NoCallback
  <2>2. mac \in {"TX", "LISTEN", "RX"}
    BY <2>1 DEF IInv, TInv, TypeOK, MacState, OneCommand, Ready, Known, Active
  <2>3. /\ cb.call = "startRx" <=> SoftInMask
        /\ cb.call = "endRx" => cb.mask \cap EndEvent # {}
        /\ cb.call \in {"startTx", "endTx"} => cb.mask \cap TxEvent # {}
    BY DEF IInv, OneCommand, Calls, SoftInMask, Heard, TxEvent
  <2>4. mac = "TX" => cb.mask \subseteq TxEvent
    BY DEF Heard, OfKind
  <2>5. mac \in {"LISTEN", "RX"} => cb.mask \subseteq RxEvent
    BY DEF Heard, OfKind
  <2>6. cb.call = "startRx" => mac = "LISTEN"
    BY <2>2, <2>3, <2>4 DEF Heard, SoftInMask, TxEvent
  <2>7. cb.call = "endRx" => mac = "RX"
    <3>1. mac = "LISTEN" /\ cb.mask \cap EndEvent # {} => SoftInMask
      BY DEF IInv, OneCommand, Listening, SoftInMask
    <3> QED BY <2>2, <2>3, <2>4, <3>1 DEF TxEvent, EndEvent
  <2>8. cb.call \in {"startTx", "endTx"} => mac = "TX"
    BY <2>2, <2>3, <2>5 DEF TxEvent, RxEvent
  <2> QED BY <2>6, <2>7, <2>8
<1> QED BY <1>1, <1>2, <1>3, Inductive, PTL DEF Spec

----------------------------------------------------------------------------
(* The end of a frame.                                                     *)

\* While the MAC transmits, listens or receives nothing is being aborted.
Unaborted ==
    mac \in {"TX", "LISTEN", "RX"} => \A i \in DOMAIN queue : IsCmd(i) => ~queue[i].flushed

\* The start of a frame is on its way to the MAC alone, and the frame lasts.
SoftLasts ==
    mac = "LISTEN" =>
        /\ \A h \in Handle : "rxMdmSoft" \in events[h] => events[h] = {"rxMdmSoft"} /\ InSync
        /\ cb.stage # "none" /\ "rxMdmSoft" \in cb.mask => NoEvents /\ InSync

OnTheWay == Unaborted /\ SoftLasts /\ EndNotLost

Prompt == MacWaits /\ SwiPrompt /\ ~FsCanFail

\* The MAC posts a command, or waits for no end.
LEMMA CallKeepsEnd == ASSUME IInv, OnTheWay, MacCall PROVE OnTheWay'
<1>1. CASE mac' \notin {"TX", "LISTEN", "RX"}
  BY <1>1 DEF OnTheWay, Unaborted, SoftLasts, EndNotLost
<1>2. ASSUME NEW set \in BOOLEAN, EMBENET_RADIO_SetCallbacks(set) PROVE OnTheWay'
  BY <1>2 DEF EMBENET_RADIO_SetCallbacks, rf, OnTheWay, Unaborted, SoftLasts, EndNotLost, IsCmd,
     InTx, InSync, Pending, NoEvents
<1>3. ASSUME NEW h \in FreeHandle, NEW op \in {"tx", "rx"},
             queue' = Append(queue, Command(h, op)), UNCHANGED <<events, cb>>,
             mac \in {"TX_READY", "RX_READY", "REFUSED"},
             mac' = IF op = "tx" THEN "TX" ELSE "LISTEN"
      PROVE  OnTheWay'
  <2>1. NoCmd /\ NoEvents /\ cb = NoCallback /\ queue \in Seq(Cmd) /\ Len(queue) \in Nat
    BY <1>3 DEF IInv, OneCommand, Ready, TInv, TypeOK, RfOK
  <2>2. Command(h, op) \in Cmd
    BY DEF FreeHandle, Command, Cmd
  <2>3. /\ \A i \in DOMAIN queue' : IsCmd(i)' => ~queue'[i].flushed
        /\ Len(queue) + 1 \in DOMAIN queue' /\ queue'[Len(queue) + 1] = Command(h, op)
    <3>1. \A i \in DOMAIN queue' :
             \/ i \in DOMAIN queue /\ queue'[i] = queue[i]
             \/ queue'[i] = Command(h, op)
      BY <1>3, <2>1, <2>2, AppendFacts
    <3> QED BY <1>3, <2>1, <2>2, <3>1, AppendFacts DEF NoCmd, IsCmd, Command
  <2>4. op = "tx" => InTx'
    BY <2>3 DEF InTx, Command
  <2>5. NoEvents' /\ cb'.stage = "none"
    BY <1>3, <2>1 DEF NoEvents, NoCallback
  <2> QED BY <1>3, <2>3, <2>4, <2>5 DEF OnTheWay, Unaborted, SoftLasts, EndNotLost, NoEvents
<1>4. CASE EMBENET_RADIO_TxNow
  BY <1>1, <1>3, <1>4 DEF EMBENET_RADIO_TxNow
<1>5. CASE EMBENET_RADIO_RxNow
  BY <1>1, <1>3, <1>5 DEF EMBENET_RADIO_RxNow
<1> QED BY <1>1, <1>2, <1>4, <1>5 DEF MacCall, EMBENET_RADIO_Init, EMBENET_RADIO_Deinit,
        EMBENET_RADIO_Idle, EMBENET_RADIO_TxEnable, EMBENET_RADIO_StartContinuousTx,
        EMBENET_RADIO_RxEnable, EMBENET_RADIO_GetReceivedFrame

\* commonFsOff ends and the command behind it moves up.
LEMMA FsOffKeepsEnd ==
    ASSUME IInv, OnTheWay, queue # <<>>, Head(queue).op = "fsOff", queue' = Tail(queue),
           UNCHANGED <<txStatus, rxStatus, events, cb, mac>>
    PROVE  OnTheWay'
<1>1. queue \in Seq(Cmd) /\ Len(queue) \in Nat
  BY DEF IInv, TInv, TypeOK, RfOK
<1>2. /\ DOMAIN queue = 1 .. Len(queue) /\ DOMAIN queue' = 1 .. Len(queue) - 1 /\ queue[1].op = "fsOff"
      /\ \A i \in DOMAIN queue' : i + 1 \in DOMAIN queue /\ queue'[i] = queue[i + 1]
  BY <1>1, TailFacts
<1>3. ASSUME NEW i \in DOMAIN queue, IsCmd(i)
      PROVE  i - 1 \in DOMAIN queue' /\ queue'[i - 1] = queue[i]
  <2>1. i # 1
    BY <1>2, <1>3 DEF IsCmd
  <2>2. i - 1 \in DOMAIN queue' /\ i - 1 + 1 = i
    BY <1>1, <1>2, <2>1
  <2> QED BY <1>2, <2>2
<1>4. (InTx => InTx') /\ (InSync => InSync')
  BY <1>3 DEF InTx, InSync, IsCmd
<1>5. \A i \in DOMAIN queue' : IsCmd(i)' => IsCmd(i + 1) /\ queue'[i] = queue[i + 1]
  BY <1>2 DEF IsCmd
<1> QED BY <1>2, <1>4, <1>5 DEF OnTheWay, Unaborted, SoftLasts, EndNotLost, Pending, NoEvents

\* What the RF core does to a command that is not being aborted.
LEMMA RfKeepsEnd == ASSUME Prompt, IInv, OnTheWay, RfCore PROVE OnTheWay'
<1> DEFINE h == Head(queue).h
<1>1. queue # <<>> /\ UNCHANGED <<cb, mac>> /\ queue \in Seq(Cmd) /\ events \in [Handle -> SUBSET Event]
  BY DEF RfCore, RfFs, RfFsOff, RfTxDone, RfSync, RfRxEnd, RfAbort, RfRxOk, RfRxNOk, Executing,
     IInv, TInv, TypeOK, RfOK, CallbackOK, Event
<1>2. CASE mac \notin {"TX", "LISTEN", "RX"}
  BY <1>1, <1>2 DEF OnTheWay, Unaborted, SoftLasts, EndNotLost
<1>3. CASE Head(queue).op = "fsOff"
  <2>1. RfFsOff \/ RfAbort
    BY <1>3 DEF RfCore, RfFs, RfTxDone, RfSync, RfRxEnd, RfRxOk, RfRxNOk, Executing
  <2>2. queue' = Tail(queue) /\ UNCHANGED <<txStatus, rxStatus, events>>
    BY <1>3, <2>1 DEF RfFsOff, RfAbort
  <2> QED BY <1>1, <1>3, <2>2, FsOffKeepsEnd
<1>4. CASE mac \in {"TX", "LISTEN", "RX"} /\ Head(queue).op # "fsOff"
  <2>1. /\ 1 \in DOMAIN queue /\ Head(queue) = queue[1] /\ IsCmd(1) /\ ~NoCmd
        /\ \A i \in DOMAIN queue : IsCmd(i) => i = 1
        /\ h \in Handle /\ \A g \in Handle : events[g] # {} => g = h
        /\ \A i \in DOMAIN Tail(queue) : Tail(queue)[i].op = "fsOff"
    BY <1>1, <1>4, HeadIsOnlyCmd DEF NoCmd, IsCmd
  <2>2. ~queue[1].flushed /\ (queue[1].op = "tx" \/ queue[1].op = "rx")
    BY <1>4, <2>1, OpOfCmd DEF OnTheWay, Unaborted, IInv
  <2>3. /\ InTx <=> queue[1].op = "tx"
        /\ InSync <=> queue[1].op = "rx" /\ queue[1].phase = "sync"
    BY <2>1, <2>2 DEF InTx, InSync, IsCmd
  <2>4. /\ \A g \in Handle : events[g] \cap LastEvent = {}
        /\ (\E g \in Handle : events[g] \cap EndEvent # {}) => queue[1].phase = "ended"
        /\ cb.stage # "none" /\ cb.mask \cap EndEvent # {} => queue[1].phase = "ended"
    BY <2>1 DEF IInv, OneCommand, Order
  <2>5. /\ queue[1].op = "tx" => queue[1].phase # "ended" /\ events[h] \subseteq TxEvent
        /\ queue[1].op = "rx" => events[h] \subseteq RxEvent
    BY <2>1 DEF IInv, TInv, Handles
  <2>6. /\ queue[1].op = "tx" => mac = "TX"
        /\ queue[1].op = "rx" /\ queue[1].phase # "ended" => mac \in {"LISTEN", "RX"}
    BY <2>1, <2>2, <2>5 DEF IInv, OneCommand, Live
  <2>7. mac = "LISTEN" /\ queue[1].phase # "sync" =>
           /\ \A g \in Handle : "rxMdmSoft" \notin events[g]
           /\ cb.stage # "none" => "rxMdmSoft" \notin cb.mask
    BY <2>3 DEF OnTheWay, SoftLasts
  <2>8. /\ mac = "RX" /\ queue[1].phase \notin {"sync", "ended"} =>
              cb.stage = "handler" /\ cb.call = "endRx"
        /\ mac = "TX" /\ queue[1].op = "rx" => cb.stage = "handler" /\ cb.call = "endTx"
    BY <2>1, <2>3, <2>4 DEF OnTheWay, EndNotLost, Pending, Told, EndEvent, LastEvent, IInv, OneCommand, Order
  <2>9. ASSUME NEW phase \in {"on", "sync", "ended"}, Phase(phase)
        PROVE  /\ \A i \in DOMAIN queue' : IsCmd(i)' => ~queue'[i].flushed
               /\ queue[1].op = "tx" => InTx'
               /\ queue[1].op = "rx" /\ phase = "sync" => InSync'
    <3>1. /\ DOMAIN queue' = DOMAIN queue /\ queue'[1] = [queue[1] EXCEPT !.phase = phase]
          /\ queue[1] \in Cmd /\ \A i \in DOMAIN queue : i # 1 => queue'[i] = queue[i]
      BY <1>1, <2>9, PhaseFacts
    <3>2. queue'[1].op = queue[1].op /\ queue'[1].flushed = queue[1].flushed /\ queue'[1].phase = phase
      BY <3>1 DEF Cmd
    <3> QED BY <2>1, <2>2, <3>1, <3>2 DEF IsCmd, InTx, InSync
  <2>10. ASSUME NEW e, Raise(e)
         PROVE  events'[h] = events[h] \cup e /\ \A g \in Handle : g # h => events'[g] = {}
    BY <1>1, <2>1, <2>10 DEF Raise
  <2>11. \A i \in DOMAIN Tail(queue) : ~(Tail(queue)[i].op # "fsOff")
    BY <2>1
  <2>12. CASE RfFs
    <3>1. Phase("on") /\ queue[1].phase = "queued" /\ (queue[1].op = "rx" => UNCHANGED events)
      BY <2>1, <2>12 DEF RfFs, Executing, Prompt
    <3>2. SoftLasts'
      BY <1>1, <2>2, <2>6, <2>7, <3>1 DEF SoftLasts
    <3>3. EndNotLost'
      BY <1>1, <2>2, <2>6, <2>8, <2>9, <3>1 DEF EndNotLost
    <3> QED BY <2>9, <3>1, <3>2, <3>3 DEF OnTheWay, Unaborted
  <2>13. CASE RfTxDone
    <3>1. /\ queue[1].op = "tx" /\ queue' = Tail(queue) /\ txStatus' = "DONE_OK"
          /\ events'[h] = events[h] \cup {"txLastCmdDone"}
      BY <2>1, <2>10, <2>13 DEF RfTxDone, Executing
    <3>2. Pending({"txLastCmdDone"})'
      BY <2>1, <2>5, <3>1 DEF Pending, Told, TxEvent
    <3> QED BY <1>1, <2>6, <2>11, <3>1, <3>2 DEF OnTheWay, Unaborted, SoftLasts, EndNotLost, IsCmd
  <2>14. CASE RfSync
    <3>1. queue[1].op = "rx" /\ queue[1].phase = "on"
      BY <2>1, <2>14 DEF RfSync, Executing
    <3>2. CASE rxItem = "PENDING"
      <4>1. Phase("sync") /\ Raise({"rxMdmSoft"})
        BY <2>14, <3>2 DEF RfSync
      <4>2. mac = "LISTEN" => events[h] = {}
        BY <2>1, <2>4, <2>5, <2>7, <3>1 DEF LastEvent, EndEvent, RxEvent
      <4>3. mac = "LISTEN" => events'[h] = {"rxMdmSoft"} /\ \A g \in Handle : g # h => events'[g] = {}
        BY <2>10, <4>1, <4>2
      <4>4. SoftLasts'
        BY <1>1, <2>7, <2>9, <3>1, <4>1, <4>3 DEF SoftLasts
      <4>5. EndNotLost'
        BY <1>1, <2>6, <2>9, <3>1, <4>1 DEF EndNotLost
      <4> QED BY <2>9, <4>1, <4>4, <4>5 DEF OnTheWay, Unaborted
    <3>3. CASE rxItem # "PENDING"
      <4>1. Phase("ended") /\ UNCHANGED events
        BY <2>14, <3>3 DEF RfSync
      <4>2. SoftLasts'
        BY <1>1, <2>7, <3>1, <4>1 DEF SoftLasts
      <4>3. EndNotLost'
        BY <1>1, <2>6, <2>8, <3>1 DEF EndNotLost
      <4> QED BY <2>9, <4>1, <4>2, <4>3 DEF OnTheWay, Unaborted
    <3> QED BY <3>2, <3>3
  <2>15. ASSUME NEW f \in Frame, RfRxOk(f) \/ RfRxNOk(f) PROVE OnTheWay'
    <3>1. /\ queue[1].op = "rx" /\ Phase("ended") /\ rxStatus' \in {"DONE_OK", "RXERR"}
          /\ events[h] = {} /\ cb = NoCallback
      BY <2>1, <2>15 DEF RfRxOk, RfRxNOk, Executing, FrameLasts, Prompt
    <3>2. PICK e \in EndEvent : Raise({e})
      BY <2>15 DEF RfRxOk, RfRxNOk, EndEvent
    <3>3. events'[h] = {e} /\ \A g \in Handle : g # h => events'[g] = {}
      BY <2>10, <3>1, <3>2
    <3>4. Pending({"rxOk", "rxNOk"})' /\ \A g \in Handle : "rxMdmSoft" \notin events'[g]
      BY <2>1, <3>3 DEF Pending, Told, EndEvent
    <3>5. cb'.stage = "none" /\ mac # "TX"
      BY <1>1, <2>1, <2>6, <2>15, <3>1 DEF NoCallback, RfRxOk, RfRxNOk, Executing
    <3> QED BY <1>1, <2>9, <3>1, <3>4, <3>5 DEF OnTheWay, Unaborted, SoftLasts, EndNotLost
  <2>16. CASE RfRxEnd
    <3>1. /\ queue[1].op = "rx" /\ queue[1].phase = "ended" /\ queue' = Tail(queue) /\ UNCHANGED rxStatus
          /\ events'[h] = events[h] \cup {"rxLastCmdDone"} /\ \A g \in Handle : g # h => events'[g] = {}
      BY <2>1, <2>10, <2>16 DEF RfRxEnd, Executing
    <3>2. Pending({"rxOk", "rxNOk"}) => Pending({"rxOk", "rxNOk"})'
      BY <1>1, <2>1, <3>1 DEF Pending, Told
    <3>3. SoftLasts'
      BY <1>1, <2>1, <2>7, <3>1 DEF SoftLasts
    <3>4. EndNotLost'
      BY <1>1, <2>3, <2>8, <3>1, <3>2 DEF OnTheWay, EndNotLost
    <3> QED BY <2>11, <3>1, <3>3, <3>4 DEF OnTheWay, Unaborted, IsCmd
  <2> QED BY <2>1, <2>2, <2>12, <2>13, <2>14, <2>15, <2>16 DEF RfCore, RfFsOff, RfAbort, Executing
<1> QED BY <1>2, <1>3, <1>4

\* The callbacks take the events over, and tell the MAC of the start and the end.
LEMMA CallbackKeepsEnd == ASSUME IInv, OnTheWay, Callback PROVE OnTheWay'
<1>1. /\ queue' = queue /\ UNCHANGED <<txStatus, rxStatus>>
      /\ cb.mask \in (SUBSET TxEvent) \cup (SUBSET RxEvent)
  BY DEF Callback, CallbackEnter, RxStarted, RxFinished, RxError, TxFinished, TxStarted, CaptureHandler,
     rf, IInv, TInv, TypeOK, CallbackOK
<1>2. (InTx' <=> InTx) /\ (InSync' <=> InSync)
  BY <1>1 DEF InTx, InSync
<1>3. mac' \in {"TX", "LISTEN", "RX"} => mac \in {"TX", "LISTEN", "RX"} /\ handlers /\ ~idle
  BY DEF Callback, CallbackEnter, RxStarted, RxFinished, RxError, TxFinished, TxStarted, CaptureHandler,
     IInv, OneCommand, Known
<1>4. Unaborted'
  BY <1>1, <1>3 DEF OnTheWay, Unaborted, IsCmd
<1>5. ASSUME NEW h \in Handle, CallbackEnter(h) PROVE OnTheWay'
  <2>1. /\ cb.stage = "none" /\ events[h] # {} /\ mac' = mac
        /\ \A g \in Handle : events'[g] = {}
        /\ \A g \in Handle : events[g] # {} => g = h
    BY <1>5 DEF CallbackEnter, NoCallback, IInv, TInv, TypeOK, CallbackOK, OneCommand, Single
  <2>2. CASE mac \in {"TX", "LISTEN", "RX"}
    <3>1. cb'.stage = "body" /\ cb'.mask = events[h]
      BY <1>3, <1>5, <2>1, <2>2 DEF CallbackEnter
    <3>2. \A set : Pending(set) => Pending(set)'
      BY <2>1, <3>1 DEF Pending, Told
    <3>3. SoftLasts'
      BY <1>2, <2>1, <3>1 DEF OnTheWay, SoftLasts, NoEvents
    <3>4. EndNotLost'
      BY <1>1, <1>2, <2>1, <3>2 DEF OnTheWay, EndNotLost
    <3> QED BY <1>4, <3>3, <3>4 DEF OnTheWay
  <2>3. CASE mac \notin {"TX", "LISTEN", "RX"}
    BY <1>4, <2>1, <2>3 DEF OnTheWay, SoftLasts, EndNotLost
  <2> QED BY <2>2, <2>3
<1>6. ASSUME NEW call, Capture(call), cb.stage = "body", UNCHANGED <<events, mac>>,
             mac = "TX" /\ Told(cb.mask, {"txLastCmdDone"}) /\ txStatus = "DONE_OK" => call = "endTx",
             mac = "RX" /\ Told(cb.mask, {"rxOk", "rxNOk"}) /\ rxStatus \in {"DONE_OK", "RXERR"} => call = "endRx"
      PROVE  OnTheWay'
  <2>1. \/ cb'.stage = "none" /\ (call = None \/ ~handlers)
        \/ cb'.stage = "handler" /\ cb'.mask = cb.mask /\ cb'.call = call
    BY <1>6 DEF Capture, NoCallback
  <2>2. mac \in {"TX", "RX"} /\ call \in {"endTx", "endRx"} => cb'.stage = "handler" /\ cb'.call = call
    BY <1>3, <1>6, <2>1 DEF None
  <2>3. SoftLasts'
    BY <1>2, <1>6, <2>1 DEF OnTheWay, SoftLasts, NoEvents
  <2>4. \A set : Pending(set) => Told(cb.mask, set) \/ Pending(set)'
    BY <1>6 DEF Pending, Told
  <2>5. EndNotLost'
    BY <1>1, <1>2, <1>6, <2>2, <2>4 DEF OnTheWay, EndNotLost
  <2> QED BY <1>4, <2>3, <2>5 DEF OnTheWay
<1>7. CASE RxStarted
  BY <1>6, <1>7 DEF RxStarted, InBody, Told, rf
<1>8. CASE TxStarted
  BY <1>1, <1>6, <1>8 DEF TxStarted, InBody, Told, rf, TxEvent, RxEvent
<1>9. CASE RxError
  BY <1>6, <1>9 DEF RxError, InBody, Told, rf
<1>10. CASE TxFinished
  BY <1>1, <1>6, <1>10 DEF TxFinished, InBody, Told, rf, TxEvent, RxEvent
<1>11. CASE RxFinished
  BY <1>1, <1>6, <1>11 DEF RxFinished, InBody, Told, rf, TxEvent, RxEvent
<1>12. CASE CaptureHandler
  <2>1. /\ cb.stage = "handler" /\ cb'.stage = "none" /\ events' = events
        /\ mac = "LISTEN" /\ cb.call = "startRx" => InSync
    BY <1>12 DEF CaptureHandler, NoCallback, rf, IInv, OneCommand, Calls, OnTheWay, SoftLasts
  <2>2. \A set : Pending(set) => Pending(set)'
    BY <2>1 DEF Pending
  <2>3. SoftLasts'
    BY <1>2, <1>12, <2>1 DEF CaptureHandler, OnTheWay, SoftLasts, NoEvents
  <2>4. EndNotLost'
    BY <1>1, <1>2, <1>12, <2>1, <2>2 DEF CaptureHandler, OnTheWay, EndNotLost
  <2> QED BY <1>4, <2>3, <2>4 DEF OnTheWay
<1> QED BY <1>5, <1>7, <1>8, <1>9, <1>10, <1>11, <1>12 DEF Callback

\* embenet_radio.c:306-353: if the MAC lets the callbacks of the last slot run, a
\* callback runs within the duration of a frame and the synthesizer locks, no end of
\* a frame is lost on its way to the MAC.
THEOREM NoEndIsLost == ASSUME Prompt PROVE Spec => []EndNotLost
<1>1. Init => OnTheWay
  BY DEF Init, OnTheWay, Unaborted, SoftLasts, EndNotLost
<1>2. IInv /\ OnTheWay /\ [Next]_vars => OnTheWay'
  <2> SUFFICES ASSUME IInv, OnTheWay, [Next]_vars PROVE OnTheWay'
    OBVIOUS
  <2>1. CASE Aborted \/ UNCHANGED vars
    BY <2>1 DEF Aborted, vars, statics, rxData, given, rf, OnTheWay, Unaborted, SoftLasts, EndNotLost,
       IsCmd, InTx, InSync, Pending, NoEvents
  <2> QED BY <2>1, CallKeepsEnd, RfKeepsEnd, CallbackKeepsEnd DEF Next
<1>3. OnTheWay => EndNotLost
  BY DEF OnTheWay
<1>4. MacWaits
  BY DEF Prompt
<1> QED BY <1>1, <1>2, <1>3, <1>4, Inductive, PTL DEF Spec

----------------------------------------------------------------------------
(* The transceiver of embenet_radio.h.                                     *)

\* A step of the header's transceiver, or one of those that the code takes against it.
PortStep == Interface!Next \/ RxRefused \/ UnpreparedListen \/ FrameCut

\* What no action but the MAC's calls and its handlers change.
LEMMA SameTransceiver ==
    ASSUME UNCHANGED <<radioTxBuffer, mac>>,
           mac = "ACTIVE" => UNCHANGED <<rxPacket, rxPacketLength>>
    PROVE  UNCHANGED Interface!vars
BY DEF Interface!vars

\* The calls of the MAC are those of the header, or fail and change nothing.
LEMMA CallImplements ==
    ASSUME IInv, MacCall PROVE PortStep \/ UNCHANGED Interface!vars
<1> USE DEF PortStep, Interface!Next, Interface!GoTo
<1>1. CASE EMBENET_RADIO_Init
  <2>1. CASE mac' = "IDLE"
    BY <1>1, <2>1 DEF EMBENET_RADIO_Init, Interface!RadioInit
  <2>2. CASE mac' = "ABORTED"
    BY <1>1, <2>2 DEF EMBENET_RADIO_Init, Interface!vars
  <2> QED BY <1>1, <2>1, <2>2 DEF EMBENET_RADIO_Init
<1>2. CASE EMBENET_RADIO_Deinit
  BY <1>2 DEF EMBENET_RADIO_Deinit, Interface!Deinit
<1>3. CASE EMBENET_RADIO_Idle
  BY <1>3 DEF EMBENET_RADIO_Idle, Interface!Idle
<1>4. CASE \E set \in BOOLEAN : EMBENET_RADIO_SetCallbacks(set)
  BY <1>4, SameTransceiver DEF EMBENET_RADIO_SetCallbacks, rxData
<1>5. ASSUME NEW channel \in Channel, NEW txp \in Power, NEW psdu \in Psdu,
             EMBENET_RADIO_TxEnable(channel, txp, psdu)
      PROVE  Interface!TxEnable \/ FrameCut
  <2>1. psdu = [len |-> psdu.len, data |-> psdu.data] /\ psdu.len \in Nat
    BY FrameAssumption
  <2>2. CASE psdu.len =< MaxPsduLength
    <3>1. radioTxBuffer' = psdu
      BY <1>5, <2>1, <2>2, PsduAssumption DEF EMBENET_RADIO_TxEnable, TxEnable
    <3> QED BY <1>5, <3>1 DEF EMBENET_RADIO_TxEnable, TxEnable, Interface!TxEnable
  <2>3. CASE psdu.len > MaxPsduLength
    BY <1>5, <2>3 DEF FrameCut
  <2> QED BY <2>1, <2>2, <2>3, PsduAssumption
<1>6. ASSUME NEW channel \in Channel, NEW txp \in Power,
             EMBENET_RADIO_StartContinuousTx(channel, txp)
      PROVE  Interface!StartContinuousTx
  BY <1>6 DEF EMBENET_RADIO_StartContinuousTx, TxEnable, Interface!StartContinuousTx
<1>7. ASSUME NEW channel \in Channel, EMBENET_RADIO_RxEnable(channel)
      PROVE  Interface!RxEnable \/ RxRefused
  <2>1. CASE RxEnableStatus = "SUCCESS"
    BY <1>7, <2>1 DEF EMBENET_RADIO_RxEnable, Interface!RxEnable
  <2>2. CASE RxEnableStatus = "WRONG_STATE"
    BY <1>7, <2>2 DEF RxRefused
  <2> QED BY <2>1, <2>2 DEF RxEnableStatus
<1>8. CASE EMBENET_RADIO_TxNow
  <2>1. CASE mac' = "TX"
    BY <1>8, <2>1 DEF EMBENET_RADIO_TxNow, given, Interface!TxNow
  <2>2. CASE mac' = mac
    BY <1>8, <2>2, SameTransceiver DEF EMBENET_RADIO_TxNow, given, rxData
  <2> QED BY <1>8, <2>1, <2>2 DEF EMBENET_RADIO_TxNow
<1>9. CASE EMBENET_RADIO_RxNow
  <2>1. CASE mac' = "LISTEN" /\ mac = "RX_READY"
    BY <1>9, <2>1 DEF EMBENET_RADIO_RxNow, given, Interface!RxNow
  <2>2. CASE mac' = mac
    BY <1>9, <2>2, SameTransceiver DEF EMBENET_RADIO_RxNow, given, rxData
  <2>3. CASE mac = "REFUSED"
    BY <1>9, <2>3 DEF UnpreparedListen
  <2> QED BY <1>9, <2>1, <2>2, <2>3 DEF EMBENET_RADIO_RxNow
<1>10. ASSUME NEW n \in Capacity, EMBENET_RADIO_GetReceivedFrame(n)
       PROVE  Interface!Next \/ UNCHANGED Interface!vars
  <2>1. CASE n < rxPacketLength /\ rxPacketLength # 0
    <3>1. rxPacketLength' = 0 /\ mac = "ACTIVE" /\ UNCHANGED <<radioTxBuffer, rxPacket, mac>>
      BY <1>10, <2>1 DEF EMBENET_RADIO_GetReceivedFrame, given
    <3>2. rxPacket # NoFrame /\ rxPacket.len = rxPacketLength
      BY <2>1 DEF NoFrame, IInv, TInv, PacketKept
    <3>3. Interface!GetReceivedFrame(n)
      BY <2>1, <3>1, <3>2 DEF Interface!GetReceivedFrame
    <3> QED BY <3>3
  <2>2. CASE ~(n < rxPacketLength /\ rxPacketLength # 0)
    <3>1. UNCHANGED <<radioTxBuffer, rxPacket, rxPacketLength, mac>>
      BY <1>10, <2>2 DEF EMBENET_RADIO_GetReceivedFrame, given
    <3> QED BY <3>1, SameTransceiver
  <2> QED BY <2>1, <2>2
<1> QED BY <1>1, <1>2, <1>3, <1>4, <1>5, <1>6, <1>7, <1>8, <1>9, <1>10 DEF MacCall

\* A frame begins only while the MAC listens, and ends only if it has begun.
LEMMA CallbackImplements ==
    ASSUME IInv, Callback PROVE Interface!Next \/ UNCHANGED Interface!vars
<1>1. CASE CaptureHandler
  <2>1. cb.stage = "handler" /\ UNCHANGED <<rxPacket, rxPacketLength, radioTxBuffer>>
    BY <1>1 DEF CaptureHandler, rxData, given
  <2>2. CASE cb.call = "startRx" /\ mac = "LISTEN"
    BY <1>1, <2>2 DEF CaptureHandler, Interface!StartOfFrame, Interface!GoTo, Interface!Next
  <2>3. CASE (cb.call = "endRx" /\ mac \in {"LISTEN", "RX"}) \/ (cb.call = "endTx" /\ mac = "TX")
    <3>1. mac' = "ACTIVE"
      BY <1>1, <2>3 DEF CaptureHandler
    <3>2. mac # "LISTEN"
      BY <2>1, <2>3 DEF IInv, OneCommand, Calls, Listening
    <3>3. rxPacketLength # 0 => rxPacket \in Frame
      BY DEF IInv, TInv, PacketKept
    <3> QED BY <2>1, <2>3, <3>1, <3>2, <3>3 DEF Interface!EndOfFrame, Interface!Next
  <2>4. CASE mac' = mac
    BY <2>1, <2>4, SameTransceiver
  <2>5. \/ cb.call = "startRx" /\ mac = "LISTEN"
        \/ cb.call = "endRx" /\ mac \in {"LISTEN", "RX"}
        \/ cb.call = "endTx" /\ mac = "TX"
        \/ mac' = mac
    BY <1>1 DEF CaptureHandler
  <2> QED BY <2>2, <2>3, <2>4, <2>5
<1>2. CASE RxFinished
  <2>1. mac # "ACTIVE"
    BY <1>2 DEF RxFinished, InBody, IInv, OneCommand, Active
  <2> QED BY <1>2, <2>1, SameTransceiver DEF RxFinished, given
<1>3. CASE (\E h \in Handle : CallbackEnter(h)) \/ RxStarted \/ RxError \/ TxFinished \/ TxStarted
  BY <1>3, SameTransceiver
     DEF CallbackEnter, RxStarted, RxError, TxFinished, TxStarted, rxData, given
<1> QED BY <1>1, <1>2, <1>3 DEF Callback

\* embenet_radio.h:10-37: to a MAC that waits, every step of the port and of the RF
\* driver is one of the header's transceiver, except for a refused RxEnable, the RxNow
\* after it and the TxEnable of a frame that is too long.
THEOREM Implements == ASSUME MacWaits PROVE Spec => ImplementsInterface
<1>1. Init => Interface!Init
  BY DEF Init, Interface!Init
<1>2. IInv /\ [Next]_vars => [PortStep]_(Interface!vars)
  <2> SUFFICES ASSUME IInv, [Next]_vars PROVE PortStep \/ UNCHANGED Interface!vars
    OBVIOUS
  <2>1. CASE MacCall
    BY <2>1, CallImplements
  <2>2. CASE RfCore
    BY <2>2, RfCoreIsRfStep, SameTransceiver DEF RfStep, given
  <2>3. CASE Callback
    BY <2>3, CallbackImplements DEF PortStep
  <2>4. CASE Aborted \/ UNCHANGED vars
    BY <2>4, SameTransceiver DEF Aborted, vars, rxData, given
  <2> QED BY <2>1, <2>2, <2>3, <2>4 DEF Next
<1>3. ImplementsInterface <=> Interface!Init /\ [][PortStep]_(Interface!vars)
  BY DEF ImplementsInterface, PortStep
<1> QED BY <1>1, <1>2, <1>3, Inductive, PTL DEF Spec

=============================================================================
