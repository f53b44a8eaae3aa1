--------------------------- MODULE RadioInterface ---------------------------
(***************************************************************************)
(* What embenet_radio.h promises of a transceiver: its states, the calls   *)
(* and capture callbacks that lead from one to the next, the frame that is *)
(* sent and the packet that can be fetched.                                *)
(***************************************************************************)
EXTENDS Naturals

CONSTANTS
    Psdu,      \* frames that can be sent
    Packet,    \* packets that can be received
    NoFrame,   \* neither
    LengthOf(_),
    Capacity   \* buffer lengths passed to GetReceivedFrame

VARIABLES
    state,   \* of the transceiver
    loaded,  \* the frame prepared by TxEnable, until it is sent or dropped
    packet   \* what GetReceivedFrame hands out while the state is ACTIVE

vars == <<state, loaded, packet>>

State == {"UNINITIALIZED", "IDLE", "TX_READY", "RX_READY", "LISTEN", "TX", "RX", "ACTIVE", "TEST"}

Init == state = "UNINITIALIZED" /\ loaded = NoFrame /\ packet = NoFrame

GoTo(s) == state' = s /\ loaded' = NoFrame /\ packet' = NoFrame

RadioInit == state = "UNINITIALIZED" /\ GoTo("IDLE")

Deinit == state # "UNINITIALIZED" /\ GoTo("UNINITIALIZED")

\* From any state except UNINITIALIZED.
Idle == state # "UNINITIALIZED" /\ GoTo("IDLE")

TxEnable ==
    /\ state \in {"IDLE", "ACTIVE"}
    /\ state' = "TX_READY" /\ loaded' \in Psdu /\ packet' = NoFrame

TxNow == state = "TX_READY" /\ state' = "TX" /\ UNCHANGED <<loaded, packet>>

RxEnable == state \in {"IDLE", "ACTIVE"} /\ GoTo("RX_READY")

RxNow == state = "RX_READY" /\ GoTo("LISTEN")

\* The capture callback on start of frame.
StartOfFrame == state = "LISTEN" /\ GoTo("RX")

\* The capture callback on end of frame; after a reception, a packet or none.
EndOfFrame ==
    /\ state \in {"TX", "RX"}
    /\ state' = "ACTIVE" /\ loaded' = NoFrame /\ packet' \in Packet \cup {NoFrame}

\* A buffer that is too short is given nothing, then or later.
GetReceivedFrame(bufferLength) ==
    /\ state = "ACTIVE" /\ packet # NoFrame /\ bufferLength < LengthOf(packet)
    /\ packet' = NoFrame
    /\ UNCHANGED <<state, loaded>>

\* Nothing is said of the transceiver once it transmits continuously.
StartContinuousTx ==
    /\ state \in {"IDLE", "ACTIVE"}
    /\ GoTo("TEST")

Next ==
    \/ StartContinuousTx
    \/ RadioInit \/ Deinit \/ Idle \/ TxEnable \/ TxNow \/ RxEnable \/ RxNow
    \/ StartOfFrame \/ EndOfFrame \/ \E n \in Capacity : GetReceivedFrame(n)

Spec == Init /\ [][Next]_vars

=============================================================================
