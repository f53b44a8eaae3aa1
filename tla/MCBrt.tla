------------------------------- MODULE MCBrt -------------------------------
(***************************************************************************)
(* Instances of Brt for TLC.  The run without loss has the bytes and the   *)
(* checksum of the code.  The run that loses bytes has bytes of three bits *)
(* with the flag, the escape byte and the mask in the positions of 0x7e,   *)
(* 0x7d and 0x20, and an ideal checksum.                                   *)
(***************************************************************************)
EXTENDS Brt, Crc

\* Packets that hold the flag and the escape byte, or whose checksums do.
MCPacket == {<<25>>, <<42>>, <<126, 28>>, <<125, 80>>, <<93, 167>>}

\* Their checksums, computed once.
MCChecksum == {[packet |-> p, fcs |-> CrcFcs(p)] : p \in MCPacket}

\* The same, bit by bit.
MCHdlcChecksum == {[packet |-> p, fcs |-> HdlcFcs(p)] : p \in MCPacket}

\* No other sequence of bytes arrives in the run without loss.
MCCrcFcs(bytes) ==
    IF \E c \in MCChecksum : c.packet = bytes
    THEN (CHOOSE c \in MCChecksum : c.packet = bytes).fcs ELSE <<>>

MCShortPacket == {<<7>>, <<2>>}

\* A raw chunk that may be taken for the beginning or the end of a frame.
MCRaw == {<<7>>}

\* Different for all packets, one with the escape byte among its bytes, and good
\* for no other sequence.
MCFcs(bytes) ==
    CASE bytes = <<7>> -> <<5, 1>>
      [] bytes = <<2>> -> <<2, 6>>
      [] OTHER -> <<>>

\* embenet_brt.c:32, 84-97, 224-240: the checksum is that of HDLC.  The table
\* and its use agree with the CRC computed bit by bit, in all 256 entries, for
\* the check string, and for every packet that is sent; an error in them would be
\* the same at both ends of a link between nodes and never seen there.
ChecksumIsCrc16 ==
    /\ TableIsCrc16 /\ CheckStringGood
    /\ \A i \in DOMAIN sent :
          [packet |-> sent[i].data, fcs |-> Fcs(sent[i].data)] \in MCHdlcChecksum

=============================================================================
