----------------------------- MODULE BrtProofs -----------------------------
(***************************************************************************)
(* For any packets, rings and checksum the framing of the link recovers    *)
(* from whatever bytes are lost, and if the checksum detects every error   *)
(* the link is the channel that embenet_brt.h promises.                    *)
(***************************************************************************)
EXTENDS Brt, SequenceTheorems, TLAPS

----------------------------------------------------------------------------
(* The places of the line.                                                 *)

\* The order in which bytes are written.
Before(p, q) ==
    \/ p.no < q.no
    \/ p.no = q.no /\ (p.at < q.at \/ (p.at = q.at /\ p.part < q.part))

\* The last byte of a packet is never escaped.
LastPlace(no) == Place(no, Len(Frame(sent[no])))

InRings(p) == (\E i \in DOMAIN rxRing : rxRing[i] = p) \/ (\E i \in DOMAIN txRing : txRing[i] = p)

\* The byte to be written next is one of the last packet's, or it is all written.
NextOK ==
    \/ sent = <<>> /\ next = Place(0, 1)
    \/ /\ sent # <<>> /\ next.no = Len(sent)
       /\ OnLine(next) \/ next = Place(next.no, Len(Frame(sent[next.no])) + 1)

TInv == TypeOK /\ NextOK

\* The bytes on the line are in the order in which they were written.
Ordered ==
    /\ \A i, j \in DOMAIN rxRing : i < j => Before(rxRing[i], rxRing[j])
    /\ \A i, j \in DOMAIN txRing : i < j => Before(txRing[i], txRing[j])
    /\ \A i \in DOMAIN rxRing, j \in DOMAIN txRing : Before(rxRing[i], txRing[j])
    /\ \A p : InRings(p) => Before(current, p) /\ Before(p, next)
    /\ Before(current, next)

\* What has been written of an intact packet and not been read is on the line.
Complete ==
    \A p : OnLine(p) /\ p.no \in Intact /\ Before(current, p) /\ Before(p, next) => InRings(p)

----------------------------------------------------------------------------
(* The receiver.                                                           *)

\* lastDataByte is the byte read last, unless the receiver has been reset.
LastByte ==
    /\ receiving => current.no # 0 /\ lastDataByte = ByteAt(current)
    /\ current.no \in Intact => lastDataByte = ByteAt(current)

\* The first packet, or one that follows an intact one.
Fits(no) == no \in Intact /\ (no = 1 \/ no - 1 \in Intact)

\* The bytes of a frame that the receiver holds after it has read a place.
Decoded(p) ==
    IF p.at = 1 THEN 0
    ELSE IF Escapes(sent[p.no], p.at) /\ p.part = 1 THEN p.at - 2 ELSE p.at - 1

\* In such a packet the receiver knows where it is.
Synchronized ==
    Fits(current.no) =>
        IF current = LastPlace(current.no) THEN ~receiving
        ELSE /\ receiving /\ Len(inputFrame) = Decoded(current)
             /\ \A j \in 1 .. Decoded(current) : inputFrame[j] = Frame(sent[current.no])[j + 1]

\* Once its last byte has been read it has been delivered.
Arrived ==
    \A i \in DOMAIN sent : Fits(i) /\ (i < current.no \/ current = LastPlace(i)) =>
        \E j \in DOMAIN delivered : delivered[j] = [packet |-> sent[i].data, no |-> i]

\* A packet is delivered with its last byte or one of a later packet.
Numbers ==
    \A j \in DOMAIN delivered :
        /\ delivered[j].no \in DOMAIN sent /\ delivered[j].no =< current.no
        /\ delivered[j].no = current.no => sent[current.no].kind = "raw" \/ current = LastPlace(current.no)

\* What is delivered is in the order of what was sent, and only a raw chunk can
\* hold more than one packet.
DeliveredInOrder ==
    \A j, k \in DOMAIN delivered : j < k =>
        \/ delivered[j].no < delivered[k].no
        \/ delivered[j].no = delivered[k].no /\ sent[delivered[k].no].kind = "raw"

Line == Ordered /\ Complete
Receiver == LastByte /\ Synchronized /\ Numbers /\ DeliveredInOrder

IInv == TInv /\ Line /\ Receiver

----------------------------------------------------------------------------
(* Frames.                                                                 *)

\* Numbers that are sent, and what they stand for.
LEMMA SentFacts ==
    ASSUME sent \in Seq(Item)
    PROVE  /\ Len(sent) \in Nat /\ DOMAIN sent = 1 .. Len(sent)
           /\ \A no \in DOMAIN sent :
                 /\ sent[no] \in Item
                 /\ sent[no].kind # "packet" => sent[no].kind = "raw"
<1>1. \A no \in DOMAIN sent : sent[no] \in Item
  OBVIOUS
<1> QED BY <1>1 DEF Item

LEMMA ConcatFacts ==
    ASSUME NEW s \in Seq(Nat), NEW t \in Seq(Nat)
    PROVE  /\ s \o t \in Seq(Nat) /\ Len(s \o t) = Len(s) + Len(t)
           /\ Len(s) \in Nat /\ Len(t) \in Nat /\ DOMAIN (s \o t) = 1 .. Len(s) + Len(t)
           /\ \A j \in 1 .. Len(s) : (s \o t)[j] = s[j]
           /\ \A j \in 1 .. Len(t) : (s \o t)[Len(s) + j] = t[j]
<1>1. \A j \in 1 .. Len(t) : (s \o t)[Len(s) + j] = t[Len(s) + j - Len(s)]
  OBVIOUS
<1> QED BY <1>1

\* A packet between two flags, its checksum behind it.
LEMMA FrameFacts ==
    ASSUME NEW item \in Item, item.kind = "packet"
    PROVE  /\ item.data \in Seq(Nat) /\ Fcs(item.data) \in Seq(Nat)
           /\ Len(item.data) \in Nat /\ Len(item.data) > 0 /\ Len(Fcs(item.data)) = 2
           /\ Len(item.data) + 2 =< MaxFrameSize
           /\ Frame(item) \in Seq(Nat) /\ Len(Frame(item)) = Len(item.data) + 4
           /\ DOMAIN Frame(item) = 1 .. Len(item.data) + 4
           /\ Frame(item)[1] = HDLC_FLAG /\ Frame(item)[Len(item.data) + 4] = HDLC_FLAG
           /\ \A j \in 1 .. Len(item.data) : Frame(item)[j + 1] = item.data[j]
           /\ \A j \in 1 .. 2 : Frame(item)[Len(item.data) + 1 + j] = Fcs(item.data)[j]
<1> DEFINE p == item.data
           f == Fcs(item.data)
           flag == <<HDLC_FLAG>>
           a == flag \o p
           b == a \o f
<1>1. p \in Packet
  BY DEF Item
<1>2. p \in Seq(Nat) /\ f \in Seq(Nat) /\ Len(p) \in Nat /\ Len(p) > 0 /\ Len(f) = 2
      /\ Len(p) + 2 =< MaxFrameSize
  BY <1>1, PacketAssumption
<1>3. flag \in Seq(Nat) /\ Len(flag) = 1 /\ flag[1] = HDLC_FLAG
  BY HdlcAssumption
<1>4. Frame(item) = b \o flag
  BY DEF Frame
<1> HIDE DEF p, f, flag
<1>5. /\ a \in Seq(Nat) /\ Len(a) = Len(p) + 1 /\ a[1] = HDLC_FLAG
      /\ \A j \in 1 .. Len(p) : a[1 + j] = p[j]
  <2>1. /\ flag \o p \in Seq(Nat) /\ Len(flag \o p) = Len(flag) + Len(p)
        /\ \A j \in 1 .. Len(flag) : (flag \o p)[j] = flag[j]
        /\ \A j \in 1 .. Len(p) : (flag \o p)[Len(flag) + j] = p[j]
    BY <1>2, <1>3, ConcatFacts
  <2>2. (flag \o p)[1] = flag[1]
    BY <1>3, <2>1
  <2> QED BY <1>2, <1>3, <2>1, <2>2
<1> HIDE DEF a
<1>6. /\ b \in Seq(Nat) /\ Len(b) = Len(p) + 3 /\ \A j \in 1 .. Len(p) + 1 : b[j] = a[j]
      /\ \A j \in 1 .. 2 : b[Len(p) + 1 + j] = f[j]
  <2>1. /\ b \in Seq(Nat) /\ Len(b) = Len(a) + Len(f) /\ \A j \in 1 .. Len(a) : b[j] = a[j]
        /\ \A j \in 1 .. Len(f) : b[Len(a) + j] = f[j]
    BY <1>2, <1>5, ConcatFacts
  <2> QED BY <1>2, <1>5, <2>1
<1> HIDE DEF b
<1>7. /\ Frame(item) \in Seq(Nat) /\ Len(Frame(item)) = Len(p) + 4
      /\ DOMAIN Frame(item) = 1 .. Len(p) + 4
      /\ \A j \in 1 .. Len(p) + 3 : Frame(item)[j] = b[j]
      /\ Frame(item)[Len(p) + 4] = HDLC_FLAG
  <2>1. /\ b \o flag \in Seq(Nat) /\ Len(b \o flag) = Len(b) + Len(flag)
        /\ DOMAIN (b \o flag) = 1 .. Len(b) + Len(flag)
        /\ \A j \in 1 .. Len(b) : (b \o flag)[j] = b[j]
        /\ \A j \in 1 .. Len(flag) : (b \o flag)[Len(b) + j] = flag[j]
    BY <1>3, <1>6, ConcatFacts
  <2>2. (b \o flag)[Len(b) + 1] = flag[1]
    BY <1>3, <2>1
  <2> QED BY <1>2, <1>3, <1>4, <1>6, <2>1, <2>2
<1>8. Frame(item)[1] = HDLC_FLAG
  <2>1. 1 \in 1 .. Len(p) + 1 /\ 1 \in 1 .. Len(p) + 3
    BY <1>2
  <2> QED BY <1>5, <1>6, <1>7, <2>1
<1>9. ASSUME NEW j \in 1 .. Len(p) PROVE Frame(item)[j + 1] = p[j]
  <2>1. j + 1 \in 1 .. Len(p) + 1 /\ j + 1 \in 1 .. Len(p) + 3 /\ j + 1 = 1 + j
    BY <1>2
  <2> QED BY <1>5, <1>6, <1>7, <2>1
<1>10. ASSUME NEW j \in 1 .. 2 PROVE Frame(item)[Len(p) + 1 + j] = f[j]
  <2>1. Len(p) + 1 + j \in 1 .. Len(p) + 3
    BY <1>2
  <2> QED BY <1>6, <1>7, <2>1
<1> QED BY <1>2, <1>7, <1>8, <1>9, <1>10 DEF p, f

\* Byte has the bytes of packets, checksums and raw chunks.
LEMMA ByteFacts ==
    /\ HDLC_FLAG \in Byte /\ HDLC_ESCAPE \in Byte
    /\ XorMask(HDLC_FLAG) \in Byte /\ XorMask(HDLC_ESCAPE) \in Byte
    /\ \A p \in Packet : /\ \A j \in DOMAIN p : p[j] \in Byte
                         /\ \A j \in DOMAIN Fcs(p) : Fcs(p)[j] \in Byte
    /\ \A r \in Raw : \A j \in DOMAIN r : r[j] \in Byte
<1>1. ASSUME NEW p \in Packet PROVE Range(p) \cup Range(Fcs(p)) \subseteq Byte
  BY DEF Byte
<1>2. ASSUME NEW r \in Raw PROVE Range(r) \subseteq Byte
  BY DEF Byte
<1>3. \A f : \A j \in DOMAIN f : f[j] \in Range(f)
  BY DEF Range
<1>4. /\ HDLC_FLAG \in Byte /\ HDLC_ESCAPE \in Byte
      /\ XorMask(HDLC_FLAG) \in Byte /\ XorMask(HDLC_ESCAPE) \in Byte
  BY DEF Byte
<1> QED BY <1>1, <1>2, <1>3, <1>4

\* The frame of what has been sent is a sequence of bytes.
LEMMA FrameBytes ==
    ASSUME NEW item \in Item
    PROVE  /\ Frame(item) \in Seq(Nat) /\ Len(Frame(item)) \in Nat
           /\ DOMAIN Frame(item) = 1 .. Len(Frame(item))
           /\ \A at \in DOMAIN Frame(item) : Frame(item)[at] \in Byte
<1>1. CASE item.kind = "raw"
  <2>1. item.data \in Raw /\ Frame(item) = item.data
    BY <1>1 DEF Item, Frame
  <2>2. item.data \in Seq(Nat)
    BY <2>1, PacketAssumption
  <2> QED BY <2>1, <2>2, ByteFacts
<1>2. CASE item.kind = "packet"
  <2> DEFINE p == item.data
  <2>1. p \in Packet
    BY <1>2 DEF Item
  <2>2. p \in Seq(Nat) /\ Fcs(p) \in Seq(Nat) /\ Len(Fcs(p)) = 2 /\ Len(p) \in Nat
    BY <1>2, FrameFacts
  <2>3. \A j \in 1 .. Len(p) : p[j] \in Byte
    BY <2>1, <2>2, ByteFacts
  <2>4. \A j \in 1 .. 2 : Fcs(p)[j] \in Byte
    BY <2>1, <2>2, ByteFacts
  <2>5. ASSUME NEW at \in 1 .. Len(p) + 4 PROVE Frame(item)[at] \in Byte
    <3>1. CASE at = 1 \/ at = Len(p) + 4
      BY <1>2, <3>1, FrameFacts, ByteFacts
    <3>2. CASE at - 1 \in 1 .. Len(p)
      <4>1. Frame(item)[at - 1 + 1] = p[at - 1]
        BY <1>2, <3>2, FrameFacts
      <4> QED BY <2>2, <2>3, <3>2, <4>1
    <3>3. ASSUME NEW j \in 1 .. 2, at = Len(p) + 1 + j PROVE Frame(item)[at] \in Byte
      BY <1>2, <2>4, <3>3, FrameFacts
    <3>4. \/ at = 1 \/ at = Len(p) + 4 \/ at - 1 \in 1 .. Len(p)
          \/ \E j \in 1 .. 2 : at = Len(p) + 1 + j
      <4> HIDE DEF p
      <4>1. at = Len(p) + 2 \/ at = Len(p) + 3 \/ at = 1 \/ at = Len(p) + 4 \/ at - 1 \in 1 .. Len(p)
        BY <2>2
      <4>2. 1 \in 1 .. 2 /\ 2 \in 1 .. 2
        OBVIOUS
      <4> QED BY <2>2, <4>1, <4>2
    <3> QED BY <3>1, <3>2, <3>3, <3>4
  <2>6. Frame(item) \in Seq(Nat) /\ Len(Frame(item)) = Len(p) + 4
        /\ DOMAIN Frame(item) = 1 .. Len(p) + 4
    BY <1>2, FrameFacts
  <2> QED BY <2>2, <2>5, <2>6
<1> QED BY <1>1, <1>2 DEF Item

----------------------------------------------------------------------------
(* Places.                                                                 *)

\* A place is a record of numbers.
LEMMA PlaceRecord ==
    /\ \A p \in Places : /\ p = [no |-> p.no, at |-> p.at, part |-> p.part]
                         /\ p.no \in Nat /\ p.no =< MaxPackets /\ p.at \in Nat /\ p.part \in Nat
                         /\ p.part = 1 \/ p.part = 2
    /\ \A no \in 0 .. MaxPackets, at \in Nat :
          Place(no, at) \in Places /\ [no |-> no, at |-> at, part |-> 2] \in Places
BY SizeAssumption DEF Places, Place

\* A place is one of a byte that has been sent.
LEMMA PlaceFacts ==
    ASSUME sent \in Seq(Item), NEW p, OnLine(p)
    PROVE  /\ p.no \in DOMAIN sent /\ p.no \in Nat /\ p.no >= 1 /\ p.no =< Len(sent)
           /\ p.at \in Nat /\ p.at >= 1 /\ p.at =< Len(Frame(sent[p.no]))
           /\ p.part \in 1 .. 2 /\ sent[p.no] \in Item /\ Len(Frame(sent[p.no])) \in Nat
           /\ ByteAt(p) \in Byte
<1>1. /\ p.no \in DOMAIN sent /\ p.no \in Nat /\ p.no >= 1 /\ p.no =< Len(sent) /\ sent[p.no] \in Item
  BY SentFacts DEF OnLine
<1>2. /\ p.at \in Nat /\ p.at >= 1 /\ p.at =< Len(Frame(sent[p.no]))
      /\ Len(Frame(sent[p.no])) \in Nat /\ Frame(sent[p.no])[p.at] \in Byte
  BY <1>1, FrameBytes DEF OnLine
<1>3. p.part \in 1 .. 2
  BY PlaceRecord DEF OnLine
<1>4. ByteAt(p) \in Byte
  BY <1>2, ByteFacts DEF ByteAt, Escapes
<1> QED BY <1>1, <1>2, <1>3, <1>4

\* In a packet only the bytes at the ends are flags, and only the first of two
\* bytes is the escape byte.
LEMMA PacketPlace ==
    ASSUME sent \in Seq(Item), NEW p, OnLine(p), sent[p.no].kind = "packet"
    PROVE  /\ ByteAt(p) = HDLC_FLAG <=> p.at = 1 \/ p.at = Len(Frame(sent[p.no]))
           /\ p.at = 1 \/ p.at = Len(Frame(sent[p.no])) =>
                 p.part = 1 /\ ~Escapes(sent[p.no], p.at)
           /\ ByteAt(p) = HDLC_ESCAPE <=> Escapes(sent[p.no], p.at) /\ p.part = 1
           /\ Escapes(sent[p.no], p.at) /\ p.part # 1 =>
                 XorMask(ByteAt(p)) = Frame(sent[p.no])[p.at]
           /\ ~Escapes(sent[p.no], p.at) => p.part = 1 /\ ByteAt(p) = Frame(sent[p.no])[p.at]
<1> DEFINE f == Frame(sent[p.no])
           n == Len(f)
           e == Escapes(sent[p.no], p.at)
<1>1. f[1] = HDLC_FLAG /\ f[n] = HDLC_FLAG
  BY PlaceFacts, FrameFacts
<1>2. p.part = 1 \/ (p.part = 2 /\ e)
  BY PlaceRecord DEF OnLine
<1>3. e <=> p.at # 1 /\ p.at # n /\ f[p.at] \in {HDLC_FLAG, HDLC_ESCAPE}
  BY DEF Escapes
<1>4. ByteAt(p) = IF ~e THEN f[p.at] ELSE IF p.part = 2 THEN XorMask(f[p.at]) ELSE HDLC_ESCAPE
  BY DEF ByteAt
<1> HIDE DEF f, n, e
<1>5. CASE e
  BY <1>2, <1>3, <1>4, <1>5, EscapeAssumption, HdlcAssumption DEF f, n, e
<1>6. CASE ~e
  BY <1>1, <1>2, <1>3, <1>4, <1>6, HdlcAssumption DEF f, n, e
<1> QED BY <1>5, <1>6

\* Bytes are written in the order of their places.
LEMMA SuccFacts ==
    ASSUME sent \in Seq(Item), NEW p, OnLine(p)
    PROVE  /\ Before(p, Succ(p)) /\ Succ(p).no = p.no
           /\ \A q : OnLine(q) /\ Before(q, Succ(p)) => Before(q, p) \/ q = p
           /\ \A q : OnLine(q) /\ Before(p, q) => Before(Succ(p), q) \/ q = Succ(p)
           /\ OnLine(Succ(p)) \/ Succ(p) = Place(p.no, Len(Frame(sent[p.no])) + 1)
<1> DEFINE e == Escapes(sent[p.no], p.at)
<1>1. \A q : OnLine(q) =>
         /\ q = [no |-> q.no, at |-> q.at, part |-> q.part]
         /\ q.no \in Nat /\ q.at \in Nat /\ q.part \in 1 .. 2
         /\ q.part = 1 \/ Escapes(sent[q.no], q.at)
  BY PlaceFacts, PlaceRecord DEF OnLine
<1>2. CASE e /\ p.part = 1
  <2>1. Succ(p) = [no |-> p.no, at |-> p.at, part |-> 2]
    BY <1>1, <1>2 DEF Succ
  <2>2. OnLine(Succ(p))
    <3>1. p \in Places /\ p.no \in 0 .. MaxPackets /\ p.at \in Nat
      BY SizeAssumption, PlaceRecord DEF OnLine
    <3>2. Succ(p) \in Places
      BY <2>1, <3>1, PlaceRecord
    <3> QED BY <1>2, <2>1, <3>2 DEF OnLine
  <2>3. Before(p, Succ(p)) /\ Succ(p).no = p.no
    BY <1>2, <2>1 DEF Before
  <2>4. ASSUME NEW q, OnLine(q), Before(q, Succ(p)) PROVE Before(q, p) \/ q = p
    <3>1. CASE q.no = p.no /\ q.at = p.at
      BY <1>1, <1>2, <2>1, <2>4, <3>1 DEF Before
    <3> QED BY <2>1, <2>4, <3>1 DEF Before
  <2>5. ASSUME NEW q, OnLine(q), Before(p, q) PROVE Before(Succ(p), q) \/ q = Succ(p)
    <3>1. CASE q.no = p.no /\ q.at = p.at
      BY <1>1, <1>2, <2>1, <2>5, <3>1 DEF Before
    <3> QED BY <2>1, <2>5, <3>1 DEF Before
  <2> QED BY <2>2, <2>3, <2>4, <2>5
<1>3. CASE ~(e /\ p.part = 1)
  <2>1. Succ(p) = [no |-> p.no, at |-> p.at + 1, part |-> 1]
    BY <1>3 DEF Succ, Place
  <2>2. OnLine(Succ(p)) \/ Succ(p) = Place(p.no, Len(Frame(sent[p.no])) + 1)
    <3>1. p.at + 1 \in DOMAIN Frame(sent[p.no]) \/ p.at = Len(Frame(sent[p.no]))
      BY PlaceFacts, FrameBytes
    <3>2. p \in Places /\ p.no \in 0 .. MaxPackets /\ p.at + 1 \in Nat
      BY SizeAssumption, PlaceRecord DEF OnLine
    <3>3. Succ(p) \in Places
      BY <2>1, <3>2, PlaceRecord DEF Place
    <3> QED BY <2>1, <3>1, <3>3 DEF OnLine, Place
  <2>3. e => p.part = 2
    BY <1>1, <1>3
  <2>4. \A q : OnLine(q) /\ q.no = p.no /\ q.at = p.at /\ ~e => q.part = 1
    BY <1>1
  <2>5. p.part # 1 => e
    BY <1>1
  <2>6. Before(p, Succ(p)) /\ Succ(p).no = p.no
    BY <1>1, <2>1 DEF Before
  <2>7. ASSUME NEW q, OnLine(q), Before(q, Succ(p)) PROVE Before(q, p) \/ q = p
    <3>1. q.no < p.no \/ (q.no = p.no /\ (q.at < p.at \/ q.at = p.at))
      BY <1>1, <2>1, <2>7 DEF Before
    <3>2. q.no = p.no /\ q.at = p.at => Before(q, p) \/ q = p
      BY <1>1, <2>3, <2>4, <2>5, <2>7 DEF Before
    <3> QED BY <3>1, <3>2 DEF Before
  <2>8. ASSUME NEW q, OnLine(q), Before(p, q) PROVE Before(Succ(p), q) \/ q = Succ(p)
    <3>1. p.no < q.no \/ (q.no = p.no /\ (p.at < q.at \/ q.at = p.at))
      BY <2>8 DEF Before
    <3>2. ~(q.no = p.no /\ q.at = p.at)
      BY <1>1, <2>3, <2>4, <2>5, <2>8 DEF Before
    <3>3. CASE p.no < q.no
      BY <2>1, <3>3 DEF Before
    <3>4. CASE q.no = p.no /\ p.at < q.at
      <4>0. p.at \in Nat /\ q.at \in Nat
        BY <1>1, <2>8
      <4>1. q.at = p.at + 1 \/ p.at + 1 < q.at
        BY <3>4, <4>0
      <4>2. CASE p.at + 1 < q.at
        BY <2>1, <3>4, <4>2 DEF Before
      <4>3. CASE q.at = p.at + 1 /\ q.part = 1
        BY <1>1, <2>1, <2>8, <3>4, <4>3
      <4>4. CASE q.at = p.at + 1 /\ q.part = 2
        BY <2>1, <3>4, <4>4 DEF Before
      <4> QED BY <1>1, <2>8, <4>1, <4>2, <4>3, <4>4
    <3> QED BY <3>1, <3>2, <3>3, <3>4
  <2> QED BY <2>2, <2>6, <2>7, <2>8
<1> QED BY <1>2, <1>3

\* What is sent later does not change the places of what has been sent.
LEMMA AppendKeepsPlaces ==
    ASSUME sent \in Seq(Item), NEW item \in Item, sent' = Append(sent, item)
    PROVE  /\ sent' \in Seq(Item) /\ Len(sent') = Len(sent) + 1
           /\ DOMAIN sent' = DOMAIN sent \cup {Len(sent) + 1} /\ sent'[Len(sent) + 1] = item
           /\ \A no \in DOMAIN sent : sent'[no] = sent[no]
           /\ \A p : OnLine(p) => OnLine(p)' /\ ByteAt(p)' = ByteAt(p)
           /\ \A p : OnLine(p)' /\ p.no \in DOMAIN sent => OnLine(p)
<1>1. /\ sent' \in Seq(Item) /\ Len(sent') = Len(sent) + 1
      /\ DOMAIN sent' = DOMAIN sent \cup {Len(sent) + 1} /\ sent'[Len(sent) + 1] = item
      /\ \A no \in DOMAIN sent : sent'[no] = sent[no]
  OBVIOUS
<1>2. \A p : p.no \in DOMAIN sent => (OnLine(p)' <=> OnLine(p)) /\ ByteAt(p)' = ByteAt(p)
  BY <1>1 DEF OnLine, ByteAt
<1>3. \A p : OnLine(p) => p.no \in DOMAIN sent
  BY DEF OnLine
<1> QED BY <1>1, <1>2, <1>3

----------------------------------------------------------------------------
(* Rings.                                                                  *)

\* A ring without the bytes that were taken from it.
LEMMA RestFacts ==
    ASSUME NEW S, NEW s \in Seq(S), NEW n \in 0 .. Len(s)
    PROVE  /\ SubSeq(s, n + 1, Len(s)) \in Seq(S)
           /\ Len(SubSeq(s, n + 1, Len(s))) = Len(s) - n
           /\ DOMAIN SubSeq(s, n + 1, Len(s)) = 1 .. Len(s) - n
           /\ \A i \in 1 .. Len(s) - n : SubSeq(s, n + 1, Len(s))[i] = s[n + i]
<1> DEFINE r == SubSeq(s, n + 1, Len(s))
<1>1. Len(s) \in Nat /\ n \in Nat /\ n =< Len(s)
  OBVIOUS
<1>2. \A i \in n + 1 .. Len(s) : s[i] \in S
  BY <1>1
<1>3. /\ r \in Seq(S) /\ Len(r) = IF n + 1 =< Len(s) THEN Len(s) - (n + 1) + 1 ELSE 0
      /\ \A i \in 1 .. Len(s) - (n + 1) + 1 : r[i] = s[n + 1 + i - 1]
  BY <1>1, <1>2, SubSeqProperties
<1> HIDE DEF r
<1>4. Len(r) = Len(s) - n /\ DOMAIN r = 1 .. Len(s) - n
  BY <1>1, <1>3
<1>5. ASSUME NEW i \in 1 .. Len(s) - n PROVE r[i] = s[n + i]
  <2>1. i \in 1 .. Len(s) - (n + 1) + 1 /\ n + 1 + i - 1 = n + i
    BY <1>1
  <2> QED BY <1>3, <2>1
<1> QED BY <1>3, <1>4, <1>5 DEF r

\* A ring without its first byte.
LEMMA TailFacts ==
    ASSUME NEW S, NEW s \in Seq(S), s # <<>>
    PROVE  /\ Head(s) = s[1] /\ 1 \in DOMAIN s /\ Head(s) \in S
           /\ Tail(s) \in Seq(S) /\ Len(Tail(s)) = Len(s) - 1 /\ DOMAIN Tail(s) = 1 .. Len(s) - 1
           /\ \A i \in 1 .. Len(s) - 1 : Tail(s)[i] = s[i + 1] /\ i + 1 \in DOMAIN s
           /\ \A i \in DOMAIN s : i = 1 \/ (i - 1 \in DOMAIN Tail(s) /\ Tail(s)[i - 1] = s[i])
<1>1. Head(s) = s[1] /\ 1 \in DOMAIN s /\ Head(s) \in S /\ Len(s) \in Nat /\ DOMAIN s = 1 .. Len(s)
  OBVIOUS
<1>2. /\ Tail(s) \in Seq(S) /\ Len(Tail(s)) = Len(s) - 1
      /\ \A i \in 1 .. Len(Tail(s)) : Tail(s)[i] = s[i + 1]
  BY HeadTailProperties
<1>3. DOMAIN Tail(s) = 1 .. Len(s) - 1
  BY <1>2
<1>4. \A i \in 1 .. Len(s) - 1 : Tail(s)[i] = s[i + 1] /\ i + 1 \in DOMAIN s
  BY <1>1, <1>2
<1>5. ASSUME NEW i \in DOMAIN s, i # 1
      PROVE  i - 1 \in DOMAIN Tail(s) /\ Tail(s)[i - 1] = s[i]
  <2>1. i - 1 \in 1 .. Len(s) - 1 /\ i - 1 + 1 = i
    BY <1>1, <1>5
  <2> QED BY <1>2, <1>3, <2>1
<1> QED BY <1>1, <1>2, <1>3, <1>4, <1>5

\* A ring with one more byte.
LEMMA AppendFacts ==
    ASSUME NEW S, NEW s \in Seq(S), NEW e \in S
    PROVE  /\ Append(s, e) \in Seq(S) /\ Len(Append(s, e)) = Len(s) + 1
           /\ DOMAIN Append(s, e) = DOMAIN s \cup {Len(s) + 1}
           /\ Append(s, e)[Len(s) + 1] = e
           /\ Len(s) + 1 \notin DOMAIN s /\ Len(s) \in Nat /\ DOMAIN s = 1 .. Len(s)
           /\ \A i \in DOMAIN s : Append(s, e)[i] = s[i]
OBVIOUS

----------------------------------------------------------------------------
(* Types.                                                                  *)

\* Bytes are written one after another.
LEMMA WritingFacts ==
    ASSUME TInv
    PROVE  /\ Writing => OnLine(next) /\ next.no = Len(sent)
           /\ ~Writing => sent = <<>> \/ next = Place(Len(sent), Len(Frame(sent[Len(sent)])) + 1)
<1>1. CASE sent = <<>> /\ next = Place(0, 1)
  BY <1>1 DEF Writing, Place
<1>2. CASE sent # <<>> /\ next.no = Len(sent) /\ OnLine(next)
  <2>1. next.no # 0 /\ next.at =< Len(Frame(sent[next.no]))
    BY <1>2, PlaceFacts DEF TInv, TypeOK, LineOK
  <2> QED BY <1>2, <2>1 DEF Writing
<1>3. CASE sent # <<>> /\ next.no = Len(sent) /\ next = Place(next.no, Len(Frame(sent[next.no])) + 1)
  <2>1. next.at = Len(Frame(sent[next.no])) + 1
    BY <1>3 DEF Place
  <2>2. next.no \in DOMAIN sent
    BY <1>3 DEF TInv, TypeOK, LineOK
  <2>3. Len(Frame(sent[next.no])) \in Nat
    BY <2>2, SentFacts, FrameBytes DEF TInv, TypeOK, LineOK
  <2> QED BY <1>3, <2>1, <2>3 DEF Writing
<1> QED BY <1>1, <1>2, <1>3 DEF TInv, NextOK

LEMMA InitTInv == Init => TInv
<1> SUFFICES ASSUME Init PROVE TInv
  OBVIOUS
<1>1. sent = <<>> /\ txRing = <<>> /\ rxRing = <<>> /\ inputFrame = <<>> /\ delivered = <<>>
  BY DEF Init
<1>2. MaxFrameSize \in Nat /\ TxRing \in Nat /\ RxRing \in Nat /\ MaxPackets \in Nat /\ MaxResets \in Nat
  BY PacketAssumption, SizeAssumption
<1>3. TypeOK
  <2>1. sent \in Seq(Item) /\ Len(sent) = 0 /\ txRing \in Seq(Places) /\ Len(txRing) = 0
        /\ rxRing \in Seq(Places) /\ Len(rxRing) = 0 /\ DOMAIN txRing = {} /\ DOMAIN rxRing = {}
    BY <1>1
  <2>2. inputFrame \in Seq(Stored) /\ Len(inputFrame) = 0
        /\ delivered \in Seq([packet : Seq(Stored), no : 0 .. MaxPackets])
    BY <1>1
  <2>3. resets \in 0 .. MaxResets
    BY <1>2 DEF Init
  <2>4. open \in BOOLEAN /\ receiving \in BOOLEAN
    BY DEF Init
  <2>5. lastDataByte = 0 /\ damaged = {} /\ current = Place(0, 0)
    BY DEF Init
  <2> QED BY <1>2, <2>1, <2>2, <2>3, <2>4, <2>5 DEF TypeOK, LineOK, DecoderOK
<1>4. NextOK
  BY DEF Init, NextOK
<1> QED BY <1>3, <1>4 DEF TInv

\* What is sent gets a new number.
LEMMA SendTInv ==
    ASSUME TInv, NEW item \in Item, Len(sent) < MaxPackets,
           sent' = Append(sent, item), next' = Place(Len(sent'), 1),
           UNCHANGED <<txRing, receiver, decoder, delivered, damaged, current>>
    PROVE  TInv'
<1>1. LineOK /\ DecoderOK /\ sent \in Seq(Item) /\ Len(sent) =< MaxPackets /\ Len(sent) \in Nat
  BY DEF TInv, TypeOK, LineOK
<1>2. /\ sent' \in Seq(Item) /\ Len(sent') = Len(sent) + 1
      /\ DOMAIN sent' = DOMAIN sent \cup {Len(sent) + 1} /\ sent'[Len(sent) + 1] = item
      /\ \A p : OnLine(p) => OnLine(p)'
  BY <1>1, AppendKeepsPlaces
<1>3. LineOK'
  <2>1. Len(sent') =< MaxPackets
    BY <1>1, <1>2, SizeAssumption
  <2> QED BY <1>1, <1>2, <2>1 DEF LineOK, receiver
<1>4. DecoderOK'
  BY <1>1 DEF DecoderOK, decoder
<1>5. NextOK'
  <2>1. next' = Place(Len(sent) + 1, 1) /\ Len(sent) + 1 \in 0 .. MaxPackets
    BY <1>1, <1>2, SizeAssumption
  <2>2. next' \in Places /\ next'.no = Len(sent) + 1 /\ next'.at = 1 /\ next'.part = 1
    <3>1. 1 \in Nat
      OBVIOUS
    <3>2. Place(Len(sent) + 1, 1) \in Places
      BY <2>1, <3>1, PlaceRecord
    <3> QED BY <2>1, <3>2 DEF Place
  <2>3. Frame(item) \in Seq(Nat) /\ Len(Frame(item)) \in Nat /\ DOMAIN Frame(item) = 1 .. Len(Frame(item))
    BY FrameBytes
  <2>4. CASE Len(Frame(item)) = 0
    BY <1>2, <2>1, <2>2, <2>4 DEF NextOK
  <2>5. CASE Len(Frame(item)) > 0
    <3>1. 1 \in DOMAIN Frame(item)
      BY <2>3, <2>5
    <3>2. OnLine(next)'
      BY <1>2, <2>2, <3>1 DEF OnLine
    <3> QED BY <1>2, <2>2, <3>2 DEF NextOK
  <2> QED BY <2>3, <2>4, <2>5
<1> QED BY <1>3, <1>4, <1>5 DEF TInv, TypeOK

LEMMA WriteByteTInv ==
    ASSUME TInv, WriteByte
    PROVE  TInv'
<1>1. LineOK /\ DecoderOK /\ sent \in Seq(Item) /\ NextOK
  BY DEF TInv, TypeOK, LineOK
<1>2. OnLine(next) /\ next \in Places /\ next.no = Len(sent) /\ next.no \in 0 .. MaxPackets
  BY WritingFacts, PlaceRecord, SizeAssumption DEF WriteByte, OnLine
<1>3. \A p : OnLine(p)' <=> OnLine(p)
  BY DEF WriteByte, OnLine
<1>4. LineOK'
  <2>1. CASE Len(txRing) < TxRing
    <3>1. txRing' = Append(txRing, next) /\ damaged' = damaged
      BY <2>1 DEF WriteByte
    <3>2. txRing \in Seq(Places) /\ TxRing \in Nat
      BY <1>1, SizeAssumption DEF LineOK
    <3>3. txRing' \in Seq(Places) /\ Len(txRing') =< TxRing
      BY <1>2, <2>1, <3>1, <3>2, AppendFacts
    <3>4. \A i \in DOMAIN txRing' : OnLine(txRing'[i])
      BY <1>1, <1>2, <3>1, <3>2, AppendFacts DEF LineOK
    <3> QED BY <1>1, <1>3, <3>1, <3>3, <3>4 DEF LineOK, WriteByte, receiver
  <2>2. CASE ~(Len(txRing) < TxRing)
    BY <1>1, <1>2, <1>3, <2>2 DEF LineOK, WriteByte, receiver
  <2> QED BY <2>1, <2>2
<1>5. NextOK'
  <2>1. next' = Succ(next) /\ sent' = sent /\ sent # <<>>
    BY <1>2, PlaceFacts, <1>1 DEF WriteByte
  <2> QED BY <1>1, <1>2, <1>3, <2>1, SuccFacts DEF NextOK
<1> QED BY <1>1, <1>4, <1>5 DEF TInv, TypeOK, DecoderOK, decoder, WriteByte

LEMMA TransferTInv ==
    ASSUME TInv, Transfer
    PROVE  TInv'
<1>1. LineOK /\ DecoderOK /\ NextOK /\ txRing \in Seq(Places) /\ rxRing \in Seq(Places) /\ txRing # <<>>
  BY DEF TInv, TypeOK, LineOK, Transfer
<1>2. \A p : OnLine(p)' <=> OnLine(p)
  BY DEF Transfer, OnLine
<1>3. OnLine(Head(txRing)) /\ Head(txRing) \in Places /\ Head(txRing).no \in 0 .. MaxPackets
  <2>1. OnLine(Head(txRing)) /\ Head(txRing) \in Places
    BY <1>1, TailFacts DEF LineOK
  <2> QED BY <2>1, PlaceRecord, SizeAssumption
<1>4. /\ txRing' \in Seq(Places) /\ Len(txRing') =< TxRing
      /\ \A i \in DOMAIN txRing' : OnLine(txRing'[i])
  <2>1. txRing' = Tail(txRing) /\ TxRing \in Nat /\ Len(txRing) =< TxRing
    BY <1>1, SizeAssumption DEF Transfer, LineOK
  <2> QED BY <1>1, <2>1, TailFacts DEF LineOK
<1>5. /\ rxRing' \in Seq(Places) /\ Len(rxRing') =< RxRing
      /\ \A i \in DOMAIN rxRing' : OnLine(rxRing'[i])
      /\ damaged' \subseteq 0 .. MaxPackets
  <2>1. CASE open /\ Len(rxRing) < RxRing
    <3>1. rxRing' = Append(rxRing, Head(txRing)) /\ damaged' = damaged /\ RxRing \in Nat
      BY <2>1, SizeAssumption DEF Transfer
    <3> QED BY <1>1, <1>3, <2>1, <3>1, AppendFacts DEF LineOK
  <2>2. CASE ~(open /\ Len(rxRing) < RxRing)
    BY <1>1, <1>3, <2>2 DEF Transfer, LineOK
  <2> QED BY <2>1, <2>2
<1>6. LineOK'
  BY <1>1, <1>2, <1>4, <1>5 DEF LineOK, Transfer
<1>7. NextOK'
  BY <1>1, <1>2 DEF NextOK, Transfer
<1> QED BY <1>1, <1>6, <1>7 DEF TInv, TypeOK, DecoderOK, decoder, Transfer

\* Bytes at the head of the ring are lost.
LEMMA LoseTInv ==
    ASSUME TInv, NEW n \in 0 .. Len(rxRing),
           rxRing' = SubSeq(rxRing, n + 1, Len(rxRing)),
           damaged' \subseteq 0 .. MaxPackets, open' \in BOOLEAN, resets' \in 0 .. MaxResets,
           DecoderOK', UNCHANGED <<sender, delivered, current>>
    PROVE  TInv'
<1>1. LineOK /\ NextOK /\ rxRing \in Seq(Places) /\ Len(rxRing) =< RxRing
  BY DEF TInv, TypeOK, LineOK
<1>2. \A p : OnLine(p)' <=> OnLine(p)
  BY DEF OnLine, sender
<1>3. rxRing' \in Seq(Places) /\ Len(rxRing') =< RxRing /\ \A i \in DOMAIN rxRing' : OnLine(rxRing'[i])
  <2>1. /\ rxRing' \in Seq(Places) /\ Len(rxRing') = Len(rxRing) - n
        /\ DOMAIN rxRing' = 1 .. Len(rxRing) - n
        /\ \A i \in 1 .. Len(rxRing) - n : rxRing'[i] = rxRing[n + i]
    BY <1>1, RestFacts
  <2>2. Len(rxRing) \in Nat /\ RxRing \in Nat /\ n \in Nat /\ DOMAIN rxRing = 1 .. Len(rxRing)
    BY <1>1, SizeAssumption
  <2>3. ASSUME NEW i \in DOMAIN rxRing' PROVE OnLine(rxRing'[i])
    <3>1. i \in 1 .. Len(rxRing) - n
      BY <2>1
    <3>2. n + i \in DOMAIN rxRing
      BY <2>2, <3>1
    <3> QED BY <1>1, <2>1, <3>1, <3>2 DEF LineOK
  <2>4. Len(rxRing) - n =< RxRing
    BY <1>1, <2>2
  <2> QED BY <2>1, <2>3, <2>4
<1>4. LineOK'
  BY <1>1, <1>2, <1>3 DEF LineOK, sender
<1>5. NextOK'
  BY <1>1, <1>2 DEF NextOK, sender
<1> QED BY <1>4, <1>5 DEF TInv, TypeOK

\* Which bytes are lost when.
LEMMA LossFacts ==
    ASSUME TInv, (\E size \in RawBufferSize : ReceiveRaw(size)) \/ Close \/ Reset
    PROVE  \E n \in 0 .. Len(rxRing) :
              /\ rxRing' = SubSeq(rxRing, n + 1, Len(rxRing))
              /\ damaged \subseteq damaged' /\ damaged' \subseteq 0 .. MaxPackets
              /\ \A i \in 1 .. n : rxRing[i].no \in damaged'
              /\ decoder' = decoder \/ (current.no \in damaged' /\ receiving' = FALSE)
<1>1. rxRing \in Seq(Places) /\ Len(rxRing) \in Nat /\ DOMAIN rxRing = 1 .. Len(rxRing)
      /\ damaged \subseteq 0 .. MaxPackets /\ current \in Places
  <2>1. Place(0, 0) \in Places
    <3>1. 0 \in 0 .. MaxPackets /\ 0 \in Nat
      BY SizeAssumption
    <3> QED BY <3>1, PlaceRecord
  <2> QED BY <2>1 DEF TInv, TypeOK, LineOK, OnLine
<1>2. (\A i \in DOMAIN rxRing : rxRing[i].no \in 0 .. MaxPackets) /\ current.no \in 0 .. MaxPackets
  BY <1>1, PlaceRecord, SizeAssumption
<1>3. ASSUME NEW size \in RawBufferSize, ReceiveRaw(size)
      PROVE  \E n \in 0 .. Len(rxRing) :
                /\ rxRing' = SubSeq(rxRing, n + 1, Len(rxRing))
                /\ damaged' = damaged \cup {rxRing[i].no : i \in 1 .. n} /\ decoder' = decoder
  <2>1. size \in Nat
    BY SizeAssumption
  <2> DEFINE fit == IF size = 0 THEN 1 ELSE size
             n == IF fit < Len(rxRing) THEN fit ELSE Len(rxRing)
  <2>2. n \in 0 .. Len(rxRing)
    BY <1>1, <2>1
  <2>3. /\ rxRing' = SubSeq(rxRing, n + 1, Len(rxRing))
        /\ damaged' = damaged \cup {rxRing[i].no : i \in 1 .. n} /\ decoder' = decoder
    BY <1>3 DEF ReceiveRaw, decoder
  <2> HIDE DEF n
  <2> QED BY <2>2, <2>3
<1>4. CASE Close \/ Reset
  <2>1. rxRing' = <<>> /\ damaged' = damaged \cup {current.no} \cup {rxRing[i].no : i \in DOMAIN rxRing}
    BY <1>4 DEF Close, Reset, LoseInput
  <2>2. SubSeq(rxRing, Len(rxRing) + 1, Len(rxRing)) = <<>>
    <3>1. Len(rxRing) + 1 \in Int /\ Len(rxRing) \in Int /\ Len(rxRing) < Len(rxRing) + 1
      BY <1>1
    <3> QED BY <3>1, SubSeqEmpty
  <2>3. Len(rxRing) \in 0 .. Len(rxRing) /\ 1 .. Len(rxRing) = DOMAIN rxRing
    BY <1>1
  <2>4. /\ damaged \subseteq damaged' /\ damaged' \subseteq 0 .. MaxPackets
        /\ \A i \in 1 .. Len(rxRing) : rxRing[i].no \in damaged'
        /\ current.no \in damaged'
    BY <1>1, <1>2, <2>1, <2>3
  <2>5. decoder' = decoder \/ receiving' = FALSE
    BY <1>4 DEF Close, Reset
  <2> QED BY <2>1, <2>2, <2>3, <2>4, <2>5
<1>5. CASE \E size \in RawBufferSize : ReceiveRaw(size)
  <2>1. PICK n \in 0 .. Len(rxRing) :
           /\ rxRing' = SubSeq(rxRing, n + 1, Len(rxRing))
           /\ damaged' = damaged \cup {rxRing[i].no : i \in 1 .. n} /\ decoder' = decoder
    BY <1>3, <1>5
  <2>2. 1 .. n \subseteq DOMAIN rxRing
    BY <1>1
  <2>3. /\ damaged \subseteq damaged' /\ damaged' \subseteq 0 .. MaxPackets
        /\ \A i \in 1 .. n : rxRing[i].no \in damaged'
    BY <1>1, <1>2, <2>1, <2>2
  <2> QED BY <2>1, <2>3
<1> QED BY <1>4, <1>5

\* The byte that is read is one of the line.
LEMMA ReadFacts ==
    ASSUME TInv, ReadByte
    PROVE  /\ current' = Head(rxRing) /\ OnLine(current') /\ Head(rxRing) = rxRing[1]
           /\ 1 \in DOMAIN rxRing /\ dataByte = ByteAt(current') /\ dataByte \in Byte
           /\ rxRing' = Tail(rxRing) /\ rxRing \in Seq(Places) /\ rxRing # <<>>
           /\ lastDataByte' = dataByte /\ UNCHANGED <<sender, open, resets, damaged>>
<1>1. sent \in Seq(Item) /\ rxRing \in Seq(Places) /\ \A i \in DOMAIN rxRing : OnLine(rxRing[i])
  BY DEF TInv, TypeOK, LineOK
<1>2. rxRing # <<>> /\ current' = Head(rxRing) /\ rxRing' = Tail(rxRing) /\ lastDataByte' = dataByte
      /\ UNCHANGED <<sender, open, resets, damaged>>
  BY DEF ReadByte
<1>3. Head(rxRing) = rxRing[1] /\ 1 \in DOMAIN rxRing
  BY <1>1, <1>2, TailFacts
<1>4. OnLine(rxRing[1])
  BY <1>1, <1>3
<1>5. ByteAt(rxRing[1]) \in Byte
  BY <1>1, <1>4, PlaceFacts
<1> QED BY <1>1, <1>2, <1>3, <1>4, <1>5 DEF dataByte

LEMMA ReadLineOK ==
    ASSUME TInv, ReadByte
    PROVE  LineOK' /\ NextOK' /\ lastDataByte' \in Byte
<1>1. LineOK /\ NextOK
  BY DEF TInv, TypeOK
<1>2. \A p : OnLine(p)' <=> OnLine(p)
  BY DEF ReadByte, OnLine, sender
<1>3. rxRing' \in Seq(Places) /\ Len(rxRing') =< RxRing /\ \A i \in DOMAIN rxRing' : OnLine(rxRing'[i])
  <2>1. rxRing' = Tail(rxRing) /\ rxRing \in Seq(Places) /\ rxRing # <<>>
    BY ReadFacts
  <2>2. Len(rxRing) =< RxRing /\ RxRing \in Nat /\ \A i \in DOMAIN rxRing : OnLine(rxRing[i])
    BY <1>1, SizeAssumption DEF LineOK
  <2> QED BY <2>1, <2>2, TailFacts
<1>4. OnLine(current')
  BY ReadFacts
<1>5. LineOK'
  BY <1>1, <1>2, <1>3, <1>4 DEF LineOK, ReadByte, sender
<1>6. NextOK'
  BY <1>1, <1>2 DEF NextOK, ReadByte, sender
<1> QED BY <1>5, <1>6, ReadFacts

LEMMA ReceiveTInv ==
    ASSUME TInv, Receive
    PROVE  TInv'
<1> DEFINE Delivery == [packet : Seq(Stored), no : 0 .. MaxPackets]
<1>1. ReadByte
  BY DEF Receive, ReceiveOutside, ReceiveRepeatedFlag, ReceiveData, ReceiveEnd
<1>2. LineOK' /\ NextOK' /\ lastDataByte' \in Byte /\ dataByte \in Byte
  BY <1>1, ReadLineOK, ReadFacts
<1>3. /\ inputFrame \in Seq(Stored) /\ Len(inputFrame) =< MaxFrameSize /\ Len(inputFrame) \in Nat
      /\ delivered \in Seq(Delivery) /\ MaxFrameSize \in Nat /\ receiving \in BOOLEAN
  BY PacketAssumption DEF TInv, TypeOK, DecoderOK
<1>4. <<>> \in Seq(Stored) /\ Len(<<>>) = 0
  OBVIOUS
<1> SUFFICES /\ receiving' \in BOOLEAN /\ inputFrame' \in Seq(Stored) /\ Len(inputFrame') =< MaxFrameSize
             /\ delivered' \in Seq(Delivery)
  BY <1>2 DEF TInv, TypeOK, DecoderOK
<1> HIDE DEF Delivery
<1>5. CASE ReceiveOutside
  <2>1. inputFrame' = <<>> \/ inputFrame' = inputFrame
    BY <1>5 DEF ReceiveOutside
  <2>2. receiving' \in BOOLEAN
    BY <1>3, <1>5 DEF ReceiveOutside
  <2>3. inputFrame' \in Seq(Stored) /\ Len(inputFrame') =< MaxFrameSize /\ delivered' \in Seq(Delivery)
    <3>1. CASE inputFrame' = <<>>
      BY <1>3, <1>4, <1>5, <3>1 DEF ReceiveOutside
    <3>2. CASE inputFrame' = inputFrame
      BY <1>3, <1>5, <3>2 DEF ReceiveOutside
    <3> QED BY <2>1, <3>1, <3>2
  <2> QED BY <2>2, <2>3
<1>6. CASE ReceiveRepeatedFlag
  BY <1>3, <1>4, <1>6 DEF ReceiveRepeatedFlag
<1>7. CASE ReceiveData
  <2>1. CASE Len(inputFrame) < MaxFrameSize
    <3>1. (IF lastDataByte = HDLC_ESCAPE THEN XorMask(dataByte) ELSE dataByte) \in Stored
      BY <1>2 DEF Stored
    <3> DEFINE b == IF lastDataByte = HDLC_ESCAPE THEN XorMask(dataByte) ELSE dataByte
    <3>2. inputFrame' = inputFrame \/ inputFrame' = Append(inputFrame, b)
      BY <1>7, <2>1 DEF ReceiveData
    <3>3. receiving' = receiving /\ delivered' = delivered
      BY <1>7, <2>1 DEF ReceiveData
    <3> HIDE DEF b
    <3>4. b \in Stored
      BY <3>1 DEF b
    <3> QED BY <1>3, <2>1, <3>2, <3>3, <3>4, AppendFacts
  <2>2. CASE ~(Len(inputFrame) < MaxFrameSize)
    <3>1. receiving' = FALSE /\ inputFrame' = <<>> /\ delivered' = delivered
      BY <1>7, <2>2 DEF ReceiveData
    <3>2. receiving' \in BOOLEAN
      BY <3>1
    <3> QED BY <1>3, <1>4, <3>1, <3>2
  <2> QED BY <2>1, <2>2
<1>8. ASSUME NEW size \in BufferSize, ReceiveEnd(size)
      PROVE  /\ receiving' \in BOOLEAN /\ inputFrame' \in Seq(Stored) /\ Len(inputFrame') =< MaxFrameSize
             /\ delivered' \in Seq(Delivery)
  <2> DEFINE r == [packet |-> SubSeq(inputFrame, 1, Len(inputFrame) - 2), no |-> current.no]
  <2>1. delivered' = delivered \/ delivered' = Append(delivered, r)
    BY <1>8 DEF ReceiveEnd
  <2>2. SubSeq(inputFrame, 1, Len(inputFrame) - 2) \in Seq(Stored)
    <3>1. 1 \in Int /\ Len(inputFrame) - 2 \in Int /\ \A i \in 1 .. Len(inputFrame) - 2 : inputFrame[i] \in Stored
      BY <1>3
    <3> QED BY <3>1, SubSeqProperties
  <2>3. current.no \in 0 .. MaxPackets
    <3>1. Place(0, 0).no = 0 /\ 0 \in 0 .. MaxPackets
      BY SizeAssumption DEF Place
    <3>2. current = Place(0, 0) \/ current \in Places
      BY DEF TInv, TypeOK, LineOK, OnLine
    <3> QED BY <3>1, <3>2, PlaceRecord, SizeAssumption
  <2>4. r \in Delivery
    BY <2>2, <2>3 DEF Delivery
  <2> HIDE DEF r
  <2>5. delivered' \in Seq(Delivery)
    BY <1>3, <2>1, <2>4
  <2>6. receiving' = FALSE /\ inputFrame' = inputFrame
    BY <1>8 DEF ReceiveEnd
  <2> QED BY <1>3, <2>5, <2>6
<1> QED BY <1>5, <1>6, <1>7, <1>8 DEF Receive

LEMMA NextTInv ==
    ASSUME TInv, [Next]_vars
    PROVE  TInv'
<1>1. LineOK /\ DecoderOK /\ NextOK /\ open \in BOOLEAN /\ resets \in 0 .. MaxResets /\ MaxResets \in Nat
  BY SizeAssumption DEF TInv, TypeOK, LineOK
<1>2. ASSUME NEW packet \in Packet, Send(packet) PROVE TInv'
  BY <1>2, SendTInv DEF Send, Item
<1>3. ASSUME NEW chunk \in Raw, SendRaw(chunk) PROVE TInv'
  BY <1>3, SendTInv DEF SendRaw, Item
<1>4. CASE (\E size \in RawBufferSize : ReceiveRaw(size)) \/ Close \/ Reset
  <2>1. PICK n \in 0 .. Len(rxRing) :
           rxRing' = SubSeq(rxRing, n + 1, Len(rxRing)) /\ damaged' \subseteq 0 .. MaxPackets
    BY <1>4, LossFacts
  <2>2. UNCHANGED <<sender, delivered, current>>
    BY <1>4 DEF ReceiveRaw, Close, Reset
  <2>3. open' \in BOOLEAN /\ resets' \in 0 .. MaxResets
    <3>1. (open' = open /\ resets' = resets) \/ (open' = FALSE /\ resets' = resets + 1 /\ resets < MaxResets)
      BY <1>4 DEF ReceiveRaw, Close, Reset
    <3>2. open' \in BOOLEAN
      BY <1>1, <3>1
    <3>3. resets' \in 0 .. MaxResets
      BY <1>1, <3>1
    <3> QED BY <3>2, <3>3
  <2>4. DecoderOK'
    <3>1. CASE decoder' = decoder
      BY <1>1, <3>1 DEF DecoderOK, decoder
    <3>2. CASE Reset
      <4>1. inputFrame' = <<>> /\ receiving' = FALSE /\ lastDataByte' = 0
        BY <3>2 DEF Reset
      <4>2. inputFrame' \in Seq(Stored) /\ Len(inputFrame') =< MaxFrameSize
        BY <4>1, PacketAssumption
      <4>3. receiving' \in BOOLEAN
        BY <4>1
      <4> QED BY <4>1, <4>2, <4>3 DEF DecoderOK
    <3> QED BY <1>4, <3>1, <3>2 DEF ReceiveRaw, Close
  <2> QED BY <2>1, <2>2, <2>3, <2>4, LoseTInv
<1>5. CASE WriteByte
  BY <1>5, WriteByteTInv
<1>6. CASE Transfer
  BY <1>6, TransferTInv
<1>7. CASE Receive
  BY <1>7, ReceiveTInv
<1>8. CASE Open
  BY <1>8 DEF Open, sender, decoder, TInv, TypeOK, LineOK, DecoderOK, NextOK, OnLine
<1>9. CASE UNCHANGED vars
  BY <1>9 DEF vars, sender, receiver, decoder, TInv, TypeOK, LineOK, DecoderOK, NextOK, OnLine
<1> QED BY <1>2, <1>3, <1>4, <1>5, <1>6, <1>7, <1>8, <1>9 DEF Next, Done

\* For any packets and rings every variable keeps its type, and the rings and
\* the frame of Receive their bounds (embenet_brt.c:129-139).
THEOREM TypeInductive == Spec => []TInv
BY InitTInv, NextTInv, PTL DEF Spec

THEOREM TypeCorrect == Spec => []TypeOK
BY TypeInductive, PTL DEF TInv

----------------------------------------------------------------------------
(* The bytes on the line.                                                  *)

\* The order of places is a strict one.
LEMMA BeforeFacts ==
    /\ \A p, q, r \in Places : Before(p, q) /\ Before(q, r) => Before(p, r)
    /\ \A p, q \in Places : ~ (Before(p, q) /\ Before(q, p)) /\ ~ Before(p, p)
    /\ \A p, q \in Places : Before(p, q) \/ p = q \/ Before(q, p)
<1>1. \A p \in Places : p.no \in Nat /\ p.at \in Nat /\ p.part \in Nat
  BY PlaceRecord
<1>2. ASSUME NEW p \in Places, NEW q \in Places, NEW r \in Places, Before(p, q), Before(q, r)
      PROVE  Before(p, r)
  BY <1>1, <1>2 DEF Before
<1>3. ASSUME NEW p \in Places, NEW q \in Places
      PROVE  ~ (Before(p, q) /\ Before(q, p)) /\ ~ Before(p, p)
  BY <1>1 DEF Before
<1>4. ASSUME NEW p \in Places, NEW q \in Places
      PROVE  Before(p, q) \/ p = q \/ Before(q, p)
  <2>1. p.no = q.no /\ p.at = q.at /\ p.part = q.part => p = q
    BY PlaceRecord
  <2> QED BY <1>1, <2>1 DEF Before
<1> QED BY <1>2, <1>3, <1>4

\* What is on the line, and both ends of it.
LEMMA LineFacts ==
    ASSUME TInv
    PROVE  /\ sent \in Seq(Item) /\ txRing \in Seq(Places) /\ rxRing \in Seq(Places)
           /\ next \in Places /\ current \in Places
           /\ \A p : InRings(p) => OnLine(p)
           /\ \A p : OnLine(p) => p \in Places
           /\ current = Place(0, 0) \/ OnLine(current)
<1>1. LineOK /\ NextOK /\ sent \in Seq(Item) /\ Len(sent) =< MaxPackets /\ Len(sent) \in Nat
  BY DEF TInv, TypeOK, LineOK
<1>2. \A p : OnLine(p) => p \in Places
  BY DEF OnLine
<1>3. \A no \in 0 .. MaxPackets, at \in Nat : Place(no, at) \in Places
  BY PlaceRecord
<1>4. Place(0, 0) \in Places /\ Place(0, 1) \in Places
  <2>1. 0 \in 0 .. MaxPackets /\ 0 \in Nat /\ 1 \in Nat
    BY SizeAssumption
  <2> QED BY <1>3, <2>1
<1>5. current \in Places
  BY <1>1, <1>2, <1>4 DEF LineOK
<1>6. next \in Places
  <2>1. CASE sent # <<>> /\ next.no = Len(sent) /\ next = Place(next.no, Len(Frame(sent[next.no])) + 1)
    <3>1. next.no \in 0 .. MaxPackets /\ next.no \in DOMAIN sent
      BY <1>1, <2>1, SizeAssumption
    <3>2. Len(Frame(sent[next.no])) + 1 \in Nat
      BY <1>1, <3>1, SentFacts, FrameBytes
    <3> QED BY <1>3, <2>1, <3>1, <3>2
  <2> QED BY <1>1, <1>2, <1>4, <2>1 DEF NextOK
<1> QED BY <1>1, <1>2, <1>5, <1>6 DEF LineOK, InRings

LEMMA InitLine == Init => Line
<1> SUFFICES ASSUME Init PROVE Line
  OBVIOUS
<1>1. rxRing = <<>> /\ txRing = <<>> /\ sent = <<>> /\ current = Place(0, 0) /\ next = Place(0, 1)
  BY DEF Init
<1>2. DOMAIN rxRing = {} /\ DOMAIN txRing = {} /\ Intact = {}
  BY <1>1 DEF Intact
<1>3. Before(current, next)
  BY <1>1 DEF Before, Place
<1> QED BY <1>2, <1>3 DEF Line, Ordered, Complete, InRings

LEMMA SendLine ==
    ASSUME TInv, Line, NEW item \in Item, ~Writing, Len(sent) < MaxPackets,
           sent' = Append(sent, item), next' = Place(Len(sent'), 1),
           UNCHANGED <<txRing, receiver, decoder, delivered, damaged, current>>
    PROVE  Line'
<1>1. sent \in Seq(Item) /\ next \in Places /\ current \in Places /\ \A p : OnLine(p) => p \in Places
  BY LineFacts
<1>2. /\ Len(sent') = Len(sent) + 1 /\ Len(sent) \in Nat
      /\ DOMAIN sent' = DOMAIN sent \cup {Len(sent) + 1} /\ DOMAIN sent = 1 .. Len(sent)
      /\ \A no \in DOMAIN sent : sent'[no] = sent[no]
      /\ \A p : OnLine(p)' /\ p.no \in DOMAIN sent => OnLine(p)
  BY <1>1, AppendKeepsPlaces
<1>3. rxRing' = rxRing /\ txRing' = txRing /\ current' = current /\ damaged' = damaged
  BY DEF receiver
<1>4. \A p : InRings(p)' <=> InRings(p)
  BY <1>3 DEF InRings
<1>5. next'.no = Len(sent) + 1 /\ next'.at = 1 /\ next'.part = 1
  BY <1>2 DEF Place
<1>6. \A p : OnLine(p) => p.no \in Nat /\ p.no =< Len(sent) /\ p.at \in Nat /\ p.at =< Len(Frame(sent[p.no]))
  BY <1>1, PlaceFacts
<1>7. \A p : OnLine(p) => Before(p, next')
  BY <1>2, <1>5, <1>6 DEF Before
<1>8. Before(current', next')
  <2>1. Place(0, 0).no = 0
    BY DEF Place
  <2>2. CASE current = Place(0, 0)
    BY <1>2, <1>3, <1>5, <2>1, <2>2 DEF Before
  <2> QED BY <1>3, <1>7, <2>2, LineFacts
<1>9. Ordered'
  <2>1. \A p : InRings(p) => Before(current, p)
    BY DEF Line, Ordered
  <2>2. \A p : InRings(p)' => Before(current, p)' /\ Before(p, next)'
    BY <1>3, <1>4, <1>7, <2>1, LineFacts DEF Before
  <2> QED BY <1>3, <1>8, <2>2 DEF Line, Ordered, Before
<1>10. Complete'
  <2> SUFFICES ASSUME NEW p, OnLine(p)', p.no \in Intact', Before(current, p)', Before(p, next)'
               PROVE  InRings(p)
    BY <1>4 DEF Complete
  <2>1. p \in Places /\ p.no \in Nat /\ p.at \in Nat /\ p.part \in {1, 2}
    BY PlaceRecord DEF OnLine
  <2>2. p.at # 0
    <3>1. sent' \in Seq(Item)
      BY <1>1, AppendKeepsPlaces
    <3>2. sent'[p.no] \in Item /\ p.at \in DOMAIN Frame(sent'[p.no])
      BY <3>1, SentFacts DEF OnLine
    <3> QED BY <3>2, FrameBytes
  <2>3. Before(p, next')
    BY DEF Before
  <2>4. p.no < Len(sent) + 1
    BY <1>2, <1>5, <2>1, <2>2, <2>3 DEF Before
  <2>5. p.no \in DOMAIN sent
    BY <1>2, <2>4 DEF OnLine
  <2>6. OnLine(p) /\ p.no \in Intact
    BY <1>2, <1>3, <2>5 DEF Intact
  <2>7. Before(current, p)
    BY <1>3 DEF Before
  <2>8. Before(p, next)
    <3>1. sent # <<>>
      BY <1>2, <2>5
    <3>2. next = Place(Len(sent), Len(Frame(sent[Len(sent)])) + 1)
      BY <3>1, WritingFacts
    <3>3. next.no = Len(sent) /\ next.at = Len(Frame(sent[Len(sent)])) + 1 /\ next.at \in Nat
      BY <1>1, <3>2, PlaceRecord DEF Place
    <3>4. p.no =< Len(sent) /\ p.at =< Len(Frame(sent[p.no])) /\ Len(Frame(sent[p.no])) \in Nat
      BY <1>1, <2>6, PlaceFacts
    <3> QED BY <1>2, <2>1, <3>3, <3>4 DEF Before
  <2> QED BY <2>6, <2>7, <2>8 DEF Line, Complete
<1> QED BY <1>9, <1>10 DEF Line

LEMMA WriteByteLine ==
    ASSUME TInv, Line, WriteByte
    PROVE  Line'
<1>1. /\ sent \in Seq(Item) /\ txRing \in Seq(Places) /\ next \in Places /\ current \in Places
      /\ \A p : InRings(p) => p \in Places
      /\ \A p : OnLine(p) => p \in Places
  BY LineFacts
<1>2. OnLine(next) /\ next' = Succ(next)
  BY WritingFacts DEF WriteByte
<1>3. /\ Before(next, next') /\ next' \in Places
      /\ \A q : OnLine(q) /\ Before(q, next') => Before(q, next) \/ q = next
  <2>1. Len(Frame(sent[next.no])) + 1 \in Nat /\ next.no \in 0 .. MaxPackets
    BY <1>1, <1>2, PlaceFacts, PlaceRecord, SizeAssumption
  <2>2. next' \in Places
    <3>1. OnLine(Succ(next)) \/ Succ(next) = Place(next.no, Len(Frame(sent[next.no])) + 1)
      BY <1>1, <1>2, SuccFacts
    <3>2. Place(next.no, Len(Frame(sent[next.no])) + 1) \in Places
      BY <2>1, PlaceRecord
    <3> QED BY <1>1, <1>2, <3>1, <3>2
  <2> QED BY <1>1, <1>2, <2>2, SuccFacts
<1>4. sent' = sent /\ rxRing' = rxRing /\ current' = current /\ damaged \subseteq damaged'
  BY DEF WriteByte, receiver
<1>5. \A p \in Places : Before(p, next) => Before(p, next')
  BY <1>1, <1>3, BeforeFacts
<1>6. CASE Len(txRing) < TxRing
  <2>1. txRing' = Append(txRing, next) /\ damaged' = damaged
    BY <1>6 DEF WriteByte
  <2>2. /\ DOMAIN txRing' = DOMAIN txRing \cup {Len(txRing) + 1} /\ txRing'[Len(txRing) + 1] = next
        /\ Len(txRing) + 1 \notin DOMAIN txRing /\ Len(txRing) \in Nat /\ DOMAIN txRing = 1 .. Len(txRing)
        /\ \A i \in DOMAIN txRing : txRing'[i] = txRing[i]
    BY <1>1, <2>1, AppendFacts
  <2>3. \A p : InRings(p)' <=> InRings(p) \/ p = next
    BY <1>4, <2>2 DEF InRings
  <2>4. \A i, j \in DOMAIN txRing' : i < j => Before(txRing'[i], txRing'[j])
    <3> SUFFICES ASSUME NEW i \in DOMAIN txRing', NEW j \in DOMAIN txRing', i < j
                 PROVE  Before(txRing'[i], txRing'[j])
      OBVIOUS
    <3>1. i \in DOMAIN txRing
      BY <2>2
    <3>2. InRings(txRing[i])
      BY <3>1 DEF InRings
    <3>3. Before(txRing[i], next)
      BY <3>2 DEF Line, Ordered
    <3>4. j \in DOMAIN txRing => Before(txRing[i], txRing[j])
      BY <3>1 DEF Line, Ordered
    <3> QED BY <2>2, <3>1, <3>3, <3>4
  <2>5. \A i \in DOMAIN rxRing, j \in DOMAIN txRing' : Before(rxRing[i], txRing'[j])
    <3>1. \A i \in DOMAIN rxRing : InRings(rxRing[i])
      BY DEF InRings
    <3>2. \A i \in DOMAIN rxRing : Before(rxRing[i], next)
      BY <3>1 DEF Line, Ordered
    <3> QED BY <2>2, <3>2 DEF Line, Ordered
  <2>6. \A p : InRings(p)' => Before(current, p) /\ Before(p, next')
    BY <1>1, <1>3, <1>5, <2>3 DEF Line, Ordered
  <2>7. Before(current, next')
    BY <1>1, <1>5 DEF Line, Ordered
  <2>8. Ordered'
    BY <1>4, <2>4, <2>5, <2>6, <2>7 DEF Line, Ordered, Before
  <2>9. Complete'
    <3> SUFFICES ASSUME NEW p, OnLine(p)', p.no \in Intact', Before(current, p)', Before(p, next)'
                 PROVE  InRings(p) \/ p = next
      BY <2>3 DEF Complete
    <3>1. OnLine(p) /\ p.no \in Intact /\ Before(current, p) /\ Before(p, next')
      BY <1>4, <2>1 DEF OnLine, Intact, Before
    <3> QED BY <1>3, <3>1 DEF Line, Complete
  <2> QED BY <2>8, <2>9 DEF Line
<1>7. CASE ~(Len(txRing) < TxRing)
  <2>1. txRing' = txRing /\ damaged' = damaged \cup {next.no}
    BY <1>7 DEF WriteByte
  <2>2. \A p : InRings(p)' <=> InRings(p)
    BY <1>4, <2>1 DEF InRings
  <2>3. \A p : InRings(p) => Before(current, p) /\ Before(p, next')
    BY <1>1, <1>5 DEF Line, Ordered
  <2>4. Before(current, next')
    BY <1>1, <1>5 DEF Line, Ordered
  <2>5. Ordered'
    BY <1>4, <2>1, <2>2, <2>3, <2>4 DEF Line, Ordered, Before
  <2>6. Complete'
    <3> SUFFICES ASSUME NEW p, OnLine(p)', p.no \in Intact', Before(current, p)', Before(p, next)'
                 PROVE  InRings(p)
      BY <2>2 DEF Complete
    <3>1. OnLine(p) /\ p.no \in Intact /\ p # next /\ Before(current, p) /\ Before(p, next')
      BY <1>4, <2>1 DEF OnLine, Intact, Before
    <3> QED BY <1>3, <3>1 DEF Line, Complete
  <2> QED BY <2>5, <2>6 DEF Line
<1> QED BY <1>6, <1>7

LEMMA TransferLine ==
    ASSUME TInv, Line, Transfer
    PROVE  Line'
<1>1. /\ txRing \in Seq(Places) /\ rxRing \in Seq(Places) /\ txRing # <<>>
      /\ sent' = sent /\ next' = next /\ current' = current /\ damaged \subseteq damaged'
  BY LineFacts DEF Transfer
<1> DEFINE h == Head(txRing)
<1>2. /\ h = txRing[1] /\ 1 \in DOMAIN txRing /\ h \in Places /\ DOMAIN txRing \subseteq Nat
      /\ \A i \in DOMAIN txRing' : i \in Nat /\ txRing'[i] = txRing[i + 1] /\ i + 1 \in DOMAIN txRing
      /\ \A i \in DOMAIN txRing : i = 1 \/ (i - 1 \in DOMAIN txRing' /\ txRing'[i - 1] = txRing[i])
  <2>1. txRing' = Tail(txRing) /\ Len(txRing) \in Nat
    BY <1>1 DEF Transfer
  <2> QED BY <1>1, <2>1, TailFacts
<1> HIDE DEF h
<1>3. \A i, j \in DOMAIN txRing : i < j => Before(txRing[i], txRing[j])
  BY DEF Line, Ordered
<1>4. \A i, j \in DOMAIN txRing' : i < j => Before(txRing'[i], txRing'[j])
  <2> SUFFICES ASSUME NEW i \in DOMAIN txRing', NEW j \in DOMAIN txRing', i < j
               PROVE  Before(txRing'[i], txRing'[j])
    OBVIOUS
  <2>1. i + 1 < j + 1
    BY <1>2
  <2> QED BY <1>2, <1>3, <2>1
<1>5. \A j \in DOMAIN txRing' : Before(h, txRing'[j])
  <2> SUFFICES ASSUME NEW j \in DOMAIN txRing' PROVE Before(h, txRing'[j])
    OBVIOUS
  <2>1. 1 < j + 1 /\ j + 1 \in DOMAIN txRing
    <3>1. 0 \notin DOMAIN txRing'
      <4>1. TInv'
        BY TransferTInv
      <4>2. txRing' \in Seq(Places)
        BY <4>1 DEF TInv, TypeOK, LineOK
      <4> QED BY <4>2
    <3> QED BY <1>2, <3>1
  <2> QED BY <1>2, <1>3, <2>1
<1>6. \A i \in DOMAIN rxRing : Before(rxRing[i], h) /\ \A j \in DOMAIN txRing' : Before(rxRing[i], txRing'[j])
  BY <1>2 DEF Line, Ordered
<1>7. CASE open /\ Len(rxRing) < RxRing
  <2>1. rxRing' = Append(rxRing, h) /\ damaged' = damaged
    BY <1>7 DEF Transfer, h
  <2>2. /\ DOMAIN rxRing' = DOMAIN rxRing \cup {Len(rxRing) + 1} /\ rxRing'[Len(rxRing) + 1] = h
        /\ Len(rxRing) + 1 \notin DOMAIN rxRing /\ Len(rxRing) \in Nat /\ DOMAIN rxRing = 1 .. Len(rxRing)
        /\ \A i \in DOMAIN rxRing : rxRing'[i] = rxRing[i]
    BY <1>1, <1>2, <2>1, AppendFacts
  <2>3. \A p : InRings(p)' <=> InRings(p)
    <3>1. ASSUME NEW p, NEW i \in DOMAIN txRing, txRing[i] = p PROVE InRings(p)'
      <4>1. CASE i = 1
        BY <1>2, <2>2, <3>1, <4>1 DEF InRings
      <4>2. CASE i # 1
        BY <1>2, <3>1, <4>2 DEF InRings
      <4> QED BY <4>1, <4>2
    <3>2. ASSUME NEW p, NEW i \in DOMAIN rxRing, rxRing[i] = p PROVE InRings(p)'
      BY <2>2, <3>2 DEF InRings
    <3>3. ASSUME NEW p, InRings(p)' PROVE InRings(p)
      BY <1>2, <2>2, <3>3 DEF InRings
    <3> QED BY <3>1, <3>2, <3>3 DEF InRings
  <2>4. \A i, j \in DOMAIN rxRing' : i < j => Before(rxRing'[i], rxRing'[j])
    <3>1. \A i, j \in DOMAIN rxRing : i < j => Before(rxRing[i], rxRing[j])
      BY DEF Line, Ordered
    <3>2. \A i \in DOMAIN rxRing' : i < Len(rxRing) + 1 => i \in DOMAIN rxRing
      BY <2>2
    <3> QED BY <1>6, <2>2, <3>1, <3>2
  <2>5. \A i \in DOMAIN rxRing', j \in DOMAIN txRing' : Before(rxRing'[i], txRing'[j])
    BY <1>5, <1>6, <2>2
  <2>6. Ordered'
    BY <1>1, <1>4, <2>3, <2>4, <2>5 DEF Line, Ordered, Before
  <2>7. Complete'
    BY <1>1, <2>1, <2>3 DEF Line, Complete, OnLine, Intact, Before
  <2> QED BY <2>6, <2>7 DEF Line
<1>8. CASE ~(open /\ Len(rxRing) < RxRing)
  <2>1. rxRing' = rxRing /\ damaged' = damaged \cup {h.no}
    BY <1>8 DEF Transfer, h
  <2>2. \A p : InRings(p)' => InRings(p)
    BY <1>2, <2>1 DEF InRings
  <2>3. \A p : InRings(p) => InRings(p)' \/ p = h
    BY <1>2, <2>1 DEF InRings
  <2>4. Ordered'
    BY <1>1, <1>4, <1>6, <2>1, <2>2 DEF Line, Ordered, Before
  <2>5. Complete'
    BY <1>1, <2>1, <2>3 DEF Line, Complete, OnLine, Intact, Before
  <2> QED BY <2>4, <2>5 DEF Line
<1> QED BY <1>7, <1>8

LEMMA LoseLine ==
    ASSUME TInv, Line, (\E size \in RawBufferSize : ReceiveRaw(size)) \/ Close \/ Reset
    PROVE  Line'
<1>1. PICK n \in 0 .. Len(rxRing) :
         /\ rxRing' = SubSeq(rxRing, n + 1, Len(rxRing)) /\ damaged \subseteq damaged'
         /\ \A i \in 1 .. n : rxRing[i].no \in damaged'
  BY LossFacts
<1>2. sent' = sent /\ next' = next /\ txRing' = txRing /\ current' = current
  BY DEF ReceiveRaw, Close, Reset, sender
<1>3. rxRing \in Seq(Places) /\ Len(rxRing) \in Nat /\ DOMAIN rxRing = 1 .. Len(rxRing) /\ n \in Nat
  BY LineFacts
<1>4. /\ DOMAIN rxRing' = 1 .. Len(rxRing) - n
      /\ \A i \in 1 .. Len(rxRing) - n : rxRing'[i] = rxRing[n + i]
  BY <1>1, <1>3, RestFacts
<1>5. \A i \in DOMAIN rxRing' : rxRing'[i] = rxRing[n + i] /\ n + i \in DOMAIN rxRing /\ i \in Nat
  <2> SUFFICES ASSUME NEW i \in DOMAIN rxRing' PROVE n + i \in DOMAIN rxRing /\ i \in Nat
    BY <1>4
  <2>1. i \in 1 .. Len(rxRing) - n
    BY <1>4
  <2> QED BY <1>3, <2>1
<1>6. \A i \in DOMAIN rxRing : i \in 1 .. n \/ (i - n \in DOMAIN rxRing' /\ rxRing'[i - n] = rxRing[i])
  <2> SUFFICES ASSUME NEW i \in DOMAIN rxRing, i \notin 1 .. n
               PROVE  i - n \in DOMAIN rxRing' /\ rxRing'[i - n] = rxRing[i]
    OBVIOUS
  <2>1. i - n \in 1 .. Len(rxRing) - n /\ n + (i - n) = i
    BY <1>3
  <2> QED BY <1>4, <2>1
<1>7. \A p : InRings(p)' => InRings(p)
  BY <1>2, <1>5 DEF InRings
<1>8. \A p : InRings(p) => InRings(p)' \/ p.no \in damaged'
  <2> SUFFICES ASSUME NEW p, NEW i \in DOMAIN rxRing, rxRing[i] = p PROVE InRings(p)' \/ p.no \in damaged'
    BY <1>2 DEF InRings
  <2>1. CASE i \in 1 .. n
    BY <1>1, <2>1
  <2>2. CASE i \notin 1 .. n
    BY <1>6, <2>2 DEF InRings
  <2> QED BY <2>1, <2>2
<1>9. \A i, j \in DOMAIN rxRing' : i < j => Before(rxRing'[i], rxRing'[j])
  <2> SUFFICES ASSUME NEW i \in DOMAIN rxRing', NEW j \in DOMAIN rxRing', i < j
               PROVE  Before(rxRing[n + i], rxRing[n + j])
    BY <1>5
  <2>1. n + i < n + j /\ n + i \in DOMAIN rxRing /\ n + j \in DOMAIN rxRing
    BY <1>3, <1>5
  <2> QED BY <2>1 DEF Line, Ordered
<1>10. \A i \in DOMAIN rxRing', j \in DOMAIN txRing : Before(rxRing'[i], txRing[j])
  BY <1>5 DEF Line, Ordered
<1>11. Ordered'
  BY <1>2, <1>7, <1>9, <1>10 DEF Line, Ordered, Before
<1>12. Complete'
  BY <1>1, <1>2, <1>8 DEF Line, Complete, OnLine, Intact, Before
<1> QED BY <1>11, <1>12 DEF Line

LEMMA ReadLine ==
    ASSUME TInv, Line, ReadByte
    PROVE  Line'
<1>1. /\ sent' = sent /\ next' = next /\ txRing' = txRing /\ damaged' = damaged
      /\ rxRing \in Seq(Places) /\ rxRing # <<>> /\ rxRing' = Tail(rxRing)
      /\ current' = rxRing[1] /\ 1 \in DOMAIN rxRing /\ current' \in Places /\ current \in Places
  BY ReadFacts, LineFacts DEF sender
<1>2. /\ \A i \in DOMAIN rxRing' : i \in Nat /\ i > 0 /\ rxRing'[i] = rxRing[i + 1] /\ i + 1 \in DOMAIN rxRing
      /\ \A i \in DOMAIN rxRing : i = 1 \/ (i - 1 \in DOMAIN rxRing' /\ rxRing'[i - 1] = rxRing[i])
  <2>1. Len(rxRing) \in Nat
    BY <1>1
  <2> QED BY <1>1, <2>1, TailFacts
<1>3. \A i, j \in DOMAIN rxRing : i < j => Before(rxRing[i], rxRing[j])
  BY DEF Line, Ordered
<1>4. \A i, j \in DOMAIN rxRing' : i < j => Before(rxRing'[i], rxRing'[j])
  <2> SUFFICES ASSUME NEW i \in DOMAIN rxRing', NEW j \in DOMAIN rxRing', i < j
               PROVE  Before(rxRing[i + 1], rxRing[j + 1])
    BY <1>2
  <2>1. i + 1 < j + 1
    BY <1>2
  <2> QED BY <1>2, <1>3, <2>1
<1>5. \A i \in DOMAIN rxRing', j \in DOMAIN txRing : Before(rxRing'[i], txRing[j])
  BY <1>2 DEF Line, Ordered
<1>6. \A p : InRings(p)' => InRings(p) /\ Before(current', p)
  <2>1. ASSUME NEW i \in DOMAIN rxRing' PROVE Before(current', rxRing'[i]) /\ InRings(rxRing'[i])
    <3>1. 1 < i + 1 /\ i + 1 \in DOMAIN rxRing /\ rxRing'[i] = rxRing[i + 1]
      BY <1>2
    <3> QED BY <1>1, <1>3, <3>1 DEF InRings
  <2>2. ASSUME NEW i \in DOMAIN txRing PROVE Before(current', txRing[i]) /\ InRings(txRing[i])
    BY <1>1 DEF Line, Ordered, InRings
  <2> QED BY <1>1, <2>1, <2>2 DEF InRings
<1>7. \A p : InRings(p) => InRings(p)' \/ p = current'
  BY <1>1, <1>2 DEF InRings
<1>8. InRings(current')
  BY <1>1 DEF InRings
<1>9. Before(current, current') /\ Before(current', next)
  BY <1>8 DEF Line, Ordered
<1>10. Ordered'
  <2>1. \A p : InRings(p)' => Before(current', p) /\ Before(p, next)
    BY <1>6 DEF Line, Ordered
  <2> QED BY <1>1, <1>4, <1>5, <1>9, <2>1 DEF Line, Ordered, Before
<1>11. Complete'
  <2> SUFFICES ASSUME NEW p, OnLine(p)', p.no \in Intact', Before(current, p)', Before(p, next)'
               PROVE  InRings(p)'
    BY DEF Complete
  <2>1. OnLine(p) /\ p.no \in Intact /\ Before(current', p) /\ Before(p, next)
    BY <1>1 DEF OnLine, Intact, Before
  <2>2. p \in Places
    BY <2>1 DEF OnLine
  <2>3. Before(current, p) /\ p # current'
    BY <1>1, <1>9, <2>1, <2>2, BeforeFacts
  <2>4. InRings(p)
    BY <2>1, <2>3 DEF Line, Complete
  <2> QED BY <1>7, <2>3, <2>4
<1> QED BY <1>10, <1>11 DEF Line

LEMMA NextLine ==
    ASSUME TInv, Line, [Next]_vars
    PROVE  Line'
<1>1. ASSUME NEW packet \in Packet, Send(packet) PROVE Line'
  BY <1>1, SendLine DEF Send, Item
<1>2. ASSUME NEW chunk \in Raw, SendRaw(chunk) PROVE Line'
  BY <1>2, SendLine DEF SendRaw, Item
<1>3. CASE (\E size \in RawBufferSize : ReceiveRaw(size)) \/ Close \/ Reset
  BY <1>3, LoseLine
<1>4. CASE WriteByte
  BY <1>4, WriteByteLine
<1>5. CASE Transfer
  BY <1>5, TransferLine
<1>6. CASE Receive
  BY <1>6, ReadLine DEF Receive, ReceiveOutside, ReceiveRepeatedFlag, ReceiveData, ReceiveEnd
<1>7. CASE Open
  BY <1>7 DEF Open, sender, Line, Ordered, Complete, InRings, Before, OnLine, Intact
<1>8. CASE UNCHANGED vars
  BY <1>8 DEF vars, sender, receiver, Line, Ordered, Complete, InRings, Before, OnLine, Intact
<1> QED BY <1>1, <1>2, <1>3, <1>4, <1>5, <1>6, <1>7, <1>8 DEF Next, Done

----------------------------------------------------------------------------
(* What is read next.                                                      *)

\* The last byte of an intact packet.
LEMMA LastPlaceFacts ==
    ASSUME TInv, NEW i \in Intact
    PROVE  /\ i \in DOMAIN sent /\ i \in Nat /\ i >= 1 /\ sent[i].kind = "packet" /\ sent[i] \in Item
           /\ Len(Frame(sent[i])) \in Nat /\ Len(Frame(sent[i])) >= 5
           /\ OnLine(LastPlace(i)) /\ LastPlace(i) \in Places
           /\ LastPlace(i).no = i /\ LastPlace(i).at = Len(Frame(sent[i])) /\ LastPlace(i).part = 1
           /\ OnLine(Place(i, 1)) /\ Place(i, 1) \in Places
           /\ Place(i, 1).no = i /\ Place(i, 1).at = 1 /\ Place(i, 1).part = 1
           /\ \A p : OnLine(p) /\ p.no = i /\ p.at = Len(Frame(sent[i])) => p = LastPlace(i)
           /\ \A p : OnLine(p) /\ p.no = i /\ p.at = 1 => p = Place(i, 1)
<1>1. i \in DOMAIN sent /\ sent[i].kind = "packet" /\ sent \in Seq(Item) /\ Len(sent) =< MaxPackets
  BY DEF Intact, TInv, TypeOK, LineOK
<1>2. i \in Nat /\ i >= 1 /\ i =< MaxPackets /\ sent[i] \in Item /\ i \in 0 .. MaxPackets
  BY <1>1, SizeAssumption
<1>3. LET n == Len(Frame(sent[i]))
      IN  n \in Nat /\ n >= 5 /\ DOMAIN Frame(sent[i]) = 1 .. n
  BY <1>1, <1>2, FrameFacts
<1>4. 1 \in DOMAIN Frame(sent[i]) /\ Len(Frame(sent[i])) \in DOMAIN Frame(sent[i])
  BY <1>3
<1>5. LastPlace(i) \in Places /\ Place(i, 1) \in Places
  <2>1. 1 \in Nat
    OBVIOUS
  <2> QED BY <1>2, <1>3, <2>1, PlaceRecord DEF LastPlace
<1>6. /\ LastPlace(i).no = i /\ LastPlace(i).at = Len(Frame(sent[i])) /\ LastPlace(i).part = 1
      /\ Place(i, 1).no = i /\ Place(i, 1).at = 1 /\ Place(i, 1).part = 1
  BY DEF LastPlace, Place
<1>7. OnLine(LastPlace(i)) /\ OnLine(Place(i, 1))
  BY <1>1, <1>4, <1>5, <1>6 DEF OnLine
<1>8. ASSUME NEW p, OnLine(p), p.no = i, p.at \in {1, Len(Frame(sent[i]))}
      PROVE  p = Place(i, p.at)
  <2>1. p.part = 1
    BY <1>1, <1>8, PacketPlace
  <2>2. p = [no |-> p.no, at |-> p.at, part |-> p.part]
    BY <1>8, PlaceRecord DEF OnLine
  <2> QED BY <1>8, <2>1, <2>2 DEF Place
<1> QED BY <1>1, <1>2, <1>3, <1>5, <1>6, <1>7, <1>8 DEF LastPlace

\* An intact packet that the receiver has not got past, and whose last byte
\* is no longer on the line, has been read to its end.
LEMMA AllRead ==
    ASSUME TInv, Line, NEW i \in Intact, current.no =< i,
           ~InRings(LastPlace(i)), Before(LastPlace(i), next)
    PROVE  current = LastPlace(i)
<1>1. /\ OnLine(LastPlace(i)) /\ LastPlace(i) \in Places /\ LastPlace(i).no = i
      /\ LastPlace(i).at = Len(Frame(sent[i])) /\ LastPlace(i).part = 1 /\ i \in Nat /\ i >= 1
      /\ \A p : OnLine(p) /\ p.no = i /\ p.at = Len(Frame(sent[i])) => p = LastPlace(i)
      /\ Len(Frame(sent[i])) \in Nat
  BY LastPlaceFacts
<1>2. ~ Before(current, LastPlace(i))
  BY <1>1 DEF Line, Complete
<1>3. current \in Places /\ sent \in Seq(Item) /\ (current = Place(0, 0) \/ OnLine(current))
  BY LineFacts
<1>4. current.no \in Nat /\ current.at \in Nat /\ current.part \in Nat
  BY <1>3, PlaceRecord
<1>5. current.no = i /\ current.at >= Len(Frame(sent[i]))
  BY <1>1, <1>2, <1>4 DEF Before
<1>6. OnLine(current)
  BY <1>1, <1>3, <1>5 DEF Place
<1>7. current.at =< Len(Frame(sent[i]))
  BY <1>3, <1>5, <1>6, PlaceFacts
<1>8. current.at = Len(Frame(sent[i]))
  BY <1>1, <1>4, <1>5, <1>7
<1> QED BY <1>1, <1>5, <1>6, <1>8

\* The byte that is read is the first one on the line.
LEMMA HeadFirst ==
    ASSUME TInv, Line, ReadByte
    PROVE  /\ OnLine(current') /\ current' \in Places /\ InRings(current')
           /\ \A p : InRings(p) => p = current' \/ Before(current', p)
           /\ Before(current, current') /\ Before(current', next)
<1>1. OnLine(current') /\ current' = rxRing[1] /\ 1 \in DOMAIN rxRing /\ rxRing \in Seq(Places)
  BY ReadFacts
<1>2. InRings(current')
  BY <1>1 DEF InRings
<1>3. ASSUME NEW i \in DOMAIN rxRing PROVE rxRing[i] = current' \/ Before(current', rxRing[i])
  <2>1. i = 1 \/ 1 < i
    BY <1>1
  <2> QED BY <1>1, <2>1 DEF Line, Ordered
<1>4. ASSUME NEW i \in DOMAIN txRing PROVE Before(current', txRing[i])
  BY <1>1 DEF Line, Ordered
<1>5. Before(current, current') /\ Before(current', next)
  BY <1>2 DEF Line, Ordered
<1> QED BY <1>1, <1>2, <1>3, <1>4, <1>5 DEF InRings, OnLine

\* No intact packet is skipped.
LEMMA NoneSkipped ==
    ASSUME TInv, Line, ReadByte, NEW i \in Intact, current.no =< i, i < current'.no
    PROVE  current = LastPlace(i)
<1>1. LastPlace(i) \in Places /\ LastPlace(i).no = i /\ next \in Places
  BY LastPlaceFacts, LineFacts
<1>2. current' \in Places /\ Before(current', next)
      /\ \A p : InRings(p) => p = current' \/ Before(current', p)
  BY HeadFirst
<1>3. Before(LastPlace(i), current')
  BY <1>1 DEF Before
<1>4. Before(LastPlace(i), next)
  BY <1>1, <1>2, <1>3, BeforeFacts
<1>5. ~InRings(LastPlace(i))
  BY <1>1, <1>2, <1>3, BeforeFacts
<1> QED BY <1>4, <1>5, AllRead

\* An intact packet is read byte after byte, from its first one on.
LEMMA NextByte ==
    ASSUME TInv, Line, ReadByte, current'.no \in Intact
    PROVE  IF current'.no = current.no
           THEN OnLine(current) /\ current # LastPlace(current.no) /\ current' = Succ(current)
           ELSE current' = Place(current'.no, 1) /\ current.no < current'.no
<1> DEFINE x == current
           y == current'
<1>1. /\ OnLine(y) /\ y \in Places /\ Before(x, y) /\ Before(y, next)
      /\ \A p \in Places : Before(p, y) => ~InRings(p)
  BY HeadFirst, BeforeFacts
<1>2. x \in Places /\ next \in Places /\ sent \in Seq(Item) /\ (x = Place(0, 0) \/ OnLine(x))
  BY LineFacts
<1>3. /\ x.no \in Nat /\ x.at \in Nat /\ x.part \in Nat /\ y.no \in Nat /\ y.at \in Nat /\ y.part \in Nat
  BY <1>1, <1>2, PlaceRecord
<1>4. \A p \in Places : OnLine(p) /\ p.no = y.no /\ Before(x, p) => ~ Before(p, y)
  <2> SUFFICES ASSUME NEW p \in Places, OnLine(p), p.no = y.no, Before(x, p), Before(p, y)
               PROVE  FALSE
    OBVIOUS
  <2>1. Before(p, next)
    BY <1>1, <1>2, BeforeFacts
  <2>2. InRings(p)
    BY <2>1 DEF Line, Complete
  <2> QED BY <1>1, <2>2
<1>5. y.no >= 1 /\ y.at >= 1 /\ y.at =< Len(Frame(sent[y.no]))
  BY <1>1, <1>2, PlaceFacts
<1>6. CASE y.no = x.no
  <2>1. OnLine(x)
    BY <1>2, <1>3, <1>5, <1>6 DEF Place
  <2>2. /\ Before(x, Succ(x)) /\ Succ(x).no = x.no
        /\ OnLine(Succ(x)) \/ Succ(x) = Place(x.no, Len(Frame(sent[x.no])) + 1)
        /\ Before(Succ(x), y) \/ y = Succ(x)
    BY <1>1, <1>2, <2>1, SuccFacts
  <2>3. ~ (Succ(x) = Place(x.no, Len(Frame(sent[x.no])) + 1) /\ Before(Succ(x), y))
    <3>1. Len(Frame(sent[x.no])) \in Nat
      BY <1>2, <2>1, PlaceFacts
    <3> QED BY <1>3, <1>5, <1>6, <3>1 DEF Before, Place
  <2>4. y = Succ(x)
    BY <1>4, <1>6, <2>2, <2>3 DEF OnLine
  <2>5. x # LastPlace(x.no)
    <3> SUFFICES ASSUME x = LastPlace(x.no) PROVE FALSE
      OBVIOUS
    <3>1. x.at = Len(Frame(sent[x.no])) /\ x.part = 1 /\ y.at = x.at /\ y.part # 1
      BY <1>1, <1>3, <1>5, <1>6 DEF LastPlace, Place, Before
    <3>2. y = LastPlace(y.no)
      BY <1>1, <1>6, <3>1, LastPlaceFacts
    <3> QED BY <3>1, <3>2 DEF LastPlace, Place
  <2> QED BY <1>6, <2>1, <2>4, <2>5
<1>7. CASE y.no # x.no
  <2>1. x.no < y.no
    BY <1>1, <1>7 DEF Before
  <2>2. /\ Place(y.no, 1) \in Places /\ OnLine(Place(y.no, 1))
        /\ Place(y.no, 1).no = y.no /\ Place(y.no, 1).at = 1 /\ Place(y.no, 1).part = 1
        /\ y.at = 1 => y = Place(y.no, 1)
    BY <1>1, LastPlaceFacts
  <2>3. Before(x, Place(y.no, 1))
    BY <2>1, <2>2 DEF Before
  <2>4. ~ Before(Place(y.no, 1), y)
    BY <1>4, <2>2, <2>3
  <2>5. y.at = 1
    BY <1>3, <1>5, <2>2, <2>4 DEF Before
  <2> QED BY <1>7, <2>1, <2>2, <2>5
<1> QED BY <1>6, <1>7

----------------------------------------------------------------------------
(* What the receiver knows.                                                *)

LEMMA InitReceiver == Init => Receiver /\ Arrived
<1> SUFFICES ASSUME Init PROVE Receiver /\ Arrived
  OBVIOUS
<1>1. /\ sent = <<>> /\ delivered = <<>> /\ receiving = FALSE /\ current = Place(0, 0)
  BY DEF Init
<1>2. DOMAIN sent = {} /\ DOMAIN delivered = {} /\ Intact = {}
  BY <1>1 DEF Intact
<1>3. LastByte
  BY <1>1, <1>2 DEF LastByte
<1>4. Synchronized
  BY <1>2 DEF Synchronized, Fits
<1>5. Arrived
  BY <1>2 DEF Arrived
<1>6. Numbers /\ DeliveredInOrder
  BY <1>2 DEF Numbers, DeliveredInOrder
<1> QED BY <1>3, <1>4, <1>5, <1>6 DEF Receiver

\* What is sent later does not matter to what has been read.
LEMMA SendReceiver ==
    ASSUME TInv, Receiver, NEW item \in Item, sent' = Append(sent, item),
           UNCHANGED <<txRing, receiver, decoder, delivered, damaged, current>>
    PROVE  Receiver' /\ (Arrived => Arrived')
<1>1. /\ sent \in Seq(Item) /\ current \in Places /\ (current = Place(0, 0) \/ OnLine(current))
  BY LineFacts
<1>2. /\ Len(sent) \in Nat /\ DOMAIN sent = 1 .. Len(sent) /\ DOMAIN sent' = DOMAIN sent \cup {Len(sent) + 1}
      /\ \A no \in DOMAIN sent : sent'[no] = sent[no]
      /\ \A p : OnLine(p) => ByteAt(p)' = ByteAt(p)
  BY <1>1, AppendKeepsPlaces, SentFacts
<1>3. /\ inputFrame' = inputFrame /\ receiving' = receiving /\ lastDataByte' = lastDataByte
      /\ delivered' = delivered /\ damaged' = damaged /\ current' = current
  BY DEF decoder
<1>4. current.no \in Nat /\ current.no =< Len(sent) /\ (current.no # 0 => OnLine(current))
  <2>1. CASE current = Place(0, 0)
    BY <1>2, <2>1 DEF Place
  <2>2. CASE OnLine(current)
    BY <1>1, <2>2, PlaceFacts
  <2> QED BY <1>1, <2>1, <2>2
<1>5. \A i \in DOMAIN sent : /\ i \in Intact' <=> i \in Intact
                             /\ LastPlace(i)' = LastPlace(i)
                             /\ i \in Nat /\ i >= 1
  BY <1>2, <1>3 DEF Intact, LastPlace
<1>6. \A i \in DOMAIN sent : Fits(i)' <=> Fits(i)
  <2> SUFFICES ASSUME NEW i \in DOMAIN sent PROVE Fits(i)' <=> Fits(i)
    OBVIOUS
  <2>1. i - 1 \in Intact' <=> i - 1 \in Intact
    <3>1. i - 1 \in DOMAIN sent \/ i = 1
      BY <1>2
    <3>2. 0 \notin Intact /\ 0 \notin Intact'
      BY <1>2 DEF Intact
    <3> QED BY <1>5, <3>1, <3>2
  <2> QED BY <1>5, <2>1 DEF Fits
<1>7. current.no \in Intact' => current.no \in Intact /\ current.no \in DOMAIN sent
  BY <1>2, <1>3, <1>4, <1>5 DEF Intact
<1>8. LastByte'
  BY <1>2, <1>3, <1>4, <1>7 DEF Receiver, LastByte, Intact
<1>9. Synchronized'
  <2>1. CASE current.no \in DOMAIN sent
    <3>1. Decoded(current)' = Decoded(current) /\ LastPlace(current.no)' = LastPlace(current.no)
      BY <1>2, <1>3, <1>5, <2>1 DEF Decoded
    <3>2. Fits(current.no)' <=> Fits(current.no)
      BY <1>3, <1>6, <2>1
    <3> QED BY <1>2, <1>3, <2>1, <3>1, <3>2 DEF Receiver, Synchronized
  <2>2. CASE current.no \notin DOMAIN sent
    BY <1>3, <1>7, <2>2 DEF Synchronized, Fits
  <2> QED BY <2>1, <2>2
<1>10. ASSUME Arrived PROVE Arrived'
  <2> SUFFICES ASSUME NEW i \in DOMAIN sent', Fits(i)', i < current.no \/ current = LastPlace(i)'
               PROVE  \E j \in DOMAIN delivered : delivered[j] = [packet |-> sent'[i].data, no |-> i]
    BY <1>3 DEF Arrived
  <2>1. i \in DOMAIN sent
    <3>1. LastPlace(i)'.no = i
      BY DEF LastPlace, Place
    <3> QED BY <1>2, <1>4, <3>1
  <2> QED BY <1>2, <1>5, <1>6, <1>10, <2>1 DEF Arrived
<1>11. Numbers'
  BY <1>2, <1>3, <1>5 DEF Receiver, Numbers
<1>12. DeliveredInOrder'
  BY <1>2, <1>3 DEF Receiver, Numbers, DeliveredInOrder
<1> QED BY <1>8, <1>9, <1>10, <1>11, <1>12 DEF Receiver

\* Nothing is read, and bytes may be lost.
LEMMA KeepReceiver ==
    ASSUME Receiver, UNCHANGED <<sent, current, delivered>>, damaged \subseteq damaged',
           decoder' = decoder \/ (current.no \in damaged' /\ receiving' = FALSE)
    PROVE  Receiver' /\ (Arrived => Arrived')
<1>1. \A i : i \in Intact' => i \in Intact
  BY DEF Intact
<1>2. \A i : Fits(i)' => Fits(i)
  BY <1>1 DEF Fits
<1>3. \A i : LastPlace(i)' = LastPlace(i)
  BY DEF LastPlace
<1>4. LastByte' /\ Synchronized'
  <2>1. CASE decoder' = decoder
    <3>1. LastByte'
      BY <1>1, <2>1 DEF Receiver, LastByte, decoder, ByteAt
    <3>2. Synchronized'
      BY <1>2, <1>3, <2>1 DEF Receiver, Synchronized, decoder, Decoded
    <3> QED BY <3>1, <3>2
  <2>2. CASE current.no \in damaged' /\ receiving' = FALSE
    BY <2>2 DEF LastByte, Synchronized, Fits, Intact
  <2> QED BY <2>1, <2>2
<1>5. Arrived => Arrived'
  BY <1>2, <1>3 DEF Arrived
<1>6. Numbers' /\ DeliveredInOrder'
  BY <1>3 DEF Receiver, Numbers, DeliveredInOrder
<1> QED BY <1>4, <1>5, <1>6 DEF Receiver

----------------------------------------------------------------------------
(* What the receiver does.                                                 *)

\* The buffers passed to Receive hold every packet.
BufferFits == \A size \in BufferSize, p \in Packet : size >= Len(p)

\* What Receive returns.
Returned == [packet |-> SubSeq(inputFrame, 1, Len(inputFrame) - 2), no |-> current.no]

\* Sequences with the same elements are equal.
LEMMA SameSequence ==
    ASSUME NEW S, NEW T, NEW s \in Seq(S), NEW t \in Seq(T), Len(s) = Len(t),
           \A i \in 1 .. Len(s) : s[i] = t[i]
    PROVE  s = t
<1>1. S \subseteq S \cup T /\ T \subseteq S \cup T
  OBVIOUS
<1>2. s \in Seq(S \cup T) /\ t \in Seq(S \cup T)
  BY <1>1, SeqMonotonic
<1> QED BY <1>2, SeqEqual

\* A part of a sequence, element by element.
LEMMA PartIs ==
    ASSUME NEW S, NEW T, NEW s \in Seq(S), NEW t \in Seq(T), NEW m \in Nat, m + Len(t) =< Len(s),
           \A j \in 1 .. Len(t) : s[m + j] = t[j]
    PROVE  SubSeq(s, m + 1, m + Len(t)) = t
<1> DEFINE n == Len(t)
           r == SubSeq(s, m + 1, m + n)
<1>1. n \in Nat /\ Len(s) \in Nat /\ m + 1 \in Int /\ m + n \in Int
  OBVIOUS
<1>2. ASSUME NEW i \in m + 1 .. m + n PROVE s[i] \in S
  <2>1. i \in 1 .. Len(s)
    BY <1>1
  <2> QED BY <2>1
<1> HIDE DEF n
<1>3. /\ r \in Seq(S) /\ Len(r) = IF m + 1 =< m + n THEN m + n - (m + 1) + 1 ELSE 0
      /\ \A i \in 1 .. m + n - (m + 1) + 1 : r[i] = s[m + 1 + i - 1]
  BY <1>1, <1>2, SubSeqProperties
<1> HIDE DEF r
<1>4. r \in Seq(S) /\ Len(r) = n
  BY <1>1, <1>3
<1>5. ASSUME NEW i \in 1 .. n PROVE r[i] = t[i]
  <2>1. i \in 1 .. m + n - (m + 1) + 1 /\ m + 1 + i - 1 = m + i
    BY <1>1
  <2>2. s[m + i] = t[i]
    BY DEF n
  <2> QED BY <1>3, <2>1, <2>2
<1>6. Len(r) = Len(t) /\ \A i \in 1 .. Len(r) : r[i] = t[i]
  BY <1>4, <1>5 DEF n
<1>7. r = t
  BY <1>4, <1>6, SameSequence
<1> QED BY <1>7 DEF r, n

\* A packet and its checksum are taken for what they are.
LEMMA FrameTaken ==
    ASSUME NEW p \in Packet, NEW c \in Seq(Nat), c = Fcs(p), Len(c) = 2,
           NEW s \in Seq(Stored), s = inputFrame, Len(s) = Len(p) + 2,
           \A j \in 1 .. Len(p) : s[j] = p[j],
           \A j \in 1 .. 2 : s[Len(p) + j] = c[j]
    PROVE  FrameGood /\ SubSeq(inputFrame, 1, Len(inputFrame) - 2) = p
<1>1. p \in Seq(Nat) /\ Len(p) \in Nat /\ Len(p) > 0
  BY PacketAssumption
<1>2. SubSeq(s, 1, Len(p)) = p
  <2>1. 0 \in Nat /\ 0 + Len(p) = Len(p) /\ 0 + Len(p) =< Len(s) /\ 0 + 1 = 1
    BY <1>1
  <2>2. \A j \in 1 .. Len(p) : s[0 + j] = p[j]
    BY <1>1
  <2>3. SubSeq(s, 0 + 1, 0 + Len(p)) = p
    BY <1>1, <2>1, <2>2, PartIs
  <2> QED BY <2>1, <2>3
<1>3. SubSeq(s, Len(p) + 1, Len(p) + 2) = c
  BY <1>1, PartIs
<1>4. Len(s) > 2 /\ Len(s) - 1 = Len(p) + 1 /\ Len(s) = Len(p) + 2 /\ Len(s) - 2 = Len(p)
  BY <1>1
<1> QED BY <1>2, <1>3, <1>4 DEF FrameGood

\* One pass of the loop of Receive, by what it reads.
LEMMA ReceiveFacts ==
    ASSUME TInv, Receive
    PROVE  /\ ReadByte
           /\ ~receiving /\ dataByte = HDLC_FLAG => receiving' = TRUE /\ inputFrame' = <<>>
           /\ receiving /\ dataByte = HDLC_FLAG /\ lastDataByte = HDLC_FLAG =>
                 receiving' = receiving /\ inputFrame' = <<>>
           /\ receiving /\ dataByte # HDLC_FLAG /\ Len(inputFrame) < MaxFrameSize =>
                 /\ receiving' = receiving
                 /\ dataByte = HDLC_ESCAPE => inputFrame' = inputFrame
                 /\ dataByte # HDLC_ESCAPE /\ lastDataByte = HDLC_ESCAPE =>
                       inputFrame' = Append(inputFrame, XorMask(dataByte))
                 /\ dataByte # HDLC_ESCAPE /\ lastDataByte # HDLC_ESCAPE =>
                       inputFrame' = Append(inputFrame, dataByte)
           /\ receiving /\ dataByte = HDLC_FLAG /\ lastDataByte # HDLC_FLAG =>
                 /\ receiving' = FALSE
                 /\ \E size \in BufferSize :
                       FrameGood /\ size >= Len(inputFrame) - 2 => delivered' = Append(delivered, Returned)
           /\ \/ delivered' = delivered
              \/ /\ receiving /\ dataByte = HDLC_FLAG /\ lastDataByte # HDLC_FLAG /\ FrameGood
                 /\ delivered' = Append(delivered, Returned)
<1>1. CASE ReceiveOutside
  BY <1>1 DEF ReceiveOutside
<1>2. CASE ReceiveRepeatedFlag
  BY <1>2 DEF ReceiveRepeatedFlag
<1>3. CASE ReceiveData
  BY <1>3 DEF ReceiveData
<1>4. ASSUME NEW size \in BufferSize, ReceiveEnd(size)
      PROVE  /\ ReadByte /\ receiving /\ dataByte = HDLC_FLAG /\ lastDataByte # HDLC_FLAG /\ receiving' = FALSE
             /\ FrameGood /\ size >= Len(inputFrame) - 2 => delivered' = Append(delivered, Returned)
             /\ delivered' = delivered \/ (FrameGood /\ delivered' = Append(delivered, Returned))
  BY <1>4 DEF ReceiveEnd, Returned
<1>5. CASE \E size \in BufferSize : ReceiveEnd(size)
  BY <1>4, <1>5
<1> QED BY <1>1, <1>2, <1>3, <1>5 DEF Receive

\* The bytes of a packet one after another, and what they make of the frame.
LEMMA SuccByte ==
    ASSUME TInv, NEW x, OnLine(x), NEW y, OnLine(y), y = Succ(x), sent[x.no].kind = "packet"
    PROVE  /\ y.no = x.no
           /\ \/ /\ y.at = x.at /\ x.at # 1 /\ Decoded(x) = x.at - 2 /\ Decoded(y) = x.at - 1
                 /\ ByteAt(x) = HDLC_ESCAPE /\ ByteAt(y) \notin {HDLC_FLAG, HDLC_ESCAPE}
                 /\ XorMask(ByteAt(y)) = Frame(sent[x.no])[x.at]
                 /\ x.at # Len(Frame(sent[x.no])) /\ y.part = 2
              \/ /\ y.at = x.at + 1 /\ y.part = 1 /\ Decoded(x) = x.at - 1 /\ ByteAt(x) # HDLC_ESCAPE
                 /\ \/ y.at = Len(Frame(sent[x.no])) /\ ByteAt(y) = HDLC_FLAG
                    \/ /\ y.at # Len(Frame(sent[x.no])) /\ ByteAt(y) = HDLC_ESCAPE
                       /\ Decoded(y) = x.at - 1
                    \/ /\ y.at # Len(Frame(sent[x.no])) /\ ByteAt(y) \notin {HDLC_FLAG, HDLC_ESCAPE}
                       /\ Decoded(y) = x.at /\ ByteAt(y) = Frame(sent[x.no])[x.at + 1]
<1> DEFINE n == Len(Frame(sent[x.no]))
<1>1. sent \in Seq(Item)
  BY LineFacts
<1>2. x.at \in Nat /\ x.at >= 1 /\ y.at \in Nat /\ y.at >= 1 /\ n \in Nat
  BY <1>1, PlaceFacts
<1>3. /\ ByteAt(x) = HDLC_ESCAPE <=> Escapes(sent[x.no], x.at) /\ x.part = 1
      /\ x.at = 1 \/ x.at = n => ~Escapes(sent[x.no], x.at)
  BY <1>1, PacketPlace
<1>4. CASE Escapes(sent[x.no], x.at) /\ x.part = 1
  <2>1. y.no = x.no /\ y.at = x.at /\ y.part = 2
    BY <1>4, PlaceRecord DEF Succ, OnLine
  <2>2. x.at # 1 /\ x.at # n /\ ByteAt(x) = HDLC_ESCAPE /\ Decoded(x) = x.at - 2 /\ Decoded(y) = x.at - 1
    BY <1>3, <1>4, <2>1 DEF Decoded
  <2>3. ByteAt(y) \notin {HDLC_FLAG, HDLC_ESCAPE} /\ XorMask(ByteAt(y)) = Frame(sent[x.no])[x.at]
    <3>1. sent[y.no].kind = "packet" /\ y.at # 1 /\ y.at # Len(Frame(sent[y.no])) /\ y.part # 1
          /\ Escapes(sent[y.no], y.at)
      BY <1>4, <2>1, <2>2
    <3>2. ByteAt(y) # HDLC_FLAG /\ ByteAt(y) # HDLC_ESCAPE /\ XorMask(ByteAt(y)) = Frame(sent[y.no])[y.at]
      BY <1>1, <3>1, PacketPlace
    <3> QED BY <2>1, <3>2
  <2> QED BY <2>1, <2>2, <2>3
<1>5. CASE ~(Escapes(sent[x.no], x.at) /\ x.part = 1)
  <2>1. y.no = x.no /\ y.at = x.at + 1 /\ y.part = 1
    BY <1>5 DEF Succ, Place
  <2>2. Decoded(x) = x.at - 1 /\ ByteAt(x) # HDLC_ESCAPE
    BY <1>3, <1>5 DEF Decoded
  <2>3. /\ ByteAt(y) = HDLC_FLAG <=> y.at = 1 \/ y.at = n
        /\ ByteAt(y) = HDLC_ESCAPE <=> Escapes(sent[y.no], y.at) /\ y.part = 1
        /\ ~Escapes(sent[y.no], y.at) => ByteAt(y) = Frame(sent[y.no])[y.at]
    BY <1>1, <2>1, PacketPlace
  <2>4. y.at # 1 /\ y.at - 1 = x.at /\ y.at - 2 = x.at - 1
    BY <1>2, <2>1
  <2>5. CASE y.at = n
    BY <2>1, <2>2, <2>3, <2>5
  <2>6. CASE y.at # n /\ Escapes(sent[y.no], y.at)
    BY <2>1, <2>2, <2>3, <2>4, <2>6 DEF Decoded
  <2>7. CASE y.at # n /\ ~Escapes(sent[y.no], y.at)
    BY <2>1, <2>2, <2>3, <2>4, <2>7 DEF Decoded
  <2> QED BY <2>5, <2>6, <2>7
<1> QED BY <1>4, <1>5

\* The last byte of a packet that is received whole ends its frame.
LEMMA EndOfPacket ==
    ASSUME TInv, Line, Receiver, ReadByte,
           Fits(current'.no), current' = LastPlace(current'.no)
    PROVE  /\ receiving /\ dataByte = HDLC_FLAG /\ lastDataByte # HDLC_FLAG /\ FrameGood
           /\ Returned = [packet |-> sent[current'.no].data, no |-> current'.no]
           /\ sent[current'.no].data \in Packet /\ Len(inputFrame) - 2 = Len(sent[current'.no].data)
<1> DEFINE x == current
           y == current'
           f == Frame(sent[y.no])
           p == sent[y.no].data
<1>1. y.no \in Intact
  BY DEF Fits
<1>2. /\ y.no \in DOMAIN sent /\ sent[y.no].kind = "packet" /\ sent[y.no] \in Item
      /\ Len(f) \in Nat /\ Len(f) >= 5 /\ y.at = Len(f) /\ y.part = 1 /\ OnLine(y)
  BY <1>1, LastPlaceFacts
<1>3. p \in Packet
  BY <1>2 DEF Item
<1>4. /\ Len(f) = Len(p) + 4 /\ Len(p) \in Nat /\ Fcs(p) \in Seq(Nat) /\ Len(Fcs(p)) = 2
      /\ \A j \in 1 .. Len(p) : f[j + 1] = p[j]
      /\ \A j \in 1 .. 2 : f[Len(p) + 1 + j] = Fcs(p)[j]
  BY <1>2, FrameFacts
<1>5. x.no = y.no /\ OnLine(x) /\ x # LastPlace(x.no) /\ y = Succ(x)
  <2>1. ~ (y = Place(y.no, 1))
    BY <1>2 DEF Place
  <2> QED BY <1>1, <2>1, NextByte
<1>6. y.at = x.at + 1 /\ Decoded(x) = x.at - 1 /\ x.at \in Nat /\ ByteAt(y) = HDLC_FLAG
  <2>1. x.at \in Nat
    BY <1>5, LineFacts, PlaceFacts
  <2> QED BY <1>2, <1>5, <2>1, SuccByte
<1>7. ByteAt(x) # HDLC_FLAG
  <2>1. x.at # 1 /\ x.at # Len(f)
    BY <1>2, <1>6
  <2> QED BY <1>2, <1>5, <2>1, LineFacts, PacketPlace
<1>8. dataByte = HDLC_FLAG /\ lastDataByte # HDLC_FLAG
  <2>1. dataByte = ByteAt(y)
    BY ReadFacts
  <2>2. lastDataByte = ByteAt(x)
    BY <1>1, <1>5 DEF Receiver, LastByte
  <2> QED BY <1>6, <1>7, <2>1, <2>2
<1>9. /\ receiving /\ Len(inputFrame) = Len(p) + 2
      /\ \A j \in 1 .. Len(p) + 2 : inputFrame[j] = f[j + 1]
  <2>1. /\ receiving /\ Len(inputFrame) = Decoded(x)
        /\ \A j \in 1 .. Decoded(x) : inputFrame[j] = Frame(sent[x.no])[j + 1]
    BY <1>5 DEF Receiver, Synchronized
  <2>2. Decoded(x) = Len(p) + 2
    <3> HIDE DEF p, f, x, y
    <3>1. x.at + 1 = Len(p) + 4
      BY <1>2, <1>4, <1>6
    <3> QED BY <1>4, <1>6, <3>1
  <2> QED BY <1>5, <2>1, <2>2
<1>10. FrameGood /\ SubSeq(inputFrame, 1, Len(inputFrame) - 2) = p
  <2> DEFINE s == inputFrame
  <2>1. s \in Seq(Stored)
    BY DEF TInv, TypeOK, DecoderOK
  <2> HIDE DEF p, f
  <2>2. \A j \in 1 .. Len(p) : s[j] = p[j]
    <3>1. \A j \in 1 .. Len(p) : j \in 1 .. Len(p) + 2
      BY <1>4
    <3> QED BY <1>4, <1>9, <3>1
  <2>3. ASSUME NEW j \in 1 .. 2 PROVE s[Len(p) + j] = Fcs(p)[j]
    <3>1. Len(p) + j \in 1 .. Len(p) + 2 /\ Len(p) + j + 1 = Len(p) + 1 + j
      BY <1>4
    <3> QED BY <1>4, <1>9, <3>1
  <2>4. Len(s) = Len(p) + 2
    BY <1>9
  <2> HIDE DEF s
  <2>5. s = inputFrame
    BY DEF s
  <2> QED BY <1>3, <1>4, <2>1, <2>2, <2>3, <2>4, <2>5, FrameTaken
<1>11. Len(inputFrame) - 2 = Len(p)
  BY <1>4, <1>9
<1> QED BY <1>3, <1>5, <1>8, <1>9, <1>10, <1>11 DEF Returned

\* In a packet that is received whole every byte before the last adds to the frame.
LEMMA StaysSynchronized ==
    ASSUME TInv, Line, Receiver, Receive, Fits(current'.no), current' # LastPlace(current'.no)
    PROVE  /\ receiving' /\ Len(inputFrame') = Decoded(current')
           /\ \A j \in 1 .. Decoded(current') : inputFrame'[j] = Frame(sent[current'.no])[j + 1]
<1> DEFINE x == current
           y == current'
           f == Frame(sent[y.no])
<1>1. ReadByte /\ y.no \in Intact /\ dataByte = ByteAt(y) /\ OnLine(y)
  BY ReceiveFacts, ReadFacts DEF Fits
<1>2. /\ y.no \in DOMAIN sent /\ sent[y.no].kind = "packet" /\ sent[y.no] \in Item
      /\ Len(f) \in Nat /\ Len(f) >= 5 /\ y.no >= 1 /\ y.no \in Nat
      /\ Place(y.no, 1).at = 1 /\ Place(y.no, 1).part = 1
      /\ y.at = Len(f) => y = LastPlace(y.no)
  BY <1>1, LastPlaceFacts
<1>3. CASE y.no # x.no
  <2>1. y = Place(y.no, 1) /\ x.no < y.no
    BY <1>1, <1>3, NextByte
  <2>2. dataByte = HDLC_FLAG
    BY <1>1, <1>2, <2>1, LineFacts, PacketPlace
  <2>3. receiving => lastDataByte = HDLC_FLAG
    <3> SUFFICES ASSUME receiving PROVE lastDataByte = HDLC_FLAG
      OBVIOUS
    <3>1. lastDataByte = ByteAt(x) /\ x.no # 0
      BY DEF Receiver, LastByte
    <3>2. x \in Places /\ x.no \in Nat
      BY LineFacts, PlaceRecord
    <3>3. y.no - 1 \in Intact
      BY <2>1, <3>1, <3>2 DEF Fits
    <3>4. x.no =< y.no - 1 /\ y.no - 1 < y.no
      BY <1>2, <2>1, <3>2
    <3>5. x = LastPlace(y.no - 1)
      BY <1>1, <3>3, <3>4, NoneSkipped
    <3>6. /\ OnLine(x) /\ x.no = y.no - 1 /\ x.at = Len(Frame(sent[x.no])) /\ sent[x.no].kind = "packet"
      BY <3>3, <3>5, LastPlaceFacts
    <3> QED BY <3>1, <3>6, LineFacts, PacketPlace
  <2>4. receiving' /\ inputFrame' = <<>>
    BY <2>2, <2>3, ReceiveFacts
  <2>5. Decoded(y) = 0
    BY <1>2, <2>1 DEF Decoded
  <2> QED BY <2>4, <2>5
<1>4. CASE y.no = x.no
  <2>1. OnLine(x) /\ x # LastPlace(x.no) /\ y = Succ(x)
    BY <1>1, <1>4, NextByte
  <2>2. /\ receiving /\ Len(inputFrame) = Decoded(x)
        /\ \A j \in 1 .. Decoded(x) : inputFrame[j] = f[j + 1]
    BY <1>4, <2>1 DEF Receiver, Synchronized
  <2>3. lastDataByte = ByteAt(x)
    BY <1>1, <1>4 DEF Receiver, LastByte
  <2>4. /\ inputFrame \in Seq(Stored) /\ Len(f) - 2 =< MaxFrameSize /\ MaxFrameSize \in Nat
        /\ x.at \in Nat /\ x.at >= 1 /\ y.at \in Nat /\ y.at =< Len(f) /\ y.at # Len(f)
    <3>1. Len(f) = Len(sent[y.no].data) + 4 /\ Len(sent[y.no].data) + 2 =< MaxFrameSize
          /\ Len(sent[y.no].data) \in Nat
      BY <1>2, FrameFacts
    <3>2. inputFrame \in Seq(Stored)
      BY DEF TInv, TypeOK, DecoderOK
    <3>3. x.at \in Nat /\ x.at >= 1 /\ y.at \in Nat /\ y.at =< Len(f)
      BY <1>1, <2>1, LineFacts, PlaceFacts
    <3>4. y.at # Len(f)
      BY <1>2
    <3>5. Len(f) - 2 =< MaxFrameSize
      <4> HIDE DEF f
      <4> QED BY <3>1, PacketAssumption
    <3> QED BY <3>2, <3>3, <3>4, <3>5, PacketAssumption
  <2>5. Len(inputFrame) < MaxFrameSize /\ dataByte # HDLC_FLAG
    <3>1. \/ Decoded(x) = x.at - 2 /\ y.at = x.at /\ ByteAt(y) # HDLC_FLAG
          \/ Decoded(x) = x.at - 1 /\ y.at = x.at + 1 /\ ByteAt(y) # HDLC_FLAG
      BY <1>1, <1>2, <1>4, <2>1, <2>4, SuccByte, HdlcAssumption
    <3>2. Decoded(x) < MaxFrameSize
      <4> HIDE DEF f, x, y
      <4> QED BY <1>2, <2>4, <3>1
    <3> QED BY <1>1, <2>2, <3>1, <3>2
  <2>6. receiving' = receiving
    BY <2>2, <2>5, ReceiveFacts
  <2>7. ASSUME NEW b \in Stored, inputFrame' = Append(inputFrame, b), Decoded(y) = Decoded(x) + 1,
               b = f[Decoded(x) + 2]
        PROVE  /\ Len(inputFrame') = Decoded(y)
               /\ \A j \in 1 .. Decoded(y) : inputFrame'[j] = f[j + 1]
    <3>1. Decoded(x) \in Nat
      BY <2>2, <2>4
    <3>2. /\ Len(inputFrame') = Decoded(x) + 1 /\ inputFrame'[Decoded(x) + 1] = b
          /\ \A j \in 1 .. Decoded(x) : inputFrame'[j] = inputFrame[j]
      BY <2>2, <2>4, <2>7, <3>1, AppendFacts
    <3> HIDE DEF f
    <3>3. ASSUME NEW j \in 1 .. Decoded(x) + 1 PROVE inputFrame'[j] = f[j + 1]
      <4>1. j \in 1 .. Decoded(x) \/ j = Decoded(x) + 1
        BY <3>1
      <4>2. Decoded(x) + 1 + 1 = Decoded(x) + 2
        BY <3>1
      <4> QED BY <2>2, <2>7, <3>2, <4>1, <4>2
    <3> QED BY <2>7, <3>2, <3>3
  <2>8. CASE y.at = x.at
    <3>1. /\ Decoded(x) = x.at - 2 /\ Decoded(y) = x.at - 1 /\ ByteAt(x) = HDLC_ESCAPE
          /\ ByteAt(y) # HDLC_ESCAPE /\ XorMask(ByteAt(y)) = f[x.at]
      BY <1>1, <1>2, <1>4, <2>1, <2>4, <2>8, SuccByte
    <3>2. inputFrame' = Append(inputFrame, XorMask(dataByte))
      BY <1>1, <2>2, <2>3, <2>5, <3>1, ReceiveFacts
    <3>3. XorMask(dataByte) \in Stored
      BY <1>1, ReadFacts DEF Stored
    <3>4. Decoded(y) = Decoded(x) + 1 /\ Decoded(x) + 2 = x.at
      BY <2>4, <3>1
    <3> QED BY <1>1, <2>2, <2>6, <2>7, <3>1, <3>2, <3>3, <3>4
  <2>9. CASE y.at # x.at /\ ByteAt(y) = HDLC_ESCAPE
    <3>1. Decoded(x) = x.at - 1 /\ Decoded(y) = x.at - 1
      BY <1>1, <1>2, <1>4, <2>1, <2>4, <2>9, SuccByte, HdlcAssumption
    <3>2. inputFrame' = inputFrame
      BY <1>1, <2>2, <2>5, <2>9, ReceiveFacts
    <3> QED BY <2>2, <2>6, <3>1, <3>2
  <2>10. CASE y.at # x.at /\ ByteAt(y) # HDLC_ESCAPE
    <3>1. /\ Decoded(x) = x.at - 1 /\ Decoded(y) = x.at /\ ByteAt(x) # HDLC_ESCAPE
          /\ ByteAt(y) = f[x.at + 1]
      BY <1>1, <1>2, <1>4, <2>1, <2>4, <2>10, SuccByte
    <3>2. inputFrame' = Append(inputFrame, dataByte)
      BY <1>1, <2>2, <2>3, <2>5, <2>10, <3>1, ReceiveFacts
    <3>3. dataByte \in Stored
      BY <1>1, ReadFacts DEF Stored
    <3>4. Decoded(y) = Decoded(x) + 1 /\ Decoded(x) + 2 = x.at + 1
      BY <2>4, <3>1
    <3> QED BY <1>1, <2>2, <2>6, <2>7, <3>1, <3>2, <3>3, <3>4
  <2> QED BY <2>8, <2>9, <2>10
<1> QED BY <1>3, <1>4

\* What is delivered ends with the byte before the flag, which is none itself.
LEMMA DeliveryFacts ==
    ASSUME TInv, Receiver, Receive, delivered' # delivered
    PROVE  /\ receiving /\ dataByte = HDLC_FLAG /\ lastDataByte # HDLC_FLAG /\ FrameGood
           /\ delivered' = Append(delivered, Returned) /\ Returned.no = current.no
           /\ OnLine(current) /\ current.no # 0
           /\ sent[current.no].kind = "packet" => current # LastPlace(current.no)
<1> DEFINE x == current
<1>1. /\ receiving /\ dataByte = HDLC_FLAG /\ lastDataByte # HDLC_FLAG /\ FrameGood
      /\ delivered' = Append(delivered, Returned)
  BY ReceiveFacts
<1>2. x.no # 0 /\ lastDataByte = ByteAt(x)
  BY <1>1 DEF Receiver, LastByte
<1>3. OnLine(x) /\ sent \in Seq(Item)
  BY <1>2, LineFacts DEF Place
<1>4. ASSUME sent[x.no].kind = "packet", x = LastPlace(x.no) PROVE FALSE
  <2>1. x.at = Len(Frame(sent[x.no]))
    BY <1>4 DEF LastPlace, Place
  <2>2. ByteAt(x) = HDLC_FLAG
    BY <1>3, <1>4, <2>1, PacketPlace
  <2> QED BY <1>1, <1>2, <2>2
<1> QED BY <1>1, <1>2, <1>3, <1>4 DEF Returned

LEMMA ReceiveReceiver ==
    ASSUME TInv, Line, Receiver, Receive
    PROVE  Receiver' /\ (Arrived /\ BufferFits => Arrived')
<1> DEFINE x == current
           y == current'
<1>1. /\ ReadByte /\ OnLine(y) /\ dataByte = ByteAt(y) /\ lastDataByte' = dataByte
      /\ sent' = sent /\ damaged' = damaged
  BY ReceiveFacts, ReadFacts DEF sender
<1>2. /\ sent \in Seq(Item) /\ delivered \in Seq([packet : Seq(Stored), no : 0 .. MaxPackets])
      /\ x = Place(0, 0) \/ OnLine(x)
  BY LineFacts DEF TInv, TypeOK
<1>3. Before(x, y) /\ x \in Places /\ y \in Places
  BY <1>1, HeadFirst, LineFacts
<1>4. /\ x.no \in Nat /\ x.at \in Nat /\ x.part \in Nat /\ y.no \in Nat /\ y.at \in Nat /\ y.part \in Nat
      /\ y.no \in DOMAIN sent /\ y.no >= 1 /\ x.no =< y.no
      /\ x.no # 0 => OnLine(x) /\ x.no \in DOMAIN sent /\ x.at >= 1
  <2>1. y.no \in DOMAIN sent /\ y.no >= 1
    BY <1>1, <1>2, PlaceFacts
  <2>2. x.no # 0 => OnLine(x)
    BY <1>2 DEF Place
  <2>3. x.no # 0 => x.no \in DOMAIN sent /\ x.at >= 1
    BY <1>2, <2>2, PlaceFacts
  <2> QED BY <1>3, <2>1, <2>2, <2>3, PlaceRecord DEF Before
<1>5. /\ \A i : i \in Intact' <=> i \in Intact
      /\ \A i : Fits(i)' <=> Fits(i)
      /\ \A i : LastPlace(i)' = LastPlace(i)
      /\ \A p : ByteAt(p)' = ByteAt(p)
      /\ \A p : Decoded(p)' = Decoded(p)
  BY <1>1 DEF Intact, Fits, LastPlace, ByteAt, Decoded
<1>6. ASSUME delivered' # delivered
      PROVE  /\ dataByte = HDLC_FLAG /\ delivered' = Append(delivered, Returned)
             /\ Returned.no = x.no /\ x.no # 0
             /\ sent[x.no].kind = "packet" => x # LastPlace(x.no)
  BY <1>6, DeliveryFacts
<1>7. /\ \A j \in DOMAIN delivered : j \in DOMAIN delivered' /\ delivered'[j] = delivered[j]
      /\ \A j \in DOMAIN delivered' : \/ j \in DOMAIN delivered /\ delivered'[j] = delivered[j]
                                      \/ /\ delivered' = Append(delivered, Returned) /\ delivered'[j] = Returned
                                         /\ delivered' # delivered /\ j = Len(delivered) + 1
  <2>1. CASE delivered' = delivered
    BY <2>1
  <2>2. CASE delivered' # delivered
    <3>1. delivered' = Append(delivered, Returned)
      BY <1>6, <2>2
    <3>2. /\ DOMAIN delivered' = DOMAIN delivered \cup {Len(delivered) + 1}
          /\ delivered'[Len(delivered) + 1] = Returned
          /\ \A j \in DOMAIN delivered : delivered'[j] = delivered[j]
      BY <1>2, <3>1
    <3> QED BY <2>2, <3>1, <3>2
  <2> QED BY <2>1, <2>2
<1>8. LastByte'
  BY <1>1, <1>4, <1>5 DEF LastByte
<1>9. Synchronized'
  <2>1. ASSUME Fits(y.no), y = LastPlace(y.no) PROVE ~receiving'
    <3>1. receiving /\ dataByte = HDLC_FLAG /\ lastDataByte # HDLC_FLAG
      BY <1>1, <2>1, EndOfPacket
    <3> QED BY <3>1, ReceiveFacts
  <2>2. ASSUME Fits(y.no), y # LastPlace(y.no)
        PROVE  /\ receiving' /\ Len(inputFrame') = Decoded(y)
               /\ \A j \in 1 .. Decoded(y) : inputFrame'[j] = Frame(sent[y.no])[j + 1]
    BY <2>2, StaysSynchronized
  <2> QED BY <1>1, <2>1, <2>2, <1>5 DEF Synchronized
<1>10. Numbers'
  <2> SUFFICES ASSUME NEW j \in DOMAIN delivered'
               PROVE  /\ delivered'[j].no \in DOMAIN sent /\ delivered'[j].no =< y.no
                      /\ delivered'[j].no = y.no => sent[y.no].kind = "raw" \/ y = LastPlace(y.no)
    BY <1>1, <1>5 DEF Numbers
  <2>1. CASE j \in DOMAIN delivered /\ delivered'[j] = delivered[j]
    <3>1. /\ delivered[j].no \in DOMAIN sent /\ delivered[j].no =< x.no
          /\ delivered[j].no = x.no => sent[x.no].kind = "raw" \/ x = LastPlace(x.no)
      BY <2>1 DEF Receiver, Numbers
    <3>2. delivered[j].no \in Nat
      BY <1>2, <3>1
    <3>3. delivered[j].no =< y.no
      BY <1>4, <3>1, <3>2
    <3>4. ASSUME delivered[j].no = y.no, sent[y.no].kind = "packet" PROVE FALSE
      <4>1. x.no = y.no
        BY <1>4, <3>1, <3>4
      <4>2. x = LastPlace(x.no)
        BY <3>1, <3>4, <4>1
      <4>3. /\ x.at = Len(Frame(sent[y.no])) /\ x.part = 1
        BY <4>1, <4>2 DEF LastPlace, Place
      <4>4. y.at =< Len(Frame(sent[y.no])) /\ Len(Frame(sent[y.no])) \in Nat
        BY <1>1, <1>2, PlaceFacts
      <4>5. y.at = Len(Frame(sent[y.no])) /\ y.part > 1
        BY <1>3, <1>4, <4>1, <4>3, <4>4 DEF Before
      <4>6. y.part = 1
        BY <1>1, <1>2, <3>4, <4>5, PacketPlace
      <4> QED BY <4>5, <4>6
    <3>5. sent[y.no].kind \in {"packet", "raw"}
      BY <1>2, <1>4, SentFacts
    <3> QED BY <2>1, <3>1, <3>3, <3>4, <3>5
  <2>2. CASE delivered' # delivered /\ delivered'[j] = Returned
    <3>1. Returned.no = x.no /\ x.no # 0 /\ dataByte = HDLC_FLAG
      BY <1>6, <2>2
    <3>2. ASSUME x.no = y.no, sent[y.no].kind = "packet" PROVE y = LastPlace(y.no)
      <4>1. y.at = 1 \/ y.at = Len(Frame(sent[y.no]))
        BY <1>1, <1>2, <3>1, <3>2, PacketPlace
      <4>2. y.part = 1
        BY <1>1, <1>2, <3>2, <4>1, PacketPlace
      <4>3. x.part >= 1
        BY <1>3, PlaceRecord
      <4>4. y.at # 1
        BY <1>3, <1>4, <3>1, <3>2, <4>2, <4>3 DEF Before
      <4>5. y = [no |-> y.no, at |-> y.at, part |-> y.part]
        BY <1>3, PlaceRecord
      <4> QED BY <4>1, <4>2, <4>4, <4>5 DEF LastPlace, Place
    <3>3. sent[y.no].kind \in {"packet", "raw"}
      BY <1>2, <1>4, SentFacts
    <3> QED BY <1>4, <2>2, <3>1, <3>2, <3>3
  <2> QED BY <1>7, <2>1, <2>2
<1>11. DeliveredInOrder'
  <2> SUFFICES ASSUME NEW j \in DOMAIN delivered', NEW k \in DOMAIN delivered', j < k
               PROVE  \/ delivered'[j].no < delivered'[k].no
                      \/ delivered'[j].no = delivered'[k].no /\ sent[delivered'[k].no].kind = "raw"
    BY <1>1 DEF DeliveredInOrder
  <2>1. DOMAIN delivered = 1 .. Len(delivered) /\ Len(delivered) \in Nat
    BY <1>2
  <2>2. CASE k \in DOMAIN delivered
    <3>1. j \in DOMAIN delivered
      BY <1>7, <2>1, <2>2
    <3> QED BY <1>7, <2>2, <3>1 DEF Receiver, DeliveredInOrder
  <2>3. CASE k \notin DOMAIN delivered
    <3>1. delivered' # delivered /\ delivered'[k] = Returned /\ k = Len(delivered) + 1
      BY <1>7, <2>3
    <3>2. j \in DOMAIN delivered /\ delivered'[j] = delivered[j]
      BY <1>7, <2>1, <3>1
    <3>3. Returned.no = x.no /\ x.no # 0 /\ (sent[x.no].kind = "packet" => x # LastPlace(x.no))
      BY <1>6, <3>1
    <3>4. /\ delivered[j].no \in DOMAIN sent /\ delivered[j].no =< x.no
          /\ delivered[j].no = x.no => sent[x.no].kind = "raw" \/ x = LastPlace(x.no)
      BY <3>2 DEF Receiver, Numbers
    <3>5. delivered[j].no \in Nat
      BY <1>2, <3>4
    <3>6. sent[x.no].kind \in {"packet", "raw"}
      BY <1>2, <1>4, <3>3, SentFacts
    <3>7. delivered[j].no < x.no \/ delivered[j].no = x.no
      BY <1>4, <3>4, <3>5
    <3> QED BY <3>1, <3>2, <3>3, <3>4, <3>6, <3>7
  <2> QED BY <2>2, <2>3
<1>12. ASSUME Arrived, BufferFits PROVE Arrived'
  <2> SUFFICES ASSUME NEW i \in DOMAIN sent, Fits(i), i < y.no \/ y = LastPlace(i)
               PROVE  \E j \in DOMAIN delivered' : delivered'[j] = [packet |-> sent[i].data, no |-> i]
    BY <1>1, <1>5 DEF Arrived
  <2>1. i \in Intact /\ i \in Nat
    BY <1>2 DEF Fits
  <2>2. CASE i < y.no
    <3>1. i < x.no \/ x = LastPlace(i)
      BY <1>1, <1>4, <2>1, <2>2, NoneSkipped
    <3>2. \E j \in DOMAIN delivered : delivered[j] = [packet |-> sent[i].data, no |-> i]
      BY <1>12, <3>1 DEF Arrived
    <3> QED BY <1>7, <3>2
  <2>3. CASE y = LastPlace(i)
    <3>1. y.no = i
      BY <2>3 DEF LastPlace, Place
    <3>2. /\ receiving /\ dataByte = HDLC_FLAG /\ lastDataByte # HDLC_FLAG /\ FrameGood
          /\ Returned = [packet |-> sent[i].data, no |-> i]
          /\ sent[i].data \in Packet /\ Len(inputFrame) - 2 = Len(sent[i].data)
      BY <1>1, <2>3, <3>1, EndOfPacket
    <3>3. delivered' = Append(delivered, Returned)
      BY <1>12, <3>2, ReceiveFacts DEF BufferFits
    <3>4. Len(delivered) + 1 \in DOMAIN delivered' /\ delivered'[Len(delivered) + 1] = Returned
      BY <1>2, <3>3
    <3> QED BY <3>2, <3>4
  <2> QED BY <2>2, <2>3
<1> QED BY <1>8, <1>9, <1>10, <1>11, <1>12 DEF Receiver

----------------------------------------------------------------------------
(* The theorems.                                                           *)

LEMMA NextReceiver ==
    ASSUME IInv, [Next]_vars
    PROVE  Receiver' /\ (Arrived /\ BufferFits => Arrived')
<1> USE DEF IInv
<1>1. ASSUME NEW packet \in Packet, Send(packet) PROVE Receiver' /\ (Arrived => Arrived')
  BY <1>1, SendReceiver DEF Send, Item
<1>2. ASSUME NEW chunk \in Raw, SendRaw(chunk) PROVE Receiver' /\ (Arrived => Arrived')
  BY <1>2, SendReceiver DEF SendRaw, Item
<1>3. CASE (\E size \in RawBufferSize : ReceiveRaw(size)) \/ Close \/ Reset
  <2>1. damaged \subseteq damaged' /\ (decoder' = decoder \/ (current.no \in damaged' /\ receiving' = FALSE))
    BY <1>3, LossFacts
  <2>2. UNCHANGED <<sent, current, delivered>>
    BY <1>3 DEF ReceiveRaw, Close, Reset, sender
  <2> QED BY <2>1, <2>2, KeepReceiver
<1>4. CASE WriteByte \/ Transfer \/ Open
  <2>1. damaged \subseteq damaged' /\ decoder' = decoder /\ UNCHANGED <<sent, current, delivered>>
    BY <1>4 DEF WriteByte, Transfer, Open, sender
  <2> QED BY <2>1, KeepReceiver
<1>5. CASE UNCHANGED vars
  <2>1. damaged \subseteq damaged' /\ decoder' = decoder /\ UNCHANGED <<sent, current, delivered>>
    BY <1>5 DEF vars, sender
  <2> QED BY <2>1, KeepReceiver
<1>6. CASE Receive
  BY <1>6, ReceiveReceiver
<1> QED BY <1>1, <1>2, <1>3, <1>4, <1>5, <1>6 DEF Next, Done

\* IInv is an invariant: the line keeps what was written in order, nothing of an
\* intact packet is missing, and in a packet that follows an intact one the
\* receiver knows where it is.
THEOREM Inductive == Spec => []IInv
<1>1. Init => IInv
  BY InitTInv, InitLine, InitReceiver DEF IInv
<1>2. IInv /\ [Next]_vars => IInv'
  BY NextTInv, NextLine, NextReceiver DEF IInv
<1> QED BY <1>1, <1>2, PTL DEF Spec

\* All that the receiver has read or skipped.
LEMMA OverIsRead ==
    ASSUME IInv, NEW i \in Over, Fits(i)
    PROVE  i \in DOMAIN sent /\ (i < current.no \/ current = LastPlace(i))
<1>1. TInv /\ Line /\ i \in Intact /\ i \in DOMAIN sent /\ sent \in Seq(Item)
  BY LineFacts DEF IInv, Fits, Intact
<1>2. i \in Nat /\ i =< Len(sent) /\ Len(sent) \in Nat /\ sent # <<>>
  BY <1>1
<1>3. current.no \in Nat
  BY <1>1, LineFacts, PlaceRecord
<1>4. CASE ~Idle
  BY <1>1, <1>3, <1>4 DEF Over
<1>5. CASE Idle /\ current.no =< i
  <2>1. rxRing = <<>> /\ txRing = <<>> /\ ~Writing
    BY <1>5 DEF Idle, IsBusy
  <2>2. ~InRings(LastPlace(i))
    <3>1. DOMAIN rxRing = {} /\ DOMAIN txRing = {}
      BY <2>1
    <3> QED BY <3>1 DEF InRings
  <2>3. next = Place(Len(sent), Len(Frame(sent[Len(sent)])) + 1)
    BY <1>1, <1>2, <2>1, WritingFacts
  <2>4. Before(LastPlace(i), next)
    <3>1. /\ LastPlace(i).no = i /\ LastPlace(i).at = Len(Frame(sent[i])) /\ Len(Frame(sent[i])) \in Nat
      BY <1>1, LastPlaceFacts
    <3>2. next.no = Len(sent) /\ next.at = Len(Frame(sent[Len(sent)])) + 1
      BY <2>3 DEF Place
    <3>3. i = Len(sent) \/ i < Len(sent)
      BY <1>2
    <3> QED BY <1>2, <3>1, <3>2, <3>3 DEF Before
  <2> QED BY <1>1, <1>5, <2>2, <2>4, AllRead
<1> QED BY <1>1, <1>2, <1>3, <1>4, <1>5

\* Whatever bytes are lost, a packet that arrives whole right after another that
\* did is delivered as it was sent and only once, for any packets, checksum and
\* rings (embenet_brt.c:117-149), if the buffers given to Receive hold it.
THEOREM FramingRecovers == ASSUME BufferFits PROVE Spec => []Resynchronized
<1>1. Init => IInv /\ Arrived
  BY InitTInv, InitLine, InitReceiver DEF IInv
<1>2. IInv /\ Arrived /\ [Next]_vars => (IInv /\ Arrived)'
  BY NextTInv, NextLine, NextReceiver DEF IInv
<1>3. IInv /\ Arrived => Resynchronized
  <2> SUFFICES ASSUME IInv, Arrived, NEW i \in Over, Fits(i)
               PROVE  \E j \in DOMAIN delivered :
                         /\ delivered[j] = [packet |-> sent[i].data, no |-> i]
                         /\ \A k \in DOMAIN delivered : delivered[k].no = i => k = j
    BY DEF Resynchronized, Fits
  <2>1. i \in DOMAIN sent /\ (i < current.no \/ current = LastPlace(i))
    BY OverIsRead
  <2>2. PICK j \in DOMAIN delivered : delivered[j] = [packet |-> sent[i].data, no |-> i]
    BY <2>1 DEF Arrived
  <2>3. ASSUME NEW k \in DOMAIN delivered, delivered[k].no = i PROVE k = j
    <3>1. sent[i].kind # "raw" /\ i \in Nat /\ j \in Nat /\ k \in Nat
      <4>1. sent \in Seq(Item) /\ delivered \in Seq([packet : Seq(Stored), no : 0 .. MaxPackets])
        BY LineFacts DEF IInv, TInv, TypeOK
      <4>2. sent[i].kind = "packet"
        BY DEF Fits, Intact
      <4> QED BY <2>1, <4>1, <4>2
    <3>2. j < k \/ k < j => sent[i].kind = "raw"
      BY <2>2, <2>3, <3>1 DEF IInv, Receiver, DeliveredInOrder
    <3> QED BY <3>1, <3>2
  <2> QED BY <2>2, <2>3
<1> QED BY <1>1, <1>2, <1>3, PTL DEF Spec

\* Whatever bytes are lost, and whatever the checksum is, what is delivered is in
\* the order of what was sent (embenet_brt.c:102-180).
THEOREM NoReordering == Spec => []DeliveredInOrder
<1>1. IInv => DeliveredInOrder
  BY DEF IInv, Receiver
<1> QED BY Inductive, <1>1, PTL

\* While nothing is lost, what has been delivered is what has been read.
InStep ==
    Lossless =>
        /\ current.no = 0 => delivered = <<>>
        /\ current.no # 0 =>
              Len(delivered) = IF current = LastPlace(current.no) THEN current.no ELSE current.no - 1
        /\ \A j \in DOMAIN delivered : delivered[j] = [packet |-> sent[j].data, no |-> j]

\* All packets are intact then.
LEMMA LosslessFacts ==
    ASSUME TInv, Lossless, NEW i \in DOMAIN sent
    PROVE  Fits(i) /\ i \in Nat /\ i >= 1
<1>1. sent \in Seq(Item)
  BY LineFacts
<1>2. i \in Nat /\ i >= 1 /\ (i = 1 \/ i - 1 \in DOMAIN sent)
  BY <1>1
<1> QED BY <1>2 DEF Lossless, Intact, Fits

\* The next byte: in the middle of a packet, or the first one of the next packet.
LEMMA LosslessByte ==
    ASSUME TInv, Line, ReadByte, Lossless
    PROVE  /\ current'.no \in DOMAIN sent /\ current'.no \in Nat /\ current'.no >= 1
           /\ \/ current.no = current'.no /\ current # LastPlace(current.no)
              \/ /\ current.no = current'.no - 1 /\ current' # LastPlace(current'.no)
                 /\ current.no # 0 => current = LastPlace(current.no)
<1> DEFINE x == current
           y == current'
<1>1. OnLine(y) /\ sent \in Seq(Item) /\ x \in Places /\ (x = Place(0, 0) \/ OnLine(x))
  BY HeadFirst, LineFacts
<1>2. y.no \in DOMAIN sent
  BY <1>1, PlaceFacts
<1>3. Fits(y.no) /\ y.no \in Intact /\ y.no \in Nat /\ y.no >= 1
  BY <1>2, LosslessFacts DEF Fits
<1>4. x.no \in Nat
  BY <1>1, PlaceRecord
<1>5. CASE x.no = y.no
  <2>1. x # LastPlace(x.no)
    BY <1>3, <1>5, NextByte
  <2> QED BY <1>2, <1>3, <1>5, <2>1
<1>6. CASE x.no # y.no
  <2>1. y = Place(y.no, 1) /\ x.no < y.no
    BY <1>3, <1>6, NextByte
  <2>2. y # LastPlace(y.no)
    <3>1. LastPlace(y.no).at >= 5 /\ Place(y.no, 1).at = 1
      BY <1>3, LastPlaceFacts
    <3> QED BY <2>1, <3>1
  <2>3. CASE y.no = 1
    BY <1>2, <1>3, <1>4, <2>1, <2>2, <2>3
  <2>4. CASE y.no # 1
    <3>1. y.no - 1 \in Intact /\ x.no =< y.no - 1 /\ y.no - 1 < y.no
      BY <1>3, <1>4, <2>1, <2>4 DEF Fits
    <3>2. x = LastPlace(y.no - 1)
      BY <3>1, NoneSkipped
    <3>3. x.no = y.no - 1
      BY <3>2 DEF LastPlace, Place
    <3> QED BY <1>2, <1>3, <2>2, <3>2, <3>3
  <2> QED BY <2>3, <2>4
<1> QED BY <1>5, <1>6

\* Each byte but the last of a packet adds to the frame, and the last delivers it.
LEMMA ReceiveInStep ==
    ASSUME TInv, Line, Receiver, Receive, BufferFits, InStep
    PROVE  InStep'
<1> SUFFICES ASSUME Lossless' PROVE InStep'
  BY DEF InStep
<1> DEFINE x == current
           y == current'
<1>1. ReadByte /\ sent' = sent /\ damaged' = damaged
  BY ReceiveFacts, ReadFacts DEF sender
<1>2. Lossless
  BY <1>1 DEF Lossless
<1>3. /\ y.no \in DOMAIN sent /\ y.no \in Nat /\ y.no >= 1
      /\ \/ x.no = y.no /\ x # LastPlace(x.no)
         \/ x.no = y.no - 1 /\ y # LastPlace(y.no) /\ (x.no # 0 => x = LastPlace(x.no))
  BY <1>1, <1>2, LosslessByte
<1>4. Fits(y.no)
  BY <1>2, <1>3, LosslessFacts
<1>5. /\ Len(delivered) = y.no - 1 /\ delivered \in Seq([packet : Seq(Stored), no : 0 .. MaxPackets])
      /\ \A j \in DOMAIN delivered : delivered[j] = [packet |-> sent[j].data, no |-> j]
  BY <1>2, <1>3 DEF InStep, TInv, TypeOK
<1>6. LastPlace(current.no)' = LastPlace(y.no)
  BY <1>1 DEF LastPlace
<1>7. CASE y = LastPlace(y.no)
  <2>1. /\ receiving /\ dataByte = HDLC_FLAG /\ lastDataByte # HDLC_FLAG /\ FrameGood
        /\ Returned = [packet |-> sent[y.no].data, no |-> y.no]
        /\ sent[y.no].data \in Packet /\ Len(inputFrame) - 2 = Len(sent[y.no].data)
    BY <1>1, <1>4, <1>7, EndOfPacket
  <2>2. delivered' = Append(delivered, Returned)
    BY <2>1, ReceiveFacts DEF BufferFits
  <2>3. /\ Len(delivered') = y.no /\ delivered'[y.no] = Returned
        /\ \A j \in DOMAIN delivered' : j = y.no \/ (j \in DOMAIN delivered /\ delivered'[j] = delivered[j])
    BY <1>3, <1>5, <2>2
  <2>4. \A j \in DOMAIN delivered' : delivered'[j] = [packet |-> sent'[j].data, no |-> j]
    BY <1>1, <1>5, <2>1, <2>3
  <2> QED BY <1>3, <1>6, <1>7, <2>3, <2>4 DEF InStep
<1>8. CASE y # LastPlace(y.no)
  <2>1. receiving'
    BY <1>4, <1>8, StaysSynchronized
  <2>2. delivered' = delivered
    BY <2>1, ReceiveFacts
  <2> QED BY <1>1, <1>3, <1>5, <1>6, <1>8, <2>2 DEF InStep
<1> QED BY <1>7, <1>8

\* What is sent, written and carried over leaves what has been read.
LEMMA NextInStep ==
    ASSUME IInv, [Next]_vars, BufferFits, InStep
    PROVE  InStep'
<1> USE DEF IInv
<1>1. ASSUME UNCHANGED <<current, delivered>>, damaged \subseteq damaged',
             sent' = sent \/ \E item \in Item : sent' = Append(sent, item)
      PROVE  InStep'
  <2> SUFFICES ASSUME Lossless' PROVE InStep'
    BY DEF InStep
  <2>1. /\ sent \in Seq(Item) /\ delivered \in Seq([packet : Seq(Stored), no : 0 .. MaxPackets])
        /\ current \in Places /\ (current = Place(0, 0) \/ OnLine(current))
    BY LineFacts DEF TInv, TypeOK
  <2>2. DOMAIN sent \subseteq DOMAIN sent' /\ \A i \in DOMAIN sent : sent'[i] = sent[i]
    <3>1. ASSUME NEW item \in Item, sent' = Append(sent, item)
          PROVE  DOMAIN sent \subseteq DOMAIN sent' /\ \A i \in DOMAIN sent : sent'[i] = sent[i]
      BY <2>1, <3>1
    <3> QED BY <1>1, <3>1
  <2>3. Lossless
    BY <1>1, <2>2 DEF Lossless
  <2>4. current.no # 0 => current.no \in DOMAIN sent /\ current.no \in Nat /\ current.no >= 1
    <3>1. current = Place(0, 0) => current.no = 0
      BY DEF Place
    <3>2. OnLine(current) => current.no \in DOMAIN sent
      BY DEF OnLine
    <3> QED BY <2>1, <3>1, <3>2
  <2>5. current.no # 0 => LastPlace(current.no)' = LastPlace(current.no)
    BY <1>1, <2>2, <2>4 DEF LastPlace
  <2>6. \A j \in DOMAIN delivered : j \in DOMAIN sent
    <3>1. CASE current.no = 0
      BY <2>3, <3>1 DEF InStep
    <3>2. CASE current.no # 0
      <4>1. Len(delivered) =< current.no
        BY <2>3, <2>4, <3>2 DEF InStep
      <4> QED BY <2>1, <2>4, <3>2, <4>1
    <3> QED BY <3>1, <3>2
  <2> QED BY <1>1, <2>2, <2>3, <2>5, <2>6 DEF InStep
<1>2. ASSUME NEW packet \in Packet, Send(packet) PROVE InStep'
  BY <1>1, <1>2 DEF Send, Item
<1>3. ASSUME NEW chunk \in Raw, SendRaw(chunk) PROVE InStep'
  BY <1>1, <1>3 DEF SendRaw, Item
<1>4. CASE (\E size \in RawBufferSize : ReceiveRaw(size)) \/ Close \/ Reset
  <2>1. damaged \subseteq damaged'
    BY <1>4, LossFacts
  <2>2. UNCHANGED <<sent, current, delivered>>
    BY <1>4 DEF ReceiveRaw, Close, Reset, sender
  <2> QED BY <1>1, <2>1, <2>2
<1>5. CASE WriteByte \/ Transfer \/ Open \/ UNCHANGED vars
  <2>1. damaged \subseteq damaged' /\ UNCHANGED <<sent, current, delivered>>
    BY <1>5 DEF WriteByte, Transfer, Open, vars, sender
  <2> QED BY <1>1, <2>1
<1>6. CASE Receive
  BY <1>6, ReceiveInStep
<1> QED BY <1>2, <1>3, <1>4, <1>5, <1>6 DEF Next, Done

\* Until a byte is lost Receive returns the packets as they were sent, each of them
\* once and nothing else, whatever bytes they hold and whatever the checksum is
\* (embenet_brt.c:102-180), if the buffers given to it hold them.
THEOREM LinkIsTransparent == ASSUME BufferFits PROVE Spec => []Transparent
<1>1. Init => IInv /\ InStep
  <2>1. Init => IInv
    BY InitTInv, InitLine, InitReceiver DEF IInv
  <2>2. Init => InStep
    BY DEF Init, InStep, Place
  <2> QED BY <2>1, <2>2
<1>2. IInv /\ InStep /\ [Next]_vars => (IInv /\ InStep)'
  BY NextTInv, NextLine, NextReceiver, NextInStep DEF IInv
<1>3. IInv /\ InStep => Transparent
  <2> SUFFICES ASSUME IInv, InStep, Lossless
               PROVE  /\ Over \subseteq DOMAIN delivered
                      /\ \A j \in DOMAIN delivered :
                            j \in DOMAIN sent /\ delivered[j] = [packet |-> sent[j].data, no |-> j]
    BY DEF Transparent
  <2>1. /\ sent \in Seq(Item) /\ delivered \in Seq([packet : Seq(Stored), no : 0 .. MaxPackets])
        /\ current \in Places /\ (current = Place(0, 0) \/ OnLine(current)) /\ TInv
    BY LineFacts DEF IInv, TInv, TypeOK
  <2>2. current.no \in Nat /\ (current.no # 0 => current.no \in DOMAIN sent)
    <3>1. current = Place(0, 0) => current.no = 0
      BY DEF Place
    <3>2. OnLine(current) => current.no \in DOMAIN sent
      BY DEF OnLine
    <3> QED BY <2>1, <3>1, <3>2, PlaceRecord
  <2>3. \A j \in DOMAIN delivered : j \in DOMAIN sent
    <3>1. CASE current.no = 0
      BY <3>1 DEF InStep
    <3>2. CASE current.no # 0
      BY <2>1, <2>2, <3>2 DEF InStep
    <3> QED BY <3>1, <3>2
  <2>4. ASSUME NEW i \in Over PROVE i \in DOMAIN delivered
    <3>1. i \in Nat /\ i >= 1 /\ (i \in DOMAIN sent \/ i =< current.no - 1)
      BY <2>1, <2>2, <2>4 DEF Over
    <3>2. i \in DOMAIN sent
      BY <2>1, <2>2, <3>1
    <3>3. i < current.no \/ current = LastPlace(i)
      BY <2>1, <2>4, <3>2, LosslessFacts, OverIsRead
    <3>4. current = LastPlace(i) => current.no = i
      BY DEF LastPlace, Place
    <3> QED BY <2>1, <2>2, <3>1, <3>3, <3>4 DEF InStep
  <2> QED BY <2>3, <2>4 DEF InStep
<1> QED BY <1>1, <1>2, <1>3, PTL DEF Spec

\* A frame that the checksum does not mistake for another is the next one of the channel.
LEMMA ReceiveDelivers ==
    ASSUME IInv, ErrorsDetected, Receive, delivered' # delivered
    PROVE  Link!Deliver(current.no) /\ current.no \in DOMAIN sent
<1> DEFINE x == current
           p == sent[x.no].data
<1>1. TInv /\ Receiver
  BY DEF IInv
<1>2. /\ receiving /\ dataByte = HDLC_FLAG /\ lastDataByte # HDLC_FLAG /\ FrameGood
      /\ delivered' = Append(delivered, Returned) /\ OnLine(x)
      /\ sent[x.no].kind = "packet" => x # LastPlace(x.no)
  BY <1>1, DeliveryFacts
<1>3. rxRing # <<>> /\ sent' = sent
  BY <1>1, ReceiveFacts, ReadFacts DEF sender
<1>4. sent[x.no].kind = "packet" /\ inputFrame = p \o Fcs(p)
  BY <1>2, <1>3 DEF ErrorsDetected
<1>5. x.no \in DOMAIN sent /\ x.no \in Nat /\ x.no >= 1 /\ sent[x.no] \in Item
  BY <1>1, <1>2, LineFacts, PlaceFacts
<1>6. SubSeq(inputFrame, 1, Len(inputFrame) - 2) = p
  <2>1. p \in Seq(Nat) /\ Fcs(p) \in Seq(Nat) /\ Len(p) \in Nat /\ Len(Fcs(p)) = 2
    BY <1>4, <1>5, FrameFacts
  <2> HIDE DEF p
  <2>2. Len(inputFrame) = Len(p) + 2 /\ \A j \in 1 .. Len(p) : inputFrame[j] = p[j]
    <3>1. /\ Len(p \o Fcs(p)) = Len(p) + Len(Fcs(p))
          /\ \A j \in 1 .. Len(p) : (p \o Fcs(p))[j] = p[j]
      BY <2>1, ConcatFacts
    <3>2. inputFrame = p \o Fcs(p)
      BY <1>4
    <3> QED BY <2>1, <3>1, <3>2
  <2>3. inputFrame \in Seq(Stored)
    BY <1>1 DEF TInv, TypeOK, DecoderOK
  <2>4. SubSeq(inputFrame, 0 + 1, 0 + Len(p)) = p
    <3>1. 0 \in Nat /\ 0 + Len(p) =< Len(inputFrame) /\ \A j \in 1 .. Len(p) : inputFrame[0 + j] = p[j]
      BY <2>1, <2>2
    <3> QED BY <2>1, <2>3, <3>1, PartIs
  <2>5. 0 + 1 = 1 /\ 0 + Len(p) = Len(inputFrame) - 2
    BY <2>1, <2>2
  <2> QED BY <2>4, <2>5
<1>7. x.no > Link!LastDelivered
  <2>1. CASE delivered = <<>>
    BY <1>5, <2>1 DEF Link!LastDelivered
  <2>2. CASE delivered # <<>>
    <3>1. Len(delivered) \in DOMAIN delivered
      BY <1>1, <2>2 DEF TInv, TypeOK
    <3>2. /\ delivered[Len(delivered)].no \in DOMAIN sent /\ delivered[Len(delivered)].no =< x.no
          /\ delivered[Len(delivered)].no # x.no
      BY <1>1, <1>2, <1>4, <3>1 DEF Receiver, Numbers
    <3>3. delivered[Len(delivered)].no \in Nat
      BY <1>1, <3>2, LineFacts
    <3>4. delivered[Len(delivered)].no < x.no
      BY <1>5, <3>2, <3>3
    <3> QED BY <2>2, <3>4 DEF Link!LastDelivered
  <2> QED BY <2>1, <2>2
<1>8. delivered' = Append(delivered, [packet |-> sent[x.no].data, no |-> x.no])
  BY <1>2, <1>6 DEF Returned
<1> QED BY <1>3, <1>4, <1>5, <1>7, <1>8 DEF Link!Deliver

\* If the checksum detects every error the link is the channel: whatever bytes are
\* lost, packets are delivered whole, in their order and none of them twice
\* (embenet_brt.c:102-180).
THEOREM Implements == Spec /\ []ErrorsDetected => ImplementsChannel
<1>1. Init => Link!Init
  BY DEF Init, Link!Init
<1>2. IInv /\ ErrorsDetected /\ [Next]_vars => [Link!Next]_(Link!vars)
  <2> SUFFICES ASSUME IInv, ErrorsDetected, [Next]_vars
               PROVE  Link!Next \/ UNCHANGED <<sent, delivered>>
    BY DEF Link!vars
  <2>1. ASSUME NEW packet \in Packet, Send(packet) PROVE Link!Next
    <3>1. Link!Send(packet)
      BY <2>1 DEF Send, Link!Send
    <3> QED BY <3>1 DEF Link!Next
  <2>2. ASSUME NEW chunk \in Raw, SendRaw(chunk) PROVE Link!Next
    <3>1. Link!Send(chunk)
      BY <2>2 DEF SendRaw, Link!Send
    <3> QED BY <3>1 DEF Link!Next
  <2>3. CASE (\E size \in RawBufferSize : ReceiveRaw(size)) \/ Close \/ Reset
    BY <2>3 DEF ReceiveRaw, Close, Reset, sender
  <2>4. CASE WriteByte \/ Transfer \/ Open
    BY <2>4 DEF WriteByte, Transfer, Open, sender
  <2>5. CASE UNCHANGED vars
    BY <2>5 DEF vars, sender
  <2>6. CASE Receive
    <3>1. CASE delivered' # delivered
      BY <2>6, <3>1, ReceiveDelivers DEF Link!Next
    <3>2. CASE delivered' = delivered
      <4>1. sent' = sent
        BY <2>6, ReceiveFacts, ReadFacts DEF IInv, sender
      <4> QED BY <3>2, <4>1
    <3> QED BY <3>1, <3>2
  <2> QED BY <2>1, <2>2, <2>3, <2>4, <2>5, <2>6 DEF Next, Done
<1> QED BY Inductive, <1>1, <1>2, PTL DEF Spec, ImplementsChannel, Link!Spec

=============================================================================
