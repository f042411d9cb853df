------------------------------- MODULE WireProofs -------------------------------
(***************************************************************************)
(* Proofs about Wire, for every limit of a payload, width of the size      *)
(* field and content of the receiver's buffer.  The step that matters is   *)
(* that no size is cut: the longest payload a datagram can carry is        *)
(* smaller than the number of values of the field (WireAssumption).        *)
(***************************************************************************)
EXTENDS Wire, TLAPS

\* A size that fits its field is written as it is (Utils.cpp:204, uint16_t size).
LEMMA SizeFits ==
  ASSUME NEW n \in Nat, n < Width
  PROVE  n % Width = n
BY WireAssumption

\* What SendDataTo makes is a datagram whose size is that of its payload
\* (Utils.cpp:203-213).
LEMMA HeaderTellsSize ==
  ASSUME NEW type \in Types, NEW payload \in Payloads
  PROVE  /\ PrependPacketHeader(type, payload) \in Datagrams
         /\ PrependPacketHeader(type, payload).type = type
         /\ PrependPacketHeader(type, payload).payload = payload
         /\ PrependPacketHeader(type, payload).size = Len(payload)
<1>1. PICK n \in 1 .. MaxPayload : payload \in [1 .. n -> Byte]
  BY DEF Payloads
<1>2. n \in Nat /\ n < Width
  BY WireAssumption
<1>3. Len(payload) = n
  BY <1>1, <1>2
<1>4. Len(payload) % Width = n
  BY <1>2, <1>3, SizeFits
<1>5. n \in 0 .. Width - 1
  BY <1>2, WireAssumption
<1> QED
  BY <1>3, <1>4, <1>5 DEF PrependPacketHeader, Datagrams

\* A payload is a sequence of bytes.
LEMMA PayloadIsSeq ==
  ASSUME NEW payload \in Payloads
  PROVE  /\ payload \in Seq(Byte)
         /\ Len(payload) \in Nat
         /\ Len(payload) \in 1 .. MaxPayload
         /\ payload \in [1 .. Len(payload) -> Byte]
<1>1. PICK n \in 1 .. MaxPayload : payload \in [1 .. n -> Byte]
  BY DEF Payloads
<1>2. n \in Nat /\ payload \in Seq(Byte)
  BY <1>1, WireAssumption
<1>3. Len(payload) = n
  BY <1>1, <1>2
<1> QED
  BY <1>1, <1>2, <1>3

-----------------------------------------------------------------------------
\* The buffer holds what came of the datagram and fits.
BufferFilled ==
  phase = "read" =>
    /\ came <= BytesOf(datagram)
    /\ came >= 1 => buffer.type = datagram.type
    /\ came >= PACKET_HEADER_SIZE => buffer.size = datagram.size
    /\ \A i \in 1 .. PayloadMax :
         PACKET_HEADER_SIZE + i <= came => buffer.bytes[i] = datagram.payload[i]

IInv ==
  /\ TypeOK
  /\ datagram.size = Len(datagram.payload)
  /\ BufferFilled
  /\ ReadIsSent
  /\ FittingIsRead

LEMMA InitIInv == Init => IInv
<1> SUFFICES ASSUME Init PROVE IInv
  OBVIOUS
<1>1. PICK type \in Types, byte \in Byte :
        datagram = PrependPacketHeader(type, <<byte>>)
  BY DEF Init, PrependPacketHeader
<1>2. <<byte>> \in Payloads
  <2>1. <<byte>> \in [1 .. 1 -> Byte] /\ 1 \in 1 .. MaxPayload
    BY WireAssumption
  <2> QED
    BY <2>1 DEF Payloads
<1>3. /\ datagram \in Datagrams
      /\ datagram.size = Len(datagram.payload)
  BY <1>1, <1>2, HeaderTellsSize
<1>4. datagram.type \in Types /\ datagram.payload \in Payloads
  BY <1>3 DEF Datagrams
<1>5. /\ datagram.payload \in Seq(Byte)
      /\ Len(datagram.payload) \in 1 .. MaxPayload
  BY <1>4, PayloadIsSeq
<1>6. BytesOf(datagram) \in 0 .. PACKET_HEADER_SIZE + MaxPayload
  BY <1>5, WireAssumption DEF BytesOf, PACKET_HEADER_SIZE
<1>7. TypeOK
  BY <1>3, <1>4, <1>5, <1>6 DEF Init, TypeOK
<1> QED
  BY <1>3, <1>7 DEF Init, IInv, BufferFilled, ReadIsSent, FittingIsRead

\* What GetDataFromPacket takes from the buffer is the prefix as long as the
\* size in the header, and so begins with the bytes that came
\* (Utils.cpp:236-247).
LEMMA PrefixIsPayload ==
  ASSUME IInv, phase = "read", ~TooLarge
  PROVE  /\ GetMsgpckDataFromPacket \in Seq(Byte)
         /\ came >= PACKET_HEADER_SIZE =>
              Len(GetMsgpckDataFromPacket) = Len(datagram.payload)
         /\ \A i \in 1 .. Len(GetMsgpckDataFromPacket) :
              PACKET_HEADER_SIZE + i <= came =>
                GetMsgpckDataFromPacket[i] = datagram.payload[i]
<1>1. /\ buffer.size \in Nat
      /\ buffer.size <= PayloadMax
  BY WireAssumption DEF IInv, TypeOK, Buffers, TooLarge
<1>2. buffer.bytes \in [1 .. PayloadMax -> Byte] /\ PayloadMax \in Nat
  BY WireAssumption DEF IInv, TypeOK, Buffers
<1>3. buffer.bytes \in Seq(Byte) /\ Len(buffer.bytes) = PayloadMax
  BY <1>2
<1> DEFINE prefix == SubSeq(buffer.bytes, 1, buffer.size)
<1>4. /\ prefix \in Seq(Byte)
      /\ Len(prefix) = buffer.size
      /\ \A i \in 1 .. buffer.size : prefix[i] = buffer.bytes[i]
  BY <1>1, <1>2, <1>3
<1>5. came >= PACKET_HEADER_SIZE => buffer.size = Len(datagram.payload)
  BY DEF IInv, BufferFilled
<1>6. \A i \in 1 .. buffer.size :
        PACKET_HEADER_SIZE + i <= came => buffer.bytes[i] = datagram.payload[i]
  BY <1>1, <1>2 DEF IInv, BufferFilled
<1> QED
  BY <1>4, <1>5, <1>6 DEF GetMsgpckDataFromPacket

LEMMA NextIInv == IInv /\ [Next]_vars => IInv'
<1> SUFFICES ASSUME IInv, [Next]_vars PROVE IInv'
  OBVIOUS
<1>1. ASSUME NEW type \in Types, NEW payload \in Payloads, SendDataTo(type, payload)
      PROVE  IInv'
  <2>1. /\ datagram' \in Datagrams
        /\ datagram'.size = Len(datagram'.payload)
    BY <1>1, HeaderTellsSize DEF SendDataTo
  <2> QED
    BY <1>1, <2>1 DEF SendDataTo, IInv, TypeOK, BufferFilled, ReadIsSent, FittingIsRead
<1>2. ASSUME NEW n \in 0 .. PACKET_HEADER_SIZE + MaxPayload, ReceivePacketFrom(n)
      PROVE  IInv'
  <2>1. TypeOK'
    BY <1>2 DEF ReceivePacketFrom, IInv, TypeOK
  <2>2. BufferFilled'
    BY <1>2 DEF ReceivePacketFrom, BufferFilled, BytesOf
  <2> QED
    BY <1>2, <2>1, <2>2 DEF ReceivePacketFrom, IInv, ReadIsSent, FittingIsRead
<1>3. CASE GetDataFromPacket
  <2>1. TypeOK'
    BY <1>3, PrefixIsPayload DEF GetDataFromPacket, IInv, TypeOK, Buffers
  <2>2. ReadIsSent'
    <3>1. came >= 1 => buffer.type = datagram.type
      BY <1>3 DEF GetDataFromPacket, IInv, BufferFilled
    <3> QED
      BY <1>3, <3>1, PrefixIsPayload DEF GetDataFromPacket, ReadIsSent
  <2> QED
    BY <1>3, <2>1, <2>2 DEF GetDataFromPacket, IInv, BufferFilled, FittingIsRead
<1>4. CASE UnpackThrows
  <2>1. came = BytesOf(datagram) => Len(datagram.payload) > PayloadMax
    <3>1. /\ datagram.payload \in Payloads
          /\ Len(datagram.payload) \in Nat
      BY PayloadIsSeq DEF IInv, TypeOK, Datagrams
    <3>2. CASE came = BytesOf(datagram)
      <4>1. came >= PACKET_HEADER_SIZE
        BY <3>1, <3>2 DEF BytesOf, PACKET_HEADER_SIZE
      <4>2. buffer.size = Len(datagram.payload)
        BY <1>4, <4>1 DEF UnpackThrows, IInv, BufferFilled
      <4>3. ~(came < BytesOf(datagram))
        BY <3>1, <3>2 DEF BytesOf, PACKET_HEADER_SIZE
      <4> QED
        BY <1>4, <4>2, <4>3 DEF UnpackThrows, TooLarge
    <3> QED
      BY <3>2
  <2> QED
    BY <1>4, <2>1
       DEF UnpackThrows, IInv, TypeOK, BufferFilled, ReadIsSent, FittingIsRead, BytesOf
<1>5. CASE UNCHANGED vars
  BY <1>5 DEF vars, IInv, TypeOK, BufferFilled, ReadIsSent, FittingIsRead, BytesOf
<1> QED
  BY <1>1, <1>2, <1>3, <1>4, <1>5 DEF Next

LEMMA Inductive == Spec => []IInv
<1>1. Init => IInv
  BY InitIInv
<1>2. IInv /\ [Next]_vars => IInv'
  BY NextIInv
<1> QED
  BY <1>1, <1>2, PTL DEF Spec

\* The variables keep their types: no buffer is written past its end.
THEOREM TypeCorrect == Spec => []TypeOK
<1>1. IInv => TypeOK
  BY DEF IInv
<1> QED
  BY <1>1, Inductive, PTL

\* Whatever came of a datagram is read as it was sent, for every limit, every
\* part that came and every old content of the buffer.
THEOREM ReadAsSent == Spec => []ReadIsSent
<1>1. IInv => ReadIsSent
  BY DEF IInv
<1> QED
  BY <1>1, Inductive, PTL

\* A datagram that came whole ends its receiver only if its payload is larger
\* than a packet's.
THEOREM FittingRead == Spec => []FittingIsRead
<1>1. IInv => FittingIsRead
  BY DEF IInv
<1> QED
  BY <1>1, Inductive, PTL
=============================================================================
