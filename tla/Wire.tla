---------------------------------- MODULE Wire ----------------------------------
(***************************************************************************)
(* The datagrams of Celegraph (src/Utils.cpp): a type, the size of the     *)
(* payload in an unsigned integer of 16 bits, and the payload, a packed    *)
(* object.  SendDataTo builds one and ReceivePacketFrom puts what fits of  *)
(* it into a buffer of fixed length, whose remaining bytes keep what was   *)
(* there before.  The receiver does not ask how many bytes came, or        *)
(* whether any did: it takes as many from the buffer as the size in the    *)
(* header says.                                                            *)
(*                                                                         *)
(* recvfrom() may fail, and a sender other than this program may send less *)
(* than the header of its datagram says.  Both are a datagram of which     *)
(* only a first part came.  The three bytes of the header are kept as two  *)
(* fields; of a size only half of which came nothing is known.             *)
(***************************************************************************)
EXTENDS Naturals, Sequences

CONSTANTS
  Types,         \* the packet types
  Byte,          \* the values of a byte of the payload
  PayloadMax,    \* MSGPCK_MAX_PAYLOAD_SIZE
  Width,         \* the number of values of the size field
  MaxPayload     \* the longest payload sendto() takes

ASSUME WireAssumption ==
  /\ PayloadMax \in Nat
  /\ Width \in Nat
  /\ MaxPayload \in Nat \ {0}
  /\ PayloadMax < Width
  /\ MaxPayload < Width

\* Packed objects, which have at least one byte.
Payloads == UNION {[1 .. n -> Byte] : n \in 1 .. MaxPayload}

Datagrams == [type : Types, size : 0 .. Width - 1, payload : Payloads]

\* What an uninitialised or an old buffer may contain.
Buffers == [type : Types, size : 0 .. Width - 1, bytes : [1 .. PayloadMax -> Byte]]

PACKET_HEADER_SIZE == 3

VARIABLES
  phase,      \* what happens next: "send", "receive" or "read"; or "ended"
  datagram,   \* the datagram under way
  came,       \* how many of its bytes recvfrom() last put into the buffer
  buffer,     \* the receiver's packet buffer
  got         \* the type and payload the receiver last read

vars == <<phase, datagram, came, buffer, got>>

TypeOK ==
  /\ phase \in {"send", "receive", "read", "ended"}
  /\ datagram \in Datagrams
  /\ came \in 0 .. PACKET_HEADER_SIZE + MaxPayload
  /\ buffer \in Buffers
  /\ got.type \in Types
  /\ got.payload \in Seq(Byte)

-----------------------------------------------------------------------------
\* (mutant of PrependPacketHeader) the size is taken after a byte of the header
\* was put in front.
PrependPacketHeaderTwice(type, payload) ==
  [type |-> type, size |-> (Len(payload) + 1) % Width, payload |-> payload]

\* The size is cut to the width of its field.
PrependPacketHeader(type, payload) ==
  [type |-> type, size |-> Len(payload) % Width, payload |-> payload]

BytesOf(d) == PACKET_HEADER_SIZE + Len(d.payload)

\* Some datagram of one byte was sent and read before; the buffer holds anything.
Init ==
  /\ phase = "send"
  /\ datagram \in {PrependPacketHeader(type, <<byte>>) : type \in Types, byte \in Byte}
  /\ came = BytesOf(datagram)
  /\ buffer \in Buffers
  /\ got = [type |-> datagram.type, payload |-> datagram.payload]

SendDataTo(type, payload) ==
  /\ phase = "send"
  /\ phase' = "receive"
  /\ datagram' = PrependPacketHeader(type, payload)
  /\ UNCHANGED <<came, buffer, got>>

\* (mutant of ReceivePacketFrom) recvfrom() is told a length longer than the
\* buffer's.
ReceivePacketFromUncut(n) ==
  /\ phase = "receive"
  /\ phase' = "read"
  /\ n = BytesOf(datagram)
  /\ came' = n
  /\ \E rest \in [1 .. PayloadMax -> Byte] :
       buffer' = [type |-> datagram.type, size |-> datagram.size,
                  bytes |-> datagram.payload
                              \o SubSeq(rest, Len(datagram.payload) + 1, PayloadMax)]
  /\ UNCHANGED <<datagram, got>>

\* The first n bytes of the datagram come, none if recvfrom() fails: its result
\* is not looked at.  It drops what does not fit, and leaves the rest of the
\* buffer, an uninitialised local of the caller, as it is: anything.
ReceivePacketFrom(n) ==
  /\ phase = "receive"
  /\ phase' = "read"
  /\ n <= BytesOf(datagram)
  /\ came' = n
  /\ buffer' \in Buffers
  /\ n >= 1 => buffer'.type = datagram.type
  /\ n >= PACKET_HEADER_SIZE => buffer'.size = datagram.size
  /\ \A i \in 1 .. PayloadMax :
       PACKET_HEADER_SIZE + i <= n => buffer'.bytes[i] = datagram.payload[i]
  /\ UNCHANGED <<datagram, got>>

\* (mutant of TooLarge) off by one.
TooLargeByOne == buffer.size >= PayloadMax

TooLarge == buffer.size > PayloadMax

GetMsgpckDataFromPacket == SubSeq(buffer.bytes, 1, buffer.size)

GetDataFromPacket ==
  /\ phase = "read"
  /\ ~TooLarge
  /\ buffer.size > 0
  /\ phase' = "send"
  /\ got' = [type |-> buffer.type, payload |-> GetMsgpckDataFromPacket]
  /\ UNCHANGED <<datagram, came, buffer>>

\* In place of a payload that is too large the empty string is unpacked, which
\* throws; and bytes that nobody packed may be no object, or there may be none.
\* Neither the client's listener nor the server's worker catches it.
UnpackThrows ==
  /\ phase = "read"
  /\ \/ TooLarge
     \/ came < BytesOf(datagram)
  /\ phase' = "ended"
  /\ UNCHANGED <<datagram, came, buffer, got>>

Next ==
  \/ \E type \in Types, payload \in Payloads : SendDataTo(type, payload)
  \/ \E n \in 0 .. PACKET_HEADER_SIZE + MaxPayload : ReceivePacketFrom(n)
  \/ GetDataFromPacket
  \/ UnpackThrows

Spec == Init /\ [][Next]_vars

-----------------------------------------------------------------------------
(* Properties.                                                             *)

\* Whatever came of a datagram is read as it was sent, whatever was received
\* before: its type, as many bytes as its payload has, and every byte of the
\* payload that came.  Of a datagram that came whole that is all of it; of one
\* that did not, the bytes that are missing are old ones (Utils.cpp:203-213,
\* 223-247, 281-314).
ReadIsSent ==
  phase = "send" =>
    /\ came >= 1 => got.type = datagram.type
    /\ came >= PACKET_HEADER_SIZE => Len(got.payload) = Len(datagram.payload)
    /\ \A i \in 1 .. Len(got.payload) :
         PACKET_HEADER_SIZE + i <= came => got.payload[i] = datagram.payload[i]

\* A datagram that came whole ends its receiver only if its payload is larger
\* than a packet's; one that just fits is read (Utils.cpp:227, 240, 297).
FittingIsRead ==
  phase = "ended" /\ came = BytesOf(datagram) => Len(datagram.payload) > PayloadMax
=============================================================================
