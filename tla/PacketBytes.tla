----------------------------- MODULE PacketBytes -----------------------------
(***************************************************************************)
(* The bytes of a packet of the remote copy: what construct() writes, what  *)
(* flip-bits of the error library damages, and what recv_packet() and       *)
(* deconstruct() make of it (packet.c, networks.c, errorFlipBits.cpp).      *)
(* RemoteCopy takes a damaged packet for one that is known to be; here is   *)
(* when that is so.                                                         *)
(***************************************************************************)
EXTENDS Checksum

CONSTANTS
  MaxPacketLength,   \* 1400 in the code
  Lengths,           \* the lengths of payloads to send
  Fills,             \* the bytes payloads, and buffers nobody set, consist of
  MaxReceived,       \* packets received in the same buffer
  FirstDamaged       \* of them, the first that may be damaged: those before leave
                     \* their bytes in the buffer

(* A payload fits into a packet; the last but one byte of its size, which   *)
(* is at most 5 in the code, is not 255, of which flip-bits makes a 0.      *)
ASSUME LengthsAssumption ==
  /\ MaxPacketLength \in Nat /\ MaxPacketLength + 11 < 65280
  /\ Lengths \subseteq 0..MaxPacketLength

ASSUME FillsAssumption == Fills \subseteq Byte

VARIABLES
  wire,       \* the datagram under way, empty for none
  sent,       \* history: the packet it was constructed from
  flipped,    \* history: the position of the byte that was flipped, or 0
  raw,        \* the receiver's packet->raw, never cleared
  read,       \* what deconstruct() left in the other fields
  verdict,    \* what recv_packet() made of the packet
  received    \* packets received

packetVars == <<wire, sent, flipped, raw, read, verdict, received>>

HeaderLength == 11
LowSizeByte == HeaderLength   \* counted from 1: seq 1-4, checksum 5-6, flag 7, size 8-11

PacketFields ==
  {[seq |-> 258, flag |-> 3, payload |-> [i \in 1..n |-> b]] : n \in Lengths, b \in Fills}

\* htonl()
Bytes4(n) == <<n \div 16777216, (n \div 65536) % 256, (n \div 256) % 256, n % 256>>

\* construct(): the checksum is taken over the bytes with a checksum of 0.
Construct(p) ==
  LET size == Len(p.payload) + HeaderLength
      bytes == Bytes4(p.seq) \o <<0, 0, p.flag>> \o Bytes4(size) \o p.payload
      sum == InCksum(bytes)
  IN  [bytes EXCEPT ![5] = sum % 256, ![6] = sum \div 256]

\* errorFlipBits::run()
FlipByte(bytes, i) == [bytes EXCEPT ![i] = 255 - @]

\* Mutant: the size is a signed number.
SizeSigned(bytes) ==
  IF bytes[8] >= 128 THEN -1
  ELSE IF bytes[8] + bytes[9] > 0 THEN MaxPacketLength + HeaderLength + 1
  ELSE 256 * bytes[10] + bytes[11]

\* ntohl() of the size.  One of 2^16 or more is too large, whatever it is.
Size(bytes) ==
  IF bytes[8] + bytes[9] > 0 THEN MaxPacketLength + HeaderLength + 1
  ELSE 256 * bytes[10] + bytes[11]

\* The length of memcpy() is size - HEADER_LENGTH, of unsigned numbers.
Deconstruct(bytes) ==
  IF Size(bytes) > MaxPacketLength + HeaderLength THEN "CRC_ERROR"
  ELSE IF Size(bytes) < HeaderLength THEN "crash"
  ELSE IF InCksum(SubSeq(bytes, 1, Size(bytes))) = 0 THEN "ok" ELSE "CRC_ERROR"

Fields(bytes) ==
  [seq |-> 256 * bytes[3] + bytes[4], flag |-> bytes[7],
   payload |-> SubSeq(bytes, HeaderLength + 1, Size(bytes))]

-----------------------------------------------------------------------------
PacketInit ==
  /\ wire = <<>> /\ flipped = 0 /\ received = 0
  /\ \E b \in Fills : raw = [i \in 1..(MaxPacketLength + HeaderLength) |-> b]
  /\ sent = "none" /\ read = "none" /\ verdict = "none"

\* send_packet(), through the library: at most one byte is flipped.
SendPacket(p) ==
  /\ wire = <<>> /\ received < MaxReceived /\ verdict # "crash"
  /\ sent' = p
  /\ \/ wire' = Construct(p) /\ flipped' = 0
     \/ received + 1 >= FirstDamaged /\ \E i \in 1..(Len(p.payload) + HeaderLength) :
          wire' = FlipByte(Construct(p), i) /\ flipped' = i
  /\ read' = "none" /\ verdict' = "none"
  /\ UNCHANGED <<raw, received>>

\* recv_packet(): the datagram overwrites the beginning of the buffer only.
RecvPacket ==
  /\ wire # <<>>
  /\ raw' = [i \in DOMAIN raw |-> IF i <= Len(wire) THEN wire[i] ELSE raw[i]]
  /\ verdict' = Deconstruct(raw')
  /\ read' = IF verdict' = "ok" THEN Fields(raw') ELSE "none"
  /\ wire' = <<>> /\ received' = received + 1
  /\ UNCHANGED <<sent, flipped>>

PacketNext == RecvPacket \/ \E p \in PacketFields : SendPacket(p)

PacketSpec == PacketInit /\ [][PacketNext]_packetVars

-----------------------------------------------------------------------------
(* A packet that is not damaged is received as it was sent, and one that is *)
(* damaged is found out, unless the low byte of its size is: then the       *)
(* checksum covers other bytes than the sender's.  RemoteCopy's Corrupt     *)
(* relies on it.  Odd lengths are included, whatever byte lies behind the   *)
(* packet: libcpe464/checksum.c:37-42 asks for a zero there, since the      *)
(* function would read it, but lines 75-79 read the odd byte alone.         *)
ReceivedAsSent ==
  /\ verdict = "ok" /\ flipped # LowSizeByte => read = sent
  /\ verdict = "CRC_ERROR" => flipped # 0

(* packet.c:46 wants an invalid size to be a CRC_ERROR.  It is, and memcpy()*)
(* stays in its buffers, but for one case: the low byte of a size of 245 to *)
(* 255 is flipped to one below the length of the header.                    *)
MemcpyInBounds ==
  verdict = "crash" =>
    flipped = LowSizeByte /\ Len(sent.payload) + HeaderLength \in 245..255

=============================================================================
