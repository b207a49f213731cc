------------------------------- MODULE MCBytes -------------------------------
(* PacketBytes and Tracer for TLC: two programs that share in_cksum() and   *)
(* nothing else, checked in one run, either of them from its beginning.     *)
EXTENDS PacketBytes, Tracer

Addresses == [i \in 1..12 |-> 16 * i]
Ethernet(type, payload) == Addresses \o type \o payload

Zeros(n) == [i \in 1..n |-> 0]

\* The bytes with the checksum that belongs at position i, for a prefix of others.
Sealed(prefix, bytes, i) ==
  LET sum == 65535 - (NetworkSum(prefix \o bytes) % 65535)
  IN  [bytes EXCEPT ![i] = sum \div 256, ![i + 1] = sum % 256]

Source == <<192, 168, 1, 102>>
Dest == <<129, 65, 0, 255>>

Ip4(protocol, options, data) ==
  LET header == 20 + Len(options)
  IN  Sealed(<<>>,
             <<64 + header \div 4, 0, (header + Len(data)) \div 256, (header + Len(data)) % 256,
               203, 1, 64, 0, 128, protocol, 0, 0>> \o Source \o Dest \o options, 11) \o data

TcpSegment(data) ==
  LET segment == <<4, 210, 0, 80, 1, 2, 3, 4, 5, 6, 7, 8, 80, 2, 255, 255, 0, 0, 0, 0>> \o data
  IN  Sealed(Source \o Dest \o <<0, 6, Len(segment) \div 256, Len(segment) % 256>>, segment, 17)

UdpDatagram(n) == <<0, 53, 4, 210, 0, 8 + n, 0, 0>> \o Zeros(n)

OddTcp == Ethernet(<<8, 0>>, Ip4(6, <<1, 1, 1, 0>>, TcpSegment(<<255>>)))

Whole ==
  {OddTcp,
   Ethernet(<<8, 0>>, Ip4(6, <<>>, TcpSegment(<<>>)) \o Zeros(6)),
   Ethernet(<<8, 0>>, Ip4(6, <<>>, TcpSegment([i \in 1..301 |-> i % 256]))),
   Ethernet(<<8, 0>>, Ip4(17, <<>>, UdpDatagram(20))),
   Ethernet(<<8, 0>>, Ip4(17, <<>>, UdpDatagram(2)) \o Zeros(16)),
   Ethernet(<<8, 0>>, Ip4(1, <<>>, <<8, 0, 247, 255, 0, 0, 0, 0>>)),
   Ethernet(<<8, 0>>, Ip4(2, <<>>, <<22, 0, 0, 0>>)),
   Ethernet(<<8, 6>>, <<0, 1, 8, 0, 6, 4, 0, 1>> \o Zeros(20)),
   Ethernet(<<134, 221>>, Zeros(40))}

\* One byte damaged, or the end of the frame not captured.
Damaged(bytes) == {FlipByte(bytes, i) : i \in 13..Len(bytes)}
Cut(bytes) ==
  {SubSeq(bytes, 1, n) : n \in {k \in {0, 13, 14, 33, 34, 38, 41, 53, Len(bytes) - 1} : k < Len(bytes)}}

MCFrames ==
  Whole \cup Damaged(OddTcp) \cup UNION {Cut(w) : w \in Whole}

vars == <<packetVars, traceVars>>

Init == PacketInit /\ TraceInit

Next ==
  \/ count = 0 /\ PacketNext /\ UNCHANGED traceVars
  \/ received = 0 /\ wire = <<>> /\ TraceNext /\ UNCHANGED packetVars

Spec == Init /\ [][Next]_vars

=============================================================================
