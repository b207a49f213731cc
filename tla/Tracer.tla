------------------------------- MODULE Tracer -------------------------------
(***************************************************************************)
(* The packet tracer (Program 1): main() of trace.c reads the packets of a  *)
(* capture one by one, and takes a header off each until a payload is left. *)
(* A header is taken off by a function that owns the buffer pdu: it frees   *)
(* it, and may leave a new one with what follows; the buffers it allocates  *)
(* and frees itself are left out.  Of what is printed, the verdicts on the  *)
(* checksums are modelled.                                                  *)
(***************************************************************************)
EXTENDS Checksum, FiniteSets

CONSTANTS
  Frames,      \* the frames a capture may hold, as sequences of bytes
  MaxFrames    \* packets in the capture

ASSUME FramesAssumption == Frames \subseteq Seq(Byte)
ASSUME MaxFramesAssumption == MaxFrames \in Nat

VARIABLES
  frame,       \* the packet pcap_next_ex() returned last
  count,       \* packets read
  next,        \* next_type, or UNDEFINED after what C leaves undefined
  pdu,         \* the buffer pdu: its address and its bytes
  psuedo,      \* the buffer psuedo_header
  live,        \* addresses that are allocated
  ipVerdict,   \* what the packet's lines "Checksum:" say so far
  tcpVerdict

traceVars == <<frame, count, next, pdu, psuedo, live, ipVerdict, tcpVerdict>>

Types == {"IP", "ARP", "UDP", "TCP", "ICMP", "UNKNOWN", "PAYLOAD"}
Verdicts == {"none", "Correct", "Incorrect"}

EthernetSize == 14
IpMinSize == 20
ArpMinSize == 28
UdpMinSize == 28
TcpRead == 18     \* the bytes tcp_init() and tcp_print2() read, unchecked

From(bytes, i) == SubSeq(bytes, i, Len(bytes))
Word(bytes, i) == 256 * bytes[i] + bytes[i + 1]

\* An address that is not allocated.
Fresh(used) == CHOOSE a \in 1..(Cardinality(used) + 1) : a \notin used

Verdict(bytes) == IF InCksum(bytes) = 0 THEN "Correct" ELSE "Incorrect"

-----------------------------------------------------------------------------
TraceInit ==
  /\ frame = <<>> /\ count = 0 /\ next = "PAYLOAD"
  /\ pdu = [at |-> 0, bytes |-> <<>>] /\ psuedo = [at |-> 0, bytes |-> <<>>]
  /\ live = {} /\ ipVerdict = "none" /\ tcpVerdict = "none"

(* The program reads beyond a buffer, uses an object that its _init did not *)
(* set, or frees a buffer twice: anything may follow, and nothing is said   *)
(* of it.                                                                   *)
Undefined ==
  /\ next' = "UNDEFINED"
  /\ UNCHANGED <<pdu, psuedo, live, ipVerdict, tcpVerdict>>

EthernetData(bytes) == From(bytes, EthernetSize + 1)

EtherType(bytes) ==
  CASE Word(bytes, 13) = 2048 -> "IP" [] Word(bytes, 13) = 2054 -> "ARP" [] OTHER -> "UNKNOWN"

\* ethr(): the pdu of the packet before is forgotten, freed or not.
Ethr(bytes) ==
  /\ next \in {"UNKNOWN", "PAYLOAD"} /\ count < MaxFrames
  /\ frame' = bytes /\ count' = count + 1
  /\ IF Len(bytes) < EthernetSize
     THEN Undefined
     ELSE /\ pdu' = [at |-> Fresh(live), bytes |-> EthernetData(bytes)]
          /\ live' = live \cup {Fresh(live)}
          /\ next' = EtherType(bytes)
          /\ ipVerdict' = "none" /\ tcpVerdict' = "none"
          /\ UNCHANGED psuedo

\* ip_init(): the header is not all there, or claims more than there is.
ReadsOutside(bytes) ==
  \/ Len(bytes) < IpMinSize
  \/ Word(bytes, 3) < 4 * (bytes[1] % 16)
  \/ Word(bytes, 3) > Len(bytes)

\* Mutant: the header is taken to have no options.
IpSumsFixed(bytes) == Verdict(SubSeq(bytes, 1, IpMinSize))

\* ip_init() and ip_print2(): the checksum over the header and its options.
IpSums(bytes) == Verdict(SubSeq(bytes, 1, 4 * (bytes[1] % 16)))

Protocol(bytes) ==
  CASE bytes[10] = 1 -> "ICMP" [] bytes[10] = 6 -> "TCP" [] bytes[10] = 17 -> "UDP"
    [] OTHER -> "PAYLOAD"

\* Mutant: the length is written without a mask.
PsuedoHeaderUnmasked(bytes, length) ==
  SubSeq(bytes, 13, 20) \o <<0, bytes[10], length \div 256, length>>

\* ip_psuedo_header(): both addresses, the protocol, the length.
PsuedoHeader(bytes, length) ==
  SubSeq(bytes, 13, 20) \o <<0, bytes[10], (length \div 256) % 256, length % 256>>

\* Mutant: pdu is not freed.
IpKeepsAll == live

\* What is allocated when ip() has freed the pdu it was given.
IpKeeps == live \ {pdu.at}

\* ip(): the length is the header's own; what lies behind it is cut off.
Ip ==
  /\ next = "IP"
  /\ LET ihl == 4 * (pdu.bytes[1] % 16)
         length == Word(pdu.bytes, 3)
         data == Fresh(IpKeeps)
         header == Fresh(IpKeeps \cup {data})
     IN  IF ReadsOutside(pdu.bytes) \/ pdu.at \notin live
         THEN Undefined
         ELSE /\ pdu' = [at |-> data, bytes |-> SubSeq(pdu.bytes, ihl + 1, length)]
              /\ psuedo' = [at |-> header, bytes |-> PsuedoHeader(pdu.bytes, length - ihl)]
              /\ live' = IpKeeps \cup {data, header}
              /\ ipVerdict' = IpSums(pdu.bytes)
              /\ next' = Protocol(pdu.bytes)
              /\ UNCHANGED tcpVerdict
  /\ UNCHANGED <<frame, count>>

\* The last header of a packet: pdu is freed, the pseudo header is not.
FreePdu(type, minSize) ==
  /\ next = type
  /\ IF Len(pdu.bytes) < minSize \/ pdu.at \notin live
     THEN Undefined
     ELSE /\ live' = live \ {pdu.at} /\ next' = "PAYLOAD"
          /\ UNCHANGED <<pdu, psuedo, ipVerdict, tcpVerdict>>
  /\ UNCHANGED <<frame, count>>

\* Mutant: the length of the Ethernet header is taken to be in the pdu.
ArpWithEthernet == FreePdu("ARP", ArpMinSize + EthernetSize)

Arp == FreePdu("ARP", ArpMinSize)

\* udp_init() wants 28 bytes, a UDP header has 8.
Udp == FreePdu("UDP", UdpMinSize)

\* icmp_type() reads the first byte.
Icmp == FreePdu("ICMP", 1)

\* What tcp_checksum() sums up: tcp_init() sets the low byte of the length again.
TcpBytes == SubSeq(psuedo.bytes, 1, 11) \o <<Len(pdu.bytes) % 256>> \o pdu.bytes

\* tcp() frees both buffers; tcp_checksum() leaves its own.
Tcp ==
  /\ next = "TCP"
  /\ IF Len(pdu.bytes) < TcpRead \/ ~({pdu.at, psuedo.at} \subseteq live) \/ pdu.at = psuedo.at
     THEN Undefined
     ELSE /\ live' = (live \ {pdu.at, psuedo.at}) \cup {Fresh(live)}
          /\ tcpVerdict' = Verdict(TcpBytes)
          /\ next' = "PAYLOAD"
          /\ UNCHANGED <<pdu, psuedo, ipVerdict>>
  /\ UNCHANGED <<frame, count>>

TraceNext ==
  \/ \E bytes \in Frames : Ethr(bytes)
  \/ Ip \/ Arp \/ Udp \/ Tcp \/ Icmp

TraceSpec == TraceInit /\ [][TraceNext]_traceVars

-----------------------------------------------------------------------------
(* A frame as the standards want it, captured as a whole.                   *)
IpPart == From(frame, 15)
Ihl == 4 * (IpPart[1] % 16)
Segment == SubSeq(IpPart, Ihl + 1, Word(IpPart, 3))

IsComplete ==
  /\ Len(frame) >= 14
  /\ Word(frame, 13) = 2054 => Len(frame) >= 42
  /\ Word(frame, 13) = 2048 =>
       /\ Len(IpPart) >= 20
       /\ 20 <= Ihl /\ Ihl <= Word(IpPart, 3) /\ Word(IpPart, 3) <= Len(IpPart)
       /\ Len(Segment) >= (CASE IpPart[10] = 6 -> 20 [] IpPart[10] = 17 -> 8
                             [] IpPart[10] = 1 -> 8 [] OTHER -> 0)

\* A UDP datagram of less than 20 bytes of data, which udp_init() refuses.
IsShortUdp ==
  IsComplete /\ Word(frame, 13) = 2048 /\ IpPart[10] = 17 /\ Len(Segment) < 28

(* No complete frame makes the tracer read beyond a buffer, free one twice  *)
(* or use an object its _init left unset, but a short UDP datagram does.    *)
DefinedOnComplete == next = "UNDEFINED" => ~IsComplete \/ IsShortUdp

(* "Correct" is printed of a checksum exactly when it is, for odd lengths,  *)
(* IP options, and frames with padding behind the datagram.                 *)
VerdictsAreRight ==
  /\ ipVerdict # "none" /\ IsComplete =>
       (ipVerdict = "Correct" <=> IsValidSum(SubSeq(IpPart, 1, Ihl)))
  /\ tcpVerdict # "none" /\ IsComplete =>
       (tcpVerdict = "Correct" <=>
          IsValidSum(SubSeq(IpPart, 13, 20) \o <<0, 6, Len(Segment) \div 256, Len(Segment) % 256>>
                       \o Segment))

(* Every value has the type the code gives it: the pseudo header consists   *)
(* of bytes, whatever the length of the segment.                            *)
TraceTypeOK ==
  /\ count \in 0..MaxFrames /\ next \in Types \cup {"UNDEFINED"}
  /\ \A buffer \in {pdu, psuedo} :
       buffer.at \in Nat /\ \A i \in DOMAIN buffer.bytes : buffer.bytes[i] \in Byte
  /\ live \subseteq 1..(2 * MaxFrames + 1)
  /\ {ipVerdict, tcpVerdict} \subseteq Verdicts

(* What main() forgets to free is at most two buffers for each packet: the  *)
(* tracer needs no more memory than that for a capture.                     *)
BuffersBounded == Cardinality(live) <= 2 * count

=============================================================================
