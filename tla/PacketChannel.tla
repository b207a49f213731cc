---------------------------- MODULE PacketChannel ----------------------------
(***************************************************************************)
(* The two directions of one connection: the client's socket and the socket *)
(* the server's child opens for it (Program3/RemoteCopy/networks.c).  What a *)
(* send may do to the packet is the error-injection library's sendtoErr()   *)
(* (drop or flip, libcpe464/PacketManager.cpp) and UDP's: lose, duplicate,  *)
(* reorder or delay.                                                        *)
(***************************************************************************)
EXTENDS Packet, Sequences, SequencesExt

CONSTANTS
  Capacity,   \* packets a socket buffer holds; what does not fit is lost
  Faults      \* what may go wrong, see FaultKinds

(* drop: a packet is lost; flip: it arrives corrupt; dup: it arrives again; *)
(* reorder: another one arrives first; delay: a timer may run out although  *)
(* a packet or an answer is on its way; io: open() or read() fails.         *)
FaultKinds == {"drop", "flip", "dup", "reorder", "delay", "io"}

ASSUME CapacityAssumption == Capacity \in Nat \ {0}
ASSUME FaultsAssumption == Faults \subseteq FaultKinds

VARIABLES
  toClient,   \* packets in flight to, or queued at, the client's socket
  toServer,   \* the same for the socket of the server's child
  closed      \* the ends that closed their socket, by exiting or by close()

channelVars == <<toClient, toServer, closed>>

ChannelInit == toClient = <<>> /\ toServer = <<>> /\ closed = {}

(* The library leaves a process's first packet alone, and the child's is    *)
(* its answer to FNAME; what UDP itself damages, UDP drops.                 *)
Flippable(p) == p.flag \notin {"FNAME_OK", "FNAME_BAD"}

\* What processEvents() may make of a packet that it lets through.
Processed(p) == {p} \cup {c \in {Corrupt} : "flip" \in Faults /\ Flippable(p)}

\* Every channel that sending p on ch may leave: sendto_Err() keeps it back,
\* or sends what processEvents() made of it.
Transmit(ch, p) ==
  IF Len(ch) >= Capacity THEN {ch}
  ELSE {Append(ch, q) : q \in Processed(p)} \cup {c \in {ch} : "drop" \in Faults}

\* A packet sent to a closed socket is gone.
SendToClient(p) ==
  toClient' \in IF "client" \in closed THEN {<<>>} ELSE Transmit(toClient, p)

SendToServer(p) ==
  toServer' \in IF "server" \in closed THEN {<<>>} ELSE Transmit(toServer, p)

\* Two packets sent in a row by one handler.
SendPairToServer(p, q) ==
  toServer' \in IF "server" \in closed THEN {<<>>}
                ELSE UNION {Transmit(ch, q) : ch \in Transmit(toServer, p)}

Deliverable(ch) == IF "reorder" \in Faults THEN DOMAIN ch ELSE DOMAIN ch \cap {1}

\* What recvfrom() may return from ch, and what it leaves there.
Arrivals(ch) ==
  {[packet |-> ch[i], rest |-> RemoveAt(ch, i)] : i \in Deliverable(ch)}
    \cup (IF "dup" \in Faults
          THEN {[packet |-> ch[i], rest |-> ch] : i \in Deliverable(ch)} ELSE {})

\* A timer may run out: nothing is there, or what is on its way is late.
Overdue(ch) == ch = <<>> \/ "delay" \in Faults

CloseClient == toClient' = <<>> /\ closed' = closed \cup {"client"}

CloseServer == toServer' = <<>> /\ closed' = closed \cup {"server"}

=============================================================================
