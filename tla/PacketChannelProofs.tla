------------------------- MODULE PacketChannelProofs -------------------------
(***************************************************************************)
(* What a channel may hold after a send, and what a receive may return:     *)
(* packets that were there, the one sent, and corrupt ones; nothing else.   *)
(***************************************************************************)
EXTENDS PacketChannel, TLAPS

LEMMA CorruptType == Corrupt \in Packets
BY NPacketsAssumption DEF Corrupt, Packets

LEMMA NoContents == \A S : <<>> \in Seq(S) /\ ToSet(<<>>) = {}
BY DEF ToSet

-----------------------------------------------------------------------------
(* For every set of packets that has the corrupt one.                       *)
LEMMA AppendMembers ==
  ASSUME NEW S, NEW ch \in Seq(S), NEW p \in S
  PROVE  Append(ch, p) \in Seq(S) /\ ToSet(Append(ch, p)) \subseteq ToSet(ch) \cup {p}
BY DEF ToSet

LEMMA TransmitMembers ==
  ASSUME NEW S, Corrupt \in S, NEW ch \in Seq(S), NEW p \in S, NEW c \in Transmit(ch, p)
  PROVE  /\ c \in Seq(S) /\ ToSet(c) \subseteq ToSet(ch) \cup {p, Corrupt}
         /\ c = ch \/ c = Append(ch, p) \/ (c = Append(ch, Corrupt) /\ Flippable(p))
<1>1. c = ch \/ c = Append(ch, p) \/ (c = Append(ch, Corrupt) /\ Flippable(p))
  BY DEF Transmit, Processed
<1>2. /\ Append(ch, p) \in Seq(S) /\ ToSet(Append(ch, p)) \subseteq ToSet(ch) \cup {p}
      /\ Append(ch, Corrupt) \in Seq(S)
      /\ ToSet(Append(ch, Corrupt)) \subseteq ToSet(ch) \cup {Corrupt}
  BY AppendMembers
<1>3. c \in Seq(S) /\ ToSet(c) \subseteq ToSet(ch) \cup {p, Corrupt}
  <2>1. CASE c = ch
    BY <2>1
  <2>2. CASE c = Append(ch, p)
    BY <1>2, <2>2
  <2>3. CASE c = Append(ch, Corrupt)
    BY <1>2, <2>3
  <2> QED
    BY <1>1, <2>1, <2>2, <2>3
<1> QED
  BY <1>1, <1>3

LEMMA RemoveAtMembers ==
  ASSUME NEW S, NEW ch \in Seq(S), NEW i \in DOMAIN ch
  PROVE  RemoveAt(ch, i) \in Seq(S) /\ ToSet(RemoveAt(ch, i)) \subseteq ToSet(ch)
<1> DEFINE s == SubSeq(ch, 1, i - 1)
           t == SubSeq(ch, i + 1, Len(ch))
<1>1. i \in 1..Len(ch) /\ Len(ch) \in Nat
  OBVIOUS
<1>2. s \in Seq(S) /\ t \in Seq(S)
  BY <1>1
<1>3. ToSet(s) \subseteq ToSet(ch)
  BY <1>1 DEF ToSet
<1>4. ToSet(t) \subseteq ToSet(ch)
  BY <1>1 DEF ToSet
<1>5. RemoveAt(ch, i) = s \o t
  BY DEF RemoveAt
<1> HIDE DEF s, t
<1>6. s \o t \in Seq(S) /\ ToSet(s \o t) \subseteq ToSet(s) \cup ToSet(t)
  BY <1>2 DEF ToSet
<1> QED
  BY <1>3, <1>4, <1>5, <1>6

LEMMA ArrivalMembers ==
  ASSUME NEW S, NEW ch \in Seq(S), NEW a \in Arrivals(ch)
  PROVE  /\ a.packet \in ToSet(ch) /\ a.packet \in S
         /\ a.rest \in Seq(S) /\ ToSet(a.rest) \subseteq ToSet(ch)
<1>1. PICK i \in Deliverable(ch) :
        a = [packet |-> ch[i], rest |-> RemoveAt(ch, i)] \/ a = [packet |-> ch[i], rest |-> ch]
  BY DEF Arrivals
<1>2. i \in DOMAIN ch
  BY DEF Deliverable
<1>3. ch[i] \in ToSet(ch) /\ ch[i] \in S
  BY <1>2 DEF ToSet
<1> QED
  BY <1>1, <1>2, <1>3, RemoveAtMembers

-----------------------------------------------------------------------------
(* For the packets of the sliding-window protocol.                          *)
LEMMA TransmitContents ==
  ASSUME NEW ch \in Seq(Packets), NEW p \in Packets, NEW c \in Transmit(ch, p)
  PROVE  c \in Seq(Packets) /\ ToSet(c) \subseteq ToSet(ch) \cup {p, Corrupt}
BY TransmitMembers, CorruptType

LEMMA ArrivalContents ==
  ASSUME NEW ch \in Seq(Packets), NEW a \in Arrivals(ch)
  PROVE  /\ a.packet \in ToSet(ch) /\ a.packet \in Packets
         /\ a.rest \in Seq(Packets) /\ ToSet(a.rest) \subseteq ToSet(ch)
BY ArrivalMembers

LEMMA SendToClientContents ==
  ASSUME toClient \in Seq(Packets), NEW p \in Packets, SendToClient(p)
  PROVE  toClient' \in Seq(Packets) /\ ToSet(toClient') \subseteq ToSet(toClient) \cup {p, Corrupt}
<1>1. toClient' = <<>> \/ toClient' \in Transmit(toClient, p)
  BY DEF SendToClient
<1> QED
  BY <1>1, NoContents, TransmitContents

LEMMA SendToServerContents ==
  ASSUME toServer \in Seq(Packets), NEW p \in Packets, SendToServer(p)
  PROVE  toServer' \in Seq(Packets) /\ ToSet(toServer') \subseteq ToSet(toServer) \cup {p, Corrupt}
<1>1. toServer' = <<>> \/ toServer' \in Transmit(toServer, p)
  BY DEF SendToServer
<1> QED
  BY <1>1, NoContents, TransmitContents

LEMMA SendPairToServerContents ==
  ASSUME toServer \in Seq(Packets), NEW p \in Packets, NEW q \in Packets,
         SendPairToServer(p, q)
  PROVE  /\ toServer' \in Seq(Packets)
         /\ ToSet(toServer') \subseteq ToSet(toServer) \cup {p, q, Corrupt}
<1>1. toServer' = <<>> \/ \E ch \in Transmit(toServer, p) : toServer' \in Transmit(ch, q)
  BY DEF SendPairToServer
<1>2. <<>> \in Seq(Packets) /\ ToSet(<<>>) = {}
  BY DEF ToSet
<1>3. CASE \E ch \in Transmit(toServer, p) : toServer' \in Transmit(ch, q)
  <2>1. PICK ch \in Transmit(toServer, p) : toServer' \in Transmit(ch, q)
    BY <1>3
  <2>2. ch \in Seq(Packets) /\ ToSet(ch) \subseteq ToSet(toServer) \cup {p, Corrupt}
    BY <2>1, TransmitContents
  <2>3. toServer' \in Seq(Packets) /\ ToSet(toServer') \subseteq ToSet(ch) \cup {q, Corrupt}
    BY <2>1, <2>2, TransmitContents
  <2> QED
    BY <2>2, <2>3
<1> QED
  BY <1>1, <1>2, <1>3

=============================================================================
