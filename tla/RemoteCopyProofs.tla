-------------------------- MODULE RemoteCopyProofs --------------------------
(***************************************************************************)
(* The safety properties of RemoteCopy.tla for every file, window, capacity *)
(* and set of faults.  First what is in flight and in the windows has the   *)
(* right type, then RemoteCopyInvariant's IndInv is inductive, and the      *)
(* properties follow from it; last, what kills the server's child.          *)
(***************************************************************************)
EXTENDS RemoteCopyInvariant, PacketChannelProofs, SequenceTheorems

USE NPacketsAssumption, ShortLastAssumption, CapacityAssumption, FaultsAssumption,
    EofGarbageAssumption, MaxRetriesAssumption, MaxSelectsAssumption,
    WindowSizeAssumption

-----------------------------------------------------------------------------
(* What the operators of Window.tla return: the slots of one window's span  *)
(* of sequence numbers are all different, and sliding a window leaves valid *)
(* exactly what was valid of the part both windows share.                   *)
LEMMA DivMod ==
  ASSUME NEW a \in Int
  PROVE  /\ a % WindowSize \in 0..(WindowSize - 1)
         /\ a \div WindowSize \in Int
         /\ a = WindowSize * (a \div WindowSize) + (a % WindowSize)
OBVIOUS

\* A multiple of the window size nearer to 0 than the window size is 0.
LEMMA SmallMultiple ==
  ASSUME NEW d \in Int, WindowSize * d < WindowSize, -WindowSize < WindowSize * d
  PROVE  d = 0
OBVIOUS

LEMMA IndexInSlots ==
  ASSUME NEW seq \in Int
  PROVE  Index(seq) \in Slots
BY DivMod DEF Index, Slots

(* Two sequence numbers less than a window apart share no slot of the ring. *)
LEMMA IndexInjective ==
  ASSUME NEW a \in Int, NEW b \in Int, a - b < WindowSize, b - a < WindowSize,
         Index(a) = Index(b)
  PROVE  a = b
<1> DEFINE qa == (a - 1) \div WindowSize
           qb == (b - 1) \div WindowSize
           d == qa - qb
<1>1. qa \in Int /\ a - 1 = WindowSize * qa + Index(a)
  <2>1. a - 1 \in Int
    OBVIOUS
  <2> QED BY <2>1, DivMod DEF Index
<1>2. qb \in Int /\ b - 1 = WindowSize * qb + Index(b)
  <2>1. b - 1 \in Int
    OBVIOUS
  <2> QED BY <2>1, DivMod DEF Index
<1>3. Index(a) \in Int
  BY IndexInSlots DEF Slots
<1> HIDE DEF qa, qb
<1>4. WindowSize * qa - WindowSize * qb = a - b
  BY <1>1, <1>2, <1>3
<1>5. WindowSize * d = WindowSize * qa - WindowSize * qb
  BY <1>1, <1>2
<1>6. d \in Int /\ WindowSize * d = a - b
  BY <1>1, <1>2, <1>4, <1>5
<1> HIDE DEF d
<1>7. d = 0
  BY <1>6, SmallMultiple
<1> QED
  BY <1>6, <1>7

\* One window further on is the same slot.
LEMMA IndexPeriod ==
  ASSUME NEW seq \in Int
  PROVE  Index(seq + WindowSize) = Index(seq)
<1> DEFINE a == seq - 1
           b == seq - 1 + WindowSize
           qa == a \div WindowSize
           qb == b \div WindowSize
           ra == a % WindowSize
           rb == b % WindowSize
           d == qb - qa - 1
<1>1. a \in Int /\ b \in Int /\ b = a + WindowSize
  OBVIOUS
<1> HIDE DEF a, b
<1>2. qa \in Int /\ a = WindowSize * qa + ra /\ ra \in 0..(WindowSize - 1)
  BY <1>1, DivMod
<1>3. qb \in Int /\ b = WindowSize * qb + rb /\ rb \in 0..(WindowSize - 1)
  BY <1>1, DivMod
<1> HIDE DEF qa, qb, ra, rb
<1>4. WindowSize * d = WindowSize * qb - WindowSize * qa - WindowSize
  BY <1>2, <1>3
<1>5. d \in Int /\ WindowSize * d = ra - rb
  BY <1>1, <1>2, <1>3, <1>4
<1> HIDE DEF d
<1>6. d = 0
  BY <1>2, <1>3, <1>5, SmallMultiple
<1>7. ra = rb
  BY <1>2, <1>3, <1>5, <1>6
<1>8. Index(seq + WindowSize) = rb /\ Index(seq) = ra
  <2>1. (seq + WindowSize) - 1 = b /\ seq - 1 = a
    BY DEF a, b
  <2> QED BY <2>1 DEF Index, ra, rb
<1> QED
  BY <1>7, <1>8

-----------------------------------------------------------------------------
(* Every operation takes windows to windows.                                *)

LEMMA InitWindowType == InitWindow \in Windows
BY DEF InitWindow, Windows

LEMMA AddToBufferType ==
  ASSUME NEW w \in Windows, NEW p \in Packets
  PROVE  AddToBuffer(w, p) \in Windows
<1>1. p.seq \in Int
  BY DEF Packets
<1> QED
  BY <1>1, IndexInSlots DEF AddToBuffer, Windows

LEMMA ReleasedType ==
  ASSUME NEW w, NEW seqs
  PROVE  Released(w, seqs) \in [Slots -> BOOLEAN] \/ w \notin Windows
BY DEF Released, Windows

LEMMA RemoveFromBufferType ==
  ASSUME NEW w \in Windows, NEW seqs
  PROVE  RemoveFromBuffer(w, seqs) \in Windows
BY ReleasedType DEF RemoveFromBuffer, Windows

LEMMA SlideType ==
  ASSUME NEW w \in Windows, NEW n \in Nat
  PROVE  Slide(w, n) \in Windows
<1>1. Released(w, w.bottom..(n - 1)) \in [Slots -> BOOLEAN]
  BY ReleasedType
<1>2. n + WindowSize - 1 \in Nat
  OBVIOUS
<1> QED
  BY <1>1, <1>2 DEF Slide, Windows

-----------------------------------------------------------------------------
(* A buffered packet can be got back by its sequence number, and no other   *)
(* number of the same span is disturbed.                                    *)
LEMMA AddToBufferGet ==
  ASSUME NEW w \in Windows, NEW p \in Packets, NEW seq \in Int,
         seq - p.seq < WindowSize, p.seq - seq < WindowSize
  PROVE  LET v == AddToBuffer(w, p) IN
         /\ GetFromBuffer(v, seq) = IF seq = p.seq THEN p ELSE GetFromBuffer(w, seq)
         /\ IsValid(v, seq) <=> seq = p.seq \/ IsValid(w, seq)
<1>1. p.seq \in Int /\ Index(p.seq) \in Slots /\ Index(seq) \in Slots
  BY IndexInSlots DEF Packets
<1>2. Index(seq) = Index(p.seq) => seq = p.seq
  BY <1>1, IndexInjective
<1> QED
  BY <1>1, <1>2 DEF AddToBuffer, GetFromBuffer, IsValid, Windows

(* A number below the released ones loses no slot to them.                  *)
LEMMA ReleasedValid ==
  ASSUME NEW w \in Windows, NEW lo \in Int, NEW hi \in Int, NEW seq \in Int
  PROVE  /\ Released(w, lo..hi)[Index(seq)] => IsValid(w, seq)
         /\ seq \in lo..hi => ~Released(w, lo..hi)[Index(seq)]
BY IndexInSlots DEF Released, IsValid, Windows

(* After a slide only what was valid before, and was in the old window, is  *)
(* valid in the new one.                                                    *)
LEMMA SlideValid ==
  ASSUME NEW w \in Windows, NEW n \in Nat, NEW seq \in n..(n + WindowSize - 1),
         w.bottom <= n, IsValid(Slide(w, n), seq)
  PROVE  IsValid(w, seq) /\ seq < w.bottom + WindowSize
<1>1. Released(w, w.bottom..(n - 1))[Index(seq)]
  BY DEF IsValid, Slide, Windows
<1>2. w.bottom \in Nat /\ n - 1 \in Int /\ seq \in Int
  BY DEF Windows
<1>3. IsValid(w, seq)
  BY <1>1, <1>2, ReleasedValid
<1>4. CASE seq >= w.bottom + WindowSize
  <2>1. seq - WindowSize \in w.bottom..(n - 1)
    BY <1>2, <1>4
  <2>2. Index(seq) = Index(seq - WindowSize)
    <3>1. seq - WindowSize \in Int /\ seq - WindowSize + WindowSize = seq
      BY <1>2
    <3> QED BY <3>1, IndexPeriod
  <2> QED
    BY <2>1, <2>2, <1>1, <1>2, ReleasedValid
<1> QED
  BY <1>2, <1>3, <1>4

-----------------------------------------------------------------------------
(* Packets the two programs construct.                                      *)
LEMMA ControlType ==
  ASSUME NEW flag \in ControlFlags, NEW seq \in Nat
  PROVE  Control(flag, seq) \in Packets
BY DEF Control, Packets

LEMMA DataType ==
  ASSUME NEW seq \in Nat, NEW chunk \in 0..NPackets
  PROVE  DataPacket(seq, chunk) \in Packets
BY DEF DataPacket, Packets

LEMMA EmptySeqType == <<>> \in Seq(Packets) /\ ToSet(<<>>) = {}
BY DEF ToSet

LEMMA ToSetMembers ==
  ASSUME NEW ch \in Seq(Packets), NEW p \in ToSet(ch)
  PROVE  p \in Packets
BY DEF ToSet

LEMMA LengthType == \A chunk : LengthOf(chunk) \in Lengths
BY DEF LengthOf, Lengths

LEMMA BufferType ==
  ASSUME NEW w \in Windows, NEW seq \in Int
  PROVE  GetFromBuffer(w, seq) \in Packets \cup {NoPacket}
BY IndexInSlots DEF GetFromBuffer, Windows

-----------------------------------------------------------------------------
(* The part of TypeOK each end owns.                                        *)
ServerTypeOK ==
  /\ sstate \in ServerStates /\ swin \in Windows /\ eofIndex \in Nat
  /\ pos \in Nat /\ nudges \in 0..MaxRetries /\ byes \in 0..(MaxRetries + 1)
  /\ sstate # "DONE" => byes <= MaxRetries
  /\ sended \in ServerEnds \cup {"running"}

ClientTypeOK ==
  /\ cstate \in ClientStates /\ selects \in Nat /\ cwin \in Windows
  /\ outfile \in Seq([chunk : 0..NPackets, len : Lengths])
  /\ cended \in ClientEnds \cup {"running"}

ChannelTypeOK ==
  /\ toClient \in Seq(Packets) /\ toServer \in Seq(Packets)
  /\ closed \subseteq {"client", "server"}

LEMMA TypeParts == TypeOK <=> ServerTypeOK /\ ClientTypeOK /\ ChannelTypeOK
BY DEF TypeOK, ServerTypeOK, ClientTypeOK, ChannelTypeOK

LEMMA TypeInit == Init => TypeOK
BY InitWindowType, EmptySeqType
   DEF Init, ChannelInit, ServerInit, ClientInit, TypeOK, ServerStates, ClientStates

LEMMA ServerEndType ==
  ASSUME ChannelTypeOK, NEW why \in ServerEnds, ServerEnd(why)
  PROVE  /\ sstate' = "DONE" /\ sended' \in ServerEnds
         /\ toServer' \in Seq(Packets) /\ closed' \subseteq {"client", "server"}
BY EmptySeqType DEF ServerEnd, CloseServer, ChannelTypeOK

LEMMA ResendType ==
  ASSUME ChannelTypeOK, ServerTypeOK, NEW seq \in Nat, NEW next \in ServerStates,
         NEW left \in Seq(Packets), Resend(seq, next, left)
  PROVE  /\ sstate' \in ServerStates /\ sended' \in ServerEnds \cup {"running"}
         /\ ChannelTypeOK'
<1>1. CASE GetFromBuffer(swin, seq) = NoPacket
  BY <1>1, ServerEndType DEF Resend, ChannelTypeOK, ServerEnds, ServerStates
<1>2. CASE GetFromBuffer(swin, seq) # NoPacket
  <2>1. GetFromBuffer(swin, seq) \in Packets
    BY <1>2, BufferType DEF ServerTypeOK
  <2> QED
    BY <1>2, <2>1, SendToClientContents DEF Resend, ChannelTypeOK, ServerTypeOK
<1> QED
  BY <1>1, <1>2

LEMMA ServerStepType ==
  ASSUME ServerTypeOK, ChannelTypeOK, ServerStep \/ ServerTimeout
  PROVE  ServerTypeOK' /\ ChannelTypeOK'
<1>1. CASE ServerFilename
  <2>1. Control("FNAME_OK", 0) \in Packets /\ Control("FNAME_BAD", 0) \in Packets
    BY ControlType DEF ControlFlags
  <2>2. toClient' \in Seq(Packets)
    BY <1>1, <2>1, SendToClientContents, EmptySeqType, TransmitContents
       DEF ServerFilename, ChannelTypeOK
  <2> QED
    BY <1>1, <2>2, ServerEndType
       DEF ServerFilename, ServerTypeOK, ChannelTypeOK, ServerStates, ServerEnds
<1>2. CASE SendDataClosed
  BY <1>2 DEF SendDataClosed, channelVars, ServerTypeOK, ChannelTypeOK, ServerStates
<1>3. CASE SendDataEof
  BY <1>3 DEF SendDataEof, channelVars, ServerTypeOK, ChannelTypeOK, ServerStates, Windows
<1>4. CASE SendDataReadError
  BY <1>4, ServerEndType
     DEF SendDataReadError, ServerTypeOK, ChannelTypeOK, ServerEnds, ServerStates
<1>5. CASE SendDataPacket
  <2>1. DataPacket(swin.middle, pos) \in Packets
    BY <1>5, DataType DEF SendDataPacket, ServerTypeOK, Windows
  <2>2. toClient' \in Seq(Packets)
    BY <1>5, <2>1, SendToClientContents DEF SendDataPacket, ChannelTypeOK
  <2>3. [swin EXCEPT !.middle = @ + 1] \in Windows
    BY DEF ServerTypeOK, Windows
  <2>4. swin' \in Windows
    BY <1>5, <2>1, <2>3, AddToBufferType DEF SendDataPacket
  <2> QED
    BY <1>5, <2>2, <2>4 DEF SendDataPacket, ServerTypeOK, ChannelTypeOK, ServerStates
<1>6. CASE Poll
  BY <1>6 DEF Poll, channelVars, ServerTypeOK, ChannelTypeOK, ServerStates
<1>7. CASE ProcessCorrupt
  BY <1>7, ArrivalContents DEF ProcessCorrupt, ServerTypeOK, ChannelTypeOK, ServerStates
<1>8. CASE ProcessRR
  <2>1. PICK a \in Arrivals(toServer) :
          /\ toServer' = a.rest
          /\ swin' = IF a.packet.seq > swin.bottom THEN Slide(swin, a.packet.seq) ELSE swin
          /\ sstate' = IF a.packet.seq = eofIndex THEN "BYE" ELSE "SEND_DATA"
    BY <1>8 DEF ProcessRR
  <2>2. a.rest \in Seq(Packets) /\ a.packet.seq \in Nat
    BY ArrivalContents DEF ChannelTypeOK, Packets
  <2>3. swin' \in Windows
    BY <2>1, <2>2, SlideType DEF ServerTypeOK
  <2> QED
    BY <1>8, <2>1, <2>2, <2>3 DEF ProcessRR, ServerTypeOK, ChannelTypeOK, ServerStates
<1>9. CASE ProcessSREJ
  <2>1. PICK a \in Arrivals(toServer) : Resend(a.packet.seq, "SEND_DATA", a.rest)
    BY <1>9 DEF ProcessSREJ
  <2>2. a.rest \in Seq(Packets) /\ a.packet.seq \in Nat
    BY ArrivalContents DEF ChannelTypeOK, Packets
  <2>3. "SEND_DATA" \in ServerStates
    BY DEF ServerStates
  <2> QED
    BY <1>9, <2>1, <2>2, <2>3, ResendType DEF ProcessSREJ, ServerTypeOK
<1>10. CASE WaitOnAckGiveUp
  BY <1>10, ServerEndType
     DEF WaitOnAckGiveUp, ServerTypeOK, ChannelTypeOK, ServerEnds, ServerStates
<1>11. CASE WaitOnAckArrival
  BY <1>11 DEF WaitOnAckArrival, channelVars, ServerTypeOK, ChannelTypeOK, ServerStates
<1>12. CASE Bye
  <2>1. Control("END_OF_FILE", eofIndex) \in Packets
    BY ControlType DEF ControlFlags, ServerTypeOK
  <2>2. toClient' \in Seq(Packets)
    BY <1>12, <2>1, SendToClientContents DEF Bye, ChannelTypeOK
  <2>3. CASE byes < MaxRetries
    <3>1. byes' \in 0..(MaxRetries + 1) /\ byes' <= MaxRetries
      BY <1>12, <2>3 DEF Bye, ServerTypeOK
    <3>2. sstate' = "BYE_WAIT" /\ UNCHANGED <<sended, toServer, closed>>
      BY <1>12, <2>3 DEF Bye
    <3> QED
      BY <1>12, <2>2, <3>1, <3>2 DEF Bye, ServerTypeOK, ChannelTypeOK, ServerStates
  <2>4. CASE ~(byes < MaxRetries)
    <3>1. ServerEnd("gave_up") /\ "gave_up" \in ServerEnds
      BY <1>12, <2>4 DEF Bye, ServerEnds
    <3>2. byes' \in 0..(MaxRetries + 1)
      BY <1>12 DEF Bye, ServerTypeOK
    <3> QED
      BY <1>12, <2>2, <3>1, <3>2, ServerEndType
         DEF Bye, ServerTypeOK, ChannelTypeOK, ServerStates
  <2> QED
    BY <2>3, <2>4
<1>13. CASE ByeArrival
  <2>1. PICK a \in Arrivals(toServer) :
          \/ ServerEnd("handshake")
          \/ sstate' = "BYE" /\ toServer' = a.rest /\ UNCHANGED <<sended, closed>>
    BY <1>13 DEF ByeArrival
  <2>2. a.rest \in Seq(Packets)
    BY ArrivalContents DEF ChannelTypeOK
  <2>3. CASE ServerEnd("handshake")
    <3>1. "handshake" \in ServerEnds
      BY DEF ServerEnds
    <3> QED
      BY <1>13, <2>3, <3>1, ServerEndType
         DEF ByeArrival, ServerTypeOK, ChannelTypeOK, ServerStates
  <2>4. CASE sstate' = "BYE" /\ toServer' = a.rest /\ UNCHANGED <<sended, closed>>
    BY <1>13, <2>2, <2>4 DEF ByeArrival, ServerTypeOK, ChannelTypeOK, ServerStates
  <2> QED
    BY <2>1, <2>3, <2>4
<1>14. CASE WaitOnAckTimeout
  <2>1. swin.bottom \in Nat /\ "WAIT_ON_ACK" \in ServerStates
    BY DEF ServerTypeOK, Windows, ServerStates
  <2> QED
    BY <1>14, <2>1, ResendType DEF WaitOnAckTimeout, ServerTypeOK, ChannelTypeOK
<1>15. CASE ByeTimeout
  BY <1>15 DEF ByeTimeout, channelVars, ServerTypeOK, ChannelTypeOK, ServerStates
<1> QED
  BY <1>1, <1>2, <1>3, <1>4, <1>5, <1>6, <1>7, <1>8, <1>9, <1>10, <1>11, <1>12, <1>13,
     <1>14, <1>15 DEF ServerStep, ServerTimeout

Written == [chunk : 0..NPackets, len : Lengths]

LEMMA ClientEndType ==
  ASSUME ChannelTypeOK, NEW why \in ClientEnds, ClientEnd(why)
  PROVE  /\ cstate' \in ClientStates /\ cended' \in ClientEnds \cup {"running"}
         /\ toClient' \in Seq(Packets) /\ closed' \subseteq {"client", "server"}
BY EmptySeqType DEF ClientEnd, CloseClient, ChannelTypeOK, ClientStates

LEMMA AcceptType ==
  ASSUME ChannelTypeOK, ClientTypeOK, NEW a \in Arrivals(toClient), Accept(a)
  PROVE  /\ cended' \in ClientEnds \cup {"running"}
         /\ toClient' \in Seq(Packets) /\ closed' \subseteq {"client", "server"}
BY ArrivalContents DEF Accept, ChannelTypeOK, ClientTypeOK

LEMMA RrType ==
  ASSUME NEW seq \in Nat
  PROVE  Rr(seq) \in Packets /\ Srej(seq) \in Packets
BY ControlType DEF Rr, Srej, ControlFlags

\* Acknowledging keeps the type of the channel to the server.
LEMMA RrSentType ==
  ASSUME ChannelTypeOK, NEW seq \in Nat, SendToServer(Rr(seq)) \/ SendToServer(Srej(seq))
  PROVE  toServer' \in Seq(Packets)
BY RrType, SendToServerContents DEF ChannelTypeOK

LEMMA FlushedType ==
  ASSUME NEW w \in Windows, NEW m \in Nat, m >= w.bottom, NEW len \in Lengths
  PROVE  /\ Flushed(w, m, len) \in Seq(Written)
         /\ Len(Flushed(w, m, len)) = m - w.bottom
         /\ \A k \in 1..(m - w.bottom) :
              Flushed(w, m, len)[k].chunk = GetFromBuffer(w, w.bottom + k - 1).chunk
<1> DEFINE entry(k) == [chunk |-> GetFromBuffer(w, w.bottom + k - 1).chunk, len |-> len]
           n == m - w.bottom
<1>1. n \in Nat /\ w.bottom \in Nat
  BY DEF Windows
<1>2. ASSUME NEW k \in 1..n
      PROVE  entry(k) \in Written
  <2>1. GetFromBuffer(w, w.bottom + k - 1) \in Packets \cup {NoPacket}
    BY <1>1, BufferType
  <2>2. GetFromBuffer(w, w.bottom + k - 1).chunk \in 0..NPackets
    BY <2>1 DEF Packets, NoPacket
  <2> QED
    BY <2>2 DEF Written
<1>3. Flushed(w, m, len) = [k \in 1..n |-> entry(k)]
  BY DEF Flushed
<1> HIDE DEF n, entry
<1>4. [k \in 1..n |-> entry(k)] \in [1..n -> Written]
  BY <1>2
<1>5. Flushed(w, m, len) \in Seq(Written) /\ Len(Flushed(w, m, len)) = n
  BY <1>1, <1>3, <1>4
<1>6. \A k \in 1..n : Flushed(w, m, len)[k].chunk = GetFromBuffer(w, w.bottom + k - 1).chunk
  BY <1>3 DEF entry
<1> QED
  BY <1>5, <1>6 DEF n

LEMMA FilenameReturnsType ==
  ASSUME ClientTypeOK, ChannelTypeOK,
         \/ FilenameReturns(ClientEnd("abandoned"))
         \/ FilenameReturns(ClientEnd("no_file"))
         \/ \E a \in Arrivals(toClient) : FilenameReturns(cstate' = "FILE_OK" /\ Accept(a))
  PROVE  ClientTypeOK' /\ ChannelTypeOK'
<1>1. selects' \in Nat /\ UNCHANGED <<cwin, outfile, toServer>>
  BY DEF FilenameReturns, ClientTypeOK
<1>2. \/ ClientEnd("unreachable") \/ ClientEnd("abandoned") \/ ClientEnd("no_file")
      \/ \E a \in Arrivals(toClient) : cstate' = "FILE_OK" /\ Accept(a)
  BY DEF FilenameReturns
<1>3. {"unreachable", "abandoned", "no_file"} \subseteq ClientEnds /\ "FILE_OK" \in ClientStates
  BY DEF ClientEnds, ClientStates
<1>4. /\ cstate' \in ClientStates /\ cended' \in ClientEnds \cup {"running"}
      /\ toClient' \in Seq(Packets) /\ closed' \subseteq {"client", "server"}
  BY <1>2, <1>3, ClientEndType, AcceptType
<1> QED
  BY <1>1, <1>4 DEF ClientTypeOK, ChannelTypeOK

LEMMA RecvDataType ==
  ASSUME ClientTypeOK, ChannelTypeOK, NEW a \in Arrivals(toClient), RecvData(a)
  PROVE  ClientTypeOK' /\ ChannelTypeOK'
<1> USE DEF RecvData
<1>1. a.packet \in Packets /\ a.packet.seq \in Nat /\ a.packet.chunk \in 0..NPackets
  BY ArrivalContents DEF ChannelTypeOK, Packets
<1>2. /\ cwin \in Windows /\ cwin.bottom \in Nat /\ cwin.bottom + 1 \in Nat
      /\ a.packet.seq + 1 \in Nat
  BY <1>1 DEF ClientTypeOK, Windows
<1>3. CASE RecvDataCorrupt(a)
  <2>1. cwin' \in Windows
    BY <1>3, <1>2 DEF RecvDataCorrupt, Windows
  <2> QED
    BY <1>3, <1>2, <2>1, AcceptType, RrSentType
       DEF RecvDataCorrupt, ClientTypeOK, ChannelTypeOK, ClientStates
<1>4. CASE RecvDataEof(a)
  <2>1. "eof" \in ClientEnds
    BY DEF ClientEnds
  <2> QED
    BY <1>4, <1>2, <2>1, ClientEndType, RrSentType
       DEF RecvDataEof, ClientTypeOK, ChannelTypeOK
<1>5. CASE RecvDataExpected(a)
  <2>1. cwin' \in Windows
    BY <1>5, <1>2, SlideType DEF RecvDataExpected
  <2>2. [chunk |-> a.packet.chunk, len |-> LengthOf(a.packet.chunk)] \in Written
    BY <1>1, LengthType DEF Written
  <2>3. outfile' \in Seq(Written)
    BY <1>5, <2>2 DEF RecvDataExpected, ClientTypeOK, Written
  <2> QED
    BY <1>5, <1>2, <2>1, <2>3, AcceptType, RrSentType
       DEF RecvDataExpected, ClientTypeOK, ChannelTypeOK, Written
<1>6. CASE RecvDataDuplicate(a)
  BY <1>6, <1>2, AcceptType, RrSentType DEF RecvDataDuplicate, ClientTypeOK, ChannelTypeOK
<1>7. CASE RecvDataAhead(a)
  <2>1. CASE a.packet.seq > cwin.top
    <3>1. "out_of_window" \in ClientEnds
      BY DEF ClientEnds
    <3> QED
      BY <1>7, <2>1, <3>1, ClientEndType DEF RecvDataAhead, ClientTypeOK, ChannelTypeOK
  <2>2. CASE ~(a.packet.seq > cwin.top)
    <3>1. AddToBuffer(cwin, a.packet) \in Windows
      BY <1>1, <1>2, AddToBufferType
    <3>2. cwin' \in Windows
      BY <1>7, <1>2, <2>2, <3>1 DEF RecvDataAhead, Windows
    <3> QED
      BY <1>7, <1>2, <2>2, <3>2, AcceptType, RrSentType
         DEF RecvDataAhead, ClientTypeOK, ChannelTypeOK, ClientStates
  <2> QED
    BY <2>1, <2>2
<1> QED
  BY <1>3, <1>4, <1>5, <1>6, <1>7

LEMMA MissingType ==
  ASSUME ClientTypeOK, ChannelTypeOK, NEW a \in Arrivals(toClient), Missing(a)
  PROVE  ClientTypeOK' /\ ChannelTypeOK'
<1> USE DEF Missing
<1>1. a.packet \in Packets /\ a.packet.seq \in Nat /\ a.packet.chunk \in 0..NPackets
  BY ArrivalContents DEF ChannelTypeOK, Packets
<1>2. /\ cwin \in Windows /\ cwin.bottom \in Nat /\ cwin.bottom + 1 \in Nat
      /\ cwin.middle \in Nat /\ cwin.top \in Nat
  BY <1>1 DEF ClientTypeOK, Windows
<1>3. CASE MissingCorrupt(a)
  BY <1>3, AcceptType DEF MissingCorrupt, ClientTypeOK, ChannelTypeOK
<1>4. CASE MissingEof(a)
  <2>1. "eof" \in ClientEnds
    BY DEF ClientEnds
  <2>2. CASE cwin.bottom = a.packet.seq
    BY <1>4, <1>2, <2>1, <2>2, ClientEndType, RrSentType
       DEF MissingEof, ClientTypeOK, ChannelTypeOK
  <2>3. CASE cwin.bottom # a.packet.seq
    BY <1>4, <2>3, AcceptType DEF MissingEof, ClientTypeOK, ChannelTypeOK
  <2> QED
    BY <2>2, <2>3
<1>5. CASE MissingInWindow(a)
  <2> DEFINE added == AddToBuffer(cwin, a.packet)
             len == LengthOf(a.packet.chunk)
             flushed(m) == [RemoveFromBuffer(added, cwin.bottom..(m - 1)) EXCEPT !.middle = m]
  <2>1. PICK m \in cwin.bottom..(cwin.top + 1) :
          /\ \/ SendPairToServer(Srej(m), Rr(m)) \/ SendToServer(Rr(m))
          /\ outfile' = outfile \o Flushed(added, m, len)
          /\ cwin' = IF m > cwin.bottom THEN Slide(flushed(m), m) ELSE flushed(m)
          /\ cstate' \in {"RECV_DATA", "MISSING"}
    BY <1>5 DEF MissingInWindow
  <2>2. added \in Windows /\ added.bottom = cwin.bottom
    BY <1>1, <1>2, AddToBufferType DEF AddToBuffer, Windows
  <2> HIDE DEF added
  <2>3. m \in Nat /\ m >= added.bottom
    BY <1>2, <2>2
  <2>4. Flushed(added, m, len) \in Seq(Written)
    BY <2>2, <2>3, FlushedType, LengthType
  <2>5. outfile' \in Seq(Written)
    BY <2>1, <2>4 DEF ClientTypeOK, Written
  <2>6. flushed(m) \in Windows
    BY <2>2, <2>3, RemoveFromBufferType DEF Windows
  <2>7. cwin' \in Windows
    BY <2>1, <2>3, <2>6, SlideType
  <2>8. toServer' \in Seq(Packets)
    BY <2>1, <2>3, RrType, SendPairToServerContents, SendToServerContents DEF ChannelTypeOK
  <2>9. Accept(a) /\ UNCHANGED selects
    BY <1>5 DEF MissingInWindow
  <2> QED
    BY <2>1, <2>5, <2>7, <2>8, <2>9, AcceptType DEF ClientTypeOK, ChannelTypeOK, ClientStates, Written
<1>6. CASE MissingOutOfWindow(a)
  BY <1>6, <1>2, AcceptType, RrSentType DEF MissingOutOfWindow, ClientTypeOK, ChannelTypeOK
<1> QED
  BY <1>3, <1>4, <1>5, <1>6

LEMMA ClientStepType ==
  ASSUME ClientTypeOK, ChannelTypeOK, ClientStep \/ ClientTimeout
  PROVE  ClientTypeOK' /\ ChannelTypeOK'
<1>1. ASSUME NEW a \in Arrivals(toClient), ClientFilename(a)
      PROVE  ClientTypeOK' /\ ChannelTypeOK'
  BY <1>1, FilenameReturnsType DEF ClientFilename
<1>2. CASE FileOk
  <2>1. "open_error" \in ClientEnds
    BY DEF ClientEnds
  <2> QED
    BY <1>2, <2>1, ClientEndType DEF FileOk, ClientTypeOK, ChannelTypeOK, ClientStates
<1>3. CASE ClientFilenameTimeout
  BY <1>3, FilenameReturnsType DEF ClientFilenameTimeout
<1>4. CASE RecvTimeout
  <2>1. "silence" \in ClientEnds
    BY DEF ClientEnds
  <2> QED
    BY <1>4, <2>1, ClientEndType DEF RecvTimeout, ClientTypeOK, ChannelTypeOK
<1> QED
  BY <1>1, <1>2, <1>3, <1>4, RecvDataType, MissingType DEF ClientStep, ClientTimeout

-----------------------------------------------------------------------------
LEMMA TypeStep == TypeOK /\ [Next]_vars => TypeOK'
<1> SUFFICES ASSUME TypeOK, [Next]_vars
             PROVE  TypeOK'
  OBVIOUS
<1>1. ServerTypeOK /\ ClientTypeOK /\ ChannelTypeOK
  BY TypeParts
<1>2. CASE Server \/ ServerTimer
  BY <1>1, <1>2, ServerStepType
     DEF Server, ServerTimer, clientVars, TypeOK, ServerTypeOK, ClientTypeOK, ChannelTypeOK
<1>3. CASE Client \/ ClientTimer
  BY <1>1, <1>3, ClientStepType
     DEF Client, ClientTimer, serverVars, TypeOK, ServerTypeOK, ClientTypeOK, ChannelTypeOK
<1>4. CASE UNCHANGED vars
  BY <1>4 DEF TypeOK, vars, channelVars, serverVars, clientVars
<1> QED
  BY <1>2, <1>3, <1>4 DEF Next, Ended

(* Every variable keeps its type, whatever the network does: among others   *)
(* the counts of nudges and END_OF_FILEs never pass their limits, and no    *)
(* sequence number goes negative.                                           *)
THEOREM TypeCorrect == Spec => []TypeOK
BY TypeInit, TypeStep, PTL DEF Spec

-----------------------------------------------------------------------------
(* The inductive invariant.                                                 *)

ProtocolInv ==
  ToClientInv /\ ToServerInv /\ SenderInv /\ WindowsInv /\ ReceiverInv /\ EofInv

LEMMA ProtocolParts == IndInv <=> TypeOK /\ ProtocolInv
BY DEF IndInv, ProtocolInv

LEMMA ProtocolInit == Init => ProtocolInv
<1> SUFFICES ASSUME Init PROVE ProtocolInv
  OBVIOUS
<1> USE DEF Init, ChannelInit, ServerInit, ClientInit, InitWindow
<1>1. ToClientInv /\ ToServerInv
  BY EmptySeqType DEF ToClientInv, ToServerInv
<1>2. SenderInv
  BY DEF SenderInv, UnackedBuffered
<1>3. ReceiverInv
  BY IndexInSlots DEF ReceiverInv, OutputIsPrefix, IsValid
<1> QED
  BY <1>1, <1>2, <1>3 DEF ProtocolInv, WindowsInv, EofInv

(* A step of the server that only sends what may be sent, forgets packets   *)
(* and changes state without going into or out of bye().                    *)
LEMMA ServerFrame ==
  ASSUME TypeOK, ProtocolInv, UNCHANGED <<swin, pos, eofIndex>>, UNCHANGED clientVars,
         \A p \in ToSet(toClient') : p \in ToSet(toClient) \/ ToClientOK(p),
         \A p \in ToSet(toServer') : p \in ToSet(toServer),
         sstate \in ByeStates => sstate' \in ByeStates,
         sstate' \in {"BYE", "BYE_WAIT"} => sstate \in {"BYE", "BYE_WAIT"},
         sended' = "handshake" => sended = "handshake" \/ (EofIndexHarmless => cended = "eof")
  PROVE  ProtocolInv'
<1> USE DEF ProtocolInv, clientVars
<1>1. ASSUME NEW p, ToClientOK(p) PROVE ToClientOK(p)'
  BY <1>1 DEF ToClientOK, IsSentData, AllAcknowledged, EofIndexHarmless
<1>2. ToClientInv'
  BY <1>1 DEF ToClientInv
<1>3. ToServerInv'
  BY DEF ToServerInv, ToServerOK
<1>4. SenderInv'
  BY DEF SenderInv, IsSentData, UnackedBuffered
<1>5. WindowsInv'
  BY DEF WindowsInv
<1>6. ReceiverInv'
  BY DEF ReceiverInv, KeptOK, OutputIsPrefix
<1>7. EofInv'
  BY DEF EofInv, AllAcknowledged, EofIndexHarmless
<1> QED
  BY <1>2, <1>3, <1>4, <1>5, <1>6, <1>7

(* A step of the client that writes nothing and buffers nothing.            *)
LEMMA ClientFrame ==
  ASSUME TypeOK, ProtocolInv, UNCHANGED serverVars, UNCHANGED outfile,
         UNCHANGED <<cwin.bottom, cwin.top, cwin.buffer, cwin.valid>>,
         \A p \in ToSet(toClient') : p \in ToSet(toClient),
         \A p \in ToSet(toServer') : p \in ToSet(toServer) \/ ToServerOK(p)',
         cstate' = "MISSING" => cwin'.middle = cwin'.bottom,
         cstate \in {"MISSING", "DONE"} => cstate' \in {"MISSING", "DONE"},
         \/ cended' = cended
         \/ cstate # "DONE" /\ cended' \notin {"eof", "out_of_window"}
         \/ cstate # "DONE" /\ cended' = "eof" /\ sstate \in ByeStates /\ AllAcknowledged,
         cstate' # "DONE" => cstate # "DONE" /\ cended' = cended
  PROVE  ProtocolInv'
<1> USE DEF ProtocolInv, serverVars
<1>1. cended = "eof" => cended' = "eof"
  BY DEF EofInv
<1>2. ToClientInv'
  BY DEF ToClientInv, ToClientOK, IsSentData, AllAcknowledged, EofIndexHarmless
<1>3. ToServerInv'
  <2>1. ASSUME NEW p, ToServerOK(p) PROVE ToServerOK(p)'
    BY <1>1, <2>1 DEF ToServerOK
  <2> QED
    BY <2>1 DEF ToServerInv
<1>4. SenderInv'
  BY DEF SenderInv, IsSentData, UnackedBuffered
<1>5. WindowsInv'
  BY DEF WindowsInv
<1>6. ReceiverInv'
  BY DEF ReceiverInv, KeptOK, IsValid, GetFromBuffer, OutputIsPrefix
<1>7. EofInv'
  BY <1>1 DEF EofInv, AllAcknowledged, EofIndexHarmless
<1> QED
  BY <1>2, <1>3, <1>4, <1>5, <1>6, <1>7

\* What a slot holds may be sent (again); it exits the process if it is empty.
LEMMA ResendKeeps ==
  ASSUME TypeOK, ProtocolInv, sstate \in {"PROCESS", "WAIT_ON_ACK"}, NEW seq \in Nat,
         NEW next \in {"SEND_DATA", "WAIT_ON_ACK"}, NEW left,
         ToSet(left) \subseteq ToSet(toServer),
         Resend(seq, next, left), UNCHANGED <<swin, pos, eofIndex>>, UNCHANGED clientVars
  PROVE  ProtocolInv'
<1>1. CASE GetFromBuffer(swin, seq) = NoPacket
  <2>1. ServerEnd("exit") /\ UNCHANGED toClient
    BY <1>1 DEF Resend
  <2>2. ToSet(toServer') = {}
    BY <2>1, EmptySeqType DEF ServerEnd, CloseServer
  <2> QED
    BY <2>1, <2>2, ServerFrame DEF ServerEnd, ByeStates
<1>2. CASE GetFromBuffer(swin, seq) # NoPacket
  <2> DEFINE p == GetFromBuffer(swin, seq)
  <2>1. SendToClient(p) /\ sstate' = next /\ toServer' = left /\ UNCHANGED sended
    BY <1>2 DEF Resend
  <2>2. p \in Packets
    BY <1>2, BufferType DEF TypeOK
  <2>3. ToClientOK(p) /\ ToClientOK(Corrupt)
    BY <1>2, IndexInSlots DEF ProtocolInv, SenderInv, GetFromBuffer, ToClientOK
  <2> HIDE DEF p
  <2>4. ToSet(toClient') \subseteq ToSet(toClient) \cup {p, Corrupt}
    BY <2>1, <2>2, SendToClientContents DEF TypeOK
  <2> QED
    BY <2>1, <2>3, <2>4, ServerFrame DEF ByeStates
<1> QED
  BY <1>1, <1>2

LEMMA SendDataPacketKeeps ==
  ASSUME TypeOK, ProtocolInv, SendDataPacket, UNCHANGED clientVars
  PROVE  ProtocolInv'
<1> USE DEF SendDataPacket
<1> DEFINE p == DataPacket(swin.middle, pos)
           w == [swin EXCEPT !.middle = @ + 1]
<1>1. /\ swin \in Windows /\ swin.middle \in Nat /\ swin.bottom \in Nat /\ swin.top \in Nat
      /\ cwin.bottom \in Nat
  BY DEF TypeOK, Windows
<1>2. /\ swin.bottom >= 1 /\ swin.top = swin.bottom + WindowSize - 1
      /\ swin.middle <= swin.top /\ pos = swin.middle /\ pos <= NPackets
      /\ swin.bottom <= cwin.bottom /\ cwin.bottom <= swin.middle
  BY <1>1 DEF ProtocolInv, SenderInv, WindowsInv, IsClosed
<1>3. p = DataPacket(swin.middle, swin.middle) /\ p \in Packets /\ p.seq = swin.middle
  BY <1>1, <1>2, DataType DEF DataPacket
<1>4. w \in Windows /\ w.middle = swin.middle + 1 /\ w.bottom = swin.bottom /\ w.top = swin.top
      /\ w.buffer = swin.buffer /\ w.valid = swin.valid
  BY <1>1 DEF Windows
<1>5. swin' = AddToBuffer(w, p) /\ SendToClient(p)
  OBVIOUS
<1> HIDE DEF p, w
<1>6. swin'.middle = swin.middle + 1 /\ swin'.bottom = swin.bottom /\ swin'.top = swin.top
  BY <1>4, <1>5 DEF AddToBuffer, Windows
<1>7. \A k \in Nat : k > 0 /\ k < swin.middle + 1 => k \in 1..(swin'.middle - 1)
  BY <1>1, <1>6
<1>8. ASSUME NEW q, IsSentData(q) PROVE IsSentData(q)'
  BY <1>8, <1>1, <1>7 DEF IsSentData
<1>9. \A q : q = p => IsSentData(q)'
  BY <1>1, <1>2, <1>3, <1>7 DEF IsSentData
<1>10. UNCHANGED <<eofIndex, sended, toServer>> /\ sstate = "SEND_DATA" /\ sstate' = "POLL"
      /\ pos' = pos + 1
  OBVIOUS
<1>11. ToSet(toClient') \subseteq ToSet(toClient) \cup {p, Corrupt}
  BY <1>3, <1>5, SendToClientContents DEF TypeOK
<1>12. ToClientInv'
  <2>1. ASSUME NEW q, ToClientOK(q) PROVE ToClientOK(q)'
    BY <2>1, <1>8, <1>10 DEF ToClientOK, ByeStates
  <2>2. \A q : q \in {p, Corrupt} => ToClientOK(q)'
    BY <1>9 DEF ToClientOK
  <2> QED
    BY <1>11, <2>1, <2>2 DEF ProtocolInv, ToClientInv
<1>13. ToServerInv'
  BY <1>10 DEF ProtocolInv, ToServerInv, ToServerOK, clientVars
<1>14. SenderInv'
  <2>1. \A s \in Slots : swin'.buffer[s] = swin.buffer[s] \/ swin'.buffer[s] = p
    <3>1. swin'.buffer = [swin.buffer EXCEPT ![Index(p.seq)] = p]
      BY <1>4, <1>5 DEF AddToBuffer, Windows
    <3> QED
      BY <1>1, <3>1 DEF Windows
  <2>2. \A s \in Slots : (swin.buffer[s] = NoPacket \/ IsSentData(swin.buffer[s]))'
    BY <2>1, <1>8, <1>9, ZenonT(30) DEF ProtocolInv, SenderInv, IsSentData
  <2>3. ASSUME NEW seq \in swin.bottom..swin.middle
        PROVE  GetFromBuffer(swin', seq) = DataPacket(seq, seq)
    <3>1. seq \in Int /\ seq - p.seq < WindowSize /\ p.seq - seq < WindowSize
      BY <1>1, <1>2, <1>3
    <3>2. GetFromBuffer(swin', seq) = IF seq = p.seq THEN p ELSE GetFromBuffer(w, seq)
      BY <1>3, <1>4, <1>5, <3>1, AddToBufferGet
    <3>3. seq # p.seq => GetFromBuffer(w, seq) = DataPacket(seq, seq)
      BY <1>1, <1>3, <1>4 DEF ProtocolInv, SenderInv, UnackedBuffered, GetFromBuffer
    <3> QED
      BY <1>3, <3>2, <3>3
  <2>4. UnackedBuffered'
    BY <1>1, <1>6, <2>3 DEF UnackedBuffered
  <2> QED
    BY <1>1, <1>2, <1>6, <1>10, <2>2, <2>4 DEF SenderInv
<1>15. WindowsInv'
  BY <1>1, <1>2, <1>6 DEF WindowsInv, clientVars
<1>16. ReceiverInv'
  <2>1. ASSUME NEW seq \in cwin.bottom..cwin.top, KeptOK(seq) PROVE KeptOK(seq)'
    <3>1. seq \in Int /\ UNCHANGED <<cstate, cwin>>
      BY <1>1 DEF clientVars
    <3> QED
      BY <2>1, <3>1, <1>1, <1>6 DEF KeptOK
  <2> QED
    BY <2>1 DEF ProtocolInv, ReceiverInv, OutputIsPrefix, clientVars
<1>17. EofInv'
  BY <1>10 DEF ProtocolInv, EofInv, AllAcknowledged, EofIndexHarmless, ByeStates, clientVars
<1> QED
  BY <1>12, <1>13, <1>14, <1>15, <1>16, <1>17 DEF ProtocolInv

LEMMA ProcessRRKeeps ==
  ASSUME TypeOK, ProtocolInv, ProcessRR, UNCHANGED clientVars
  PROVE  ProtocolInv'
<1> USE DEF ProcessRR
<1>1. PICK a \in Arrivals(toServer) :
        /\ a.packet.flag = "RR" /\ toServer' = a.rest
        /\ swin' = IF a.packet.seq > swin.bottom THEN Slide(swin, a.packet.seq) ELSE swin
        /\ sstate' = IF a.packet.seq = eofIndex THEN "BYE" ELSE "SEND_DATA"
  OBVIOUS
<1> DEFINE rr == a.packet.seq
<1>2. a.packet \in ToSet(toServer) /\ rr \in Nat /\ ToSet(a.rest) \subseteq ToSet(toServer)
  BY ArrivalContents DEF TypeOK, Packets
<1>3. /\ swin \in Windows /\ swin.middle \in Nat /\ swin.bottom \in Nat /\ swin.top \in Nat
      /\ cwin.bottom \in Nat
  BY DEF TypeOK, Windows
<1>4. sstate = "PROCESS" /\ cended # "eof"
  BY DEF ProtocolInv, EofInv, ByeStates
<1>5. 1 <= rr /\ rr <= cwin.bottom
  BY <1>1, <1>2, <1>4 DEF ProtocolInv, ToServerInv, ToServerOK
<1>6. /\ swin.bottom >= 1 /\ swin.top = swin.bottom + WindowSize - 1
      /\ swin.middle <= swin.top + 1 /\ pos = swin.middle /\ pos <= NPackets + 1
      /\ swin.bottom <= cwin.bottom /\ cwin.bottom <= swin.middle
  BY DEF ProtocolInv, SenderInv, WindowsInv
<1>7. /\ swin'.bottom = IF rr > swin.bottom THEN rr ELSE swin.bottom
      /\ swin'.middle = swin.middle /\ swin'.buffer = swin.buffer
      /\ swin'.top = swin'.bottom + WindowSize - 1
  <2>1. CASE rr > swin.bottom
    <3>1. swin' = Slide(swin, rr) /\ ~(swin.middle < rr)
      BY <1>1, <1>2, <1>3, <1>5, <1>6, <2>1
    <3> QED
      BY <1>2, <1>3, <2>1, <3>1 DEF Slide, Windows
  <2>2. CASE ~(rr > swin.bottom)
    BY <1>1, <1>6, <2>2
  <2> QED
    BY <2>1, <2>2
<1>8. UNCHANGED <<eofIndex, pos, sended, toClient>>
  OBVIOUS
<1> HIDE DEF rr
<1>9. ASSUME NEW q, IsSentData(q) PROVE IsSentData(q)'
  BY <1>9, <1>7 DEF IsSentData
<1>10. ToClientInv'
  <2>1. ASSUME NEW q, ToClientOK(q) PROVE ToClientOK(q)'
    BY <2>1, <1>4, <1>9 DEF ToClientOK, ByeStates
  <2> QED
    BY <1>8, <2>1 DEF ProtocolInv, ToClientInv
<1>11. ToServerInv'
  BY <1>1, <1>2, <1>8 DEF ProtocolInv, ToServerInv, ToServerOK, clientVars
<1>12. SenderInv'
  <2>1. \A s \in Slots : (swin.buffer[s] = NoPacket \/ IsSentData(swin.buffer[s]))'
    BY <1>7 DEF ProtocolInv, SenderInv, IsSentData
  <2>2. UnackedBuffered'
    BY <1>2, <1>3, <1>7 DEF ProtocolInv, SenderInv, UnackedBuffered, GetFromBuffer
  <2>3. (swin.bottom >= 1 /\ swin.middle <= swin.top + 1)'
    BY <1>2, <1>3, <1>5, <1>6, <1>7
  <2> QED
    BY <1>6, <1>7, <1>8, <2>1, <2>2, <2>3 DEF SenderInv
<1>13. WindowsInv'
  BY <1>2, <1>3, <1>5, <1>6, <1>7 DEF WindowsInv, clientVars
<1>14. ReceiverInv'
  BY <1>7 DEF ProtocolInv, ReceiverInv, KeptOK, OutputIsPrefix, clientVars
<1>15. EofInv'
  <2>1. ASSUME sstate' = "BYE", EofIndexHarmless
        PROVE  eofIndex = NPackets + 1 /\ swin'.bottom = NPackets + 1
    <3>1. rr = eofIndex
      BY <1>1, <2>1 DEF rr
    <3>2. eofIndex = NPackets + 1
      BY <1>2, <1>3, <1>5, <1>6, <2>1, <3>1 DEF ProtocolInv, EofInv, EofIndexHarmless
    <3> QED
      BY <1>2, <1>3, <1>5, <1>6, <1>7, <3>1, <3>2
  <2>2. sstate' \in {"BYE", "BYE_WAIT"} => AllAcknowledged'
    BY <1>1, <1>8, <2>1 DEF AllAcknowledged, EofIndexHarmless
  <2> QED
    BY <1>4, <1>8, <2>2 DEF ProtocolInv, EofInv, clientVars, EofIndexHarmless
<1> QED
  BY <1>10, <1>11, <1>12, <1>13, <1>14, <1>15 DEF ProtocolInv

LEMMA ServerKeeps ==
  ASSUME TypeOK, ProtocolInv, ServerStep \/ ServerTimeout, UNCHANGED clientVars
  PROVE  ProtocolInv'
<1> USE DEF ByeStates
<1>1. CASE ServerFilename
  <2>1. Control("FNAME_OK", 0) \in Packets /\ Control("FNAME_BAD", 0) \in Packets
    BY ControlType DEF ControlFlags
  <2>2. ToSet(toClient') \subseteq
          ToSet(toClient) \cup {Control("FNAME_OK", 0), Control("FNAME_BAD", 0), Corrupt}
    BY <1>1, <2>1, SendToClientContents, EmptySeqType, TransmitContents
       DEF ServerFilename, TypeOK
  <2>3. \A p \in {Control("FNAME_OK", 0), Control("FNAME_BAD", 0), Corrupt} : ToClientOK(p)
    BY DEF ToClientOK
  <2>4. ToSet(toServer') \subseteq ToSet(toServer)
    BY <1>1, EmptySeqType DEF ServerFilename, ServerEnd, CloseServer
  <2>5. /\ sstate = "FILENAME" /\ sstate' \in {"SEND_DATA", "DONE"}
        /\ sended' \in {sended, "no_file"} /\ UNCHANGED <<swin, pos, eofIndex>>
    BY <1>1 DEF ServerFilename, ServerEnd
  <2> QED
    BY <2>2, <2>3, <2>4, <2>5, ServerFrame
<1>2. CASE SendDataClosed
  BY <1>2, ServerFrame DEF SendDataClosed, channelVars
<1>3. CASE SendDataEof
  <2>1. /\ sstate = "SEND_DATA" /\ sstate' = "WAIT_ON_ACK" /\ eofIndex' = swin.middle
        /\ pos > NPackets
        /\ UNCHANGED <<swin, pos, sended, toClient, toServer>> /\ UNCHANGED clientVars
    BY <1>3 DEF SendDataEof, channelVars
  <2>2. eofIndex' = NPackets + 1 /\ cended # "eof"
    BY <2>1 DEF ProtocolInv, SenderInv, EofInv, TypeOK
  <2>3. ToClientInv'
    BY <2>1 DEF ProtocolInv, ToClientInv, ToClientOK, IsSentData
  <2>4. ToServerInv'
    BY <2>1, <2>2 DEF ProtocolInv, ToServerInv, ToServerOK, clientVars
  <2>5. SenderInv' /\ WindowsInv'
    BY <2>1 DEF ProtocolInv, SenderInv, WindowsInv, IsSentData, UnackedBuffered, clientVars
  <2>6. ReceiverInv'
    BY <2>1 DEF ProtocolInv, ReceiverInv, KeptOK, OutputIsPrefix, clientVars
  <2>7. EofInv'
    BY <2>1, <2>2 DEF ProtocolInv, EofInv, AllAcknowledged, EofIndexHarmless, clientVars
  <2> QED
    BY <2>3, <2>4, <2>5, <2>6, <2>7 DEF ProtocolInv
<1>4. CASE SendDataReadError
  BY <1>4, ServerFrame, EmptySeqType DEF SendDataReadError, ServerEnd, CloseServer
<1>5. CASE SendDataPacket
  BY <1>5, SendDataPacketKeeps
<1>6. CASE Poll
  BY <1>6, ServerFrame DEF Poll, channelVars
<1>7. CASE ProcessCorrupt
  <2>1. ToSet(toServer') \subseteq ToSet(toServer)
    BY <1>7, ArrivalContents DEF ProcessCorrupt, TypeOK
  <2> QED
    BY <1>7, <2>1, ServerFrame DEF ProcessCorrupt
<1>8. CASE ProcessRR
  BY <1>8, ProcessRRKeeps
<1>9. CASE ProcessSREJ
  <2>1. PICK a \in Arrivals(toServer) : Resend(a.packet.seq, "SEND_DATA", a.rest)
    BY <1>9 DEF ProcessSREJ
  <2>2. ToSet(a.rest) \subseteq ToSet(toServer) /\ a.packet.seq \in Nat
    BY ArrivalContents DEF TypeOK, Packets
  <2> QED
    BY <1>9, <2>1, <2>2, ResendKeeps DEF ProcessSREJ
<1>10. CASE WaitOnAckGiveUp
  BY <1>10, ServerFrame, EmptySeqType DEF WaitOnAckGiveUp, ServerEnd, CloseServer
<1>11. CASE WaitOnAckArrival
  BY <1>11, ServerFrame DEF WaitOnAckArrival, channelVars
<1>12. CASE Bye
  <2>1. Control("END_OF_FILE", eofIndex) \in Packets
    BY ControlType DEF ControlFlags, TypeOK
  <2>2. ToSet(toClient') \subseteq ToSet(toClient) \cup {Control("END_OF_FILE", eofIndex), Corrupt}
    BY <1>12, <2>1, SendToClientContents DEF Bye, TypeOK
  <2>3. /\ sstate = "BYE" /\ sstate' \in {"BYE_WAIT", "DONE"}
        /\ sended' \in {sended, "gave_up"} /\ UNCHANGED <<swin, pos, eofIndex>>
    BY <1>12 DEF Bye, ServerEnd
  <2>4. ToClientOK(Control("END_OF_FILE", eofIndex)) /\ ToClientOK(Corrupt)
    BY <2>3 DEF ToClientOK, ProtocolInv, EofInv
  <2>5. ToSet(toServer') \subseteq ToSet(toServer)
    BY <1>12, EmptySeqType DEF Bye, ServerEnd, CloseServer
  <2> QED
    BY <2>2, <2>3, <2>4, <2>5, ServerFrame
<1>13. CASE ByeArrival
  <2>1. PICK a \in Arrivals(toServer) :
          \/ a.packet.flag = "RR" /\ a.packet.seq = eofIndex + 1 /\ ServerEnd("handshake")
          \/ sstate' = "BYE" /\ toServer' = a.rest /\ UNCHANGED sended
    BY <1>13 DEF ByeArrival
  <2>2. a.packet \in ToSet(toServer) /\ ToSet(a.rest) \subseteq ToSet(toServer)
    BY ArrivalContents DEF TypeOK
  <2>3. sstate = "BYE_WAIT" /\ UNCHANGED <<swin, pos, eofIndex, toClient>>
    BY <1>13 DEF ByeArrival
  <2>4. CASE a.packet.flag = "RR" /\ a.packet.seq = eofIndex + 1 /\ ServerEnd("handshake")
    <3>1. EofIndexHarmless => cended = "eof"
      <4>1. ToServerOK(a.packet) /\ AllAcknowledged
        BY <2>2, <2>3 DEF ProtocolInv, ToServerInv, EofInv
      <4>2. cwin.bottom <= NPackets + 1 /\ cwin.bottom \in Nat
        BY DEF ProtocolInv, WindowsInv, SenderInv, TypeOK, Windows
      <4> QED
        BY <2>4, <4>1, <4>2 DEF ToServerOK, AllAcknowledged
    <3>2. ToSet(toServer') = {} /\ sstate' = "DONE" /\ sended' = "handshake"
      BY <2>4, EmptySeqType DEF ServerEnd, CloseServer
    <3> QED
      BY <2>3, <3>1, <3>2, ServerFrame
  <2>5. CASE sstate' = "BYE" /\ toServer' = a.rest /\ UNCHANGED sended
    BY <2>2, <2>3, <2>5, ServerFrame
  <2> QED
    BY <2>1, <2>4, <2>5
<1>14. CASE WaitOnAckTimeout
  <2>1. swin.bottom \in Nat
    BY DEF TypeOK, Windows
  <2> QED
    BY <1>14, <2>1, ResendKeeps DEF WaitOnAckTimeout
<1>15. CASE ByeTimeout
  BY <1>15, ServerFrame DEF ByeTimeout, channelVars
<1> QED
  BY <1>1, <1>2, <1>3, <1>4, <1>5, <1>6, <1>7, <1>8, <1>9, <1>10, <1>11, <1>12, <1>13,
     <1>14, <1>15 DEF ServerStep, ServerTimeout

\* What the client may send: an acknowledgement of what it wrote, or a SREJ.
LEMMA RrSent ==
  ASSUME TypeOK, ProtocolInv, NEW seq \in Nat,
         \/ SendToServer(Rr(seq)) /\ 1 <= seq /\ seq <= cwin'.bottom
         \/ SendToServer(Rr(seq)) /\ seq = eofIndex' + 1 /\ cended' = "eof"
         \/ SendToServer(Srej(seq))
  PROVE  \A p \in ToSet(toServer') : p \in ToSet(toServer) \/ ToServerOK(p)'
<1>1. ASSUME SendToServer(Rr(seq)), NEW p \in ToSet(toServer')
      PROVE  p \in ToSet(toServer) \/ p = Rr(seq) \/ p = Corrupt
  BY <1>1, RrType, SendToServerContents DEF TypeOK
<1>2. ASSUME SendToServer(Srej(seq)), NEW p \in ToSet(toServer')
      PROVE  p \in ToSet(toServer) \/ p = Srej(seq) \/ p = Corrupt
  BY <1>2, RrType, SendToServerContents DEF TypeOK
<1>3. Rr(seq).flag = "RR" /\ Rr(seq).seq = seq /\ Srej(seq).flag = "SREJ"
      /\ Corrupt.flag = "CRC_ERROR"
  BY DEF Rr, Srej, Control, Corrupt
<1>4. ToServerOK(Corrupt)' /\ ToServerOK(Srej(seq))'
  BY <1>3 DEF ToServerOK, Srej, Control, Corrupt
<1> QED
  BY <1>1, <1>2, <1>3 DEF ToServerOK

LEMMA FilenameReturnsKeeps ==
  ASSUME TypeOK, ProtocolInv, cstate = "FILENAME", UNCHANGED serverVars,
         \/ FilenameReturns(ClientEnd("abandoned"))
         \/ FilenameReturns(ClientEnd("no_file"))
         \/ \E a \in Arrivals(toClient) : FilenameReturns(cstate' = "FILE_OK" /\ Accept(a))
  PROVE  ProtocolInv'
<1>1. /\ UNCHANGED <<cwin, outfile, toServer>>
      /\ \/ ClientEnd("unreachable") \/ ClientEnd("abandoned") \/ ClientEnd("no_file")
         \/ \E a \in Arrivals(toClient) : cstate' = "FILE_OK" /\ Accept(a)
  BY DEF FilenameReturns
<1>2. /\ ToSet(toClient') \subseteq ToSet(toClient)
      /\ \/ cstate' = "DONE" /\ cended' \notin {"eof", "out_of_window"}
         \/ cstate' = "FILE_OK" /\ UNCHANGED cended
  BY <1>1, EmptySeqType, ArrivalContents DEF ClientEnd, CloseClient, Accept, TypeOK
<1> QED
  BY <1>1, <1>2, ClientFrame

\* The three kinds of packets the client may receive.
LEMMA ToClientCases ==
  ASSUME TypeOK, ProtocolInv, NEW a \in Arrivals(toClient)
  PROVE  \/ a.packet.flag \in {"CRC_ERROR", "FNAME_OK", "FNAME_BAD"} /\ a.packet.seq = 0
         \/ \E k \in 1..(swin.middle - 1) :
              a.packet = DataPacket(k, k) /\ a.packet.flag = "DATA" /\ a.packet.seq = k
                /\ a.packet.chunk = k
         \/ /\ a.packet.flag = "END_OF_FILE" /\ a.packet.seq = eofIndex
            /\ sstate \in ByeStates /\ AllAcknowledged
<1>1. PICK p : p = a.packet
  OBVIOUS
<1>2. ToClientOK(p)
  BY <1>1, ArrivalContents DEF ProtocolInv, ToClientInv, TypeOK
<1>3. CASE p \in {Corrupt, Control("FNAME_OK", 0), Control("FNAME_BAD", 0)}
  <2>1. p.flag \in {"CRC_ERROR", "FNAME_OK", "FNAME_BAD"} /\ p.seq = 0
    BY <1>3 DEF Corrupt, Control
  <2> QED
    BY <2>1, <1>1
<1>4. CASE IsSentData(p)
  <2>1. PICK k \in 1..(swin.middle - 1) : p = DataPacket(k, k)
    BY <1>4 DEF IsSentData
  <2>2. p.flag = "DATA" /\ p.seq = k /\ p.chunk = k
    BY <2>1 DEF DataPacket
  <2> QED
    BY <2>1, <2>2, <1>1
<1>5. CASE p = Control("END_OF_FILE", eofIndex) /\ sstate \in ByeStates /\ AllAcknowledged
  <2>1. p.flag = "END_OF_FILE" /\ p.seq = eofIndex
    BY <1>5 DEF Control
  <2> QED
    BY <2>1, <1>1, <1>5
<1> QED
  BY <1>2, <1>3, <1>4, <1>5 DEF ToClientOK

\* END_OF_FILE is only in flight once everything is acknowledged.
LEMMA EofArrival ==
  ASSUME TypeOK, ProtocolInv, NEW a \in Arrivals(toClient), a.packet.flag = "END_OF_FILE"
  PROVE  a.packet.seq = eofIndex /\ sstate \in ByeStates /\ AllAcknowledged
BY ToClientCases

\* A packet taken for data inside the window, or above it, is one that was sent.
LEMMA DataArrival ==
  ASSUME TypeOK, ProtocolInv, NEW a \in Arrivals(toClient), IsData(a.packet),
         a.packet.seq >= cwin.bottom
  PROVE  /\ a.packet = DataPacket(a.packet.seq, a.packet.seq)
         /\ a.packet.seq < swin.middle /\ a.packet.seq \in Nat
         /\ a.packet.chunk = a.packet.seq
<1>1. swin.bottom >= 1 /\ swin.bottom <= cwin.bottom /\ cwin.bottom \in Nat
      /\ swin.middle \in Nat /\ swin.bottom \in Nat
  BY DEF ProtocolInv, WindowsInv, SenderInv, TypeOK, Windows
<1>2. PICK s : s = a.packet.seq
  OBVIOUS
<1>3. s # 0
  BY <1>1, <1>2
<1>4. \E k \in 1..(swin.middle - 1) :
        a.packet = DataPacket(k, k) /\ s = k /\ a.packet.chunk = k
  BY <1>2, <1>3, ToClientCases DEF IsData
<1>5. PICK k \in 1..(swin.middle - 1) :
        a.packet = DataPacket(k, k) /\ s = k /\ a.packet.chunk = k
  BY <1>4
<1>6. k \in Nat /\ k < swin.middle
  BY <1>1, <1>5
<1> QED
  BY <1>2, <1>5, <1>6

\* A step of the receiver that leaves it with the right output and buffer.
LEMMA ReceiverMoves ==
  ASSUME TypeOK, ProtocolInv, UNCHANGED serverVars, UNCHANGED cended,
         cwin'.bottom \in Nat, cwin.bottom <= cwin'.bottom, cwin'.bottom <= swin.middle,
         cstate # "DONE", ReceiverInv',
         \A p \in ToSet(toClient') : p \in ToSet(toClient),
         \A p \in ToSet(toServer') : p \in ToSet(toServer) \/ ToServerOK(p)'
  PROVE  ProtocolInv'
<1> USE DEF ProtocolInv, serverVars
<1>1. ToClientInv'
  BY DEF ToClientInv, ToClientOK, IsSentData, AllAcknowledged, EofIndexHarmless
<1>2. ASSUME NEW p \in ToSet(toServer) PROVE ToServerOK(p)'
  <2>1. ToServerOK(p)
    BY DEF ToServerInv
  <2>2. CASE p.flag = "RR" /\ 1 <= p.seq /\ p.seq <= cwin.bottom
    <3>1. p.seq \in Nat /\ cwin.bottom \in Nat
      BY <1>2, ToSetMembers DEF TypeOK, Packets, Windows
    <3>2. p.seq <= cwin'.bottom
      BY <3>1, <2>2
    <3> QED
      BY <2>2, <3>2 DEF ToServerOK
  <2>3. CASE p.flag \in {"CRC_ERROR", "SREJ"}
    BY <2>3 DEF ToServerOK
  <2>4. CASE p = Rr(eofIndex + 1) /\ cended = "eof"
    BY <2>4 DEF EofInv
  <2> QED
    BY <2>1, <2>2, <2>3, <2>4 DEF ToServerOK
<1>3. ToServerInv'
  BY <1>2 DEF ToServerInv
<1>4. SenderInv'
  BY DEF SenderInv, UnackedBuffered, IsSentData
<1>5. WindowsInv'
  BY DEF WindowsInv, TypeOK, Windows
<1>6. EofInv'
  BY DEF EofInv, AllAcknowledged, EofIndexHarmless
<1> QED
  BY <1>1, <1>3, <1>4, <1>5, <1>6

\* recv_data() takes the packet at bottom: it writes it and slides by one.
LEMMA RecvDataExpectedKeeps ==
  ASSUME TypeOK, ProtocolInv, cstate = "RECV_DATA", UNCHANGED serverVars,
         NEW a \in Arrivals(toClient), RecvDataExpected(a)
  PROVE  ProtocolInv'
<1> DEFINE b == cwin.bottom
           v == Slide(cwin, b + 1)
<1>1. /\ cwin \in Windows /\ b \in Nat /\ b >= 1 /\ swin.middle \in Nat
      /\ toServer \in Seq(Packets) /\ ReceiverInv
  BY DEF TypeOK, Windows, ProtocolInv, SenderInv, WindowsInv
<1>2. b < swin.middle /\ a.packet.chunk = b
  BY <1>1, DataArrival DEF RecvDataExpected
<1>3. cwin' = v /\ v.bottom = b + 1 /\ v.top = b + 1 + WindowSize - 1
  BY <1>1 DEF RecvDataExpected, Slide, Windows
<1>4. ASSUME NEW seq \in (b + 1)..(b + 1 + WindowSize - 1) PROVE ~IsValid(v, seq)
  <2>1. ASSUME IsValid(v, seq) PROVE IsValid(cwin, seq) /\ seq < b + WindowSize
    BY <1>1, <2>1, SlideValid
  <2>2. seq \in Nat /\ seq >= b
    BY <1>1
  <2>3. ASSUME seq < b + WindowSize PROVE seq \in b..cwin.top
    BY <1>1, <2>2, <2>3 DEF ReceiverInv
  <2>4. ASSUME IsValid(cwin, seq), seq \in b..cwin.top PROVE FALSE
    BY <1>1, <2>4 DEF ReceiverInv, KeptOK
  <2> QED
    BY <2>1, <2>3, <2>4
<1>5. outfile' = Append(outfile, [chunk |-> b, len |-> LengthOf(b)])
  BY <1>2 DEF RecvDataExpected
<1>6. Len(outfile') = b + 1 - 1 /\ OutputIsPrefix'
  BY <1>1, <1>5, SMTT(30) DEF ReceiverInv, OutputIsPrefix, TypeOK
<1>7. cstate' = "RECV_DATA" /\ UNCHANGED cended
  BY DEF RecvDataExpected, Accept
<1> HIDE DEF v
<1>8. ASSUME NEW seq \in cwin'.bottom..cwin'.top PROVE ~IsValid(cwin, seq)'
  BY <1>3, <1>4 DEF IsValid
<1>9. ReceiverInv'
  BY <1>1, <1>3, <1>6, <1>7, <1>8 DEF ReceiverInv
<1>10. \A p \in ToSet(toServer') : p \in ToSet(toServer) \/ ToServerOK(p)'
  BY <1>1, <1>3, RrSent DEF RecvDataExpected
<1>11. \A p \in ToSet(toClient') : p \in ToSet(toClient)
  BY ArrivalContents DEF RecvDataExpected, Accept, TypeOK
<1> QED
  BY <1>1, <1>2, <1>3, <1>7, <1>9, <1>10, <1>11, ReceiverMoves

\* recv_data() takes a packet ahead of bottom: it fits the window and is kept.
LEMMA RecvDataAheadKeeps ==
  ASSUME TypeOK, ProtocolInv, cstate = "RECV_DATA", UNCHANGED serverVars,
         NEW a \in Arrivals(toClient), RecvDataAhead(a)
  PROVE  ProtocolInv'
<1> DEFINE b == cwin.bottom
           p == a.packet
           w == AddToBuffer(cwin, p)
<1>1. /\ cwin \in Windows /\ b \in Nat /\ b >= 1 /\ swin.middle \in Nat
      /\ swin.middle <= cwin.top + 1 /\ cwin.top = b + WindowSize - 1
      /\ toServer \in Seq(Packets) /\ ReceiverInv /\ b <= swin.middle
  <2>1. /\ cwin \in Windows /\ b \in Nat /\ swin.middle \in Nat /\ swin.bottom \in Nat
        /\ swin.top \in Nat /\ cwin.top \in Nat /\ toServer \in Seq(Packets)
    BY DEF TypeOK, Windows
  <2>2. /\ ReceiverInv /\ cwin.top = b + WindowSize - 1
        /\ swin.bottom >= 1 /\ swin.top = swin.bottom + WindowSize - 1
        /\ swin.middle <= swin.top + 1 /\ swin.bottom <= b /\ b <= swin.middle
    BY DEF ProtocolInv, SenderInv, WindowsInv, ReceiverInv
  <2>3. WindowSize \in Int
    OBVIOUS
  <2> HIDE DEF b
  <2>4. b >= 1 /\ swin.middle <= cwin.top + 1
    BY <2>1, <2>2, <2>3
  <2> QED
    BY <2>1, <2>2, <2>4
<1>2. /\ p = DataPacket(p.seq, p.seq) /\ p.seq < swin.middle /\ p.seq \in Nat /\ p \in Packets
      /\ p.seq > b
  <2>1. p \in Packets /\ p.seq \in Nat
    BY ArrivalContents DEF TypeOK, Packets
  <2>2. IsData(p) /\ p.seq > b
    BY DEF RecvDataAhead
  <2>3. p.seq >= b
    BY <1>1, <2>1, <2>2
  <2> QED
    BY <2>1, <2>2, <2>3, DataArrival
<1>3. ~(p.seq > cwin.top)
  BY <1>1, <1>2
<1>4. /\ cwin' = [w EXCEPT !.middle = b] /\ SendToServer(Rr(b)) /\ cstate' = "MISSING"
      /\ Accept(a) /\ UNCHANGED outfile
  BY <1>3 DEF RecvDataAhead
<1>5. /\ cwin'.bottom = b /\ cwin'.middle = b /\ cwin'.top = b + WindowSize - 1
      /\ cwin'.buffer = w.buffer /\ cwin'.valid = w.valid
  BY <1>1, <1>4 DEF AddToBuffer, Windows
<1>6. ASSUME NEW seq \in b..cwin.top, IsValid(w, seq)
      PROVE  GetFromBuffer(w, seq) = DataPacket(seq, seq) /\ seq < swin.middle
  <2>1. seq \in Int /\ seq - p.seq < WindowSize /\ p.seq - seq < WindowSize
    BY <1>1, <1>2, <1>3
  <2>2. /\ GetFromBuffer(w, seq) = IF seq = p.seq THEN p ELSE GetFromBuffer(cwin, seq)
        /\ seq = p.seq \/ IsValid(cwin, seq)
    BY <1>1, <1>2, <1>6, <2>1, AddToBufferGet
  <2> QED
    BY <1>1, <1>2, <2>2 DEF ReceiverInv, KeptOK
<1> HIDE DEF p, w
<1>7. ASSUME NEW seq \in cwin'.bottom..cwin'.top, IsValid(cwin, seq)'
      PROVE  KeptOK(seq)'
  BY <1>1, <1>4, <1>5, <1>6, <1>7 DEF KeptOK, IsValid, GetFromBuffer, serverVars
<1>8. ReceiverInv'
  BY <1>1, <1>4, <1>5, <1>7 DEF ReceiverInv, OutputIsPrefix
<1>9. \A q \in ToSet(toServer') : q \in ToSet(toServer) \/ ToServerOK(q)'
  BY <1>1, <1>4, <1>5, RrSent
<1>10. (\A q \in ToSet(toClient') : q \in ToSet(toClient)) /\ UNCHANGED cended
  BY <1>4, ArrivalContents DEF Accept, TypeOK
<1> QED
  BY <1>1, <1>4, <1>5, <1>8, <1>9, <1>10, ReceiverMoves

\* A run of consecutive chunks appended to a prefix of the file.
LEMMA PrefixContinues ==
  ASSUME NEW o \in Seq(Written), NEW f \in Seq(Written), NEW b \in Nat,
         Len(o) = b - 1, \A i \in DOMAIN o : o[i].chunk = i,
         \A k \in DOMAIN f : f[k].chunk = b + k - 1
  PROVE  /\ Len(o \o f) = b - 1 + Len(f)
         /\ \A i \in DOMAIN (o \o f) : (o \o f)[i].chunk = i
<1>1. Len(o \o f) = Len(o) + Len(f) /\ Len(o) \in Nat /\ Len(f) \in Nat
  <2>1. Len(o) \in Nat /\ Len(f) \in Nat
    OBVIOUS
  <2>2. Len(o \o f) = Len(o) + Len(f)
    BY ConcatProperties
  <2> QED
    BY <2>1, <2>2
<1>2. ASSUME NEW i \in DOMAIN (o \o f) PROVE (o \o f)[i].chunk = i
  <2>1. i \in 1..(Len(o) + Len(f))
    BY <1>1
  <2>2. CASE i <= Len(o)
    <3>1. (o \o f)[i] = o[i] /\ i \in DOMAIN o
      BY <1>1, <2>1, <2>2
    <3> QED
      BY <3>1
  <2>3. CASE i > Len(o)
    <3>1. (o \o f)[i] = f[i - Len(o)]
      BY <1>1, <2>1, <2>3
    <3>2. PICK k : k = i - Len(o)
      OBVIOUS
    <3>3. k \in DOMAIN f /\ b + k - 1 = i
      BY <1>1, <2>1, <2>3, <3>2
    <3> QED
      BY <3>1, <3>2, <3>3
  <2> QED
    BY <1>1, <2>1, <2>2, <2>3
<1> QED
  BY <1>1, <1>2

\* What missing() flushes continues the output.
LEMMA FlushedContinues ==
  ASSUME TypeOK, OutputIsPrefix, NEW w \in Windows, NEW m \in Nat, NEW len \in Lengths,
         1 <= w.bottom, w.bottom <= m, Len(outfile) = w.bottom - 1,
         \A seq \in w.bottom..(m - 1) : GetFromBuffer(w, seq).chunk = seq
  PROVE  LET o == outfile \o Flushed(w, m, len) IN
         Len(o) = m - 1 /\ \A i \in DOMAIN o : o[i].chunk = i
<1> DEFINE f == Flushed(w, m, len)
           n == m - w.bottom
<1>1. w.bottom \in Nat /\ outfile \in Seq(Written) /\ n \in Nat
  BY SMTT(30) DEF TypeOK, Windows, Written
<1>2. f \in Seq(Written) /\ Len(f) = n
      /\ \A k \in 1..n : f[k].chunk = GetFromBuffer(w, w.bottom + k - 1).chunk
  BY FlushedType
<1>3. ASSUME NEW k \in 1..n
      PROVE  GetFromBuffer(w, w.bottom + k - 1).chunk = w.bottom + k - 1
  <2>1. w.bottom + k - 1 \in w.bottom..(m - 1)
    BY <1>1
  <2> QED
    BY <2>1
<1> HIDE DEF f
<1>4. \A k \in DOMAIN f : f[k].chunk = w.bottom + k - 1
  <2>1. DOMAIN f = 1..n
    BY <1>2
  <2> QED
    BY <1>2, <1>3, <2>1, Zenon
<1>5. \A i \in DOMAIN outfile : outfile[i].chunk = i
  BY DEF OutputIsPrefix
<1>6. /\ Len(outfile \o f) = w.bottom - 1 + Len(f)
      /\ \A i \in DOMAIN (outfile \o f) : (outfile \o f)[i].chunk = i
  BY <1>1, <1>2, <1>4, <1>5, PrefixContinues
<1>7. w.bottom - 1 + Len(f) = m - 1
  BY <1>1, <1>2
<1> QED
  BY <1>6, <1>7 DEF f

(* missing() takes a packet of the window: what precedes the first hole is  *)
(* written, the rest is kept, and recv_data() is not returned to before     *)
(* nothing is.                                                              *)
LEMMA MissingInWindowKeeps ==
  ASSUME TypeOK, ProtocolInv, cstate = "MISSING", UNCHANGED serverVars,
         NEW a \in Arrivals(toClient), MissingInWindow(a)
  PROVE  ProtocolInv'
<1> DEFINE b == cwin.bottom
           p == a.packet
           w == AddToBuffer(cwin, p)
           len == LengthOf(p.chunk)
           f(m) == [RemoveFromBuffer(w, b..(m - 1)) EXCEPT !.middle = m]
<1>1. /\ cwin \in Windows /\ b \in Nat /\ b >= 1 /\ swin.middle \in Nat
      /\ cwin.top = b + WindowSize - 1 /\ toServer \in Seq(Packets)
      /\ ReceiverInv /\ b <= swin.middle
  BY SMTT(30) DEF TypeOK, Windows, ProtocolInv, SenderInv, WindowsInv, ReceiverInv
<1>2. /\ p = DataPacket(p.seq, p.seq) /\ p.seq < swin.middle /\ p.seq \in Nat /\ p \in Packets
      /\ p.seq >= b /\ p.seq <= cwin.top
  <2>1. p \in Packets /\ p.seq \in Nat
    BY ArrivalContents DEF TypeOK, Packets
  <2>2. IsData(p) /\ p.seq >= b /\ p.seq <= cwin.top
    BY <1>1, <2>1 DEF MissingInWindow, IsInWindow
  <2> QED
    BY <2>1, <2>2, DataArrival
<1>3. ASSUME NEW seq \in b..cwin.top, IsValid(w, seq)
      PROVE  GetFromBuffer(w, seq) = DataPacket(seq, seq) /\ seq < swin.middle
  <2>1. seq \in Int /\ seq - p.seq < WindowSize /\ p.seq - seq < WindowSize
    BY <1>1, <1>2
  <2>2. /\ GetFromBuffer(w, seq) = IF seq = p.seq THEN p ELSE GetFromBuffer(cwin, seq)
        /\ seq = p.seq \/ IsValid(cwin, seq)
    BY <1>1, <1>2, <1>3, <2>1, AddToBufferGet
  <2> QED
    BY <1>1, <1>2, <2>2 DEF ReceiverInv, KeptOK
<1>4. w \in Windows /\ w.bottom = b /\ w.top = cwin.top
  BY <1>1, <1>2, AddToBufferType DEF AddToBuffer, Windows
<1>5. PICK m \in b..(cwin.top + 1) :
        /\ IsFirstHole(w, m)
        /\ SendPairToServer(Srej(m), Rr(m)) \/ SendToServer(Rr(m))
        /\ outfile' = outfile \o Flushed(w, m, len)
        /\ cwin' = IF m > b THEN Slide(f(m), m) ELSE f(m)
        /\ cstate' = IF IsClosed(f(m)) \/ EmptyBuffer(f(m)) THEN "RECV_DATA" ELSE "MISSING"
  BY DEF MissingInWindow
<1>6. m \in Nat /\ m >= b /\ m <= cwin.top + 1
  BY <1>1, <1>5
<1>7. \A seq \in b..(m - 1) : seq \in b..cwin.top /\ IsValid(w, seq)
  BY <1>1, <1>4, <1>5, <1>6, SMTT(30) DEF IsFirstHole
<1>8. m <= swin.middle
  <2>1. CASE m = b
    BY <1>1, <2>1
  <2>2. CASE m # b
    <3>1. m - 1 \in b..(m - 1)
      BY <1>1, <1>6, <2>2
    <3>2. m - 1 < swin.middle
      BY <1>3, <1>7, <3>1
    <3> QED
      BY <1>1, <1>6, <3>2
  <2> QED
    BY <2>1, <2>2
<1>9. Len(outfile') = m - 1 /\ OutputIsPrefix'
  <2>1. ASSUME NEW seq \in b..(m - 1) PROVE GetFromBuffer(w, seq).chunk = seq
    <3>1. GetFromBuffer(w, seq) = DataPacket(seq, seq)
      BY <1>3, <1>7
    <3> QED
      BY <3>1 DEF DataPacket
  <2>2. len \in Lengths
    BY LengthType
  <2>3. OutputIsPrefix /\ Len(outfile) = w.bottom - 1
    BY <1>1, <1>4 DEF ReceiverInv
  <2>4. LET o == outfile \o Flushed(w, m, len) IN
        Len(o) = m - 1 /\ \A i \in DOMAIN o : o[i].chunk = i
    <3> HIDE DEF w, len, b
    <3>1. \A seq \in w.bottom..(m - 1) : GetFromBuffer(w, seq).chunk = seq
      BY <1>4, <2>1
    <3> QED
      BY <1>1, <1>4, <1>6, <2>2, <2>3, <3>1, FlushedContinues
  <2> QED
    BY <1>5, <2>4 DEF OutputIsPrefix
<1> HIDE DEF p, w, len
<1>10. /\ f(m) \in Windows /\ f(m).bottom = b /\ f(m).middle = m /\ f(m).top = cwin.top
       /\ f(m).buffer = w.buffer /\ f(m).valid = Released(w, b..(m - 1))
  BY <1>4, <1>6, RemoveFromBufferType DEF RemoveFromBuffer, Windows
<1>11. ASSUME NEW seq \in Int, IsValid(f(m), seq) PROVE IsValid(w, seq)
  <2>1. Released(w, b..(m - 1))[Index(seq)]
    BY <1>10, <1>11 DEF IsValid
  <2> QED
    BY <1>1, <1>4, <1>6, <2>1, ReleasedValid
<1> DEFINE v == IF m > b THEN Slide(f(m), m) ELSE f(m)
           g == f(m)
<1>12. /\ v.bottom = m /\ v.middle = m /\ v.top = m + WindowSize - 1 /\ v.buffer = w.buffer
       /\ cwin' = v
  <2> HIDE DEF f
  <2>1. CASE m > b
    BY <1>5, <1>6, <1>10, <2>1 DEF Slide, Windows
  <2>2. CASE ~(m > b)
    <3>1. m = b
      BY <1>1, <1>6, <2>2
    <3> QED
      BY <1>1, <1>5, <1>10, <2>2, <3>1
  <2> QED
    BY <2>1, <2>2
<1>13. ASSUME NEW seq \in m..(m + WindowSize - 1), IsValid(v, seq)
       PROVE  seq \in b..cwin.top /\ IsValid(g, seq) /\ IsValid(w, seq)
  <2> HIDE DEF f
  <2>1. CASE m > b
    <3>1. IsValid(Slide(f(m), m), seq)
      BY <1>13, <2>1
    <3>2. IsValid(f(m), seq) /\ seq < b + WindowSize
      BY <1>1, <1>6, <1>10, <3>1, SlideValid
    <3> QED
      BY <1>1, <1>6, <1>11, <3>2
  <2>2. CASE ~(m > b)
    <3>1. m = b /\ IsValid(f(m), seq)
      BY <1>1, <1>6, <1>13, <2>2
    <3> QED
      BY <1>1, <1>11, <3>1
  <2> QED
    BY <2>1, <2>2
<1>14. ASSUME cstate' # "MISSING", NEW seq \in m..(m + WindowSize - 1), IsValid(v, seq)
       PROVE  FALSE
  <2> HIDE DEF v, f, g
  <2>1. seq \in b..cwin.top /\ IsValid(g, seq) /\ seq >= m
    <3>1. seq \in b..cwin.top /\ IsValid(g, seq)
      BY <1>13, <1>14
    <3>2. seq >= m
      BY <1>6, <1>14
    <3> QED
      BY <3>1, <3>2
  <2>2. m > cwin.top \/ \A s \in b..cwin.top : ~IsValid(g, s)
    <3>1. IsClosed(g) \/ EmptyBuffer(g)
      BY <1>5, <1>14 DEF g
    <3> HIDE DEF g
    <3>2. g.bottom = b /\ g.middle = m /\ g.top = cwin.top
      BY <1>10 DEF g
    <3> QED
      BY <3>1, <3>2 DEF IsClosed, EmptyBuffer
  <2> QED
    <3>1. CASE m > cwin.top
      BY <1>1, <1>6, <2>1, <3>1
    <3> QED
      BY <2>1, <2>2, <3>1
<1> HIDE DEF v, f, g
<1>15. ASSUME NEW seq \in cwin'.bottom..cwin'.top, IsValid(cwin, seq)' PROVE KeptOK(seq)'
  <2>1. seq \in m..(m + WindowSize - 1) /\ IsValid(v, seq)
    BY <1>12, <1>15 DEF IsValid
  <2>2. cstate' = "MISSING" /\ seq \in b..cwin.top /\ IsValid(w, seq)
    BY <1>13, <1>14, <2>1
  <2>3. GetFromBuffer(w, seq) = DataPacket(seq, seq) /\ seq < swin.middle
    BY <1>3, <2>2
  <2> QED
    BY <1>12, <2>2, <2>3 DEF KeptOK, GetFromBuffer, serverVars
<1>16. ReceiverInv'
  BY <1>9, <1>12, <1>15 DEF ReceiverInv
<1>17. \A q \in ToSet(toServer') : q \in ToSet(toServer) \/ ToServerOK(q)'
  <2>1. 1 <= m /\ m <= cwin'.bottom
    BY <1>1, <1>6, <1>12
  <2>2. CASE SendToServer(Rr(m))
    BY <1>6, <2>1, <2>2, RrSent
  <2>3. CASE SendPairToServer(Srej(m), Rr(m))
    <3>1. ToSet(toServer') \subseteq ToSet(toServer) \cup {Srej(m), Rr(m), Corrupt}
      BY <1>1, <1>6, <2>3, RrType, SendPairToServerContents
    <3>2. Rr(m).flag = "RR" /\ Rr(m).seq = m /\ Srej(m).flag = "SREJ"
          /\ Corrupt.flag = "CRC_ERROR"
      BY DEF Rr, Srej, Control, Corrupt
    <3>3. \A q : q \in {Srej(m), Rr(m), Corrupt} => ToServerOK(q)'
      BY <2>1, <3>2 DEF ToServerOK
    <3> QED
      BY <3>1, <3>3
  <2> QED
    BY <1>5, <2>2, <2>3
<1>18. (\A q \in ToSet(toClient') : q \in ToSet(toClient)) /\ UNCHANGED cended
  BY ArrivalContents DEF MissingInWindow, Accept, TypeOK
<1> QED
  BY <1>1, <1>6, <1>8, <1>12, <1>16, <1>17, <1>18, ReceiverMoves

\* END_OF_FILE ends the client, from either state, with the right answer.
LEMMA EofKeeps ==
  ASSUME TypeOK, ProtocolInv, cstate # "DONE", UNCHANGED serverVars,
         UNCHANGED <<cwin, outfile>>,
         NEW a \in Arrivals(toClient), a.packet.flag = "END_OF_FILE",
         NEW seq \in Nat, seq = a.packet.seq, SendToServer(Rr(seq + 1)), ClientEnd("eof")
  PROVE  ProtocolInv'
<1>1. seq = eofIndex /\ sstate \in ByeStates /\ AllAcknowledged
  BY EofArrival
<1>2. cended' = "eof" /\ cstate' = "DONE" /\ \A p \in ToSet(toClient') : p \in ToSet(toClient)
  BY EmptySeqType DEF ClientEnd, CloseClient
<1>3. seq + 1 = eofIndex' + 1 /\ seq + 1 \in Nat
  BY <1>1 DEF serverVars
<1>4. \A p \in ToSet(toServer') : p \in ToSet(toServer) \/ ToServerOK(p)'
  BY <1>2, <1>3, RrSent
<1> QED
  BY <1>1, <1>2, <1>4, ClientFrame

\* recv_data() and missing() answer and change nothing but middle and the state.
LEMMA AnswerKeeps ==
  ASSUME TypeOK, ProtocolInv, cstate \in {"RECV_DATA", "MISSING"}, UNCHANGED serverVars,
         UNCHANGED <<cwin.bottom, cwin.top, cwin.buffer, cwin.valid, outfile>>,
         NEW a \in Arrivals(toClient), Accept(a), NEW seq \in Nat,
         \/ SendToServer(Rr(seq)) /\ seq = cwin.bottom
         \/ SendToServer(Srej(seq))
         \/ UNCHANGED toServer,
         cstate' \in {cstate, "MISSING"},
         cstate' = "MISSING" => cwin'.middle = cwin'.bottom
  PROVE  ProtocolInv'
<1>1. 1 <= cwin.bottom
  BY DEF ProtocolInv, SenderInv, WindowsInv, TypeOK, Windows
<1>2. \A p \in ToSet(toServer') : p \in ToSet(toServer) \/ ToServerOK(p)'
  BY <1>1, RrSent
<1>3. (\A p \in ToSet(toClient') : p \in ToSet(toClient)) /\ UNCHANGED cended
  BY ArrivalContents DEF Accept, TypeOK
<1> QED
  BY <1>2, <1>3, ClientFrame

\* Every step of the client keeps the invariant.
LEMMA ClientKeeps ==
  ASSUME TypeOK, ProtocolInv, UNCHANGED serverVars, ClientStep \/ ClientTimeout
  PROVE  ProtocolInv'
<1>0. cwin \in Windows /\ cwin.bottom \in Nat
      /\ (cstate = "MISSING" => cwin.middle = cwin.bottom)
  BY DEF TypeOK, Windows, ProtocolInv, ReceiverInv
<1>1. ASSUME NEW a \in Arrivals(toClient), ClientFilename(a) PROVE ProtocolInv'
  BY <1>1, FilenameReturnsKeeps DEF ClientFilename
<1>2. ASSUME NEW a \in Arrivals(toClient), RecvData(a) PROVE ProtocolInv'
  <2>1. CASE RecvDataCorrupt(a)
    <3>1. /\ UNCHANGED <<cwin.bottom, cwin.top, cwin.buffer, cwin.valid>>
          /\ cwin'.middle = cwin'.bottom
      BY <1>0, <2>1 DEF RecvDataCorrupt, Windows
    <3> QED
      BY <1>0, <1>2, <2>1, <3>1, AnswerKeeps DEF RecvData, RecvDataCorrupt
  <2>2. CASE RecvDataEof(a)
    <3>1. a.packet.seq \in Nat
      BY ArrivalContents DEF TypeOK, Packets
    <3> QED
      BY <1>2, <2>2, <3>1, EofKeeps DEF RecvData, RecvDataEof
  <2>3. CASE RecvDataExpected(a)
    BY <1>2, <2>3, RecvDataExpectedKeeps DEF RecvData
  <2>4. CASE RecvDataDuplicate(a)
    BY <1>0, <1>2, <2>4, AnswerKeeps DEF RecvData, RecvDataDuplicate
  <2>5. CASE RecvDataAhead(a)
    BY <1>2, <2>5, RecvDataAheadKeeps DEF RecvData
  <2> QED
    BY <1>2, <2>1, <2>2, <2>3, <2>4, <2>5 DEF RecvData
<1>3. ASSUME NEW a \in Arrivals(toClient), Missing(a) PROVE ProtocolInv'
  <2>1. CASE MissingCorrupt(a)
    BY <1>0, <1>3, <2>1, AnswerKeeps DEF Missing, MissingCorrupt
  <2>2. CASE MissingEof(a)
    <3>1. a.packet.seq \in Nat
      BY ArrivalContents DEF TypeOK, Packets
    <3>2. CASE cwin.bottom = a.packet.seq
      BY <1>3, <2>2, <3>1, <3>2, EofKeeps DEF Missing, MissingEof
    <3>3. CASE cwin.bottom # a.packet.seq
      BY <1>0, <1>3, <2>2, <3>3, AnswerKeeps DEF Missing, MissingEof
    <3> QED
      BY <3>2, <3>3
  <2>3. CASE MissingInWindow(a)
    BY <1>3, <2>3, MissingInWindowKeeps DEF Missing
  <2>4. CASE MissingOutOfWindow(a)
    BY <1>0, <1>3, <2>4, AnswerKeeps DEF Missing, MissingOutOfWindow
  <2> QED
    BY <1>3, <2>1, <2>2, <2>3, <2>4 DEF Missing
<1>4. CASE FileOk
  <2>1. (\A p \in ToSet(toClient') : p \in ToSet(toClient)) /\ UNCHANGED <<cwin, outfile, toServer>>
    BY <1>4, EmptySeqType DEF FileOk, ClientEnd, CloseClient
  <2>2. \/ cstate' = "RECV_DATA" /\ UNCHANGED cended
        \/ cstate' = "DONE" /\ cended' = "open_error"
    BY <1>4 DEF FileOk, ClientEnd
  <2> QED
    BY <1>4, <2>1, <2>2, ClientFrame DEF FileOk
<1>5. CASE ClientFilenameTimeout
  BY <1>5, FilenameReturnsKeeps DEF ClientFilenameTimeout
<1>6. CASE RecvTimeout
  <2>1. (\A p \in ToSet(toClient') : p \in ToSet(toClient)) /\ UNCHANGED <<cwin, outfile, toServer>>
    BY <1>6, EmptySeqType DEF RecvTimeout, ClientEnd, CloseClient
  <2>2. cstate # "DONE" /\ cstate' = "DONE" /\ cended' = "silence"
    BY <1>6 DEF RecvTimeout, ClientEnd
  <2> QED
    BY <2>1, <2>2, ClientFrame
<1> QED
  BY <1>1, <1>2, <1>3, <1>4, <1>5, <1>6 DEF ClientStep, ClientTimeout

-----------------------------------------------------------------------------
LEMMA IndStep == IndInv /\ [Next]_vars => IndInv'
<1> SUFFICES ASSUME TypeOK, ProtocolInv, [Next]_vars
             PROVE  TypeOK' /\ ProtocolInv'
  BY DEF IndInv, ProtocolInv
<1>1. TypeOK'
  BY TypeStep
<1>2. CASE Server \/ ServerTimer
  <2>1. (ServerStep \/ ServerTimeout) /\ UNCHANGED clientVars
    BY <1>2 DEF Server, ServerTimer
  <2> QED
    BY <1>1, <2>1, ServerKeeps
<1>3. CASE Client \/ ClientTimer
  <2>1. (ClientStep \/ ClientTimeout) /\ UNCHANGED serverVars
    BY <1>3 DEF Client, ClientTimer
  <2> QED
    BY <1>1, <2>1, ClientKeeps
<1>4. CASE UNCHANGED vars
  <2>1. UNCHANGED <<swin, pos, eofIndex, sstate, sended, toClient, toServer>>
        /\ UNCHANGED clientVars
    BY <1>4 DEF vars, channelVars, serverVars
  <2> QED
    BY <1>1, <2>1, ServerFrame
<1> QED
  BY <1>1, <1>2, <1>3, <1>4 DEF Next, Ended

(* What is in flight and in the two windows always agrees: for every file,  *)
(* window, socket buffer, limit on retries and kind of fault.               *)
THEOREM Invariance == Spec => []IndInv
<1>1. Init => IndInv
  BY TypeInit, ProtocolInit, ProtocolParts
<1> QED
  BY <1>1, IndStep, PTL DEF Spec

(* rcopy writes a prefix of the source file, never anything else: also with *)
(* losses, corrupt packets, duplicates and reordering, and whatever the     *)
(* uninitialised eof_index holds.                                           *)
THEOREM OutputCorrect == Spec => []OutputIsPrefix
<1>1. IndInv => OutputIsPrefix
  BY DEF IndInv, ReceiverInv
<1> QED
  BY <1>1, Invariance, PTL

(* The two windows never part: what the sender takes for acknowledged is    *)
(* written, and what the receiver wrote was sent.                           *)
THEOREM WindowsCorrect == Spec => []WindowsAligned
<1>1. IndInv => WindowsAligned
  BY DEF IndInv, SenderInv, WindowsInv, WindowsAligned
<1> QED
  BY <1>1, Invariance, PTL

(* rcopy's exit for a packet above its window is dead code.                 *)
THEOREM WindowNeverExceeded == Spec => []NeverOutOfWindow
<1>1. IndInv => NeverOutOfWindow
  BY DEF IndInv, EofInv, NeverOutOfWindow
<1> QED
  BY <1>1, Invariance, PTL

(* Nothing unacknowledged is overwritten in the sender's ring.              *)
THEOREM RetransmissionPossible == Spec => []UnackedBuffered
<1>1. IndInv => UnackedBuffered
  BY DEF IndInv, SenderInv
<1> QED
  BY <1>1, Invariance, PTL

(* missing() leaves nothing behind in the buffer recv_data() does not look  *)
(* at, and what it keeps sits at its own sequence number.                   *)
THEOREM BufferCorrect == Spec => []ReceiverBufferSound
<1>1. ASSUME IndInv, NEW seq \in cwin.bottom..cwin.top, IsValid(cwin, seq)
      PROVE  cstate # "RECV_DATA" /\ GetFromBuffer(cwin, seq).chunk = seq
  <2>1. cstate \in {"MISSING", "DONE"} /\ GetFromBuffer(cwin, seq) = DataPacket(seq, seq)
    BY <1>1 DEF IndInv, ReceiverInv, KeptOK
  <2> QED
    BY <2>1 DEF DataPacket
<1>2. IndInv => ReceiverBufferSound
  BY <1>1 DEF ReceiverBufferSound
<1> QED
  BY <1>2, Invariance, PTL

-----------------------------------------------------------------------------
\* Past the end of the file, the whole of it is written.
LEMMA AcknowledgedIsWritten ==
  ASSUME EofIndexHarmless, IndInv, AllAcknowledged
  PROVE  Len(outfile) = NPackets /\ eofIndex = NPackets + 1
<1>1. swin.bottom = NPackets + 1 /\ eofIndex = NPackets + 1
  BY DEF AllAcknowledged
<1>2. swin.bottom <= cwin.bottom /\ cwin.bottom <= swin.middle /\ swin.middle <= NPackets + 1
      /\ Len(outfile) = cwin.bottom - 1
  BY DEF IndInv, WindowsInv, SenderInv, ReceiverInv
<1>3. cwin.bottom \in Nat /\ swin.middle \in Nat
  BY DEF IndInv, TypeOK, Windows
<1>4. cwin.bottom = NPackets + 1
  BY <1>1, <1>2, <1>3
<1> QED
  BY <1>1, <1>2, <1>3, <1>4

LEMMA EofComplete ==
  ASSUME EofIndexHarmless, IndInv, cended = "eof"
  PROVE  Len(outfile) = NPackets /\ eofIndex = NPackets + 1
BY AcknowledgedIsWritten DEF IndInv, EofInv

(* Unless eof_index happens to start with the number of a chunk, rcopy      *)
(* takes the file for complete only when it is.                             *)
THEOREM EofCorrect ==
  ASSUME EofIndexHarmless
  PROVE  Spec => []EofMeansComplete
<1>1. IndInv => EofMeansComplete
  BY EofComplete DEF EofMeansComplete
<1> QED
  BY <1>1, Invariance, PTL

(* On the same condition a child that ends by the handshake is right: its   *)
(* client received END_OF_FILE, with the whole file written.                *)
THEOREM HandshakeCorrect ==
  ASSUME EofIndexHarmless
  PROVE  Spec => []HandshakeMeansComplete
<1>1. IndInv => HandshakeMeansComplete
  BY EofComplete DEF HandshakeMeansComplete, IndInv, EofInv
<1> QED
  BY <1>1, Invariance, PTL

(* On the same condition no acknowledgement on its way to the server, old   *)
(* or new, covers a chunk that is not written.                              *)
THEOREM AcknowledgementsCorrect ==
  ASSUME EofIndexHarmless
  PROVE  Spec => []AckedIsWritten
<1>1. ASSUME IndInv, NEW p \in ToSet(toServer), p.flag = "RR"
      PROVE  p.seq <= Len(outfile) + (IF cended = "eof" THEN 2 ELSE 1)
  <2>1. ToServerOK(p) /\ cwin.bottom \in Nat /\ Len(outfile) = cwin.bottom - 1
    BY <1>1 DEF IndInv, ToServerInv, ReceiverInv, TypeOK, Windows
  <2>2. p.seq \in Nat
    BY <1>1, ToSetMembers DEF IndInv, TypeOK, Packets
  <2>3. CASE p.seq <= cwin.bottom
    BY <2>1, <2>2, <2>3
  <2>4. CASE p = Rr(eofIndex + 1) /\ cended = "eof"
    <3>1. p.seq = eofIndex + 1
      BY <2>4 DEF Rr, Control
    <3> QED
      BY <1>1, <2>4, <3>1, EofComplete
  <2> QED
    BY <1>1, <2>1, <2>3, <2>4 DEF ToServerOK
<1>2. IndInv => AckedIsWritten
  BY <1>1 DEF AckedIsWritten
<1> QED
  BY <1>2, Invariance, PTL

-----------------------------------------------------------------------------
(* The child is only killed by a SREJ for what it has not sent.             *)

\* The ring of a file of at least a window is full when the file is sent.
FillsWindow == WindowSize <= NPackets

\* Every number sent so far has a slot something was stored in.
SentStored == \A seq \in 1..(swin.middle - 1) : GetFromBuffer(swin, seq) # NoPacket

\* A SREJ carries a sequence number of the protocol, which start at 1.
SrejNumbered == \A p \in ToSet(toServer) : p.flag = "SREJ" => p.seq >= 1

\* Where a nudge is near, a packet is unacknowledged or the file is sent.
NudgeHasPacket ==
  sstate \in {"POLL", "PROCESS", "WAIT_ON_ACK"} =>
    swin.bottom < swin.middle \/ swin.middle = NPackets + 1

SurvivalInv == SentStored /\ SrejNumbered /\ NudgeHasPacket

\* The slots of a window's first packets are all there are.
LEMMA SlotsCovered ==
  ASSUME NEW slot \in Slots
  PROVE  \E seq \in 1..WindowSize : Index(seq) = slot
<1>1. slot \in Int /\ 0 <= slot /\ slot < WindowSize
  BY DEF Slots
<1>2. slot + 1 \in 1..WindowSize
  BY <1>1
<1>3. slot % WindowSize = slot
  BY <1>1
<1>4. (slot + 1) - 1 = slot
  BY <1>1
<1>5. Index(slot + 1) = slot
  BY <1>3, <1>4 DEF Index
<1> QED
  BY <1>2, <1>5

\* The slot a nudge looks in was stored in.
LEMMA NudgeFinds ==
  ASSUME FillsWindow, IndInv, SurvivalInv, sstate = "WAIT_ON_ACK"
  PROVE  GetFromBuffer(swin, swin.bottom) # NoPacket
<1>1. swin.bottom \in Nat /\ swin.middle \in Nat /\ swin.bottom >= 1
  BY DEF IndInv, TypeOK, Windows, SenderInv
<1>2. CASE swin.bottom < swin.middle
  <2>1. swin.bottom \in 1..(swin.middle - 1)
    BY <1>1, <1>2
  <2> QED
    BY <2>1 DEF SurvivalInv, SentStored
<1>3. CASE swin.middle = NPackets + 1
  <2>1. PICK seq \in 1..WindowSize : Index(seq) = Index(swin.bottom)
    BY <1>1, IndexInSlots, SlotsCovered
  <2>2. seq \in 1..(swin.middle - 1)
    BY <1>3, <2>1 DEF FillsWindow
  <2>3. GetFromBuffer(swin, swin.bottom) = GetFromBuffer(swin, seq)
    BY <2>1 DEF GetFromBuffer
  <2> QED
    BY <2>2, <2>3 DEF SurvivalInv, SentStored
<1> QED
  BY <1>2, <1>3 DEF SurvivalInv, NudgeHasPacket

LEMMA SentStoredStep ==
  ASSUME IndInv, SentStored, ServerStep \/ ServerTimeout
  PROVE  SentStored'
<1>1. /\ swin \in Windows /\ swin.middle \in Nat /\ swin.bottom \in Nat
      /\ pos \in Nat /\ pos = swin.middle
      /\ cwin.bottom \in Nat /\ cwin.bottom <= swin.middle /\ swin.bottom <= swin.middle
  BY DEF IndInv, TypeOK, Windows, SenderInv, WindowsInv
<1>2. CASE SendDataPacket
  <2> DEFINE p == DataPacket(swin.middle, pos)
             w == [swin EXCEPT !.middle = swin.middle + 1]
  <2>1. pos <= NPackets /\ swin' = AddToBuffer(w, p)
    BY <1>2 DEF SendDataPacket
  <2>2. p.seq = swin.middle /\ p # NoPacket
    BY DEF DataPacket, NoPacket
  <2>3. w \in Windows /\ w.middle = swin.middle + 1 /\ w.buffer = swin.buffer
    BY <1>1 DEF Windows
  <2> HIDE DEF p, w
  <2>4. swin'.middle = swin.middle + 1
    BY <2>1, <2>3 DEF AddToBuffer, Windows
  <2>5. swin'.buffer = [swin.buffer EXCEPT ![Index(swin.middle)] = p]
    BY <2>1, <2>2, <2>3 DEF AddToBuffer, Windows
  <2> SUFFICES ASSUME NEW seq \in 1..swin.middle
               PROVE  GetFromBuffer(swin', seq) # NoPacket
    BY <1>1, <2>4 DEF SentStored
  <2>6. Index(seq) \in Slots /\ DOMAIN swin.buffer = Slots
    BY <1>1, IndexInSlots DEF Windows
  <2>7. CASE Index(seq) = Index(swin.middle)
    BY <2>2, <2>5, <2>6, <2>7 DEF GetFromBuffer
  <2>8. CASE Index(seq) # Index(swin.middle)
    <3>1. seq \in 1..(swin.middle - 1)
      BY <1>1, <2>8
    <3> QED
      BY <2>5, <2>6, <2>8, <3>1 DEF GetFromBuffer, SentStored
  <2> QED
    BY <2>7, <2>8
<1>3. CASE ProcessRR
  <2>1. PICK a \in Arrivals(toServer) :
          /\ a.packet.flag = "RR"
          /\ swin' = IF a.packet.seq > swin.bottom THEN Slide(swin, a.packet.seq) ELSE swin
          /\ sstate' = IF a.packet.seq = eofIndex THEN "BYE" ELSE "SEND_DATA"
    BY <1>3 DEF ProcessRR
  <2>2. a.packet \in ToSet(toServer) /\ a.packet.seq \in Nat
    BY ArrivalContents DEF IndInv, TypeOK, Packets
  <2>3. a.packet.seq <= swin.middle
    <3>1. sstate = "PROCESS" /\ ToServerOK(a.packet)
      BY <1>3, <2>2 DEF ProcessRR, IndInv, ToServerInv
    <3>2. cended # "eof"
      BY <3>1 DEF IndInv, EofInv, ByeStates
    <3> QED
      BY <1>1, <2>1, <2>2, <3>1, <3>2 DEF ToServerOK
  <2>4. CASE swin' = Slide(swin, a.packet.seq)
    <3>1. swin'.buffer = swin.buffer /\ swin'.middle = swin.middle
      BY <1>1, <2>2, <2>3, <2>4 DEF Slide, Windows
    <3> QED
      BY <3>1 DEF SentStored, GetFromBuffer
  <2>5. CASE swin' = swin
    BY <2>5 DEF SentStored
  <2> QED
    BY <2>1, <2>4, <2>5
<1>4. CASE UNCHANGED swin
  BY <1>4 DEF SentStored
<1>5. CASE ~SendDataPacket /\ ~ProcessRR
  BY <1>4, <1>5 DEF ServerStep, ServerTimeout, ServerFilename, SendDataClosed, SendDataEof,
       SendDataReadError, Poll, ProcessCorrupt, ProcessSREJ, WaitOnAckGiveUp, WaitOnAckArrival,
       Bye, ByeArrival, WaitOnAckTimeout, ByeTimeout
<1> QED
  BY <1>2, <1>3, <1>5

\* What the child takes from its socket leaves there what was there.
LEMMA ServerTakes ==
  ASSUME IndInv, ServerStep \/ ServerTimeout
  PROVE  ToSet(toServer') \subseteq ToSet(toServer)
<1>1. toServer \in Seq(Packets)
  BY DEF IndInv, TypeOK
<1>2. CASE UNCHANGED toServer
  BY <1>2
<1>3. CASE toServer' = <<>>
  BY <1>3, EmptySeqType
<1>4. CASE \E a \in Arrivals(toServer) : toServer' = a.rest
  BY <1>1, <1>4, ArrivalContents
<1>5. ASSUME NEW seq, NEW next, NEW left, Resend(seq, next, left)
      PROVE  toServer' \in {<<>>, left}
  BY <1>5 DEF Resend, ServerEnd, CloseServer
<1>6. CASE ProcessSREJ \/ WaitOnAckTimeout
  BY <1>2, <1>3, <1>4, <1>5, <1>6 DEF ProcessSREJ, WaitOnAckTimeout
<1>7. CASE ~ProcessSREJ /\ ~WaitOnAckTimeout
  BY <1>2, <1>3, <1>4, <1>7 DEF ServerStep, ServerTimeout, ServerFilename, SendDataClosed,
       SendDataEof, SendDataReadError, SendDataPacket, Poll, ProcessCorrupt, ProcessRR,
       WaitOnAckGiveUp, WaitOnAckArrival, Bye, ByeArrival, ByeTimeout, ServerEnd, CloseServer,
       channelVars
<1> QED
  BY <1>6, <1>7

LEMMA SrejNumberedClient ==
  ASSUME IndInv, SrejNumbered, ClientStep \/ ClientTimeout
  PROVE  SrejNumbered'
<1>1. /\ toServer \in Seq(Packets) /\ toClient \in Seq(Packets)
      /\ cwin.bottom \in Nat /\ cwin.bottom >= 1 /\ cwin.middle \in Nat /\ cwin.top \in Nat
  BY DEF IndInv, TypeOK, Windows, SenderInv, WindowsInv
<1>2. CASE UNCHANGED toServer
  BY <1>2 DEF SrejNumbered
<1>3. ASSUME NEW seq \in Nat, SendToServer(Rr(seq))
      PROVE  SrejNumbered'
  <2>1. Rr(seq) \in Packets /\ Rr(seq).flag # "SREJ" /\ Corrupt.flag # "SREJ"
    BY ControlType DEF Rr, Control, Corrupt, ControlFlags
  <2> QED
    BY <1>1, <1>3, <2>1, SendToServerContents DEF SrejNumbered
<1>4. ASSUME NEW seq \in Nat, seq >= 1, SendToServer(Srej(seq))
      PROVE  SrejNumbered'
  <2>1. Srej(seq) \in Packets /\ Srej(seq).seq = seq /\ Corrupt.flag # "SREJ"
    BY ControlType DEF Srej, Control, Corrupt, ControlFlags
  <2> QED
    BY <1>1, <1>4, <2>1, SendToServerContents DEF SrejNumbered
<1>5. ASSUME NEW m \in Nat, m >= 1, SendPairToServer(Srej(m), Rr(m))
      PROVE  SrejNumbered'
  <2>1. /\ Srej(m) \in Packets /\ Srej(m).seq = m /\ Corrupt.flag # "SREJ"
        /\ Rr(m) \in Packets /\ Rr(m).flag # "SREJ"
    BY ControlType DEF Srej, Rr, Control, Corrupt, ControlFlags
  <2> QED
    BY <1>1, <1>5, <2>1, SendPairToServerContents DEF SrejNumbered
<1>6. CASE FileOk \/ ClientFilenameTimeout \/ RecvTimeout
  BY <1>2, <1>6 DEF FileOk, ClientFilenameTimeout, RecvTimeout, FilenameReturns
<1>7. ASSUME NEW a \in Arrivals(toClient), ClientFilename(a) \/ RecvData(a) \/ Missing(a)
      PROVE  SrejNumbered'
  <2>1. a.packet.seq \in Nat /\ a.packet.seq + 1 \in Nat /\ cwin.bottom + 1 \in Nat
    <3>1. a.packet \in Packets
      BY <1>1, ArrivalContents
    <3>2. a.packet.seq \in Nat
      BY <3>1 DEF Packets
    <3> QED
      BY <1>1, <3>2
  <2>2. CASE ClientFilename(a)
    BY <1>2, <2>2 DEF ClientFilename, FilenameReturns
  <2>3. CASE RecvData(a)
    BY <1>1, <1>2, <1>3, <1>4, <2>1, <2>3 DEF RecvData, RecvDataCorrupt, RecvDataEof,
         RecvDataExpected, RecvDataDuplicate, RecvDataAhead
  <2>4. CASE Missing(a)
    <3>1. CASE MissingInWindow(a)
      <4>1. PICK m \in cwin.bottom..(cwin.top + 1) :
              SendPairToServer(Srej(m), Rr(m)) \/ SendToServer(Rr(m))
        BY <3>1 DEF MissingInWindow
      <4>2. m \in Nat /\ m >= 1
        BY <1>1, <4>1
      <4> QED
        BY <1>3, <1>5, <4>1, <4>2
    <3>2. CASE ~MissingInWindow(a)
      BY <1>1, <1>2, <1>3, <2>1, <2>4, <3>2
         DEF Missing, MissingCorrupt, MissingEof, MissingOutOfWindow
    <3> QED
      BY <3>1, <3>2
  <2> QED
    BY <1>7, <2>2, <2>3, <2>4
<1> QED
  BY <1>6, <1>7 DEF ClientStep, ClientTimeout

LEMMA NudgeHasPacketStep ==
  ASSUME IndInv, NudgeHasPacket, ServerStep \/ ServerTimeout
  PROVE  NudgeHasPacket'
<1>1. /\ swin \in Windows /\ swin.middle \in Nat /\ swin.bottom \in Nat /\ swin.top \in Nat
      /\ swin.top = swin.bottom + WindowSize - 1 /\ swin.bottom <= swin.middle
      /\ pos = swin.middle /\ pos <= NPackets + 1
  BY DEF IndInv, TypeOK, Windows, SenderInv, WindowsInv
<1>2. CASE sstate' \in {"SEND_DATA", "BYE", "BYE_WAIT", "DONE"}
  BY <1>2 DEF NudgeHasPacket
<1>3. CASE SendDataClosed
  <2>1. swin.middle > swin.top /\ UNCHANGED swin
    BY <1>3 DEF SendDataClosed, IsClosed
  <2> QED
    BY <1>1, <2>1 DEF NudgeHasPacket
<1>4. CASE SendDataEof
  BY <1>1, <1>4 DEF SendDataEof, NudgeHasPacket
<1>5. CASE SendDataPacket
  <2>1. swin'.middle = swin.middle + 1 /\ swin'.bottom = swin.bottom
    BY <1>1, <1>5 DEF SendDataPacket, AddToBuffer, Windows
  <2> QED
    BY <1>1, <2>1 DEF NudgeHasPacket
<1>6. CASE Poll \/ ProcessCorrupt \/ WaitOnAckArrival
  BY <1>6 DEF Poll, ProcessCorrupt, WaitOnAckArrival, NudgeHasPacket
<1>7. CASE WaitOnAckTimeout
  BY <1>2, <1>7 DEF WaitOnAckTimeout, Resend, ServerEnd, NudgeHasPacket
<1>8. CASE ServerFilename \/ SendDataReadError \/ ProcessRR \/ ProcessSREJ \/ WaitOnAckGiveUp
             \/ Bye \/ ByeArrival \/ ByeTimeout
  BY <1>2, <1>8 DEF ServerFilename, SendDataReadError, ProcessRR, ProcessSREJ, WaitOnAckGiveUp,
       Bye, ByeArrival, ByeTimeout, Resend, ServerEnd
<1> QED
  BY <1>3, <1>4, <1>5, <1>6, <1>7, <1>8 DEF ServerStep, ServerTimeout

LEMMA SurvivalStep == IndInv /\ SurvivalInv /\ [Next]_vars => SurvivalInv'
<1> SUFFICES ASSUME IndInv, SurvivalInv, [Next]_vars PROVE SurvivalInv'
  OBVIOUS
<1>1. CASE Server \/ ServerTimer
  <2>1. SrejNumbered'
    BY <1>1, ServerTakes DEF Server, ServerTimer, SurvivalInv, SrejNumbered
  <2> QED
    BY <1>1, <2>1, SentStoredStep, NudgeHasPacketStep DEF Server, ServerTimer, SurvivalInv
<1>2. CASE Client \/ ClientTimer
  <2>1. UNCHANGED <<swin, sstate>>
    BY <1>2 DEF Client, ClientTimer, serverVars
  <2>2. SentStored' /\ NudgeHasPacket'
    BY <2>1 DEF SurvivalInv, SentStored, NudgeHasPacket
  <2> QED
    BY <1>2, <2>2, SrejNumberedClient DEF Client, ClientTimer, SurvivalInv
<1>3. CASE UNCHANGED vars
  BY <1>3 DEF vars, channelVars, serverVars, SurvivalInv, SentStored, SrejNumbered, NudgeHasPacket
<1> QED
  BY <1>1, <1>2, <1>3 DEF Next, Ended

LEMMA SurvivalInit == Init => SurvivalInv
BY DEF Init, ChannelInit, ServerInit, InitWindow, SurvivalInv, SentStored, SrejNumbered,
       NudgeHasPacket, ToSet

\* A send() of an empty slot is one a SREJ asked for.
LEMMA ExitStep ==
  ASSUME FillsWindow, IndInv, SurvivalInv, [Next]_vars, sended' = "exit", sended # "exit"
  PROVE  \E p \in ToSet(toServer) : p.flag = "SREJ" /\ p.seq >= swin.middle
<1>1. CASE ProcessSREJ
  <2>1. PICK a \in Arrivals(toServer) :
          a.packet.flag = "SREJ" /\ Resend(a.packet.seq, "SEND_DATA", a.rest)
    BY <1>1 DEF ProcessSREJ
  <2>2. GetFromBuffer(swin, a.packet.seq) = NoPacket
    BY <2>1 DEF Resend
  <2>3. a.packet \in ToSet(toServer) /\ a.packet.seq \in Nat
    BY ArrivalContents DEF IndInv, TypeOK, Packets
  <2>4. a.packet.seq >= 1 /\ a.packet.seq \notin 1..(swin.middle - 1)
    BY <2>1, <2>2, <2>3 DEF SurvivalInv, SrejNumbered, SentStored
  <2>5. swin.middle \in Nat
    BY DEF IndInv, TypeOK, Windows
  <2> QED
    BY <2>1, <2>3, <2>4, <2>5
<1>2. CASE WaitOnAckTimeout
  <2>1. sstate = "WAIT_ON_ACK" /\ Resend(swin.bottom, "WAIT_ON_ACK", toServer)
    BY <1>2 DEF WaitOnAckTimeout
  <2>2. UNCHANGED sended
    BY <2>1, NudgeFinds DEF Resend
  <2> QED
    BY <2>2
<1>3. CASE ~ProcessSREJ /\ ~WaitOnAckTimeout
  BY <1>3 DEF Next, Server, ServerTimer, Client, ClientTimer, Ended, vars, serverVars, ServerStep,
       ServerTimeout, ServerFilename, SendDataClosed, SendDataEof, SendDataReadError,
       SendDataPacket, Poll, ProcessCorrupt, ProcessRR, WaitOnAckGiveUp, WaitOnAckArrival,
       Bye, ByeArrival, ByeTimeout, ServerEnd
<1> QED
  BY <1>1, <1>2, <1>3

(* For a file of at least a window, and whatever is lost, duplicated,       *)
(* reordered, corrupted or late, sendtoErr()'s exit(1) on an empty slot     *)
(* only meets a child that was asked for a packet it has not sent yet: the  *)
(* oldest unacknowledged packet, which a nudge repeats, is always there.    *)
THEOREM SurvivalCorrect ==
  ASSUME FillsWindow
  PROVE  Spec => ServerSurvives
<1>1. IndInv /\ SurvivalInv /\ [Next]_vars
        => [sended' = "exit" /\ sended # "exit" =>
              \E p \in ToSet(toServer) : p.flag = "SREJ" /\ p.seq >= swin.middle]_vars
  BY ExitStep
<1> QED
  BY <1>1, SurvivalInit, SurvivalStep, Invariance, PTL DEF Spec, ServerSurvives

=============================================================================
