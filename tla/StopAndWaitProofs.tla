-------------------------- MODULE StopAndWaitProofs --------------------------
(***************************************************************************)
(* The safety properties of StopAndWait.tla, for every file, limit and      *)
(* socket buffer.  AnyInv holds whatever goes wrong: the types, and that    *)
(* the file is written in order.  LockStep, that the two processes take     *)
(* turns, holds as long as no packet is late, repeated or overtaken, and    *)
(* with it the protocol implements WindowedTransfer.tla.                    *)
(***************************************************************************)
EXTENDS StopAndWait, PacketChannelProofs, SequenceTheorems

USE NPacketsAssumption, CapacityAssumption, MaxSendsAssumption, MaxSelectsAssumption

\* What the child sends, and what rcopy answers.
FnameOk == Control("FNAME_OK", 0)
FnameBad == Control("FNAME_BAD", 0)
Eof == Control("END_OF_FILE", NPackets + 1)

ToClientPackets ==
  {FnameOk, FnameBad, Eof, Corrupt} \cup {DataPacket(k, k) : k \in 1..NPackets}

ToServerPackets == {Ack, Corrupt}

\* A chunk was sent, and the child goes on waiting for its acknowledgement.
Outstanding == sstate \in {"WAIT_ON_ACK", "SELECT", "TIMEOUT_ON_ACK"}

ChannelsInv == toClient \in Seq(ToClientPackets) /\ toServer \in Seq(ToServerPackets)

ServerInv ==
  /\ sstate # "DONE" => sends <= MaxSends /\ sended = "running"
  /\ Outstanding \/ sended = "gave_up" => seqNum >= 2
  /\ sended = "complete" => seqNum = NPackets + 1
  /\ sended \in {"gave_up", "complete", "no_file"} => sstate = "DONE"

ClientInv ==
  /\ cstate = "FILENAME" => selects <= MaxSelects
  /\ cstate # "DONE" => cended = "running"
  /\ outfile = [i \in 1..(expected - 1) |-> i]

ClosedInv ==
  /\ "client" \in closed <=> cstate = "DONE"
  /\ "server" \in closed <=> sstate = "DONE"
  /\ cstate = "DONE" => toClient = <<>>
  /\ sstate = "DONE" => toServer = <<>>

\* This holds whatever goes wrong.
AnyInv == TypeOK /\ ChannelsInv /\ ServerInv /\ ClientInv /\ ClosedInv

\* The packet after the answer to FNAME, as the child's state has it.
Latest ==
  IF Outstanding \/ sended = "gave_up" THEN {DataPacket(seqNum - 1, seqNum - 1), Corrupt}
  ELSE IF sended = "complete" THEN {Eof, Corrupt}
  ELSE IF sended = "no_file" THEN {FnameBad} ELSE {}

\* FNAME_OK first, which rcopy still waits for, and one packet after it.
InOrder(ch) ==
  \A i \in DOMAIN ch :
    \/ ch[i] = FnameOk /\ i = 1 /\ cstate = "FILENAME"
    \/ ch[i] \in Latest /\ i = Len(ch)

LockStep ==
  /\ AckAnswersLast /\ InOrder(toClient)
  /\ expected \in {seqNum - 1, seqNum}
  /\ expected = seqNum \/ Outstanding \/ sended = "gave_up"
  /\ cstate \in {"FILENAME", "FILE_OK"} => expected = 1 /\ toServer = <<>>
  /\ sstate = "FILENAME" => cstate = "FILENAME" /\ toClient = <<>> /\ seqNum = 1
  /\ sstate = "TIMEOUT_ON_ACK" => toClient = <<>>

-----------------------------------------------------------------------------
LEMMA SeqSubset ==
  ASSUME NEW S, NEW T, S \subseteq T, NEW s \in Seq(S)
  PROVE  s \in Seq(T)
OBVIOUS

LEMMA PacketFlags ==
  /\ FnameOk.flag = "FNAME_OK" /\ FnameBad.flag = "FNAME_BAD" /\ Eof.flag = "END_OF_FILE"
  /\ Ack.flag = "ACK" /\ Corrupt.flag = "CRC_ERROR"
  /\ FnameOk.seq = 0 /\ FnameBad.seq = 0
  /\ \A k : LET p == DataPacket(k, k) IN p.flag = "DATA" /\ p.seq = k /\ p.chunk = k
BY DEF FnameOk, FnameBad, Eof, Ack, Corrupt, Control, DataPacket

LEMMA PacketTypes ==
  /\ ToClientPackets \subseteq Datagrams /\ ToServerPackets \subseteq Datagrams
  /\ Corrupt \in ToClientPackets /\ Corrupt \in ToServerPackets
  /\ FnameOk \in ToClientPackets /\ FnameBad \in ToClientPackets /\ Eof \in ToClientPackets
  /\ Ack \in ToServerPackets
  /\ \A k \in 1..NPackets : DataPacket(k, k) \in ToClientPackets
<1>1. /\ FnameOk \in Datagrams /\ FnameBad \in Datagrams /\ Eof \in Datagrams
      /\ Ack \in Datagrams /\ Corrupt \in Datagrams
  BY DEF Datagrams, FnameOk, FnameBad, Eof, Ack, Corrupt, Control
<1>2. \A k \in 1..NPackets : DataPacket(k, k) \in Datagrams
  BY DEF Datagrams, DataPacket
<1> QED
  BY <1>1, <1>2 DEF ToClientPackets, ToServerPackets

LEMMA SendToClientType ==
  ASSUME ChannelsInv, NEW p \in ToClientPackets, SendToClient(p)
  PROVE  /\ toClient' \in Seq(ToClientPackets)
         /\ "client" \in closed => toClient' = <<>>
<1>1. toClient' = <<>> \/ toClient' \in Transmit(toClient, p)
  BY DEF SendToClient
<1>2. Corrupt \in ToClientPackets /\ toClient \in Seq(ToClientPackets)
  BY PacketTypes DEF ChannelsInv
<1>3. toClient' \in Seq(ToClientPackets)
  <2>1. <<>> \in Seq(ToClientPackets)
    OBVIOUS
  <2>2. ASSUME NEW c \in Transmit(toClient, p) PROVE c \in Seq(ToClientPackets)
    BY <1>2, <2>2, TransmitMembers
  <2> QED
    BY <1>1, <2>1, <2>2
<1> QED
  BY <1>3 DEF SendToClient

LEMMA SendToServerType ==
  ASSUME ChannelsInv, SendToServer(Ack)
  PROVE  /\ toServer' \in Seq(ToServerPackets)
         /\ "server" \in closed => toServer' = <<>>
<1>1. toServer' = <<>> \/ toServer' \in Transmit(toServer, Ack)
  BY DEF SendToServer
<1>2. Corrupt \in ToServerPackets /\ Ack \in ToServerPackets /\ toServer \in Seq(ToServerPackets)
  BY PacketTypes DEF ChannelsInv
<1>3. toServer' \in Seq(ToServerPackets)
  <2>1. <<>> \in Seq(ToServerPackets)
    OBVIOUS
  <2>2. ASSUME NEW c \in Transmit(toServer, Ack) PROVE c \in Seq(ToServerPackets)
    BY <1>2, <2>2, TransmitMembers
  <2> QED
    BY <1>1, <2>1, <2>2
<1> QED
  BY <1>3 DEF SendToServer

\* Nothing arrives from an empty channel.
LEMMA NothingArrives ==
  ASSUME NEW S, NEW ch \in Seq(S), NEW a \in Arrivals(ch)
  PROVE  ch # <<>>
<1>1. Deliverable(ch) # {}
  BY DEF Arrivals
<1> QED
  BY <1>1 DEF Deliverable

-----------------------------------------------------------------------------
(* AnyInv.                                                                  *)
LEMMA AnyInit == Init => AnyInv
<1> SUFFICES ASSUME Init PROVE AnyInv
  OBVIOUS
<1>1. ChannelsInv
  BY DEF Init, ChannelInit, ChannelsInv
<1>2. TypeOK
  BY NoContents DEF Init, ChannelInit, TypeOK
<1>3. ClientInv
  BY DEF Init, ClientInv
<1> QED
  BY <1>1, <1>2, <1>3 DEF Init, ChannelInit, AnyInv, ServerInv, ClosedInv, Outstanding

\* The channels have the types AnyInv gives them when their contents do.
LEMMA TypeStep ==
  ASSUME ChannelsInv', 
         closed' \subseteq {"client", "server"},
         sstate' \in {"FILENAME", "SEND_DATA", "WAIT_ON_ACK", "SELECT", "TIMEOUT_ON_ACK", "DONE"},
         seqNum' \in 1..(NPackets + 1), sends' \in 0..(MaxSends + 1),
         sended' \in {"running", "no_file", "read_error", "gave_up", "complete"},
         cstate' \in {"FILENAME", "FILE_OK", "RECV_DATA", "DONE"},
         selects' \in 0..(MaxSelects + 1), expected' \in 1..(NPackets + 1),
         outfile' \in Seq(1..NPackets),
         cended' \in {"running", "abandoned", "unreachable", "no_file", "open_error",
                      "silence", "eof"}
  PROVE  TypeOK'
<1>1. toClient' \in Seq(Datagrams) /\ toServer' \in Seq(Datagrams)
  BY SeqSubset, PacketTypes DEF ChannelsInv
<1> QED
  BY <1>1 DEF TypeOK

LEMMA ServerAny ==
  ASSUME AnyInv, Server \/ ServerTimer
  PROVE  AnyInv'
<1> USE DEF ServerInv, ClosedInv, Outstanding
<1> /\ ChannelsInv /\ ServerInv /\ ClosedInv /\ UNCHANGED clientVars
  BY DEF AnyInv, Server, ServerTimer
<1>1. /\ closed \subseteq {"client", "server"} /\ seqNum \in 1..(NPackets + 1)
      /\ sends \in 0..(MaxSends + 1)
      /\ sended \in {"running", "no_file", "read_error", "gave_up", "complete"}
  BY DEF AnyInv, TypeOK
<1>2. ClientInv'
  BY DEF AnyInv, ClientInv, clientVars
<1>3. /\ cstate' \in {"FILENAME", "FILE_OK", "RECV_DATA", "DONE"}
      /\ selects' \in 0..(MaxSelects + 1) /\ expected' \in 1..(NPackets + 1)
      /\ outfile' \in Seq(1..NPackets)
      /\ cended' \in {"running", "abandoned", "unreachable", "no_file", "open_error",
                      "silence", "eof"}
  BY DEF AnyInv, TypeOK, clientVars
<1>4. cstate' = cstate
  BY DEF clientVars
<1>5. /\ toServer \in Seq(ToServerPackets) /\ <<>> \in Seq(ToServerPackets)
      /\ toClient \in Seq(ToClientPackets)
  BY DEF ChannelsInv
<1> DEFINE Done ==
      /\ ChannelsInv' /\ ServerInv' /\ ClosedInv'
      /\ closed' \subseteq {"client", "server"}
      /\ sstate' \in {"FILENAME", "SEND_DATA", "WAIT_ON_ACK", "SELECT", "TIMEOUT_ON_ACK", "DONE"}
      /\ seqNum' \in 1..(NPackets + 1) /\ sends' \in 0..(MaxSends + 1)
      /\ sended' \in {"running", "no_file", "read_error", "gave_up", "complete"}
<1> SUFFICES Done
  BY <1>2, <1>3, TypeStep DEF AnyInv
<1>6. CASE ServerFilename
  <2>1. toClient' \in Seq(ToClientPackets) /\ ("client" \in closed => toClient' = <<>>)
    BY <1>6, SendToClientType, PacketTypes DEF ServerFilename, SendAndEnd, FnameOk, FnameBad
  <2>2. toServer' \in Seq(ToServerPackets)
    BY <1>5, <1>6 DEF ServerFilename, SendAndEnd, ServerEnd, CloseServer
  <2> QED
    BY <1>1, <1>4, <1>6, <2>1, <2>2 DEF ServerFilename, SendAndEnd, ServerEnd, CloseServer, ChannelsInv
<1>7. CASE SendData
  <2>1. toClient' \in Seq(ToClientPackets) /\ ("client" \in closed => toClient' = <<>>)
    <3>1. CASE seqNum <= NPackets /\ SendToClient(DataPacket(seqNum, seqNum))
      <4>1. seqNum \in 1..NPackets
        BY <1>1, <3>1
      <4> QED
        BY <3>1, <4>1, SendToClientType, PacketTypes
    <3>2. CASE seqNum > NPackets /\ SendToClient(Control("END_OF_FILE", seqNum))
      <4>1. seqNum = NPackets + 1
        BY <1>1, <3>2
      <4> QED
        BY <3>2, <4>1, SendToClientType, PacketTypes DEF Eof
    <3>3. CASE UNCHANGED toClient
      BY <1>4, <1>5, <3>3
    <3> QED
      BY <1>7, <3>1, <3>2, <3>3 DEF SendData, SendAndEnd
  <2>2. toServer' \in Seq(ToServerPackets)
    BY <1>5, <1>7 DEF SendData, SendAndEnd, ServerEnd, CloseServer
  <2>3. CASE seqNum <= NPackets /\ seqNum' = seqNum + 1 /\ sstate' = "WAIT_ON_ACK" /\
             UNCHANGED <<sended, toServer, closed>>
    BY <1>1, <1>4, <1>7, <2>1, <2>2, <2>3 DEF SendData, ChannelsInv
  <2>4. CASE ServerEnd("complete") /\ seqNum > NPackets /\ seqNum' = seqNum
    BY <1>1, <1>4, <1>7, <2>1, <2>2, <2>4 DEF SendData, ServerEnd, CloseServer, ChannelsInv
  <2>5. CASE ServerEnd("read_error") /\ seqNum' = seqNum
    BY <1>1, <1>4, <1>7, <2>1, <2>2, <2>5 DEF SendData, ServerEnd, CloseServer, ChannelsInv
  <2> QED
    BY <1>7, <2>3, <2>4, <2>5 DEF SendData, SendAndEnd
<1>8. CASE WaitOnAck
  <2>1. toServer' \in Seq(ToServerPackets) /\ toClient' = toClient
    BY <1>5, <1>8 DEF WaitOnAck, ServerEnd, CloseServer
  <2>2. sstate = "WAIT_ON_ACK" /\ sends' = sends + 1 /\ seqNum' = seqNum
    BY <1>8 DEF WaitOnAck
  <2>3. sends' \in 0..(MaxSends + 1) /\ seqNum >= 2
    BY <1>1, <2>2
  <2>4. CASE sends + 1 > MaxSends /\ ServerEnd("gave_up")
    BY <1>1, <1>4, <1>5, <2>1, <2>2, <2>3, <2>4 DEF ServerEnd, CloseServer, ChannelsInv
  <2>5. CASE ~(sends + 1 > MaxSends) /\ sstate' = "SELECT" /\ UNCHANGED <<sended, toServer, closed>>
    BY <1>1, <1>4, <1>5, <2>1, <2>2, <2>3, <2>5 DEF ChannelsInv
  <2> QED
    BY <1>8, <2>4, <2>5 DEF WaitOnAck
<1>9. CASE AckArrives
  <2>1. toServer' \in Seq(ToServerPackets) /\ toClient' = toClient
    BY <1>5, <1>9, ArrivalMembers DEF AckArrives
  <2>2. /\ sstate = "SELECT" /\ sended' = sended /\ seqNum' = seqNum /\ closed' = closed
        /\ \/ sstate' = "WAIT_ON_ACK" /\ sends' = sends
           \/ sstate' = "SEND_DATA" /\ sends' = 0
    BY <1>9 DEF AckArrives
  <2>4. ChannelsInv'
    BY <1>5, <2>1, <2>2 DEF ChannelsInv
  <2>5. ServerInv'
    BY <1>1, <2>1, <2>2
  <2>6. ClosedInv'
    BY <1>4, <2>1, <2>2
  <2> QED
    BY <1>1, <2>4, <2>5, <2>6, <2>1, <2>2
<1>10. CASE AckTimeout
  BY <1>1, <1>4, <1>5, <1>10 DEF AckTimeout, ChannelsInv, channelVars
<1>11. CASE TimeoutOnAck
  <2>1. seqNum - 1 \in 1..NPackets
    BY <1>1, <1>11 DEF TimeoutOnAck
  <2>2. toClient' \in Seq(ToClientPackets) /\ ("client" \in closed => toClient' = <<>>)
    BY <1>11, <2>1, SendToClientType, PacketTypes DEF TimeoutOnAck
  <2>3. /\ sstate = "TIMEOUT_ON_ACK" /\ sstate' = "WAIT_ON_ACK"
        /\ UNCHANGED <<seqNum, sends, sended, toServer, closed>>
    BY <1>11 DEF TimeoutOnAck
  <2>4. ChannelsInv'
    BY <1>5, <2>2, <2>3 DEF ChannelsInv
  <2>5. ServerInv'
    BY <1>1, <2>2, <2>3
  <2>6. ClosedInv'
    BY <1>4, <2>2, <2>3
  <2> QED
    BY <1>1, <2>4, <2>5, <2>6, <2>2, <2>3
<1> QED
  BY <1>6, <1>7, <1>8, <1>9, <1>10, <1>11 DEF Server, ServerTimer

LEMMA WriteStep ==
  ASSUME AnyInv, NEW p \in ToClientPackets, p.flag # "END_OF_FILE", NEW a, a.packet = p, Write(a)
  PROVE  /\ expected' \in 1..(NPackets + 1) /\ outfile' \in Seq(1..NPackets)
         /\ outfile' = [i \in 1..(expected' - 1) |-> i]
<1>1. /\ expected \in 1..(NPackets + 1) /\ outfile \in Seq(1..NPackets)
      /\ outfile = [i \in 1..(expected - 1) |-> i]
  BY DEF AnyInv, TypeOK, ClientInv
<1>2. CASE p.seq # expected
  BY <1>1, <1>2 DEF Write
<1>3. CASE p.seq = expected
  <2>1. PICK k \in 1..NPackets : p = DataPacket(k, k)
    BY <1>1, <1>3, PacketFlags DEF ToClientPackets, Corrupt
  <2>2. p.seq = k /\ p.chunk = k /\ k = expected
    BY <1>3, <2>1, PacketFlags
  <2>3. expected' = expected + 1 /\ outfile' = Append(outfile, expected)
    BY <1>3, <2>2 DEF Write
  <2>4. outfile' \in Seq(1..NPackets) /\ Len(outfile) = expected - 1
    BY <1>1, <2>2, <2>3
  <2>5. Append(outfile, expected) = [i \in 1..expected |-> i]
    BY <1>1, <2>4
  <2> QED
    BY <1>1, <2>2, <2>3, <2>4, <2>5
<1> QED
  BY <1>2, <1>3

LEMMA ClientAny ==
  ASSUME AnyInv, Client \/ ClientTimer
  PROVE  AnyInv'
<1> USE DEF ClosedInv
<1> /\ ChannelsInv /\ ClientInv /\ ClosedInv /\ UNCHANGED serverVars
  BY DEF AnyInv, Client, ClientTimer
<1>1. /\ closed \subseteq {"client", "server"} /\ expected \in 1..(NPackets + 1)
      /\ selects \in 0..(MaxSelects + 1) /\ outfile \in Seq(1..NPackets)
      /\ outfile = [i \in 1..(expected - 1) |-> i]
      /\ cstate = "FILENAME" => selects \in 0..MaxSelects
  BY DEF AnyInv, TypeOK, ClientInv
<1>2. ServerInv'
  BY DEF AnyInv, ServerInv, serverVars, Outstanding
<1>3. /\ sstate' \in {"FILENAME", "SEND_DATA", "WAIT_ON_ACK", "SELECT", "TIMEOUT_ON_ACK", "DONE"}
      /\ seqNum' \in 1..(NPackets + 1) /\ sends' \in 0..(MaxSends + 1)
      /\ sended' \in {"running", "no_file", "read_error", "gave_up", "complete"}
  BY DEF AnyInv, TypeOK, serverVars
<1>4. sstate' = sstate
  BY DEF serverVars
<1>5. /\ toServer \in Seq(ToServerPackets) /\ toClient \in Seq(ToClientPackets)
      /\ <<>> \in Seq(ToClientPackets)
  BY DEF ChannelsInv
<1> DEFINE Done ==
      /\ ChannelsInv' /\ ClientInv' /\ ClosedInv'
      /\ closed' \subseteq {"client", "server"}
      /\ cstate' \in {"FILENAME", "FILE_OK", "RECV_DATA", "DONE"}
      /\ selects' \in 0..(MaxSelects + 1) /\ expected' \in 1..(NPackets + 1)
      /\ outfile' \in Seq(1..NPackets)
      /\ cended' \in {"running", "abandoned", "unreachable", "no_file", "open_error",
                      "silence", "eof"}
<1> SUFFICES Done
  BY <1>2, <1>3, TypeStep DEF AnyInv
<1>6. ASSUME NEW why \in {"abandoned", "unreachable", "no_file", "open_error", "silence", "eof"},
             ClientEnd(why), UNCHANGED <<expected, outfile>>, selects' \in 0..(MaxSelects + 1),
             toServer' \in Seq(ToServerPackets), sstate = "DONE" => toServer' = <<>>
      PROVE  Done
  BY <1>1, <1>4, <1>5, <1>6 DEF ClientEnd, CloseClient, ClientInv, ChannelsInv
<1>7. CASE ClientFilename
  <2>1. PICK a \in Arrivals(toClient) :
          FilenameReturns(
            \/ a.packet = Corrupt /\ ClientEnd("abandoned")
            \/ a.packet.flag = "FNAME_BAD" /\ ClientEnd("no_file")
            \/ /\ a.packet # Corrupt /\ a.packet.flag # "FNAME_BAD"
               /\ cstate' = "FILE_OK" /\ Accept(a))
    BY <1>7 DEF ClientFilename
  <2>2. /\ selects' \in 0..(MaxSelects + 1) /\ UNCHANGED <<expected, outfile, toServer>>
    BY <1>1, <1>7, <2>1 DEF FilenameReturns, ClientFilename
  <2>3. CASE ClientEnd("unreachable") \/ ClientEnd("abandoned") \/ ClientEnd("no_file")
    BY <1>5, <1>6, <2>2, <2>3
  <2>4. CASE cstate' = "FILE_OK" /\ Accept(a)
    <3>1. toClient' \in Seq(ToClientPackets) /\ cended' = "running" /\ closed' = closed
      BY <1>5, <1>7, <2>4, ArrivalMembers DEF Accept, ClientFilename, ClientInv
    <3> QED
      BY <1>1, <1>4, <1>5, <1>7, <2>2, <2>4, <3>1 DEF ClientInv, ChannelsInv, ClientFilename
  <2> QED
    BY <2>1, <2>3, <2>4 DEF FilenameReturns
<1>8. CASE ClientFilenameTimeout
  <2>1. selects' \in 0..(MaxSelects + 1) /\ UNCHANGED <<expected, outfile, toServer>>
    BY <1>1, <1>8 DEF FilenameReturns, ClientFilenameTimeout
  <2>2. ClientEnd("unreachable") \/ ClientEnd("abandoned")
    BY <1>8 DEF FilenameReturns, ClientFilenameTimeout
  <2> QED
    BY <1>5, <1>6, <2>1, <2>2
<1>9. CASE FileOk
  <2>1. selects' \in 0..(MaxSelects + 1) /\ UNCHANGED <<expected, outfile, toServer>>
    BY <1>9 DEF FileOk
  <2>2. CASE ClientEnd("open_error")
    BY <1>5, <1>6, <2>1, <2>2
  <2>3. CASE cstate' = "RECV_DATA" /\ UNCHANGED <<cended, toClient, closed>>
    BY <1>1, <1>4, <1>5, <1>9, <2>1, <2>3 DEF ClientInv, ChannelsInv, FileOk
  <2> QED
    BY <1>9, <2>2, <2>3 DEF FileOk
<1>10. CASE RecvData
  <2>1. PICK a \in Arrivals(toClient) :
          \/ /\ a.packet = Corrupt /\ Accept(a)
             /\ UNCHANGED <<cstate, expected, outfile, toServer>>
          \/ /\ a.packet.flag = "END_OF_FILE"
             /\ Acknowledge /\ ClientEnd("eof")
             /\ UNCHANGED <<expected, outfile>>
          \/ /\ a.packet # Corrupt /\ a.packet.flag # "END_OF_FILE"
             /\ Acknowledge /\ Write(a) /\ Accept(a)
             /\ UNCHANGED cstate
    BY <1>10 DEF RecvData
  <2>2. /\ a.packet \in ToClientPackets /\ a.rest \in Seq(ToClientPackets)
        /\ cstate = "RECV_DATA" /\ cended = "running" /\ selects' = selects
    BY <1>5, <1>10, ArrivalMembers DEF RecvData, ClientInv
  <2>3. ASSUME Acknowledge
        PROVE  toServer' \in Seq(ToServerPackets) /\ ("server" \in closed => toServer' = <<>>)
    BY <2>3, SendToServerType DEF Acknowledge
  <2>4. CASE a.packet = Corrupt /\ Accept(a) /\ UNCHANGED <<cstate, expected, outfile, toServer>>
    BY <1>1, <1>4, <1>5, <2>2, <2>4 DEF Accept, ClientInv, ChannelsInv
  <2>5. CASE Acknowledge /\ ClientEnd("eof") /\ UNCHANGED <<expected, outfile>>
    BY <1>1, <1>6, <2>2, <2>3, <2>5
  <2>6. CASE /\ a.packet.flag # "END_OF_FILE"
             /\ Acknowledge /\ Write(a) /\ Accept(a) /\ UNCHANGED cstate
    <3>1. /\ expected' \in 1..(NPackets + 1) /\ outfile' \in Seq(1..NPackets)
          /\ outfile' = [i \in 1..(expected' - 1) |-> i]
      BY <2>2, <2>6, WriteStep
    <3> QED
      BY <1>1, <1>4, <2>2, <2>3, <2>6, <3>1 DEF Accept, ClientInv, ChannelsInv
  <2> QED
    BY <2>1, <2>4, <2>5, <2>6
<1>11. CASE RecvDataTimeout
  BY <1>1, <1>5, <1>6, <1>11 DEF RecvDataTimeout
<1> QED
  BY <1>7, <1>8, <1>9, <1>10, <1>11 DEF Client, ClientTimer

LEMMA AnyStep == AnyInv /\ [Next]_vars => AnyInv'
<1> SUFFICES ASSUME AnyInv, [Next]_vars PROVE AnyInv'
  OBVIOUS
<1>1. CASE UNCHANGED vars
  BY <1>1 DEF vars, channelVars, serverVars, clientVars, AnyInv, TypeOK, ChannelsInv, ServerInv,
       ClientInv, ClosedInv, Outstanding
<1> QED
  BY <1>1, ServerAny, ClientAny DEF Next, Ended

LEMMA AnyInvariance == Spec => []AnyInv
BY AnyInit, AnyStep, PTL DEF Spec

(* The types, whatever goes wrong.                                          *)
THEOREM TypeCorrect == Spec => []TypeOK
<1>1. AnyInv => TypeOK
  BY DEF AnyInv
<1> QED
  BY <1>1, AnyInvariance, PTL

(* Nor does anything that goes wrong make rcopy write a chunk twice, skip   *)
(* one, or write one out of order.                                          *)
WrittenInOrder == \A i \in DOMAIN outfile : outfile[i] = i

THEOREM WrittenCorrect == Spec => []WrittenInOrder
<1>1. AnyInv => WrittenInOrder
  BY DEF AnyInv, ClientInv, WrittenInOrder
<1> QED
  BY <1>1, AnyInvariance, PTL

-----------------------------------------------------------------------------
(* LockStep.  A packet that is neither late, nor repeated, nor overtaken:   *)
InTurn == Faults \cap {"delay", "dup", "reorder"} = {}

\* The first packet arrives, and leaves the others.
LEMMA FirstArrives ==
  ASSUME InTurn, NEW S, NEW ch \in Seq(S), NEW a \in Arrivals(ch)
  PROVE  /\ ch # <<>> /\ a.packet = ch[1]
         /\ a.rest \in Seq(S) /\ Len(a.rest) = Len(ch) - 1
         /\ \A i \in 1..Len(a.rest) : a.rest[i] = ch[i + 1]
<1>1. "dup" \notin Faults /\ "reorder" \notin Faults
  BY DEF InTurn
<1>2. PICK i \in Deliverable(ch) : a = [packet |-> ch[i], rest |-> RemoveAt(ch, i)]
  BY <1>1 DEF Arrivals
<1>3. i = 1 /\ ch # <<>> /\ Len(ch) \in Nat /\ Len(ch) >= 1
  BY <1>1, <1>2 DEF Deliverable
<1>4. a.packet = ch[1] /\ a.rest = SubSeq(ch, 1, 0) \o SubSeq(ch, 2, Len(ch))
  BY <1>2, <1>3 DEF RemoveAt
<1>5. SubSeq(ch, 1, 0) = <<>>
  BY <1>3
<1>6. a.rest = SubSeq(ch, 2, Len(ch))
  BY <1>3, <1>4, <1>5
<1>7. a.rest = Tail(ch)
  BY <1>3, <1>6, TailIsSubSeq
<1> QED
  BY <1>3, <1>4, <1>7, HeadTailProperties

LEMMA LockStepInit == Init => LockStep
BY DEF Init, ChannelInit, LockStep, AckAnswersLast, InOrder, Outstanding

\* Only FNAME_OK is ahead of what the child sends, if anything.
Greeting == \A i \in DOMAIN toClient : toClient[i] = FnameOk /\ i = 1 /\ cstate = "FILENAME"

LEMMA SentInOrder ==
  ASSUME AnyInv, Greeting, NEW p \in ToClientPackets, SendToClient(p), cstate' = cstate,
         \/ p = FnameOk /\ toClient = <<>> /\ cstate = "FILENAME"
         \/ p \in Latest' /\ (Flippable(p) => Corrupt \in Latest')
  PROVE  InOrder(toClient)'
<1>1. toClient \in Seq(ToClientPackets) /\ Corrupt \in ToClientPackets
  BY PacketTypes DEF AnyInv, ChannelsInv
<1>2. ~Flippable(FnameOk)
  BY PacketFlags DEF Flippable
<1>3. \/ toClient' = <<>> \/ toClient' = toClient \/ toClient' = Append(toClient, p)
      \/ toClient' = Append(toClient, Corrupt) /\ Flippable(p)
  BY <1>1, TransmitMembers DEF SendToClient
<1>4. CASE toClient' = <<>>
  BY <1>4 DEF InOrder
<1>5. CASE toClient' = toClient
  BY <1>5 DEF InOrder, Greeting
<1>6. ASSUME NEW q \in ToClientPackets, toClient' = Append(toClient, q),
             q \in Latest' \/ (q = FnameOk /\ toClient = <<>> /\ cstate = "FILENAME")
      PROVE  InOrder(toClient)'
  <2>1. Len(toClient') = Len(toClient) + 1 /\ Len(toClient) \in Nat
    BY <1>1, <1>6
  <2> SUFFICES ASSUME NEW i \in 1..(Len(toClient) + 1)
               PROVE  \/ toClient'[i] = FnameOk /\ i = 1 /\ cstate' = "FILENAME"
                      \/ toClient'[i] \in Latest' /\ i = Len(toClient')
    BY <1>1, <1>6, <2>1 DEF InOrder
  <2>2. CASE i <= Len(toClient)
    <3>1. i \in DOMAIN toClient /\ toClient'[i] = toClient[i]
      BY <1>1, <1>6, <2>1, <2>2
    <3> QED
      BY <3>1 DEF Greeting
  <2>3. CASE i = Len(toClient) + 1
    <3>1. toClient'[i] = q
      BY <1>1, <1>6, <2>1, <2>3
    <3>2. toClient = <<>> => i = 1
      BY <2>3
    <3> QED
      BY <1>6, <2>1, <2>3, <3>1, <3>2
  <2> QED
    BY <2>1, <2>2, <2>3
<1> QED
  BY <1>1, <1>2, <1>3, <1>4, <1>5, <1>6

LEMMA RestInOrder ==
  ASSUME InTurn, AnyInv, InOrder(toClient), NEW a \in Arrivals(toClient), toClient' = a.rest,
         UNCHANGED serverVars
  PROVE  InOrder(toClient)'
<1>1. /\ a.rest \in Seq(ToClientPackets) /\ Len(a.rest) = Len(toClient) - 1
      /\ \A i \in 1..Len(a.rest) : a.rest[i] = toClient[i + 1]
      /\ Len(toClient) \in Nat /\ toClient \in Seq(ToClientPackets)
  BY FirstArrives DEF AnyInv, ChannelsInv
<1>2. Latest' = Latest
  BY DEF Latest, Outstanding, serverVars
<1> SUFFICES ASSUME NEW i \in 1..Len(a.rest)
             PROVE  a.rest[i] \in Latest /\ i = Len(a.rest)
  BY <1>1, <1>2 DEF InOrder
<1>3. i + 1 \in DOMAIN toClient /\ i + 1 # 1 /\ a.rest[i] = toClient[i + 1]
  BY <1>1
<1>4. toClient[i + 1] \in Latest /\ i + 1 = Len(toClient)
  BY <1>3 DEF InOrder
<1> QED
  BY <1>1, <1>3, <1>4

LEMMA LockStepServer ==
  ASSUME InTurn, AnyInv, LockStep, Server \/ ServerTimer
  PROVE  LockStep'
<1> USE DEF Outstanding
<1>1. /\ seqNum \in 1..(NPackets + 1) /\ expected \in 1..(NPackets + 1)
      /\ toServer \in Seq(ToServerPackets) /\ toClient \in Seq(ToClientPackets)
      /\ sstate # "DONE" => sended = "running"
  BY DEF AnyInv, TypeOK, ChannelsInv, ServerInv
<1>2. UNCHANGED <<cstate, expected>>
  BY DEF Server, ServerTimer, clientVars
<1>3. /\ toServer # <<>> => /\ Len(toServer) = 1 /\ toClient = <<>>
                            /\ sstate \in {"WAIT_ON_ACK", "SELECT"} /\ expected = seqNum
      /\ InOrder(toClient)
      /\ expected \in {seqNum - 1, seqNum}
      /\ expected = seqNum \/ Outstanding \/ sended = "gave_up"
      /\ cstate \in {"FILENAME", "FILE_OK"} => expected = 1 /\ toServer = <<>>
      /\ sstate = "FILENAME" => cstate = "FILENAME" /\ toClient = <<>> /\ seqNum = 1
      /\ sstate = "TIMEOUT_ON_ACK" => toClient = <<>>
  BY DEF LockStep, AckAnswersLast
<1>4. ASSUME UNCHANGED toClient, Latest' = Latest
      PROVE  InOrder(toClient)'
  BY <1>2, <1>3, <1>4 DEF InOrder
<1>5. toClient = <<>> => Greeting
  BY DEF Greeting
<1>6. CASE ServerFilename
  <2>1. /\ sstate = "FILENAME" /\ cstate = "FILENAME" /\ toClient = <<>> /\ toServer = <<>>
        /\ seqNum = 1 /\ expected = 1 /\ seqNum' = seqNum /\ toServer' = <<>>
    BY <1>3, <1>6 DEF ServerFilename, SendAndEnd, ServerEnd, CloseServer
  <2>2. CASE SendToClient(Control("FNAME_OK", 0)) /\ sstate' = "SEND_DATA" /\ sended' = sended
    <3>1. InOrder(toClient)'
      BY <1>2, <1>5, <2>1, <2>2, SentInOrder, PacketTypes DEF FnameOk
    <3> QED
      BY <1>2, <2>1, <2>2, <3>1 DEF LockStep, AckAnswersLast
  <2>3. CASE SendAndEnd(Control("FNAME_BAD", 0), "no_file")
    <3>1. SendToClient(FnameBad) /\ sstate' = "DONE" /\ sended' = "no_file"
      BY <2>3 DEF SendAndEnd, ServerEnd, FnameBad
    <3>2. FnameBad \in Latest' /\ ~Flippable(FnameBad)
      BY <3>1, PacketFlags DEF Latest, Flippable
    <3>3. InOrder(toClient)'
      BY <1>2, <1>5, <2>1, <3>1, <3>2, SentInOrder, PacketTypes
    <3> QED
      BY <1>2, <2>1, <3>1, <3>3 DEF LockStep, AckAnswersLast
  <2> QED
    BY <1>6, <2>2, <2>3 DEF ServerFilename
<1>7. CASE SendData
  <2>1. /\ sstate = "SEND_DATA" /\ sended = "running" /\ toServer = <<>> /\ expected = seqNum
        /\ toServer' = <<>>
    BY <1>1, <1>3, <1>7 DEF SendData, SendAndEnd, ServerEnd, CloseServer
  <2>2. Latest = {} /\ Greeting
    BY <1>1, <1>3, <2>1 DEF Latest, InOrder, Greeting
  <2>3. CASE /\ seqNum <= NPackets /\ SendToClient(DataPacket(seqNum, seqNum))
             /\ seqNum' = seqNum + 1 /\ sstate' = "WAIT_ON_ACK" /\ sended' = sended
    <3>1. DataPacket(seqNum, seqNum) \in ToClientPackets /\ seqNum' - 1 = seqNum
      BY <1>1, <2>3, PacketTypes
    <3>2. Latest' = {DataPacket(seqNum, seqNum), Corrupt}
      BY <2>3, <3>1 DEF Latest
    <3>3. InOrder(toClient)'
      BY <1>2, <2>2, <2>3, <3>1, <3>2, SentInOrder
    <3> QED
      BY <1>1, <1>2, <1>3, <2>1, <2>3, <3>1, <3>3 DEF LockStep, AckAnswersLast
  <2>4. CASE /\ seqNum > NPackets /\ seqNum' = seqNum
             /\ SendAndEnd(Control("END_OF_FILE", seqNum), "complete")
    <3>1. /\ SendToClient(Eof) /\ sstate' = "DONE" /\ sended' = "complete"
      <4>1. seqNum = NPackets + 1
        BY <1>1, <2>4
      <4> QED
        BY <2>4, <4>1 DEF SendAndEnd, ServerEnd, Eof
    <3>2. Latest' = {Eof, Corrupt}
      BY <3>1 DEF Latest
    <3>3. InOrder(toClient)'
      BY <1>2, <2>2, <3>1, <3>2, SentInOrder, PacketTypes
    <3> QED
      BY <1>2, <1>3, <2>1, <2>4, <3>1, <3>3 DEF LockStep, AckAnswersLast
  <2>5. CASE ServerEnd("read_error") /\ UNCHANGED <<seqNum, toClient>>
    <3>1. sstate' = "DONE" /\ sended' = "read_error" /\ Latest' = {}
      BY <2>5 DEF ServerEnd, Latest
    <3> QED
      BY <1>2, <1>3, <1>4, <2>1, <2>2, <2>5, <3>1 DEF LockStep, AckAnswersLast
  <2> QED
    BY <1>7, <2>3, <2>4, <2>5 DEF SendData
<1>8. CASE WaitOnAck
  <2>1. /\ sstate = "WAIT_ON_ACK" /\ UNCHANGED <<seqNum, toClient>>
        /\ \/ sstate' = "DONE" /\ sended' = "gave_up" /\ toServer' = <<>>
           \/ sstate' = "SELECT" /\ UNCHANGED <<sended, toServer>>
    BY <1>8 DEF WaitOnAck, ServerEnd, CloseServer
  <2>2. Latest' = Latest
    BY <2>1 DEF Latest
  <2> QED
    BY <1>2, <1>3, <1>4, <2>1, <2>2 DEF LockStep, AckAnswersLast
<1>9. CASE AckArrives
  <2>1. PICK a \in Arrivals(toServer) :
          /\ IF a.packet = Corrupt THEN sstate' = "WAIT_ON_ACK" /\ UNCHANGED sends
             ELSE sstate' = "SEND_DATA" /\ sends' = 0
          /\ toServer' = a.rest
    BY <1>9 DEF AckArrives
  <2>2. toServer # <<>> /\ toServer' = <<>>
    <3>1. toServer # <<>> /\ a.rest \in Seq(ToServerPackets) /\ Len(a.rest) = Len(toServer) - 1
      BY <1>1, FirstArrives
    <3>2. Len(a.rest) = 0
      BY <1>3, <3>1
    <3> QED
      BY <2>1, <3>1, <3>2
  <2>3. /\ toClient = <<>> /\ toClient' = <<>> /\ expected = seqNum /\ sstate = "SELECT"
        /\ sstate' \in {"WAIT_ON_ACK", "SEND_DATA"} /\ UNCHANGED <<seqNum, sended>>
        /\ cstate \notin {"FILENAME", "FILE_OK"}
    BY <1>3, <1>9, <2>1, <2>2 DEF AckArrives
  <2> QED
    BY <1>2, <2>2, <2>3 DEF LockStep, AckAnswersLast, InOrder
<1>10. CASE ServerTimer
  <2>1. /\ toClient = <<>> /\ toServer = <<>> /\ sstate = "SELECT" /\ sstate' = "TIMEOUT_ON_ACK"
        /\ UNCHANGED <<seqNum, sended, toClient, toServer>>
    BY <1>10 DEF ServerTimer, AckTimeout, Overdue, InTurn, channelVars
  <2> QED
    BY <1>2, <1>3, <2>1 DEF LockStep, AckAnswersLast, InOrder
<1>11. CASE TimeoutOnAck
  <2>1. /\ sstate = "TIMEOUT_ON_ACK" /\ sstate' = "WAIT_ON_ACK" /\ toClient = <<>>
        /\ toServer = <<>> /\ SendToClient(DataPacket(seqNum - 1, seqNum - 1))
        /\ UNCHANGED <<seqNum, sended, toServer>>
    BY <1>3, <1>11 DEF TimeoutOnAck
  <2>2. DataPacket(seqNum - 1, seqNum - 1) \in ToClientPackets
    <3>1. seqNum - 1 \in 1..NPackets
      BY <1>1, <2>1 DEF AnyInv, ServerInv
    <3> QED
      BY <3>1, PacketTypes
  <2>3. Latest' = {DataPacket(seqNum - 1, seqNum - 1), Corrupt}
    BY <2>1 DEF Latest
  <2>4. InOrder(toClient)'
    BY <1>2, <1>5, <2>1, <2>2, <2>3, SentInOrder
  <2> QED
    BY <1>2, <1>3, <2>1, <2>4 DEF LockStep, AckAnswersLast
<1> QED
  BY <1>6, <1>7, <1>8, <1>9, <1>10, <1>11 DEF Server

\* Only the child's last packet is there for an rcopy that got its answer.
LEMMA LatestArrives ==
  ASSUME InTurn, AnyInv, LockStep, NEW a \in Arrivals(toClient), cstate # "FILENAME"
  PROVE  a.packet \in Latest /\ a.rest = <<>> /\ toClient # <<>>
<1>1. /\ toClient # <<>> /\ a.packet = toClient[1] /\ Len(a.rest) = Len(toClient) - 1
      /\ a.rest \in Seq(ToClientPackets) /\ toClient \in Seq(ToClientPackets)
  BY FirstArrives DEF AnyInv, ChannelsInv
<1>2. 1 \in DOMAIN toClient
  BY <1>1
<1>3. toClient[1] \in Latest /\ 1 = Len(toClient)
  BY <1>2 DEF LockStep, InOrder
<1>4. Len(a.rest) = 0
  BY <1>1, <1>3
<1>5. a.rest = <<>>
  BY <1>1, <1>4
<1> QED
  BY <1>1, <1>3, <1>5

LEMMA LockStepClient ==
  ASSUME InTurn, AnyInv, LockStep, Client \/ ClientTimer
  PROVE  LockStep'
<1> USE DEF Outstanding
<1>1. /\ seqNum \in 1..(NPackets + 1) /\ expected \in 1..(NPackets + 1)
      /\ toServer \in Seq(ToServerPackets) /\ toClient \in Seq(ToClientPackets)
      /\ sended \in {"gave_up", "complete", "no_file"} => sstate = "DONE"
      /\ sstate = "DONE" <=> "server" \in closed
      /\ sstate = "DONE" => toServer = <<>>
  BY DEF AnyInv, TypeOK, ChannelsInv, ServerInv, ClosedInv
<1>2. /\ UNCHANGED <<sstate, seqNum, sended>> /\ Latest' = Latest
  BY DEF Client, ClientTimer, serverVars, Latest
<1>3. /\ toServer # <<>> => /\ Len(toServer) = 1 /\ toClient = <<>>
                            /\ sstate \in {"WAIT_ON_ACK", "SELECT"} /\ expected = seqNum
      /\ InOrder(toClient)
      /\ expected \in {seqNum - 1, seqNum}
      /\ expected = seqNum \/ Outstanding \/ sended = "gave_up"
      /\ cstate \in {"FILENAME", "FILE_OK"} => expected = 1 /\ toServer = <<>>
      /\ sstate = "FILENAME" => cstate = "FILENAME" /\ toClient = <<>> /\ seqNum = 1
      /\ sstate = "TIMEOUT_ON_ACK" => toClient = <<>>
  BY DEF LockStep, AckAnswersLast
\* The child answers FNAME before rcopy can do anything.
<1>4. sstate # "FILENAME"
  <2> SUFFICES ASSUME sstate = "FILENAME" PROVE FALSE
    OBVIOUS
  <2>1. cstate = "FILENAME" /\ toClient = <<>>
    BY <1>3
  <2>2. ~ClientFilename
    BY <1>1, <2>1, NothingArrives DEF ClientFilename
  <2>3. ~ClientTimer
    BY DEF ClientTimer, ServerIdle, InTurn
  <2> QED
    BY <2>1, <2>2, <2>3 DEF Client, FileOk, RecvData
\* The end of rcopy, or of its wait: nothing is on its way to it, nor back.
<1>5. ASSUME UNCHANGED expected, toClient' = <<>>, toServer' = <<>>,
             cstate' \in {"FILENAME", "FILE_OK"} => cstate \in {"FILENAME", "FILE_OK"}
      PROVE  LockStep'
  BY <1>2, <1>3, <1>4, <1>5 DEF LockStep, AckAnswersLast, InOrder
<1>6. CASE ClientFilename
  <2>1. PICK a \in Arrivals(toClient) :
          FilenameReturns(
            \/ a.packet = Corrupt /\ ClientEnd("abandoned")
            \/ a.packet.flag = "FNAME_BAD" /\ ClientEnd("no_file")
            \/ /\ a.packet # Corrupt /\ a.packet.flag # "FNAME_BAD"
               /\ cstate' = "FILE_OK" /\ Accept(a))
    BY <1>6 DEF ClientFilename
  <2>2. /\ UNCHANGED <<expected, toServer>> /\ cstate = "FILENAME" /\ toServer = <<>>
    BY <1>3, <1>6, <2>1 DEF FilenameReturns, ClientFilename
  <2>3. CASE toClient' = <<>> /\ cstate' = "DONE"
    BY <1>5, <2>2, <2>3
  <2>4. CASE cstate' = "FILE_OK" /\ Accept(a)
    <3>1. toClient' = a.rest /\ sstate # "TIMEOUT_ON_ACK"
      BY <1>1, <1>3, <2>4, NothingArrives DEF Accept
    <3>2. InOrder(toClient)'
      BY <1>3, <3>1, RestInOrder DEF Client, ClientTimer
    <3> QED
      BY <1>2, <1>3, <1>4, <2>2, <2>4, <3>1, <3>2 DEF LockStep, AckAnswersLast
  <2> QED
    BY <2>1, <2>3, <2>4 DEF FilenameReturns, ClientEnd, CloseClient
<1>7. CASE FileOk
  <2>1. cstate = "FILE_OK" /\ UNCHANGED <<expected, toServer>> /\ toServer = <<>>
    BY <1>3, <1>7 DEF FileOk
  <2>2. CASE ClientEnd("open_error")
    BY <1>5, <2>1, <2>2 DEF ClientEnd, CloseClient
  <2>3. CASE cstate' = "RECV_DATA" /\ UNCHANGED toClient
    BY <1>2, <1>3, <1>4, <2>1, <2>3 DEF LockStep, AckAnswersLast, InOrder
  <2> QED
    BY <1>7, <2>2, <2>3 DEF FileOk
<1>8. CASE ClientTimer
  <2>1. /\ toServer = <<>> /\ UNCHANGED <<expected, toServer>>
        /\ cstate' = "DONE" /\ toClient' = <<>>
    BY <1>8 DEF ClientTimer, ServerIdle, InTurn, ClientFilenameTimeout, RecvDataTimeout,
         FilenameReturns, ClientEnd, CloseClient
  <2> QED
    BY <1>5, <2>1
<1>9. CASE RecvData
  <2>1. PICK a \in Arrivals(toClient) :
          \/ /\ a.packet = Corrupt /\ Accept(a)
             /\ UNCHANGED <<cstate, expected, outfile, toServer>>
          \/ /\ a.packet.flag = "END_OF_FILE"
             /\ Acknowledge /\ ClientEnd("eof")
             /\ UNCHANGED <<expected, outfile>>
          \/ /\ a.packet # Corrupt /\ a.packet.flag # "END_OF_FILE"
             /\ Acknowledge /\ Write(a) /\ Accept(a)
             /\ UNCHANGED cstate
    BY <1>9 DEF RecvData
  <2>2. /\ cstate = "RECV_DATA" /\ cstate' \in {"RECV_DATA", "DONE"}
        /\ a.packet \in Latest /\ toClient' = <<>> /\ toClient # <<>>
    <3>1. cstate = "RECV_DATA" /\ a.packet \in Latest /\ a.rest = <<>> /\ toClient # <<>>
      BY <1>9, LatestArrives DEF RecvData
    <3> QED
      BY <2>1, <3>1 DEF Accept, ClientEnd, CloseClient
  <2>3. toServer = <<>> /\ sstate # "TIMEOUT_ON_ACK"
    BY <1>3, <2>2
  <2>4. CASE UNCHANGED <<expected, toServer>>
    BY <1>5, <2>2, <2>3, <2>4
  <2>5. ASSUME Acknowledge
        PROVE  toServer' = <<>> \/ Len(toServer') = 1
    <3>1. toServer' = <<>> \/ toServer' \in Transmit(toServer, Ack)
      BY <2>5 DEF Acknowledge, SendToServer
    <3>2. Corrupt \in ToServerPackets /\ Ack \in ToServerPackets
      BY PacketTypes
    <3>3. \/ toServer' = <<>> \/ toServer' = Append(<<>>, Ack)
          \/ toServer' = Append(<<>>, Corrupt)
      BY <1>1, <2>3, <3>1, <3>2, TransmitMembers
    <3>4. \A q : Len(Append(<<>>, q)) = 1
      OBVIOUS
    <3> QED
      BY <3>3, <3>4
  \* What the child sends when it waits, and is acknowledged, is its last chunk.
  <2>6. CASE a.packet.seq = seqNum - 1 /\ (Outstanding \/ sended = "gave_up") /\
             Acknowledge /\ Write(a)
    <3>1. expected' = seqNum
      <4>1. CASE expected = seqNum
        BY <1>1, <2>6, <4>1 DEF Write
      <4>2. CASE expected = seqNum - 1
        BY <1>1, <2>6, <4>2 DEF Write
      <4> QED
        BY <1>3, <4>1, <4>2
    <3>2. sstate = "DONE" => toServer' = <<>>
      BY <1>1, <2>6 DEF Acknowledge, SendToServer
    <3>3. toServer' # <<>> => Len(toServer') = 1 /\ sstate \in {"WAIT_ON_ACK", "SELECT"}
      <4>1. toServer' # <<>> => sstate \in {"WAIT_ON_ACK", "SELECT"}
        BY <1>1, <2>3, <2>6, <3>2
      <4>2. toServer' # <<>> => Len(toServer') = 1
        BY <2>5, <2>6
      <4> QED
        BY <4>1, <4>2
    <3> QED
      BY <1>2, <1>4, <2>2, <2>3, <3>1, <3>3 DEF LockStep, AckAnswersLast, InOrder
  <2>7. CASE sstate = "DONE" /\ Acknowledge /\ UNCHANGED expected
    <3>1. toServer' = <<>>
      BY <1>1, <2>7 DEF Acknowledge, SendToServer
    <3> QED
      BY <1>5, <2>2, <2>7, <3>1
  <2>8. CASE a.packet = DataPacket(seqNum - 1, seqNum - 1)
    <3>1. a.packet.seq = seqNum - 1 /\ a.packet.flag = "DATA" /\ a.packet # Corrupt
      BY <2>8, PacketFlags
    <3>2. Outstanding \/ sended = "gave_up"
      BY <2>2, <3>1, PacketFlags DEF Latest
    <3> QED
      BY <2>1, <2>6, <3>1, <3>2
  <2>9. CASE a.packet = Eof
    <3>1. a.packet.flag = "END_OF_FILE" /\ a.packet # Corrupt
      BY <2>9, PacketFlags
    <3>2. sended = "complete"
      BY <2>2, <3>1, PacketFlags DEF Latest
    <3> QED
      BY <1>1, <2>1, <2>7, <3>1, <3>2
  <2>10. CASE a.packet = FnameBad
    <3>1. a.packet.flag = "FNAME_BAD" /\ a.packet.seq = 0
      BY <2>10, PacketFlags
    <3>2. sended = "no_file"
      BY <2>2, <3>1, PacketFlags DEF Latest
    <3>3. a.packet # Corrupt
      BY <3>1, PacketFlags
    <3>4. UNCHANGED expected /\ Acknowledge
      BY <1>1, <2>1, <3>1, <3>3 DEF Write
    <3> QED
      BY <1>1, <2>7, <3>2, <3>4
  <2>11. CASE a.packet = Corrupt
    <3>1. a.packet.flag = "CRC_ERROR"
      BY <2>11, PacketFlags
    <3> QED
      BY <2>1, <2>4, <2>11, <3>1
  <2>12. a.packet \in {DataPacket(seqNum - 1, seqNum - 1), Corrupt, Eof, FnameBad}
    BY <2>2 DEF Latest
  <2> QED
    BY <2>8, <2>9, <2>10, <2>11, <2>12
<1> QED
  BY <1>6, <1>7, <1>8, <1>9 DEF Client

LEMMA LockStepStep ==
  ASSUME InTurn
  PROVE  AnyInv /\ LockStep /\ [Next]_vars => LockStep'
<1> SUFFICES ASSUME AnyInv, LockStep, [Next]_vars PROVE LockStep'
  OBVIOUS
<1>1. CASE UNCHANGED vars
  BY <1>1 DEF vars, channelVars, serverVars, clientVars, LockStep, AckAnswersLast, InOrder,
       Latest, Outstanding
<1> QED
  BY <1>1, LockStepServer, LockStepClient DEF Next, Ended

LEMMA LockStepInvariance ==
  ASSUME InTurn
  PROVE  Spec => [](AnyInv /\ LockStep)
BY AnyInit, AnyStep, LockStepInit, LockStepStep, PTL DEF Spec

(* As long as no packet is late, repeated or overtaken, the ACK under way,  *)
(* which has no number, answers the chunk the child waits on.               *)
THEOREM AcksInStep ==
  ASSUME InTurn
  PROVE  Spec => []AckAnswersLast
<1>1. LockStep => AckAnswersLast
  BY DEF LockStep
<1> QED
  BY <1>1, LockStepInvariance, PTL

-----------------------------------------------------------------------------
(* The refinement.  The abstract acknowledgements follow the child's state. *)
Acked ==
  IF Outstanding \/ sended = "gave_up" THEN seqNum - 2 ELSE seqNum - 1

LEMMA TransferInit == Init => Transfer!TransferInit
BY DEF Init, Transfer!TransferInit

LEMMA TransferServer ==
  ASSUME InTurn, AnyInv, LockStep, Server \/ ServerTimer
  PROVE  [Transfer!TransferNext]_(Transfer!transferVars)
<1> USE DEF Outstanding
<1>1. /\ seqNum \in 1..(NPackets + 1) /\ expected \in 1..(NPackets + 1)
      /\ sstate # "DONE" => sended = "running"
      /\ Len(outfile) = expected - 1
  BY DEF AnyInv, TypeOK, ServerInv, ClientInv
<1>2. UNCHANGED <<outfile, cended>>
  BY DEF Server, ServerTimer, clientVars
<1>3. ASSUME seqNum' = seqNum, Acked' = Acked
      PROVE  UNCHANGED Transfer!transferVars
  BY <1>2, <1>3 DEF Transfer!transferVars, Acked, Outstanding
<1>4. CASE ServerFilename
  <2>1. seqNum' = seqNum /\ Acked' = Acked
    BY <1>1, <1>4 DEF ServerFilename, SendAndEnd, ServerEnd, Acked
  <2> QED
    BY <1>3, <2>1
<1>5. CASE SendData
  <2>1. sstate = "SEND_DATA" /\ sended = "running" /\ Acked = seqNum - 1
    BY <1>1, <1>5 DEF SendData, Acked
  <2>2. CASE seqNum <= NPackets /\ seqNum' = seqNum + 1 /\ sstate' = "WAIT_ON_ACK"
    <3>1. Acked' = seqNum - 1 /\ seqNum' - 1 = (seqNum - 1) + 1
      BY <1>1, <2>2 DEF Acked
    <3>2. Transfer!Release
      BY <1>1, <1>2, <2>1, <2>2, <3>1 DEF Transfer!Release, Acked
    <3> QED
      BY <3>2 DEF Transfer!TransferNext
  <2>3. CASE seqNum' = seqNum /\ sstate' = "DONE" /\ sended' \in {"complete", "read_error"}
    BY <1>3, <2>1, <2>3 DEF Acked
  <2> QED
    BY <1>5, <2>2, <2>3 DEF SendData, SendAndEnd, ServerEnd
<1>6. CASE WaitOnAck
  <2>1. seqNum' = seqNum /\ Acked' = Acked
    BY <1>6 DEF WaitOnAck, ServerEnd, Acked
  <2> QED
    BY <1>3, <2>1
<1>7. CASE AckArrives
  <2>1. /\ sstate = "SELECT" /\ sstate' \in {"WAIT_ON_ACK", "SEND_DATA"} /\ toServer # <<>>
        /\ UNCHANGED <<seqNum, sended>> /\ sended = "running"
    BY <1>1, <1>7, NothingArrives DEF AckArrives, AnyInv, ChannelsInv
  <2>2. CASE sstate' = "WAIT_ON_ACK"
    BY <1>3, <2>1, <2>2 DEF Acked
  <2>3. CASE sstate' = "SEND_DATA"
    <3>1. Acked = seqNum - 2 /\ Acked' = seqNum - 1 /\ Len(outfile) = seqNum - 1
      BY <1>1, <2>1, <2>3 DEF Acked, LockStep, AckAnswersLast
    <3>2. Acked' \in Acked..Len(outfile)
      BY <1>1, <3>1
    <3>3. Transfer!Acknowledge
      BY <1>2, <2>1, <3>2 DEF Transfer!Acknowledge, Acked
    <3> QED
      BY <3>3 DEF Transfer!TransferNext
  <2> QED
    BY <2>1, <2>2, <2>3
<1>8. CASE ServerTimer \/ TimeoutOnAck
  <2>1. seqNum' = seqNum /\ Acked' = Acked
    BY <1>8 DEF ServerTimer, AckTimeout, TimeoutOnAck, Acked
  <2> QED
    BY <1>3, <2>1
<1> QED
  BY <1>4, <1>5, <1>6, <1>7, <1>8 DEF Server

LEMMA TransferClient ==
  ASSUME InTurn, AnyInv, LockStep, Client \/ ClientTimer
  PROVE  [Transfer!TransferNext]_(Transfer!transferVars)
<1>1. /\ seqNum \in 1..(NPackets + 1) /\ expected \in 1..(NPackets + 1)
      /\ cstate # "DONE" => cended = "running"
      /\ Len(outfile) = expected - 1 /\ outfile \in Seq(1..NPackets)
      /\ sended = "complete" => seqNum = NPackets + 1 /\ sstate = "DONE"
      /\ expected = seqNum \/ Outstanding \/ sended = "gave_up"
  BY DEF AnyInv, TypeOK, ClientInv, ServerInv, LockStep
<1>2. seqNum' = seqNum /\ Acked' = Acked
  BY DEF Client, ClientTimer, serverVars, Acked, Outstanding
<1>3. ASSUME UNCHANGED outfile, (cended' = "eof") = (cended = "eof")
      PROVE  UNCHANGED Transfer!transferVars
  BY <1>2, <1>3 DEF Transfer!transferVars, Acked, Outstanding
<1>4. CASE ClientFilename \/ FileOk
  <2>1. UNCHANGED outfile /\ cended = "running" /\ cended' # "eof"
    BY <1>1, <1>4 DEF ClientFilename, FileOk, FilenameReturns, ClientEnd, Accept
  <2> QED
    BY <1>3, <2>1
<1>5. CASE ClientTimer
  <2>1. UNCHANGED outfile /\ cended = "running" /\ cended' # "eof"
    BY <1>1, <1>5 DEF ClientTimer, ClientFilenameTimeout, RecvDataTimeout, FilenameReturns,
         ClientEnd
  <2> QED
    BY <1>3, <2>1
<1>6. CASE RecvData
  <2>1. PICK a \in Arrivals(toClient) :
          \/ /\ a.packet = Corrupt /\ Accept(a)
             /\ UNCHANGED <<cstate, expected, outfile, toServer>>
          \/ /\ a.packet.flag = "END_OF_FILE"
             /\ Acknowledge /\ ClientEnd("eof")
             /\ UNCHANGED <<expected, outfile>>
          \/ /\ a.packet # Corrupt /\ a.packet.flag # "END_OF_FILE"
             /\ Acknowledge /\ Write(a) /\ Accept(a)
             /\ UNCHANGED cstate
    BY <1>6 DEF RecvData
  <2>2. a.packet \in Latest /\ cended = "running"
    BY <1>1, <1>6, LatestArrives DEF RecvData
  <2>3. CASE UNCHANGED <<outfile, cended>>
    BY <1>3, <2>3
  <2>4. CASE a.packet.flag = "END_OF_FILE" /\ ClientEnd("eof") /\ UNCHANGED outfile
    <3>1. sended = "complete" /\ ~Outstanding
      BY <2>2, <2>4, PacketFlags DEF Latest
    <3>2. Len(outfile) = NPackets /\ Acked = NPackets /\ cended' = "eof"
      BY <1>1, <2>4, <3>1 DEF Acked, ClientEnd
    <3>3. Transfer!Complete
      BY <1>2, <2>4, <3>2 DEF Transfer!Complete, Acked, Outstanding
    <3> QED
      BY <3>3 DEF Transfer!TransferNext
  <2>5. CASE /\ a.packet.flag # "END_OF_FILE" /\ a.packet.seq = expected
             /\ Write(a) /\ UNCHANGED cended
    <3>1. a.packet = DataPacket(seqNum - 1, seqNum - 1)
      <4>1. a.packet.seq = expected /\ expected # 0
        BY <1>1, <2>5
      <4>2. a.packet # FnameBad /\ a.packet # Corrupt
        BY <4>1, PacketFlags DEF Corrupt
      <4>3. a.packet # Eof
        BY <2>5, PacketFlags
      <4> QED
        BY <2>2, <4>2, <4>3 DEF Latest
    <3>2. outfile' = Append(outfile, seqNum - 1) /\ expected = seqNum - 1
      BY <2>5, <3>1, PacketFlags DEF Write
    <3>3. Len(outfile) + 1 = seqNum - 1 /\ Len(outfile) \in Nat
      BY <1>1, <3>2
    <3>4. outfile' = outfile \o [i \in 1..((seqNum - 1) - Len(outfile)) |-> Len(outfile) + i]
      BY <1>1, <3>2, <3>3
    <3>5. seqNum - 1 \in Len(outfile)..(seqNum - 1)
      BY <3>3
    <3>6. Transfer!Deliver
      BY <1>2, <2>2, <2>5, <3>4, <3>5 DEF Transfer!Deliver, Acked, Outstanding
    <3> QED
      BY <3>6 DEF Transfer!TransferNext
  <2> QED
    BY <2>1, <2>3, <2>4, <2>5 DEF Accept, Write
<1> QED
  BY <1>4, <1>5, <1>6 DEF Client

LEMMA TransferStep ==
  ASSUME InTurn
  PROVE  AnyInv /\ LockStep /\ [Next]_vars
           => [Transfer!TransferNext]_(Transfer!transferVars)
<1> SUFFICES ASSUME AnyInv, LockStep, [Next]_vars
             PROVE  [Transfer!TransferNext]_(Transfer!transferVars)
  OBVIOUS
<1>1. CASE UNCHANGED vars
  BY <1>1 DEF vars, channelVars, serverVars, clientVars, Transfer!transferVars
<1> QED
  BY <1>1, TransferServer, TransferClient DEF Next, Ended

(* As long as no packet is late, repeated or overtaken, the chunks of the   *)
(* file are written in order and once, the child takes none for             *)
(* acknowledged that is not written, and END_OF_FILE ends a complete file.  *)
THEOREM TransferCorrect ==
  ASSUME InTurn
  PROVE  Spec => TransfersInOrder
BY TransferInit, TransferStep, LockStepInvariance, PTL
   DEF Spec, TransfersInOrder, Transfer!TransferSpec

=============================================================================
