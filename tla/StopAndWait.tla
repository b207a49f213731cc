----------------------------- MODULE StopAndWait -----------------------------
(***************************************************************************)
(* The file copy the sliding-window one started from                        *)
(* (Program3/RemoteCopy/original): one packet at a time, repeated until an  *)
(* ACK arrives.  An ACK carries no number.  One connection, from the moment *)
(* its FNAME packet is with the server's parent, with a buffer size of at   *)
(* most 992: rcopy's first recv_buf() cuts a longer packet.                 *)
(***************************************************************************)
EXTENDS PacketChannel

CONSTANTS
  MaxSends,    \* 5 in the code: the child gives up when its count is above
  MaxSelects   \* 9 in the code: rcopy gives up when its count is above

ASSUME MaxSendsAssumption == MaxSends \in Nat
ASSUME MaxSelectsAssumption == MaxSelects \in Nat

VARIABLES
  sstate,      \* process_client()'s state; SELECT is wait_on_ack() in its select
  seqNum,      \* seq_num, and the next chunk read() returns
  sends,       \* the static send_count of wait_on_ack()
  sended,      \* history: why the child ended
  cstate,      \* rcopy's state
  selects,     \* rcopy's select_count: the attempts before this connection's
  expected,    \* the static expected_seq_num of recv_data()
  outfile,     \* the chunks written
  cended       \* history: why the connection ended at this end

serverVars == <<sstate, seqNum, sends, sended>>
clientVars == <<cstate, selects, expected, outfile, cended>>
vars == <<channelVars, serverVars, clientVars>>

Ack == Control("ACK", 0)

Init ==
  /\ ChannelInit
  /\ sstate = "FILENAME" /\ seqNum = 1 /\ sends = 0 /\ sended = "running"
  /\ cstate = "FILENAME" /\ selects \in 0..MaxSelects
  /\ expected = 1 /\ outfile = <<>> /\ cended = "running"

-----------------------------------------------------------------------------
(* The server's child.                                                      *)

ServerEnd(why) == sstate' = "DONE" /\ sended' = why /\ CloseServer

\* A last packet goes out, and the process with its socket is gone.
SendAndEnd(p, why) == SendToClient(p) /\ ServerEnd(why)

ServerFilename ==
  /\ sstate = "FILENAME"
  /\ \/ /\ SendToClient(Control("FNAME_OK", 0)) /\ sstate' = "SEND_DATA"
        /\ UNCHANGED <<sended, toServer, closed>>
     \/ "io" \in Faults /\ SendAndEnd(Control("FNAME_BAD", 0), "no_file")
  /\ UNCHANGED <<seqNum, sends>>

\* END_OF_FILE is sent once and not waited for.
SendData ==
  /\ sstate = "SEND_DATA"
  /\ \/ /\ seqNum <= NPackets
        /\ SendToClient(DataPacket(seqNum, seqNum))
        /\ seqNum' = seqNum + 1 /\ sstate' = "WAIT_ON_ACK"
        /\ UNCHANGED <<sended, toServer, closed>>
     \/ /\ seqNum > NPackets
        /\ SendAndEnd(Control("END_OF_FILE", seqNum), "complete") /\ UNCHANGED seqNum
     \/ "io" \in Faults /\ ServerEnd("read_error") /\ UNCHANGED <<seqNum, toClient>>
  /\ UNCHANGED sends

\* Mutant: the waits are not counted.
WaitOnAckUncounted ==
  /\ sstate = "WAIT_ON_ACK" /\ sstate' = "SELECT"
  /\ UNCHANGED <<seqNum, sends, sended, channelVars>>

\* wait_on_ack() up to its select(1).
WaitOnAck ==
  /\ sstate = "WAIT_ON_ACK"
  /\ sends' = sends + 1
  /\ IF sends + 1 > MaxSends THEN ServerEnd("gave_up")
     ELSE sstate' = "SELECT" /\ UNCHANGED <<sended, toServer, closed>>
  /\ UNCHANGED <<seqNum, toClient>>

\* A corrupt packet uses up one of the waits; any ACK is good.
AckArrives ==
  /\ sstate = "SELECT"
  /\ \E a \in Arrivals(toServer) :
       /\ IF a.packet = Corrupt THEN sstate' = "WAIT_ON_ACK" /\ UNCHANGED sends
          ELSE sstate' = "SEND_DATA" /\ sends' = 0
       /\ toServer' = a.rest
  /\ UNCHANGED <<seqNum, sended, toClient, closed>>

AckTimeout ==
  /\ sstate = "SELECT" /\ Overdue(toServer)
  /\ sstate' = "TIMEOUT_ON_ACK"
  /\ UNCHANGED <<seqNum, sends, sended, channelVars>>

TimeoutOnAck ==
  /\ sstate = "TIMEOUT_ON_ACK"
  /\ SendToClient(DataPacket(seqNum - 1, seqNum - 1))
  /\ sstate' = "WAIT_ON_ACK"
  /\ UNCHANGED <<seqNum, sends, sended, toServer, closed>>

-----------------------------------------------------------------------------
(* rcopy.                                                                   *)

ClientEnd(why) == cstate' = "DONE" /\ cended' = why /\ CloseClient

Accept(a) == toClient' = a.rest /\ UNCHANGED <<closed, cended>>

\* main() after filename(): an attempt that failed is repeated from a new
\* socket, and the count of attempts overrides whatever it returned.
FilenameReturns(outcome) ==
  /\ selects' = selects + 1
  /\ IF selects + 1 > MaxSelects THEN ClientEnd("unreachable") ELSE outcome
  /\ UNCHANGED <<expected, outfile, toServer>>

\* A packet that is neither corrupt nor FNAME_BAD is a success: when FNAME_OK
\* was lost, this is the first chunk, which is not acknowledged.
ClientFilename ==
  /\ cstate = "FILENAME"
  /\ \E a \in Arrivals(toClient) :
       FilenameReturns(
         \/ a.packet = Corrupt /\ ClientEnd("abandoned")
         \/ a.packet.flag = "FNAME_BAD" /\ ClientEnd("no_file")
         \/ /\ a.packet # Corrupt /\ a.packet.flag # "FNAME_BAD"
            /\ cstate' = "FILE_OK" /\ Accept(a))

ClientFilenameTimeout ==
  /\ cstate = "FILENAME" /\ Overdue(toClient)
  /\ FilenameReturns(ClientEnd("abandoned"))

FileOk ==
  /\ cstate = "FILE_OK"
  /\ \/ cstate' = "RECV_DATA" /\ UNCHANGED <<cended, toClient, closed>>
     \/ "io" \in Faults /\ ClientEnd("open_error")
  /\ selects' = 0
  /\ UNCHANGED <<expected, outfile, toServer>>

\* Mutant: every chunk that arrives is written.
WriteAlways(a) ==
  expected' = expected + 1 /\ outfile' = Append(outfile, a.packet.chunk)

\* Only the chunk that is expected is written.
Write(a) ==
  IF a.packet.seq = expected
  THEN expected' = expected + 1 /\ outfile' = Append(outfile, a.packet.chunk)
  ELSE UNCHANGED <<expected, outfile>>

\* All that is not corrupt is acknowledged, before it is looked at.
Acknowledge == SendToServer(Ack)

RecvData ==
  /\ cstate = "RECV_DATA"
  /\ \E a \in Arrivals(toClient) :
       \/ /\ a.packet = Corrupt /\ Accept(a)
          /\ UNCHANGED <<cstate, expected, outfile, toServer>>
       \/ /\ a.packet.flag = "END_OF_FILE"
          /\ Acknowledge /\ ClientEnd("eof")
          /\ UNCHANGED <<expected, outfile>>
       \/ /\ a.packet # Corrupt /\ a.packet.flag # "END_OF_FILE"
          /\ Acknowledge /\ Write(a) /\ Accept(a)
          /\ UNCHANGED cstate
  /\ UNCHANGED selects

RecvDataTimeout ==
  /\ cstate = "RECV_DATA" /\ Overdue(toClient)
  /\ ClientEnd("silence")
  /\ UNCHANGED <<selects, expected, outfile, toServer>>

-----------------------------------------------------------------------------
(* Without "delay" a timer runs out only when nothing else can happen, the  *)
(* client's ten seconds only once the child is gone.                        *)

Server ==
  /\ ServerFilename \/ SendData \/ WaitOnAck \/ AckArrives \/ TimeoutOnAck
  /\ UNCHANGED clientVars

ServerTimer ==
  /\ "delay" \notin Faults => cstate # "FILE_OK" /\ toClient = <<>>
  /\ AckTimeout /\ UNCHANGED clientVars

Client ==
  /\ ClientFilename \/ FileOk \/ RecvData
  /\ UNCHANGED serverVars

ServerIdle == sstate \in {"SELECT", "DONE"} /\ toServer = <<>>

ClientTimer ==
  /\ "delay" \notin Faults => ServerIdle /\ (cstate = "RECV_DATA" => sstate = "DONE")
  /\ ClientFilenameTimeout \/ RecvDataTimeout
  /\ UNCHANGED serverVars

Ended == sstate = "DONE" /\ cstate = "DONE" /\ UNCHANGED vars

Next == Server \/ ServerTimer \/ Client \/ ClientTimer \/ Ended

Spec == Init /\ [][Next]_vars

FairSpec ==
  Spec /\ WF_vars(Server) /\ WF_vars(ServerTimer) /\ WF_vars(Client) /\ WF_vars(ClientTimer)

-----------------------------------------------------------------------------
Datagrams ==
  [flag : {"FNAME_OK", "FNAME_BAD", "DATA", "END_OF_FILE", "ACK", "CRC_ERROR"},
   seq : 0..(NPackets + 1), chunk : 0..NPackets]

TypeOK ==
  /\ toClient \in Seq(Datagrams) /\ toServer \in Seq(Datagrams)
  /\ closed \subseteq {"client", "server"}
  /\ sstate \in {"FILENAME", "SEND_DATA", "WAIT_ON_ACK", "SELECT", "TIMEOUT_ON_ACK", "DONE"}
  /\ seqNum \in 1..(NPackets + 1) /\ sends \in 0..(MaxSends + 1)
  /\ sended \in {"running", "no_file", "read_error", "gave_up", "complete"}
  /\ cstate \in {"FILENAME", "FILE_OK", "RECV_DATA", "DONE"}
  /\ selects \in 0..(MaxSelects + 1) /\ expected \in 1..(NPackets + 1)
  /\ outfile \in Seq(1..NPackets)
  /\ cended \in {"running", "abandoned", "unreachable", "no_file", "open_error", "silence", "eof"}

(* The protocol implements the transfer with a window of one chunk, as long *)
(* as no packet is so late that its timer has run out: chunks are written   *)
(* in order and once, none is taken for acknowledged that is not written,   *)
(* and END_OF_FILE ends a complete file.                                    *)
Transfer == INSTANCE WindowedTransfer WITH
  Chunks <- NPackets, Width <- 1,
  sent <- seqNum - 1,
  output <- outfile,
  acked <- IF sstate \in {"WAIT_ON_ACK", "SELECT", "TIMEOUT_ON_ACK"} \/ sended = "gave_up"
           THEN seqNum - 2 ELSE seqNum - 1,
  received <- cended = "eof",
  confirmed <- FALSE

TransfersInOrder == Transfer!TransferSpec

(* An ACK has no number, but the one under way answers the chunk the child  *)
(* waits on, and that chunk is written: each end has at most one packet on  *)
(* its way to the other, and they take turns.                               *)
AckAnswersLast ==
  toServer # <<>> =>
    /\ Len(toServer) = 1 /\ toClient = <<>>
    /\ sstate \in {"WAIT_ON_ACK", "SELECT"} /\ expected = seqNum

(* Both processes end, whatever is lost or damaged: the child repeats a     *)
(* packet a limited number of times, and rcopy does not outlive its silence.*)
BothEnd == <>(sstate = "DONE" /\ cstate = "DONE")

=============================================================================
