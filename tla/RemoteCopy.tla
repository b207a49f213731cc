----------------------------- MODULE RemoteCopy -----------------------------
(***************************************************************************)
(* One connection of the remote file copy: rcopy (FileClient) and the child *)
(* the server forked for its FNAME packet (FileServer) over their two       *)
(* sockets (PacketChannel).                                                 *)
(***************************************************************************)
EXTENDS FileServer, FileClient

vars == <<channelVars, serverVars, clientVars>>

Init == ChannelInit /\ ServerInit /\ ClientInit

(* Without "delay" the network and the processes are fast against the one-  *)
(* and ten-second timers: a timer runs out only when nothing else can       *)
(* happen, and the client's long one only once the server sends no more.    *)
ServerIdle == sstate \in {"WAIT_ON_ACK", "BYE_WAIT", "DONE"} /\ toServer = <<>>

ClientIdle == cstate # "FILE_OK" /\ toClient = <<>>

Server == ServerStep /\ UNCHANGED clientVars

ServerTimer ==
  /\ "delay" \notin Faults => ClientIdle
  /\ ServerTimeout /\ UNCHANGED clientVars

Client == ClientStep /\ UNCHANGED serverVars

ClientTimer ==
  /\ "delay" \notin Faults =>
       ServerIdle /\ (cstate # "FILENAME" => sstate = "DONE")
  /\ ClientTimeout /\ UNCHANGED serverVars

\* Both processes are gone: the system stops here.
Ended == sstate = "DONE" /\ cstate = "DONE" /\ UNCHANGED vars

Next == Server \/ ServerTimer \/ Client \/ ClientTimer \/ Ended

Spec == Init /\ [][Next]_vars

(* A process that can run does, and a select() with a timeout returns.      *)
Fairness ==
  /\ WF_vars(Server) /\ WF_vars(ServerTimer)
  /\ WF_vars(Client) /\ WF_vars(ClientTimer)

FairSpec == Spec /\ Fairness

-----------------------------------------------------------------------------
\* Every variable has the type the code gives it.
TypeOK ==
  /\ toClient \in Seq(Packets) /\ toServer \in Seq(Packets)
  /\ closed \subseteq {"client", "server"}
  /\ sstate \in ServerStates /\ swin \in Windows /\ eofIndex \in Nat
  /\ pos \in Nat /\ nudges \in 0..MaxRetries /\ byes \in 0..(MaxRetries + 1)
  /\ sstate # "DONE" => byes <= MaxRetries
  /\ sended \in ServerEnds \cup {"running"}
  /\ cstate \in ClientStates /\ selects \in Nat /\ cwin \in Windows
  /\ outfile \in Seq([chunk : 0..NPackets, len : Lengths])
  /\ cended \in ClientEnds \cup {"running"}

(* What rcopy has written is a prefix of the source file: no chunk missing, *)
(* repeated, or out of place, whatever was lost, corrupted or retransmitted.*)
OutputIsPrefix == \A i \in DOMAIN outfile : outfile[i].chunk = i

(* rcopy reports the end of the file only with all of it written: neither   *)
(* END_OF_FILE handler of rcopy.c compares it with what is still missing.   *)
EofMeansComplete == cended = "eof" => Len(outfile) = NPackets

(* The sender never believes more acknowledged than the receiver wrote, the *)
(* receiver wrote no more than was sent, no more is outstanding than the    *)
(* window holds, and the chunk read() returns next is the one numbered next.*)
WindowsAligned ==
  /\ pos = swin.middle
  /\ swin.bottom <= cwin.bottom
  /\ cwin.bottom <= swin.middle
  /\ swin.middle <= swin.top + 1

(* recv_data()'s "out of window packet" exit is never taken: what the       *)
(* sender may send always fits the receiver's window.                       *)
NeverOutOfWindow == cended # "out_of_window"

(* Everything sent and not acknowledged is in the ring, in the slot a SREJ  *)
(* or a nudge will look in: the wrap-around never overwrites it.            *)
UnackedBuffered ==
  \A seq \in swin.bottom..(swin.middle - 1) :
    GetFromBuffer(swin, seq) = DataPacket(seq, seq)

(* No acknowledgement in flight covers a chunk rcopy has not written.       *)
AckedIsWritten ==
  \A p \in ToSet(toServer) :
    p.flag = "RR" => p.seq <= Len(outfile) + (IF cended = "eof" THEN 2 ELSE 1)

(* recv_data() never looks at the buffer, so nothing may be left in it when *)
(* missing() returns there; what missing() keeps is the right chunk.        *)
ReceiverBufferSound ==
  \A seq \in cwin.bottom..cwin.top :
    IsValid(cwin, seq) =>
      cstate # "RECV_DATA" /\ GetFromBuffer(cwin, seq).chunk = seq

(* A child that ends by the END_OF_FILE handshake served a complete copy.   *)
HandshakeMeansComplete ==
  sended = "handshake" => cended = "eof" /\ Len(outfile) = NPackets

(* A child is killed by its own send, of the size 0 of a slot nothing was   *)
(* stored in, only when a SREJ asks for a packet it has not sent yet, as    *)
(* the answer to a corrupt nudge does; for a file of at least a window it   *)
(* is never killed by a nudge, whatever is lost or late.                    *)
ServerSurvives ==
  [][sended' = "exit" /\ sended # "exit" =>
       \E p \in ToSet(toServer) : p.flag = "SREJ" /\ p.seq >= swin.middle]_vars

-----------------------------------------------------------------------------
(* The protocol implements the abstract transfer.                           *)
Transfer == INSTANCE WindowedTransfer WITH
  Chunks <- NPackets, Width <- WindowSize,
  sent <- swin.middle - 1,
  output <- [i \in DOMAIN outfile |-> outfile[i].chunk],
  acked <- swin.bottom - 1,
  received <- cended = "eof",
  confirmed <- sended = "handshake"

TransfersInOrder == Transfer!TransferSpec

-----------------------------------------------------------------------------
BothEnded == sstate = "DONE" /\ cstate = "DONE"

(* Both processes end, unless corrupt packets arrive without end: each one  *)
(* resets the counts of wait_on_ack() and bye().                            *)
EndsUnlessCorrupted ==
  []<>(\E ch \in {toClient, toServer} : \E i \in DOMAIN ch : ch[i] = Corrupt)
    \/ <>BothEnded

(* A file of at least a window over a network that loses nothing: the copy *)
(* is complete and both ends know it - unless main() threw the answer to    *)
(* its last attempt away.                                                   *)
Completes ==
  <>[](\/ cended = "unreachable"
       \/ cended = "eof" /\ sended = "handshake" /\ Len(outfile) = NPackets)

-----------------------------------------------------------------------------
(* What a test says, and the code does not do.                               *)

(* testRandError.sh:120 compares the output with the source: after a        *)
(* transfer that ended with END_OF_FILE they are the same, byte for byte.   *)
OutputMatchesSource ==
  cended = "eof" =>
    outfile = [c \in 1..NPackets |-> [chunk |-> c, len |-> LengthOf(c)]]

=============================================================================
