----------------------------- MODULE FileServer -----------------------------
(***************************************************************************)
(* The child process the server forks for one FNAME packet: process_client *)
(* and the state functions it calls (Program3/RemoteCopy/server.c).  One    *)
(* action per state function, cut where the function blocks in select():    *)
(* POLL is send_data() between its send and its select(0), BYE_WAIT is      *)
(* bye() in its select(1).                                                  *)
(***************************************************************************)
EXTENDS Window, PacketChannel

CONSTANTS
  EofGarbage,   \* what the uninitialised local eof_index may hold, if not negative
  MaxRetries    \* 10 in the code: the nudges, or END_OF_FILEs, in a row

ASSUME EofGarbageAssumption == EofGarbage \subseteq Nat /\ EofGarbage # {}
ASSUME MaxRetriesAssumption == MaxRetries \in Nat \ {0}

VARIABLES
  sstate,     \* process_client's state
  swin,       \* the sender's window
  eofIndex,   \* eof_index: the sequence number END_OF_FILE will carry
  pos,        \* the next chunk read() returns, 1 at the start of the file
  nudges,     \* the static send_count of wait_on_ack()
  byes,       \* the static send_count of bye()
  sended      \* history: why the child ended

serverVars == <<sstate, swin, eofIndex, pos, nudges, byes, sended>>

ServerStates == {"FILENAME", "SEND_DATA", "POLL", "PROCESS", "WAIT_ON_ACK",
                 "BYE", "BYE_WAIT", "DONE"}

ServerEnds == {"no_file", "read_error", "gave_up", "handshake", "exit"}

ServerInit ==
  /\ sstate = "FILENAME" /\ swin = InitWindow /\ eofIndex \in EofGarbage
  /\ pos = 1 /\ nudges = 0 /\ byes = 0 /\ sended = "running"

\* The child leaves process_client, or sendtoErr() exits it; its socket closes.
ServerEnd(why) == sstate' = "DONE" /\ sended' = why /\ CloseServer

(* filename(): open the source file and answer.  The FNAME packet itself   *)
(* was received by the parent before the fork.                             *)
ServerFilename ==
  /\ sstate = "FILENAME"
  /\ \/ /\ SendToClient(Control("FNAME_OK", 0))
        /\ sstate' = "SEND_DATA"
        /\ UNCHANGED <<sended, toServer, closed>>
     \/ /\ "io" \in Faults
        /\ toClient' \in IF "client" \in closed THEN {<<>>}
                         ELSE Transmit(toClient, Control("FNAME_BAD", 0))
        /\ ServerEnd("no_file")
  /\ UNCHANGED <<swin, eofIndex, pos, nudges, byes>>

SendDataClosed ==
  /\ sstate = "SEND_DATA" /\ IsClosed(swin)
  /\ sstate' = "WAIT_ON_ACK"
  /\ UNCHANGED <<swin, eofIndex, pos, nudges, byes, sended, channelVars>>

\* read() returns 0: only now does eof_index get its value.
SendDataEof ==
  /\ sstate = "SEND_DATA" /\ ~IsClosed(swin) /\ pos > NPackets
  /\ eofIndex' = swin.middle
  /\ sstate' = "WAIT_ON_ACK"
  /\ UNCHANGED <<swin, pos, nudges, byes, sended, channelVars>>

SendDataReadError ==
  /\ sstate = "SEND_DATA" /\ ~IsClosed(swin) /\ "io" \in Faults
  /\ ServerEnd("read_error")
  /\ UNCHANGED <<swin, eofIndex, pos, nudges, byes, toClient>>

\* Mutant: the packet is sent and not kept.
SendDataPacketUnbuffered ==
  /\ sstate = "SEND_DATA" /\ ~IsClosed(swin) /\ pos <= NPackets
  /\ SendToClient(DataPacket(swin.middle, pos))
  /\ swin' = [swin EXCEPT !.middle = @ + 1]
  /\ pos' = pos + 1
  /\ sstate' = "POLL"
  /\ UNCHANGED <<eofIndex, nudges, byes, sended, toServer, closed>>

\* Send the next chunk, then keep it for retransmission in its slot.
SendDataPacket ==
  /\ sstate = "SEND_DATA" /\ ~IsClosed(swin) /\ pos <= NPackets
  /\ LET p == DataPacket(swin.middle, pos)
     IN  /\ SendToClient(p)
         /\ swin' = AddToBuffer([swin EXCEPT !.middle = @ + 1], p)
  /\ pos' = pos + 1
  /\ sstate' = "POLL"
  /\ UNCHANGED <<eofIndex, nudges, byes, sended, toServer, closed>>

\* The select(0) that ends send_data(); a packet on its way may not be there yet.
Poll ==
  /\ sstate = "POLL"
  /\ sstate' \in IF toServer # <<>> THEN {"PROCESS", "SEND_DATA"} ELSE {"SEND_DATA"}
  /\ UNCHANGED <<swin, eofIndex, pos, nudges, byes, sended, channelVars>>

(* Send the raw bytes of a slot.  The flag set to RESEND is not in them; a  *)
(* slot nothing was stored in has size 0, for which sendtoErr() exits(1).   *)
Resend(seq, next, left) ==
  IF GetFromBuffer(swin, seq) = NoPacket
  THEN ServerEnd("exit") /\ UNCHANGED toClient
  ELSE /\ SendToClient(GetFromBuffer(swin, seq))
       /\ sstate' = next
       /\ toServer' = left
       /\ UNCHANGED <<sended, closed>>

ProcessCorrupt ==
  /\ sstate = "PROCESS"
  /\ \E a \in Arrivals(toServer) : a.packet.flag = "CRC_ERROR" /\ toServer' = a.rest
  /\ sstate' = "WAIT_ON_ACK"
  /\ UNCHANGED <<swin, eofIndex, pos, nudges, byes, sended, toClient, closed>>

\* Mutant: any RR moves the window, an old one moves it back.
ProcessRRAnyway ==
  /\ sstate = "PROCESS"
  /\ \E a \in Arrivals(toServer) :
       /\ a.packet.flag = "RR"
       /\ toServer' = a.rest
       /\ swin' = Slide(swin, a.packet.seq)
       /\ sstate' = IF a.packet.seq = eofIndex THEN "BYE" ELSE "SEND_DATA"
  /\ UNCHANGED <<eofIndex, pos, nudges, byes, sended, toClient, closed>>

\* Mutant: the end of the file is an RR at or above eof_index, set or not.
ProcessRRAtLeastEof ==
  /\ sstate = "PROCESS"
  /\ \E a \in Arrivals(toServer) :
       /\ a.packet.flag = "RR"
       /\ toServer' = a.rest
       /\ swin' = IF a.packet.seq > swin.bottom THEN Slide(swin, a.packet.seq) ELSE swin
       /\ sstate' = IF a.packet.seq >= eofIndex THEN "BYE" ELSE "SEND_DATA"
  /\ UNCHANGED <<eofIndex, pos, nudges, byes, sended, toClient, closed>>

ProcessRR ==
  /\ sstate = "PROCESS"
  /\ \E a \in Arrivals(toServer) :
       /\ a.packet.flag = "RR"
       /\ toServer' = a.rest
       /\ swin' = IF a.packet.seq > swin.bottom THEN Slide(swin, a.packet.seq) ELSE swin
       /\ sstate' = IF a.packet.seq = eofIndex THEN "BYE" ELSE "SEND_DATA"
  /\ UNCHANGED <<eofIndex, pos, nudges, byes, sended, toClient, closed>>

ProcessSREJ ==
  /\ sstate = "PROCESS"
  /\ \E a \in Arrivals(toServer) :
       /\ a.packet.flag = "SREJ"
       /\ Resend(a.packet.seq, "SEND_DATA", a.rest)
  /\ UNCHANGED <<swin, eofIndex, pos, nudges, byes>>

\* wait_on_ack(): the count is raised before the select, and reset by a packet.
WaitOnAckGiveUp ==
  /\ sstate = "WAIT_ON_ACK" /\ nudges >= MaxRetries
  /\ ServerEnd("gave_up")
  /\ UNCHANGED <<swin, eofIndex, pos, nudges, byes, toClient>>

WaitOnAckArrival ==
  /\ sstate = "WAIT_ON_ACK" /\ nudges < MaxRetries /\ toServer # <<>>
  /\ nudges' = 0
  /\ sstate' = "PROCESS"
  /\ UNCHANGED <<swin, eofIndex, pos, byes, sended, channelVars>>

\* Mutant: the nudges are not limited.
WaitOnAckTimeoutUnlimited ==
  /\ sstate = "WAIT_ON_ACK" /\ Overdue(toServer)
  /\ nudges' = nudges + 1
  /\ Resend(swin.bottom, "WAIT_ON_ACK", toServer)
  /\ UNCHANGED <<swin, eofIndex, pos, byes>>

\* Mutant: the nudges are not counted.
WaitOnAckTimeoutUncounted ==
  /\ sstate = "WAIT_ON_ACK" /\ nudges < MaxRetries /\ Overdue(toServer)
  /\ Resend(swin.bottom, "WAIT_ON_ACK", toServer)
  /\ UNCHANGED <<swin, eofIndex, pos, nudges, byes>>

\* One second without a packet: resend the oldest unacknowledged one.
WaitOnAckTimeout ==
  /\ sstate = "WAIT_ON_ACK" /\ nudges < MaxRetries /\ Overdue(toServer)
  /\ nudges' = nudges + 1
  /\ Resend(swin.bottom, "WAIT_ON_ACK", toServer)
  /\ UNCHANGED <<swin, eofIndex, pos, byes>>

\* bye(): END_OF_FILE is sent before the count of attempts is looked at.
Bye ==
  /\ sstate = "BYE"
  /\ SendToClient(Control("END_OF_FILE", eofIndex))
  /\ byes' = byes + 1
  /\ IF byes < MaxRetries
     THEN sstate' = "BYE_WAIT" /\ UNCHANGED <<sended, toServer, closed>>
     ELSE ServerEnd("gave_up")
  /\ UNCHANGED <<swin, eofIndex, pos, nudges>>

ByeTimeout ==
  /\ sstate = "BYE_WAIT" /\ Overdue(toServer)
  /\ sstate' = "BYE"
  /\ UNCHANGED <<swin, eofIndex, pos, nudges, byes, sended, channelVars>>

\* Mutant: any RR is taken for the one of END_OF_FILE.
ByeArrivalAnyRR ==
  /\ sstate = "BYE_WAIT"
  /\ byes' = 0
  /\ \E a \in Arrivals(toServer) :
       IF a.packet.flag = "RR"
       THEN ServerEnd("handshake")
       ELSE sstate' = "BYE" /\ toServer' = a.rest /\ UNCHANGED <<sended, closed>>
  /\ UNCHANGED <<swin, eofIndex, pos, nudges, toClient>>

\* Any packet resets the count; only the RR of END_OF_FILE ends the child.
ByeArrival ==
  /\ sstate = "BYE_WAIT"
  /\ byes' = 0
  /\ \E a \in Arrivals(toServer) :
       IF a.packet.flag = "RR" /\ a.packet.seq = eofIndex + 1
       THEN ServerEnd("handshake")
       ELSE sstate' = "BYE" /\ toServer' = a.rest /\ UNCHANGED <<sended, closed>>
  /\ UNCHANGED <<swin, eofIndex, pos, nudges, toClient>>

\* The steps no timer is part of.
ServerStep ==
  \/ ServerFilename \/ SendDataClosed \/ SendDataEof \/ SendDataReadError
  \/ SendDataPacket \/ Poll \/ ProcessCorrupt \/ ProcessRR \/ ProcessSREJ
  \/ WaitOnAckGiveUp \/ WaitOnAckArrival \/ Bye \/ ByeArrival

ServerTimeout == WaitOnAckTimeout \/ ByeTimeout

=============================================================================
