------------------------- MODULE RemoteCopyInvariant -------------------------
(***************************************************************************)
(* The inductive invariant behind the safety properties of RemoteCopy.tla:  *)
(* what may be in flight, and what each end's window holds, in terms of the *)
(* two windows' numbers.                                                    *)
(***************************************************************************)
EXTENDS RemoteCopy

(* What eof_index holds before read() returned 0 is never taken for the     *)
(* number of a chunk: what the properties about END_OF_FILE depend on.      *)
EofIndexHarmless == EofGarbage \cap (1..NPackets) = {}

ByeStates == {"BYE", "BYE_WAIT", "DONE"}

\* The sender is past the file: all of it is acknowledged.
AllAcknowledged ==
  EofIndexHarmless => eofIndex = NPackets + 1 /\ swin.bottom = NPackets + 1

IsSentData(p) == \E k \in 1..(swin.middle - 1) : p = DataPacket(k, k)

ToClientOK(p) ==
  \/ p \in {Corrupt, Control("FNAME_OK", 0), Control("FNAME_BAD", 0)}
  \/ IsSentData(p)
  \/ p = Control("END_OF_FILE", eofIndex) /\ sstate \in ByeStates /\ AllAcknowledged

ToClientInv == \A p \in ToSet(toClient) : ToClientOK(p)

ToServerOK(p) ==
  \/ p.flag \in {"CRC_ERROR", "SREJ"}
  \/ p.flag = "RR" /\ 1 <= p.seq /\ p.seq <= cwin.bottom
  \/ p = Rr(eofIndex + 1) /\ cended = "eof"

ToServerInv == \A p \in ToSet(toServer) : ToServerOK(p)

SenderInv ==
  /\ swin.bottom >= 1 /\ swin.top = swin.bottom + WindowSize - 1
  /\ swin.middle <= swin.top + 1
  /\ pos = swin.middle /\ pos <= NPackets + 1
  /\ \A s \in Slots : swin.buffer[s] = NoPacket \/ IsSentData(swin.buffer[s])
  /\ UnackedBuffered

WindowsInv == swin.bottom <= cwin.bottom /\ cwin.bottom <= swin.middle

\* What the receiver keeps for later, and in which states it may.
KeptOK(seq) ==
  /\ cstate \in {"MISSING", "DONE"}
  /\ seq < swin.middle
  /\ GetFromBuffer(cwin, seq) = DataPacket(seq, seq)

ReceiverInv ==
  /\ cwin.top = cwin.bottom + WindowSize - 1
  /\ cstate = "MISSING" => cwin.middle = cwin.bottom
  /\ \A seq \in cwin.bottom..cwin.top : IsValid(cwin, seq) => KeptOK(seq)
  /\ Len(outfile) = cwin.bottom - 1
  /\ OutputIsPrefix

EofInv ==
  /\ eofIndex \in EofGarbage \cup {NPackets + 1}
  /\ sstate \in {"BYE", "BYE_WAIT"} => AllAcknowledged
  /\ cended = "eof" => sstate \in ByeStates /\ AllAcknowledged
  /\ sended = "handshake" => (EofIndexHarmless => cended = "eof")
  /\ cended # "out_of_window"
  /\ cstate # "DONE" => cended = "running"

IndInv ==
  /\ TypeOK /\ ToClientInv /\ ToServerInv /\ SenderInv /\ WindowsInv
  /\ ReceiverInv /\ EofInv

=============================================================================
