--------------------------- MODULE TransferProofs ---------------------------
(***************************************************************************)
(* RemoteCopy.tla implements WindowedTransfer.tla, for every file, window,  *)
(* socket buffer, limit on retries and set of faults: each step of a child  *)
(* or of rcopy is a step of the abstract transfer, or none.                 *)
(***************************************************************************)
EXTENDS RemoteCopyProofs

USE NPacketsAssumption, WindowSizeAssumption

\* A child that has not ended has no reason for its end yet.
SenderRuns == sstate # "DONE" => sended = "running"

TransferInv == IndInv /\ SenderRuns

\* What rcopy wrote, as the abstract transfer sees it.
Output == [i \in DOMAIN outfile |-> outfile[i].chunk]

-----------------------------------------------------------------------------
(* What a step of the child may do to the refined variables.                *)
Unmoved == UNCHANGED <<swin, outfile, cended>> /\ (sended' = "handshake" <=> sended = "handshake")

ServerReleases ==
  /\ swin.middle <= NPackets /\ swin.middle - swin.bottom < WindowSize
  /\ swin'.middle = swin.middle + 1 /\ swin'.bottom = swin.bottom

ServerAcknowledges ==
  /\ sended # "handshake"
  /\ swin.bottom <= swin'.bottom
  /\ swin'.middle = IF swin.middle < swin'.bottom THEN swin'.bottom ELSE swin.middle

ServerEffect ==
  \/ Unmoved
  \/ (ServerReleases \/ ServerAcknowledges) /\ UNCHANGED <<outfile, cended, sended>>
  \/ sended' = "handshake" /\ UNCHANGED <<swin, outfile, cended>>

LEMMA ServerMoves ==
  ASSUME TransferInv, ServerStep \/ ServerTimeout, UNCHANGED clientVars
  PROVE  ServerEffect /\ SenderRuns'
<1> USE DEF clientVars, SenderRuns
<1>1. /\ swin \in Windows /\ swin.middle \in Nat /\ swin.bottom \in Nat /\ swin.top \in Nat
      /\ swin.top = swin.bottom + WindowSize - 1 /\ pos = swin.middle
      /\ SenderRuns
  BY DEF TransferInv, IndInv, TypeOK, Windows, SenderInv
<1>2. CASE ServerFilename
  BY <1>1, <1>2 DEF ServerFilename, ServerEnd, ServerEffect, Unmoved
<1>3. CASE SendDataClosed \/ SendDataEof \/ SendDataReadError \/ Poll \/ ProcessCorrupt
  BY <1>1, <1>3 DEF SendDataClosed, SendDataEof, SendDataReadError, Poll, ProcessCorrupt,
       ServerEnd, ServerEffect, Unmoved
<1>4. CASE SendDataPacket
  <2>1. swin'.middle = swin.middle + 1 /\ swin'.bottom = swin.bottom
    BY <1>1, <1>4 DEF SendDataPacket, AddToBuffer, Windows
  <2>2. ServerReleases
    <3>1. ~(swin.middle > swin.top) /\ pos <= NPackets
      BY <1>4 DEF SendDataPacket, IsClosed
    <3>2. swin.middle - swin.bottom < WindowSize
      BY <1>1, <3>1
    <3> QED
      BY <1>1, <2>1, <3>1, <3>2 DEF ServerReleases
  <2> QED
    BY <1>1, <1>4, <2>2 DEF SendDataPacket, ServerEffect
<1>5. CASE ProcessRR
  <2>1. PICK a \in Arrivals(toServer) :
          /\ swin' = IF a.packet.seq > swin.bottom THEN Slide(swin, a.packet.seq) ELSE swin
          /\ sstate' = IF a.packet.seq = eofIndex THEN "BYE" ELSE "SEND_DATA"
    BY <1>5 DEF ProcessRR
  <2>2. sended = "running" /\ sended' = sended
    BY <1>1, <1>5 DEF ProcessRR
  <2>3. a.packet.seq \in Nat
    BY ArrivalContents DEF TransferInv, IndInv, TypeOK, Packets
  <2>4. CASE a.packet.seq > swin.bottom
    <3>1. /\ swin'.bottom = a.packet.seq
          /\ swin'.middle = IF swin.middle < a.packet.seq THEN a.packet.seq ELSE swin.middle
      BY <1>1, <2>1, <2>4 DEF Slide, Windows
    <3>2. ServerAcknowledges
      BY <1>1, <2>2, <2>3, <2>4, <3>1 DEF ServerAcknowledges
    <3> QED
      BY <2>1, <2>2, <3>2 DEF ServerEffect
  <2>5. CASE ~(a.packet.seq > swin.bottom)
    BY <2>1, <2>2, <2>5 DEF ServerEffect, Unmoved
  <2> QED
    BY <2>4, <2>5
<1>6. ASSUME NEW seq, NEW next \in {"SEND_DATA", "WAIT_ON_ACK"}, NEW left,
             Resend(seq, next, left), sstate # "DONE", UNCHANGED swin
      PROVE  ServerEffect /\ SenderRuns'
  BY <1>1, <1>6 DEF Resend, ServerEnd, ServerEffect, Unmoved
<1>7. CASE ProcessSREJ
  BY <1>6, <1>7 DEF ProcessSREJ
<1>8. CASE WaitOnAckTimeout
  BY <1>6, <1>8 DEF WaitOnAckTimeout
<1>9. CASE WaitOnAckGiveUp \/ WaitOnAckArrival \/ ByeTimeout
  BY <1>1, <1>9 DEF WaitOnAckGiveUp, WaitOnAckArrival, ByeTimeout, ServerEnd, ServerEffect, Unmoved
<1>10. CASE Bye
  BY <1>1, <1>10 DEF Bye, ServerEnd, ServerEffect, Unmoved
<1>11. CASE ByeArrival
  BY <1>1, <1>11 DEF ByeArrival, ServerEnd, ServerEffect, Unmoved
<1> QED
  BY <1>2, <1>3, <1>4, <1>5, <1>7, <1>8, <1>9, <1>10, <1>11 DEF ServerStep, ServerTimeout

-----------------------------------------------------------------------------
(* What a step of rcopy may do to them.                                     *)
ClientWrites ==
  /\ cended # "eof" /\ cended' = cended
  /\ Len(outfile) <= Len(outfile')

ClientEffect ==
  \/ ClientWrites
  \/ UNCHANGED outfile /\ (cended' = "eof" \/ cended # "eof")

LEMMA ClientMoves ==
  ASSUME TransferInv, ClientStep \/ ClientTimeout, UNCHANGED serverVars
  PROVE  ClientEffect
<1>1. /\ cstate # "DONE" => cended = "running"
      /\ cwin \in Windows /\ toClient \in Seq(Packets)
      /\ outfile \in Seq(Written)
  BY DEF TransferInv, IndInv, TypeOK, EofInv, Written
<1>2. ASSUME NEW a \in Arrivals(toClient), ClientFilename(a) PROVE ClientEffect
  BY <1>1, <1>2 DEF ClientFilename, FilenameReturns, ClientEffect
<1>3. CASE FileOk \/ ClientFilenameTimeout \/ RecvTimeout
  BY <1>1, <1>3 DEF FileOk, ClientFilenameTimeout, RecvTimeout, FilenameReturns, ClientEffect
<1>4. ASSUME NEW a \in Arrivals(toClient), RecvData(a) PROVE ClientEffect
  <2>1. cended # "eof"
    BY <1>1, <1>4 DEF RecvData
  <2>2. CASE RecvDataExpected(a)
    <3>1. [chunk |-> a.packet.chunk, len |-> LengthOf(a.packet.chunk)] \in Written
      BY <1>1, ArrivalContents, LengthType DEF Written, Packets
    <3>2. Len(outfile') = Len(outfile) + 1
      BY <1>1, <2>2, <3>1 DEF RecvDataExpected
    <3>3. cended' = cended
      BY <2>2 DEF RecvDataExpected, Accept
    <3>4. Len(outfile) \in Nat
      BY <1>1
    <3> QED
      BY <2>1, <3>2, <3>3, <3>4 DEF ClientEffect, ClientWrites
  <2>3. CASE ~RecvDataExpected(a)
    BY <1>4, <2>1, <2>3
       DEF RecvData, RecvDataCorrupt, RecvDataEof, RecvDataDuplicate, RecvDataAhead, ClientEffect
  <2> QED
    BY <2>2, <2>3
<1>5. ASSUME NEW a \in Arrivals(toClient), Missing(a) PROVE ClientEffect
  <2>1. cended # "eof"
    BY <1>1, <1>5 DEF Missing
  <2>2. CASE MissingInWindow(a)
    <3>1. cended' = cended
      BY <2>2 DEF MissingInWindow, Accept
    <3>2. a.packet \in Packets /\ a.packet.chunk \in 0..NPackets /\ cwin.bottom \in Nat
          /\ cwin.top \in Nat
      BY <1>1, ArrivalContents DEF Packets, Windows
    <3>3. PICK m \in cwin.bottom..(cwin.top + 1) :
            outfile' = outfile \o Flushed(AddToBuffer(cwin, a.packet), m, LengthOf(a.packet.chunk))
      BY <2>2 DEF MissingInWindow
    <3>4. m \in Nat /\ m >= cwin.bottom
      BY <3>2
    <3>5. AddToBuffer(cwin, a.packet) \in Windows
          /\ AddToBuffer(cwin, a.packet).bottom = cwin.bottom
      BY <1>1, <3>2, AddToBufferType DEF AddToBuffer, Windows
    <3>6. /\ Flushed(AddToBuffer(cwin, a.packet), m, LengthOf(a.packet.chunk)) \in Seq(Written)
          /\ Len(Flushed(AddToBuffer(cwin, a.packet), m, LengthOf(a.packet.chunk)))
               = m - cwin.bottom
      BY <3>4, <3>5, FlushedType, LengthType
    <3>7. Len(outfile') = Len(outfile) + (m - cwin.bottom)
      BY <1>1, <3>3, <3>6, ConcatProperties
    <3>8. Len(outfile) <= Len(outfile')
      BY <1>1, <3>2, <3>4, <3>7
    <3> QED
      BY <2>1, <3>1, <3>8 DEF ClientEffect, ClientWrites
  <2>3. CASE ~MissingInWindow(a)
    BY <1>5, <2>1, <2>3
       DEF Missing, MissingCorrupt, MissingEof, MissingOutOfWindow, Accept, ClientEffect
  <2> QED
    BY <2>2, <2>3
<1> QED
  BY <1>2, <1>3, <1>4, <1>5 DEF ClientStep, ClientTimeout

-----------------------------------------------------------------------------
(* The refinement mapping.                                                  *)
LEMMA TransferInvInit == Init => TransferInv
BY TypeInit, ProtocolInit, ProtocolParts DEF TransferInv, SenderRuns, Init, ServerInit

LEMMA TransferInvStep == TransferInv /\ [Next]_vars => TransferInv'
<1> SUFFICES ASSUME TransferInv, [Next]_vars
             PROVE  SenderRuns'
  BY IndStep DEF TransferInv
<1>1. CASE Server \/ ServerTimer
  BY <1>1, ServerMoves DEF Server, ServerTimer
<1>2. CASE Client \/ ClientTimer \/ UNCHANGED vars
  BY <1>2 DEF Client, ClientTimer, vars, serverVars, TransferInv, SenderRuns
<1> QED
  BY <1>1, <1>2 DEF Next, Ended

(* What the refinement needs of a state: the numbers of the chunks written  *)
(* are those from 1 to their count, the sender knows no more than those to  *)
(* be written and sent no less, and the two ends' reports are right.        *)
TransferFacts ==
  /\ swin.bottom \in Nat /\ swin.middle \in Nat /\ Len(outfile) \in Nat
  /\ Output = [i \in 1..Len(outfile) |-> i] /\ Len(Output) = Len(outfile)
  /\ swin.bottom - 1 <= Len(outfile) /\ Len(outfile) <= swin.middle - 1
  /\ cended = "eof" => Len(outfile) = NPackets /\ swin.bottom = NPackets + 1
  /\ sended = "handshake" => cended = "eof"

LEMMA TransferInvFacts ==
  ASSUME EofIndexHarmless, TransferInv
  PROVE  TransferFacts
<1>1. outfile \in Seq(Written) /\ \A i \in DOMAIN outfile : outfile[i].chunk = i
  BY DEF TransferInv, IndInv, TypeOK, ReceiverInv, OutputIsPrefix, Written
<1>2. Len(outfile) \in Nat /\ DOMAIN outfile = 1..Len(outfile)
  BY <1>1
<1>3. Output = [i \in 1..Len(outfile) |-> i]
  BY <1>1, <1>2 DEF Output
<1>4. Len([i \in 1..Len(outfile) |-> i]) = Len(outfile)
  BY <1>2
<1>5. /\ swin.bottom \in Nat /\ swin.middle \in Nat
      /\ swin.bottom - 1 <= Len(outfile) /\ Len(outfile) <= swin.middle - 1
  BY <1>2 DEF TransferInv, IndInv, TypeOK, Windows, WindowsInv, ReceiverInv
<1>6. cended = "eof" => Len(outfile) = NPackets /\ swin.bottom = NPackets + 1
  BY EofComplete DEF TransferInv, IndInv, EofInv, AllAcknowledged
<1>7. sended = "handshake" => cended = "eof"
  BY DEF TransferInv, IndInv, EofInv
<1> QED
  BY <1>2, <1>3, <1>4, <1>5, <1>6, <1>7 DEF TransferFacts

LEMMA InitRefines == Init => Transfer!TransferInit
<1> SUFFICES ASSUME Init PROVE Transfer!TransferInit
  OBVIOUS
<1>1. swin.middle - 1 = 0 /\ swin.bottom - 1 = 0
  BY DEF Init, ServerInit, InitWindow
<1>2. cended # "eof" /\ sended # "handshake"
  BY DEF Init, ServerInit, ClientInit
<1>3. [i \in DOMAIN outfile |-> outfile[i].chunk] = <<>>
  BY DEF Init, ClientInit
<1> QED
  BY <1>1, <1>2, <1>3 DEF Transfer!TransferInit

\* What the step of the child is to the abstract transfer.
LEMMA ServerRefines ==
  ASSUME TransferFacts, TransferFacts', ServerEffect
  PROVE  [Transfer!TransferNext]_(Transfer!transferVars)
<1> DEFINE out == [i \in DOMAIN outfile |-> outfile[i].chunk]
<1>1. /\ swin.bottom \in Nat /\ swin.middle \in Nat /\ Len(outfile) \in Nat
      /\ swin.bottom - 1 <= Len(outfile) /\ Len(outfile) <= swin.middle - 1
  BY DEF TransferFacts
<1>2. Len(out) = Len(outfile)
  BY DEF TransferFacts, Output
<1>3. CASE Unmoved
  BY <1>3 DEF Unmoved, Transfer!transferVars
<1>4. CASE ServerReleases /\ UNCHANGED <<outfile, cended, sended>>
  <2>1. /\ swin.middle - 1 < NPackets /\ (swin.middle - 1) - (swin.bottom - 1) < WindowSize
        /\ swin'.middle - 1 = (swin.middle - 1) + 1 /\ swin'.bottom - 1 = swin.bottom - 1
    BY <1>1, <1>4 DEF ServerReleases
  <2>2. Transfer!Release
    BY <1>4, <2>1 DEF Transfer!Release
  <2> QED
    BY <2>2 DEF Transfer!TransferNext
<1>5. CASE ServerAcknowledges /\ UNCHANGED <<outfile, cended, sended>>
  <2>1. swin'.bottom \in Nat /\ swin'.bottom - 1 <= Len(outfile)
    BY <1>5 DEF TransferFacts
  <2>2. swin'.middle = swin.middle
    BY <1>1, <1>5, <2>1 DEF ServerAcknowledges
  <2>3. swin'.bottom - 1 \in (swin.bottom - 1)..Len(out) /\ sended # "handshake"
    BY <1>1, <1>2, <1>5, <2>1 DEF ServerAcknowledges
  <2>4. Transfer!Acknowledge
    BY <1>5, <2>2, <2>3 DEF Transfer!Acknowledge
  <2> QED
    BY <2>4 DEF Transfer!TransferNext
<1>6. CASE sended' = "handshake" /\ UNCHANGED <<swin, outfile, cended>>
  <2>1. cended = "eof"
    BY <1>6 DEF TransferFacts
  <2>2. Transfer!Confirm
    BY <1>6, <2>1 DEF Transfer!Confirm
  <2> QED
    BY <2>2 DEF Transfer!TransferNext
<1> QED
  BY <1>3, <1>4, <1>5, <1>6 DEF ServerEffect

\* A longer run of counts is the shorter one, continued.
LEMMA CountsContinue ==
  ASSUME NEW k \in Nat, NEW n \in Nat, k <= n
  PROVE  [i \in 1..n |-> i] = [i \in 1..k |-> i] \o [i \in 1..(n - k) |-> k + i]
<1> DEFINE f == [i \in 1..k |-> i]
           g == [i \in 1..(n - k) |-> k + i]
           h == [i \in 1..n |-> i]
<1>1. f \in Seq(Nat) /\ Len(f) = k /\ n - k \in Nat
  OBVIOUS
<1>2. g \in Seq(Nat) /\ Len(g) = n - k
  BY <1>1
<1>3. h \in Seq(Nat) /\ Len(h) = n
  OBVIOUS
<1>4. /\ f \o g \in Seq(Nat) /\ Len(f \o g) = n
      /\ \A i \in 1..n : (f \o g)[i] = IF i <= k THEN f[i] ELSE g[i - k]
  BY <1>1, <1>2, ConcatProperties
<1>5. \A i \in 1..n : (f \o g)[i] = i
  BY <1>4
<1> HIDE DEF f, g, h
<1>6. \A i \in 1..n : h[i] = i
  BY DEF h
<1>7. h = f \o g
  BY <1>3, <1>4, <1>5, <1>6, SeqEqual
<1> QED
  BY <1>7 DEF f, g, h

\* What the step of rcopy is to the abstract transfer.
LEMMA ClientRefines ==
  ASSUME TransferFacts, TransferFacts', ClientEffect, UNCHANGED serverVars
  PROVE  [Transfer!TransferNext]_(Transfer!transferVars)
<1> DEFINE out == [i \in DOMAIN outfile |-> outfile[i].chunk]
<1>1. /\ swin.bottom \in Nat /\ swin.middle \in Nat /\ Len(outfile) \in Nat
      /\ swin.bottom - 1 <= Len(outfile) /\ Len(outfile) <= swin.middle - 1
  BY DEF TransferFacts
<1>2. Len(out) = Len(outfile) /\ out = [i \in 1..Len(outfile) |-> i]
  BY DEF TransferFacts, Output
<1>3. UNCHANGED <<swin, sended>>
  BY DEF serverVars
<1>4. CASE ClientWrites
  <2>1. Len(outfile') \in Nat /\ Len(outfile') <= swin.middle - 1
    BY <1>3 DEF TransferFacts
  <2>2. out' = [i \in 1..Len(outfile') |-> i]
    BY DEF TransferFacts, Output
  <2>3. Len(outfile') \in Len(out)..(swin.middle - 1)
    BY <1>1, <1>2, <1>4, <2>1 DEF ClientWrites
  <2>4. out' = out \o [i \in 1..(Len(outfile') - Len(out)) |-> Len(out) + i]
    BY <1>1, <1>2, <1>4, <2>1, <2>2, CountsContinue DEF ClientWrites
  <2>5. Transfer!Deliver
    BY <1>3, <1>4, <2>3, <2>4 DEF Transfer!Deliver, ClientWrites
  <2> QED
    BY <2>5 DEF Transfer!TransferNext
<1>5. CASE UNCHANGED outfile /\ cended' = "eof"
  <2>1. Len(outfile) = NPackets /\ swin.bottom - 1 = NPackets
    <3>1. Len(outfile') = NPackets /\ swin'.bottom = NPackets + 1
      BY <1>5 DEF TransferFacts
    <3> QED
      BY <1>1, <1>3, <1>5, <3>1
  <2>2. Transfer!Complete
    BY <1>2, <1>3, <1>5, <2>1 DEF Transfer!Complete
  <2> QED
    BY <2>2 DEF Transfer!TransferNext
<1>6. CASE UNCHANGED outfile /\ cended' # "eof" /\ cended # "eof"
  BY <1>3, <1>6 DEF Transfer!transferVars
<1> QED
  BY <1>4, <1>5, <1>6 DEF ClientEffect

LEMMA NextRefines ==
  ASSUME TransferInv, TransferFacts, TransferFacts', [Next]_vars
  PROVE  [Transfer!TransferNext]_(Transfer!transferVars)
<1>1. CASE Server \/ ServerTimer
  BY <1>1, ServerMoves, ServerRefines DEF Server, ServerTimer
<1>2. CASE Client \/ ClientTimer
  BY <1>2, ClientMoves, ClientRefines DEF Client, ClientTimer
<1>3. CASE UNCHANGED vars
  BY <1>3 DEF vars, serverVars, clientVars, Transfer!transferVars
<1> QED
  BY <1>1, <1>2, <1>3 DEF Next, Ended

(* Unless eof_index happens to start with the number of a chunk, the two    *)
(* programs implement the abstract transfer: chunks are released, written   *)
(* in order and once, and acknowledged, never more than a window of them    *)
(* ahead, and rcopy's END_OF_FILE and the child's handshake come only when  *)
(* all of the file is written and known to be - whatever is lost,           *)
(* duplicated, reordered, corrupted or late.                                *)
THEOREM TransferCorrect ==
  ASSUME EofIndexHarmless
  PROVE  Spec => TransfersInOrder
<1>1. TransferInv => TransferFacts
  BY TransferInvFacts
<1>2. TransferInv /\ TransferFacts /\ TransferFacts' /\ [Next]_vars
        => [Transfer!TransferNext]_(Transfer!transferVars)
  BY NextRefines
<1> QED
  BY <1>1, <1>2, InitRefines, TransferInvInit, TransferInvStep, PTL
     DEF Spec, TransfersInOrder, Transfer!TransferSpec

=============================================================================
