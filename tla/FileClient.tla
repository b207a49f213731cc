----------------------------- MODULE FileClient -----------------------------
(***************************************************************************)
(* rcopy (Program3/RemoteCopy/rcopy.c) from the moment its FNAME packet is  *)
(* with the server: filename() waits for the answer, recv_data() and        *)
(* missing() receive the file.  One action per outcome of a state function; *)
(* each takes one packet, or a timeout, and does all the function does.     *)
(***************************************************************************)
EXTENDS Window, PacketChannel

CONSTANT MaxSelects   \* 9 in the code: main() gives up when the count is above

ASSUME MaxSelectsAssumption == MaxSelects \in Nat

VARIABLES
  cstate,    \* main()'s state
  selects,   \* main()'s select_count: the attempts before this connection's
  cwin,      \* the receiver's window
  outfile,   \* what was written: the chunk and the number of its bytes, in order
  cended     \* history: why the connection ended at this end

clientVars == <<cstate, selects, cwin, outfile, cended>>

ClientStates == {"FILENAME", "FILE_OK", "RECV_DATA", "MISSING", "DONE"}

ClientEnds == {"abandoned", "unreachable", "no_file", "open_error", "silence",
               "out_of_window", "eof"}

ClientInit ==
  /\ cstate = "FILENAME" /\ selects \in 0..MaxSelects /\ cwin = InitWindow
  /\ outfile = <<>> /\ cended = "running"

\* main() closes the output file and returns; the process's socket goes with it.
ClientEnd(why) == cstate' = "DONE" /\ cended' = why /\ CloseClient

Accept(a) == toClient' = a.rest /\ UNCHANGED <<closed, cended>>

Rr(seq) == Control("RR", seq)
Srej(seq) == Control("SREJ", seq)

-----------------------------------------------------------------------------
(* main() after filename(): a failed attempt closes the socket and is       *)
(* repeated from a new one, so this connection is abandoned; the count of   *)
(* attempts is compared last, and overrides whatever filename() returned.   *)
FilenameReturns(outcome) ==
  /\ selects' = selects + 1
  /\ IF selects + 1 > MaxSelects THEN ClientEnd("unreachable") ELSE outcome
  /\ UNCHANGED <<cwin, outfile, toServer>>

\* Every packet but FNAME_BAD and a corrupt one is a success, whatever its flag.
ClientFilename(a) ==
  /\ cstate = "FILENAME"
  /\ FilenameReturns(
       CASE a.packet.flag = "CRC_ERROR" -> ClientEnd("abandoned")
         [] a.packet.flag = "FNAME_BAD" -> ClientEnd("no_file")
         [] OTHER -> cstate' = "FILE_OK" /\ Accept(a))

ClientFilenameTimeout ==
  /\ cstate = "FILENAME" /\ Overdue(toClient)
  /\ FilenameReturns(ClientEnd("abandoned"))

FileOk ==
  /\ cstate = "FILE_OK"
  /\ \/ cstate' = "RECV_DATA" /\ UNCHANGED <<cended, toClient, closed>>
     \/ "io" \in Faults /\ ClientEnd("open_error")
  /\ selects' = 0
  /\ UNCHANGED <<cwin, outfile, toServer>>

-----------------------------------------------------------------------------
\* recv_data(): a corrupt packet is taken for the one at bottom.
RecvDataCorrupt(a) ==
  /\ a.packet.flag = "CRC_ERROR"
  /\ cwin' = [cwin EXCEPT !.middle = cwin.bottom]
  /\ SendToServer(Srej(cwin.bottom))
  /\ cstate' = "MISSING"
  /\ Accept(a)
  /\ UNCHANGED outfile

\* The sequence number of END_OF_FILE is not compared with bottom here.
RecvDataEof(a) ==
  /\ a.packet.flag = "END_OF_FILE"
  /\ SendToServer(Rr(a.packet.seq + 1))
  /\ ClientEnd("eof")
  /\ UNCHANGED <<cwin, outfile>>

IsData(p) == p.flag \notin {"CRC_ERROR", "END_OF_FILE"}   \* no other flag is read

RecvDataExpected(a) ==
  /\ IsData(a.packet) /\ a.packet.seq = cwin.bottom
  /\ cwin' = Slide(cwin, cwin.bottom + 1)
  /\ outfile' = Append(outfile, [chunk |-> a.packet.chunk, len |-> LengthOf(a.packet.chunk)])
  /\ SendToServer(Rr(cwin.bottom + 1))
  /\ Accept(a)
  /\ UNCHANGED cstate

\* Mutant: the duplicate is acknowledged as if it were the packet at bottom.
RecvDataDuplicateAhead(a) ==
  /\ IsData(a.packet) /\ a.packet.seq < cwin.bottom
  /\ SendToServer(Rr(cwin.bottom + 1))
  /\ Accept(a)
  /\ UNCHANGED <<cstate, cwin, outfile>>

\* Mutant: a duplicate is not acknowledged again.
RecvDataDuplicateSilent(a) ==
  /\ IsData(a.packet) /\ a.packet.seq < cwin.bottom
  /\ Accept(a)
  /\ UNCHANGED <<cstate, cwin, outfile, toServer>>

RecvDataDuplicate(a) ==
  /\ IsData(a.packet) /\ a.packet.seq < cwin.bottom
  /\ SendToServer(Rr(cwin.bottom))
  /\ Accept(a)
  /\ UNCHANGED <<cstate, cwin, outfile>>

RecvDataAhead(a) ==
  /\ IsData(a.packet) /\ a.packet.seq > cwin.bottom
  /\ IF a.packet.seq > cwin.top
     THEN ClientEnd("out_of_window") /\ UNCHANGED <<cwin, toServer>>
     ELSE /\ cwin' = [AddToBuffer(cwin, a.packet) EXCEPT !.middle = cwin.bottom]
          /\ SendToServer(Rr(cwin.bottom))
          /\ cstate' = "MISSING"
          /\ Accept(a)
  /\ UNCHANGED outfile

RecvData(a) ==
  /\ cstate = "RECV_DATA" /\ UNCHANGED selects
  /\ \/ RecvDataCorrupt(a) \/ RecvDataEof(a) \/ RecvDataExpected(a)
     \/ RecvDataDuplicate(a) \/ RecvDataAhead(a)

-----------------------------------------------------------------------------
\* missing(): a corrupt packet is dropped without a word.
MissingCorrupt(a) ==
  /\ a.packet.flag = "CRC_ERROR"
  /\ Accept(a)
  /\ UNCHANGED <<cstate, cwin, outfile, toServer>>

MissingEof(a) ==
  /\ a.packet.flag = "END_OF_FILE"
  /\ IF cwin.bottom = a.packet.seq
     THEN SendToServer(Rr(cwin.bottom + 1)) /\ ClientEnd("eof")
     ELSE Accept(a) /\ UNCHANGED <<cstate, toServer>>
  /\ UNCHANGED <<cwin, outfile>>

\* Mutant: the flush starts one slot late.
FlushedOneLate(w, m, len) ==
  [k \in 1..(m - w.bottom) |->
     [chunk |-> GetFromBuffer(w, w.bottom + k).chunk, len |-> len]]

\* The chunks bottom..m-1 of the buffer, all with the length of one packet.
Flushed(w, m, len) ==
  [k \in 1..(m - w.bottom) |->
     [chunk |-> GetFromBuffer(w, w.bottom + k - 1).chunk, len |-> len]]

(* Buffer the packet, find the first hole m, ask for it, write what comes   *)
(* before it - with the data_len of the packet just received - and slide.   *)
MissingInWindow(a) ==
  /\ IsData(a.packet) /\ IsInWindow(cwin, a.packet.seq)
  /\ LET added == AddToBuffer(cwin, a.packet)
     IN  \E m \in cwin.bottom..(cwin.top + 1) :
           /\ IsFirstHole(added, m)
           /\ IF m # cwin.bottom /\ m # cwin.top + 1
              THEN SendPairToServer(Srej(m), Rr(m)) ELSE SendToServer(Rr(m))
           /\ outfile' = outfile \o Flushed(added, m, LengthOf(a.packet.chunk))
           /\ LET flushed == [RemoveFromBuffer(added, cwin.bottom..(m - 1))
                                EXCEPT !.middle = m]
              IN  /\ cwin' = IF m > cwin.bottom THEN Slide(flushed, m) ELSE flushed
                  /\ cstate' = IF IsClosed(flushed) \/ EmptyBuffer(flushed)
                               THEN "RECV_DATA" ELSE "MISSING"
  /\ Accept(a)

\* Mutant: the top of the window is acknowledged.
MissingOutOfWindowTop(a) ==
  /\ IsData(a.packet) /\ ~IsInWindow(cwin, a.packet.seq)
  /\ SendToServer(Rr(cwin.top + 1))
  /\ Accept(a)
  /\ UNCHANGED <<cstate, cwin, outfile>>

MissingOutOfWindow(a) ==
  /\ IsData(a.packet) /\ ~IsInWindow(cwin, a.packet.seq)
  /\ SendToServer(Rr(cwin.middle))
  /\ Accept(a)
  /\ UNCHANGED <<cstate, cwin, outfile>>

Missing(a) ==
  /\ cstate = "MISSING" /\ UNCHANGED selects
  /\ MissingCorrupt(a) \/ MissingEof(a) \/ MissingInWindow(a) \/ MissingOutOfWindow(a)

\* Ten seconds of silence end recv_data() and missing() alike.
RecvTimeout ==
  /\ cstate \in {"RECV_DATA", "MISSING"} /\ Overdue(toClient)
  /\ ClientEnd("silence")
  /\ UNCHANGED <<selects, cwin, outfile, toServer>>

ClientStep ==
  \/ \E a \in Arrivals(toClient) : ClientFilename(a) \/ RecvData(a) \/ Missing(a)
  \/ FileOk

ClientTimeout == ClientFilenameTimeout \/ RecvTimeout

=============================================================================
