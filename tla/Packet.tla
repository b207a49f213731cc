------------------------------- MODULE Packet -------------------------------
(***************************************************************************)
(* The packets rcopy and the server exchange (Program3/RemoteCopy, packet.c *)
(* and packet.h).  A payload is abstracted to the number of the source-file *)
(* chunk it carries (0: none); the size field to what the code does with    *)
(* it: a packet that was never constructed has size 0, and the last chunk   *)
(* of the file may be shorter than the others.                              *)
(***************************************************************************)
EXTENDS Integers

CONSTANTS
  NPackets,   \* number of chunks the source file is read in
  ShortLast   \* TRUE if the file's length is no multiple of the buffer size

ASSUME NPacketsAssumption == NPackets \in Nat
ASSUME ShortLastAssumption == ShortLast \in BOOLEAN

ControlFlags == {"FNAME_OK", "FNAME_BAD", "RR", "SREJ", "END_OF_FILE"}

\* A header with no payload (size = HEADER_LENGTH).
Control(flag, seq) == [flag |-> flag, seq |-> seq, chunk |-> 0]

DataPacket(seq, chunk) == [flag |-> "DATA", seq |-> seq, chunk |-> chunk]

\* What deconstruct() answers CRC_ERROR for; no field of it is then used.
Corrupt == [flag |-> "CRC_ERROR", seq |-> 0, chunk |-> 0]

\* A calloc'ed slot of a window's buffer: every field, size included, is 0.
NoPacket == [flag |-> "NONE", seq |-> 0, chunk |-> 0]

Packets ==
  [flag : ControlFlags \cup {"DATA", "CRC_ERROR"}, seq : Nat, chunk : 0..NPackets]

\* The number of payload bytes recv_packet() returns for a packet, as a class.
Lengths == {"none", "full", "short"}

LengthOf(chunk) ==
  IF chunk = 0 THEN "none"
  ELSE IF ShortLast /\ chunk = NPackets THEN "short" ELSE "full"

=============================================================================
