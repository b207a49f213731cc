-------------------------- MODULE DuplicateRequest --------------------------
(***************************************************************************)
(* The network delivered rcopy's FNAME packet twice: the server's main loop *)
(* (Program3/RemoteCopy/server.c) knows no clients, so it forked a child    *)
(* for each copy, and both send the file to the one socket of the client.   *)
(* Two instances of RemoteCopy share the client's variables; A and B are    *)
(* the connections with the two children.  recv_packet() overwrites         *)
(* server.remote, so the client answers whoever sent the packet it took     *)
(* last: a step of the client takes its packet, and answers, in one of the  *)
(* two connections.                                                         *)
(***************************************************************************)
EXTENDS Window, Sequences

CONSTANTS Capacity, Faults, EofGarbage, MaxRetries, MaxSelects

VARIABLES
  toClientA, toServerA, closedA,
  sstateA, swinA, eofIndexA, posA, nudgesA, byesA, sendedA,
  toClientB, toServerB, closedB,
  sstateB, swinB, eofIndexB, posB, nudgesB, byesB, sendedB,
  cstate, selects, cwin, outfile, cended

A == INSTANCE RemoteCopy WITH
  toClient <- toClientA, toServer <- toServerA, closed <- closedA,
  sstate <- sstateA, swin <- swinA, eofIndex <- eofIndexA, pos <- posA,
  nudges <- nudgesA, byes <- byesA, sended <- sendedA

B == INSTANCE RemoteCopy WITH
  toClient <- toClientB, toServer <- toServerB, closed <- closedB,
  sstate <- sstateB, swin <- swinB, eofIndex <- eofIndexB, pos <- posB,
  nudges <- nudgesB, byes <- byesB, sended <- sendedB

channelA == <<toClientA, toServerA, closedA>>
childA == <<sstateA, swinA, eofIndexA, posA, nudgesA, byesA, sendedA>>
channelB == <<toClientB, toServerB, closedB>>
childB == <<sstateB, swinB, eofIndexB, posB, nudgesB, byesB, sendedB>>
client == <<cstate, selects, cwin, outfile, cended>>

vars == <<channelA, childA, channelB, childB, client>>

Init == A!Init /\ B!Init

\* A child works in its own process, with its own socket and descriptors.
ServerA ==
  /\ \/ A!Server
     \/ A!ServerTimer /\ ("delay" \notin Faults => B!ClientIdle)
  /\ UNCHANGED <<channelB, childB>>

ServerB ==
  /\ \/ B!Server
     \/ B!ServerTimer /\ ("delay" \notin Faults => A!ClientIdle)
  /\ UNCHANGED <<channelA, childA>>

\* The client's socket is the same one in both connections: closed in one, it
\* is closed in the other.
SocketSharedA ==
  /\ IF "client" \in closedA'
     THEN toClientB' = <<>> /\ closedB' = closedB \cup {"client"}
     ELSE UNCHANGED <<toClientB, closedB>>
  /\ UNCHANGED <<toServerB, childB>>

SocketSharedB ==
  /\ IF "client" \in closedB'
     THEN toClientA' = <<>> /\ closedA' = closedA \cup {"client"}
     ELSE UNCHANGED <<toClientA, closedA>>
  /\ UNCHANGED <<toServerA, childA>>

ClientA == A!Client /\ SocketSharedA

ClientB == B!Client /\ SocketSharedB

\* select() times out only when neither child's packets are there.
ClientTimer == A!ClientTimer /\ B!ClientTimer

Ended == sstateA = "DONE" /\ sstateB = "DONE" /\ cstate = "DONE" /\ UNCHANGED vars

Next == ServerA \/ ServerB \/ ClientA \/ ClientB \/ ClientTimer \/ Ended

Spec == Init /\ [][Next]_vars

-----------------------------------------------------------------------------
(* testRandError.sh:120 compares the output with the source (diff -qs): a   *)
(* copy that is under way, or complete, has no chunk in another's place.    *)
(* It does when an acknowledgement of what one child sent makes the other's *)
(* window slide past packets it has not read from the file yet.             *)
OutputIsPrefix == A!OutputIsPrefix

=============================================================================
