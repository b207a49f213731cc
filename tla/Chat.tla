-------------------------------- MODULE Chat ---------------------------------
(***************************************************************************)
(* The chat program (Program 2): the server and its clients over their      *)
(* connections, and what they are meant to keep.                            *)
(***************************************************************************)
EXTENDS ChatServer, ChatClient, FiniteSets

vars == <<streamVars, serverVars, clientVars>>

Init == StreamsInit /\ ServerInit /\ ClientInit

ServerStep == Server /\ UNCHANGED clientVars

ClientStep(c) == (Proceed(c) \/ Use(c)) /\ UNCHANGED serverVars

Next == ServerStep \/ \E c \in Clients : ClientStep(c)

Spec == Init /\ [][Next]_vars

(* Each process runs, and a client with something to receive receives it;   *)
(* what the users do is up to them.                                         *)
FairSpec ==
  Spec /\ WF_vars(ServerStep)
       /\ \A c \in Clients : WF_vars(Proceed(c) /\ UNCHANGED serverVars)

-----------------------------------------------------------------------------
(* Types.                                                                   *)

TypeOK ==
  /\ server \in Statuses
  /\ backlog \in Seq(Clients)
  /\ conn \in [Clients -> ConnStates]
  /\ toServer \in [Clients -> Seq(Messages)]
  /\ toClient \in [Clients -> Seq(Messages)]
  /\ table \in Seq(Entries)
  /\ capacity \in Nat /\ turn \in Nat \ {0}
  /\ readSet \subseteq Clients
  /\ cstate \in [Clients -> Running \cup Ended \cup {"off"}]
  /\ name \in [Clients -> Handles \cup {NoHandle}]
  /\ listing \in [Clients -> [length : Nat, index : Nat]]
  /\ commands \in [Clients -> 0..MaxCommands]
  /\ kills \in 0..MaxKills

-----------------------------------------------------------------------------
(* The server's table.                                                      *)

Accepted ==
  {c \in Clients : conn[c] \notin {"none", "closed"} /\ \A i \in DOMAIN backlog : backlog[i] # c}

\* server.h:10 calls open_sockets the "open connections to clients": each
\* accepted connection that is not closed has exactly one entry, through
\* every accept, exit, refusal and departure.
OpenSocketsComplete ==
  server = "running" =>
    /\ Connected(table) = Accepted
    /\ \A i, j \in DOMAIN table : table[i].fd = table[j].fd => i = j

\* learn_handle() refuses a name in use: whoever joins and leaves, no two
\* entries have one name, so find_by_handle() has one client to find.
NamesUnique ==
  \A i, j \in DOMAIN table :
    table[i].handle = table[j].handle /\ table[i].handle \in Handles => i = j

\* A client that has been told its name is confirmed is known to the server
\* by that name and on its own connection until the server closes it, however
\* close_connection() has moved the entries about since.
Registered ==
  \A c \in Clients :
    cstate[c] \in Running \ {"confirm"} /\ conn[c] = "open" /\ server = "running" =>
      \E i \in DOMAIN table : table[i] = [fd |-> c, handle |-> name[c]]

\* The loop of serve() calls recv() only where it returns at once, although
\* close_connection() changes the table the loop goes through: the server
\* never waits for one client.
NeverBlocks ==
  \A i \in Ready : LET c == table[i].fd IN toServer[c] # <<>> \/ conn[c] \in Gone

-----------------------------------------------------------------------------
(* The clients.                                                             *)

\* message_packet() sends a message with a destination only to the client that
\* has this name, whoever had it before and whoever has left since.
RightAddressee ==
  \A c \in Clients : \A i \in DOMAIN toClient[c] :
    LET m == toClient[c][i]
    IN  m.flag = "message" /\ m.to # NoHandle => m.to = name[c]

\* What may answer each request.
AnswersTo(state) ==
  CASE state = "confirm" -> {"confirm", "bad_handle"}
    [] state = "length" -> {"length"}
    [] state = "handle" -> {"handle", "no_handle"}
    [] state = "exit" -> {"exit_ack"}
    [] OTHER -> {}

RequestOf(state) ==
  CASE state = "confirm" -> "initial" [] state = "length" -> "list"
    [] state = "handle" -> "request" [] state = "exit" -> "exit" [] OTHER -> "none"

In(s, flags) == Cardinality({i \in DOMAIN s : s[i].flag \in flags})

\* While a client waits, its request or the answer to it is under way, once
\* and never both, and nothing else of the kind; while it does not wait there
\* is none.
OneAnswerPerRequest ==
  \A c \in Clients : cstate[c] \in Running /\ server = "running" =>
    /\ In(toServer[c], Requests) = In(toServer[c], {RequestOf(cstate[c])})
    /\ In(toClient[c], Answers) = In(toClient[c], AnswersTo(cstate[c]))
    /\ In(toServer[c], Requests) + In(toClient[c], Answers)
         = IF cstate[c] \in Waiting THEN 1 ELSE 0

\* A client that waits for an answer does not wait for ever: it is answered,
\* or ended.
Answered == \A c \in Clients : cstate[c] \in Waiting ~> cstate[c] \notin Waiting

\* A connection whose client is gone does not stay in the table for ever,
\* unless the server ends.
Reclaimed ==
  \A c \in Clients : conn[c] \in Gone ~> conn[c] \notin Gone \/ server # "running"

-----------------------------------------------------------------------------
(* What the code says of itself and does not keep.                          *)

\* server.cpp:157: a recv() on a "Connection closed externally" closes it.
ClosedExternally == server # "recv"

=============================================================================
