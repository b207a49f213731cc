----------------------------- MODULE ChatClient ------------------------------
(***************************************************************************)
(* The chat clients (Program 2/cclient.cpp).  After connecting a client     *)
(* select()s on its connection and its terminal; a list and an exit wait in *)
(* a recv() of their own for the answer to the request they have sent, and  *)
(* take the next thing that arrives for it.                                 *)
(***************************************************************************)
EXTENDS ChatStreams

CONSTANTS
  MaxCommands,   \* bound: the commands each user types
  MaxKills       \* bound: clients killed from outside

ASSUME MaxCommandsAssumption == MaxCommands \in Nat
ASSUME MaxKillsAssumption == MaxKills \in Nat

VARIABLES
  cstate,     \* where each client is: see Running, or how it ended: see Ended
  name,       \* its handle
  listing,    \* the length of the list it prints and the index it has reached
  commands,   \* the commands its user has typed
  kills       \* the clients killed

clientVars == <<cstate, name, listing, commands, kills>>

\* The states in which a client waits in a recv() for one answer.
Waiting == {"confirm", "length", "handle", "exit"}
Running == Waiting \cup {"idle"}
\* Acknowledged, or the exception that ended it.
Ended == {"acknowledged", "HANDLE_EX", "MYSTERY_EX", "LIST_EX", "EXIT_EX", "CONNECT_EX", "killed"}

ClientInit ==
  /\ cstate = [c \in Clients |-> "off"]
  /\ name = [c \in Clients |-> NoHandle]
  /\ listing = [c \in Clients |-> [length |-> 0, index |-> 0]]
  /\ commands = [c \in Clients |-> 0]
  /\ kills = 0

Send(c, m) == toServer' = [toServer EXCEPT ![c] = Append(@, m)]

\* init(): connect, and send the handle.
Start(c, h) ==
  /\ cstate[c] = "off" /\ server = "running"
  /\ cstate' = [cstate EXCEPT ![c] = "confirm"]
  /\ name' = [name EXCEPT ![c] = h]
  /\ conn' = [conn EXCEPT ![c] = "open"]
  /\ backlog' = Append(backlog, c)
  /\ Send(c, [Plain("initial", 0) EXCEPT !.from = h])
  /\ UNCHANGED <<server, toClient, listing, commands, kills>>

\* The process ends, by itself or not, and the system closes its connection.
Close(c, rest) ==
  /\ \E s \in ClosedByClient(conn[c], rest) : conn' = [conn EXCEPT ![c] = s]
  /\ toClient' = [toClient EXCEPT ![c] = <<>>]

(* A recv() of a message after which the client is in state s.              *)
Receive(c, s) ==
  /\ cstate' = [cstate EXCEPT ![c] = s]
  /\ \E k \in Taken(toClient[c]) :
       IF s \in Running
       THEN toClient' = [toClient EXCEPT ![c] = Rest(@, k)] /\ UNCHANGED conn
       ELSE Close(c, Rest(toClient[c], k))
  /\ UNCHANGED <<server, backlog, name, commands, kills>>

Flag(c) == Head(toClient[c]).flag

GetConfirmation(c) ==
  /\ cstate[c] = "confirm" /\ toClient[c] # <<>>
  /\ Receive(c, IF Flag(c) = "confirm" THEN "idle"
                ELSE IF Flag(c) = "bad_handle" THEN "HANDLE_EX" ELSE "MYSTERY_EX")
  /\ UNCHANGED <<toServer, listing>>

\* process_message() only prints.
ProcessMessage(c) ==
  /\ cstate[c] = "idle" /\ toClient[c] # <<>> /\ Receive(c, "idle")
  /\ UNCHANGED <<toServer, listing>>

\* A line the user types: m is sent, and the client is in state s.
Command(c, m, s) ==
  /\ cstate[c] = "idle" /\ commands[c] < MaxCommands
  /\ commands' = [commands EXCEPT ![c] = @ + 1]
  /\ cstate' = [cstate EXCEPT ![c] = s]
  /\ Send(c, m)
  /\ UNCHANGED <<server, backlog, conn, toClient, name, listing, kills>>

SendMessage(c) == \E h \in Handles : Command(c, Chat(name[c], h), "idle")
SendToAll(c) == Command(c, Chat(name[c], NoHandle), "idle")
RequestListLength(c) == Command(c, [Plain("list", 0) EXCEPT !.from = name[c]], "length")
Exit(c) == Command(c, [Plain("exit", 0) EXCEPT !.from = name[c]], "exit")

Request(c, i) == [Plain("request", i) EXCEPT !.from = name[c]]

\* The length arrives, and the first handle is asked for.
GetListLength(c) ==
  /\ cstate[c] = "length" /\ toClient[c] # <<>>
  /\ IF Flag(c) = "length"
     THEN /\ Receive(c, "handle") /\ Send(c, Request(c, 0))
          /\ listing' = [listing EXCEPT ![c] = [length |-> Head(toClient[c]).n, index |-> 0]]
     ELSE Receive(c, "LIST_EX") /\ UNCHANGED <<toServer, listing>>

\* A handle arrives (or does not exist any more), and the next is asked for.
GetHandle(c) ==
  LET next == listing[c].index + 1
      more == next < listing[c].length
  IN  /\ cstate[c] = "handle" /\ toClient[c] # <<>>
      /\ IF Flag(c) \notin {"handle", "no_handle"}
         THEN Receive(c, "LIST_EX") /\ UNCHANGED <<toServer, listing>>
         ELSE IF more
         THEN /\ Receive(c, "handle") /\ Send(c, Request(c, next))
              /\ listing' = [listing EXCEPT ![c].index = next]
         ELSE /\ Receive(c, "idle") /\ UNCHANGED toServer
              /\ listing' = [listing EXCEPT ![c] = [length |-> 0, index |-> 0]]

Acknowledged(c) ==
  /\ cstate[c] = "exit" /\ toClient[c] # <<>>
  /\ Receive(c, IF Flag(c) = "exit_ack" THEN "acknowledged" ELSE "EXIT_EX")
  /\ UNCHANGED <<toServer, listing>>

(* The server has closed the connection, or ended: the recv() or connect()  *)
(* finds nothing more.                                                      *)
Disconnected(c) ==
  /\ cstate[c] \in Running \cup {"off"} /\ toClient[c] = <<>>
  /\ conn[c] = "closed" \/ server # "running"
  /\ cstate' = [cstate EXCEPT ![c] = "CONNECT_EX"]
  /\ UNCHANGED <<streamVars, name, listing, commands, kills>>

\* The process is ended from outside, as by an interrupt at the terminal.
Kill(c) ==
  /\ cstate[c] \in Running /\ kills < MaxKills
  /\ kills' = kills + 1
  /\ cstate' = [cstate EXCEPT ![c] = "killed"]
  /\ Close(c, toClient[c])
  /\ UNCHANGED <<server, backlog, toServer, name, listing, commands>>

\* What a client does by itself once something has arrived.
Proceed(c) ==
  GetConfirmation(c) \/ ProcessMessage(c) \/ GetListLength(c) \/ GetHandle(c)
    \/ Acknowledged(c) \/ Disconnected(c)

\* What its user makes it do.
Use(c) ==
  (\E h \in Handles \cup {NoHandle} : Start(c, h))
    \/ SendMessage(c) \/ SendToAll(c) \/ RequestListLength(c) \/ Exit(c) \/ Kill(c)

=============================================================================
