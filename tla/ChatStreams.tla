----------------------------- MODULE ChatStreams -----------------------------
(***************************************************************************)
(* The TCP connections between the chat clients and the server (Program 2). *)
(* A message is one element of a stream.  TCP keeps no boundaries: a recv() *)
(* may return several messages at once, and the program then reads the      *)
(* header of the first and takes the others for the end of its text.        *)
(***************************************************************************)
EXTENDS ChatTable

CONSTANT Coalescing   \* TRUE: a recv() may return more than one message

ASSUME CoalescingAssumption == Coalescing \in BOOLEAN

VARIABLES
  server,     \* the server process, see Statuses
  backlog,    \* the clients whose connections wait for accept()
  conn,       \* the state of each client's connection, see ConnStates
  toServer,   \* messages sent by each client and not received
  toClient    \* messages sent to each client and not received

streamVars == <<server, backlog, conn, toServer, toClient>>

(* Running, or what ended it: a recv() that failed, a send() that failed,   *)
(* or the use of a null name.                                               *)
Statuses == {"running", "recv", "send", "null"}

(* none: no connection yet; open; fin: closed by the client with nothing    *)
(* left to read; fin_rst: so, and the server has sent since; rst: closed by *)
(* the client with data unread; closed: by the server.                      *)
ConnStates == {"none", "open", "fin", "fin_rst", "rst", "closed"}

(* The flags of the header, by name: 1 initial, 2 confirm, 3 bad_handle,    *)
(* 6 message, 7 bad_destination, 8 exit, 9 exit_ack, 10 list, 11 length,    *)
(* 12 request, 13 handle, 14 no_handle.                                     *)
Requests == {"initial", "exit", "list", "request"}
Answers == {"confirm", "bad_handle", "exit_ack", "length", "handle", "no_handle"}

Messages ==
  [flag : Requests \cup Answers \cup {"message", "bad_destination"},
   from : Handles \cup {NoHandle}, to : Handles \cup {NoHandle}, n : Nat]

\* A message with no names; n is the integer of its text.
Plain(flag, n) == [flag |-> flag, from |-> NoHandle, to |-> NoHandle, n |-> n]

Chat(from, to) == [flag |-> "message", from |-> from, to |-> to, n |-> 0]

StreamsInit ==
  /\ server = "running" /\ backlog = <<>>
  /\ conn = [c \in Clients |-> "none"]
  /\ toServer = [c \in Clients |-> <<>>] /\ toClient = [c \in Clients |-> <<>>]

\* How many messages one recv() may return of a stream.
Taken(s) == IF Coalescing THEN DOMAIN s ELSE {1} \cap DOMAIN s

\* What a recv() that returned k messages leaves.
Rest(s, k) == SubSeq(s, k + 1, Len(s))

\* The connections whose client is gone: the server's recv() ends.
Gone == {"fin", "fin_rst", "rst"}

(* The states a connection may be in after its client's process has ended   *)
(* with rest unread: in its buffers (rst) or still under way (fin_rst).     *)
ClosedByClient(state, rest) ==
  IF state # "open" THEN {state}
  ELSE IF rest = <<>> THEN {"fin"} ELSE {"rst", "fin_rst"}

\* The streams and connections after the server has sent p to the clients S:
\* what is sent to a client that is gone is lost.
Sent(S, p) ==
  [c \in Clients |-> IF c \in S /\ conn[c] = "open" THEN toClient[c] \o p ELSE toClient[c]]

AfterSend(S) ==
  [c \in Clients |-> IF c \in S /\ conn[c] = "fin" THEN "fin_rst" ELSE conn[c]]

\* A send() that fails, with an error or a SIGPIPE, if the reset has arrived.
MayFail(c) == conn[c] \in {"fin_rst", "rst"}

=============================================================================
