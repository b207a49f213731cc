----------------------------- MODULE ChatServer ------------------------------
(***************************************************************************)
(* The chat server (Program 2/server.cpp): one process that select()s on    *)
(* its sockets, accepts at most one client, and then goes through its table *)
(* by index and handles one recv() of every connection that was ready.  The *)
(* handlers change the table, and clients send and leave, under way.        *)
(***************************************************************************)
EXTENDS ChatStreams

VARIABLES
  table,      \* open_sockets and clients up to num_open
  capacity,   \* the entries the arrays have
  readSet,    \* the connections the last select() found ready
  turn        \* the index the loop over the table has reached

serverVars == <<table, capacity, readSet, turn>>

ServerInit ==
  table = <<>> /\ capacity = BufferSize /\ readSet = {} /\ turn = 1

\* The entries the loop has still to handle.
Ready == {i \in turn..Len(table) : table[i].fd \in readSet}

\* Mutants: the end of a connection is not looked for; the last entry is not.
ReadableData == {c \in Connected(table) \ {Null} : toServer[c] # <<>>}

ReadableButLast ==
  {c \in {table[i].fd : i \in 1..(Len(table) - 1)} \ {Null} :
     toServer[c] # <<>> \/ conn[c] \in Gone}

\* A descriptor 0 is the terminal's, where nobody types.
Readable == {c \in Connected(table) \ {Null} : toServer[c] # <<>> \/ conn[c] \in Gone}

\* Mutant: the loop starts before the first entry.
SelectFromZero ==
  /\ server = "running" /\ Ready = {}
  /\ readSet' = Readable /\ turn' = 0
  /\ UNCHANGED <<table, capacity, backlog, server, conn, toServer, toClient>>

Select ==
  /\ server = "running" /\ Ready = {}
  /\ readSet' = Readable /\ turn' = 1
  /\ IF backlog = <<>> THEN UNCHANGED <<table, capacity, backlog>>
     ELSE /\ table' = Append(Resized(table, capacity), [fd |-> Head(backlog), handle |-> NoHandle])
          /\ capacity' = IF MustResize(table, capacity) THEN 2 * capacity ELSE capacity
          /\ backlog' = Tail(backlog)
  /\ UNCHANGED <<server, conn, toServer, toClient>>

Crash(why) == server' = why /\ UNCHANGED <<table, conn, toClient>>

FailToSend(c) == MayFail(c) /\ Crash("send")

SendOn(c, p) ==
  \/ toClient' = Sent({c}, p) /\ conn' = AfterSend({c}) /\ UNCHANGED <<server, table>>
  \/ FailToSend(c)

Respond(c, m) == SendOn(c, <<m>>)

Drop(c) ==
  IF CopiesNull(table, c) THEN server' = "null" /\ UNCHANGED table
  ELSE table' = CloseConnection(table, c) /\ UNCHANGED server

RespondAndClose(c, m) ==
  \/ toClient' = Sent({c}, <<m>>) /\ conn' = [conn EXCEPT ![c] = "closed"] /\ Drop(c)
  \/ FailToSend(c)

\* The name is learnt before it is confirmed; an error of this one send() is
\* caught, and the reset that caused it is not reported again.
ConfirmHandle(c, h) ==
  \/ /\ toClient' = Sent({c}, <<[Plain("confirm", 0) EXCEPT !.to = h]>>)
     /\ conn' = AfterSend({c})
     /\ table' = LearnHandle(table, c, h) /\ UNCHANGED server
  \/ /\ conn[c] = "rst" /\ conn' = [conn EXCEPT ![c] = "fin_rst"]
     /\ table' = LearnHandle(table, c, h) /\ UNCHANGED <<server, toClient>>
  \/ conn[c] = "fin_rst" /\ Crash("send")

InitialPacket(c, h) ==
  \/ h # NoHandle /\ Absent(table, h) /\ ConfirmHandle(c, h)
  \/ h # NoHandle /\ MeetsNull(table, h) /\ Crash("null")
  \/ /\ h = NoHandle \/ Finds(table, h)
     /\ RespondAndClose(c, [Plain("bad_handle", 0) EXCEPT !.to = h])

(* broadcast(): to every entry but those of the sender's name, in the order *)
(* of the table, until a send() fails or a null name is compared.           *)
Broadcast(sender, p) ==
  LET nulls == {i \in DOMAIN table : table[i].handle = Null}
      routes(n) == {table[i].fd : i \in {j \in 1..n : table[j].handle # sender}}
      failures == {i \in DOMAIN table : table[i].handle # sender /\ i \notin nulls
                                          /\ MayFail(table[i].fd)}
      reached(i) == \A j \in nulls : i <= j
  IN  \/ /\ nulls = {} /\ UNCHANGED server
         /\ toClient' = Sent(routes(Len(table)), p) /\ conn' = AfterSend(routes(Len(table)))
      \/ \E i \in nulls \cup failures :
           /\ reached(i)
           /\ server' = IF i \in nulls THEN "null" ELSE "send"
           /\ toClient' = Sent(routes(i - 1), p) /\ conn' = AfterSend(routes(i - 1))

(* message_packet(): what is sent on is all that the recv() returned.       *)
Route(c, p) ==
  LET to == Head(p).to
  IN  \/ Absent(table, to) /\ Respond(c, [Plain("bad_destination", 0) EXCEPT !.to = to])
      \/ MeetsNull(table, to) /\ Crash("null")
      \/ \E i \in DOMAIN table :
           EndsAt(table, to, i) /\ table[i].handle = to /\ SendOn(table[i].fd, p)

MessagePacket(c, p) ==
  \/ Head(p).to = NoHandle /\ Broadcast(Head(p).from, p) /\ UNCHANGED table
  \/ Head(p).to # NoHandle /\ Route(c, p)

\* Mutant: an index past the table is not answered.
HandleRequestUnanswered(c, index) ==
  \/ index > Len(table) /\ UNCHANGED <<server, table, conn, toClient>>
  \/ index <= Len(table) /\ HandleAt(table, index) = Null /\ Crash("null")
  \/ index <= Len(table) /\ HandleAt(table, index) # Null /\ Respond(c, Plain("handle", index))

(* handle_request_response(): the index is checked against num_open itself. *)
HandleRequest(c, index) ==
  \/ index > Len(table) /\ Respond(c, Plain("no_handle", 0))
  \/ index <= Len(table) /\ HandleAt(table, index) = Null /\ Crash("null")
  \/ index <= Len(table) /\ HandleAt(table, index) # Null /\ Respond(c, Plain("handle", index))

Handle(c, p) ==
  LET m == Head(p)
  IN  \/ m.flag = "initial" /\ InitialPacket(c, m.from)
      \/ m.flag = "message" /\ MessagePacket(c, p)
      \/ m.flag = "exit" /\ RespondAndClose(c, Plain("exit_ack", 0))
      \/ m.flag = "list" /\ Respond(c, Plain("length", Len(table)))
      \/ m.flag = "request" /\ HandleRequest(c, m.n)

(* process_packet(): a recv() on an open connection with no data would      *)
(* block, and with it the server.                                           *)
ProcessPacket ==
  \E i \in Ready :
    /\ server = "running" /\ \A j \in Ready : i <= j
    /\ LET c == table[i].fd
       IN  \/ \E k \in Taken(toServer[c]) :
                /\ toServer' = [toServer EXCEPT ![c] = Rest(@, k)]
                /\ Handle(c, SubSeq(toServer[c], 1, k))
           \/ /\ toServer[c] = <<>> /\ conn[c] \in {"fin", "fin_rst"}
              /\ conn' = [conn EXCEPT ![c] = "closed"] /\ Drop(c)
              /\ UNCHANGED <<toServer, toClient>>
           \/ toServer[c] = <<>> /\ conn[c] = "rst" /\ Crash("recv") /\ UNCHANGED toServer
    /\ turn' = i + 1
    /\ UNCHANGED <<capacity, readSet, backlog>>

Server == Select \/ ProcessPacket

=============================================================================
