----------------------------- MODULE ChatProofs ------------------------------
(***************************************************************************)
(* Theorems about the chat program, for any number of clients, names and    *)
(* commands and any initial size of the table: types; no two entries of the *)
(* server's table have one name; each connection has at most one entry, so  *)
(* that the server never blocks, and, as long as the table is never         *)
(* enlarged, exactly one.                                                   *)
(***************************************************************************)
EXTENDS Chat, SequenceTheorems, FiniteSetTheorems, TLAPS

USE NoHandleAssumption, NullAssumption, BufferSizeAssumption, MaxCommandsAssumption,
    MaxKillsAssumption

-----------------------------------------------------------------------------
(* Sequences and messages.                                                  *)

LEMMA PrefixType ==
  ASSUME NEW S, NEW s \in Seq(S), NEW k \in DOMAIN s
  PROVE  /\ SubSeq(s, 1, k) \in Seq(S)
         /\ Head(SubSeq(s, 1, k)) \in S
         /\ Rest(s, k) \in Seq(S)
<1>1. k \in 1..Len(s)
  OBVIOUS
<1>2. SubSeq(s, 1, k) \in Seq(S) /\ Len(SubSeq(s, 1, k)) = k
  <2>1. \A i \in 1..k : s[i] \in S
    BY <1>1
  <2> QED BY <1>1, <2>1, SubSeqProperties
<1>3. SubSeq(s, 1, k) # <<>>
  BY <1>1, <1>2
<1>4. Head(SubSeq(s, 1, k)) \in S
  BY <1>2, <1>3, HeadTailProperties
<1>5. Rest(s, k) \in Seq(S)
  <2>1. \A i \in (k + 1)..Len(s) : s[i] \in S
    BY <1>1
  <2> QED BY <1>1, <2>1, SubSeqProperties DEF Rest
<1> QED BY <1>2, <1>4, <1>5

LEMMA TakenIn ==
  ASSUME NEW s, NEW k \in Taken(s)
  PROVE  k \in DOMAIN s
BY DEF Taken

\* The flags of the messages the program makes.
Flags == Requests \cup Answers \cup {"message", "bad_destination"}

Names == Handles \cup {NoHandle}

LEMMA PlainType ==
  ASSUME NEW flag \in Flags, NEW n \in Nat, NEW h \in Names
  PROVE  /\ Plain(flag, n) \in Messages
         /\ [Plain(flag, n) EXCEPT !.to = h] \in Messages
         /\ [Plain(flag, n) EXCEPT !.from = h] \in Messages
BY DEF Plain, Messages, Flags, Names

LEMMA MessageType ==
  ASSUME NEW m \in Messages
  PROVE  m.from \in Names /\ m.to \in Names /\ m.n \in Nat
BY DEF Messages, Names

-----------------------------------------------------------------------------
(* What the handlers of the server change.                                  *)

Handled ==
  /\ server \in Statuses
  /\ conn \in [Clients -> ConnStates]
  /\ toClient \in [Clients -> Seq(Messages)]
  /\ table \in Seq(Entries)

LEMMA SentType ==
  ASSUME Handled, NEW S, NEW p \in Seq(Messages)
  PROVE  Sent(S, p) \in [Clients -> Seq(Messages)] /\ AfterSend(S) \in [Clients -> ConnStates]
<1>1. \A c \in Clients : toClient[c] \o p \in Seq(Messages)
  BY ConcatProperties DEF Handled
<1> QED BY <1>1 DEF Handled, Sent, AfterSend, ConnStates

LEMMA LearnHandleType ==
  ASSUME NEW t \in Seq(Entries), NEW c, NEW h \in Names
  PROVE  LearnHandle(t, c, h) \in Seq(Entries)
<1> DEFINE k == IndexOf(t, c)
<1>1. CASE k \in DOMAIN t
  <2>1. [t[k] EXCEPT !.handle = h] \in Entries
    <3> DEFINE r == t[k]
    <3>1. r \in Entries
      BY <1>1
    <3> HIDE DEF r
    <3>2. [r EXCEPT !.handle = h] \in Entries
      BY <3>1 DEF Entries, Names
    <3> QED BY <3>2 DEF r
  <2> HIDE DEF k
  <2>2. [t EXCEPT ![k] = [t[k] EXCEPT !.handle = h]] \in Seq(Entries)
    BY <1>1, <2>1, ExceptSeq
  <2>3. [t EXCEPT ![k].handle = h] = [t EXCEPT ![k] = [t[k] EXCEPT !.handle = h]]
    OBVIOUS
  <2> QED BY <2>2, <2>3 DEF LearnHandle, k
<1>2. CASE k \notin DOMAIN t
  <2> HIDE DEF k
  <2>1. [t EXCEPT ![k].handle = h] = t
    BY <1>2
  <2> QED BY <2>1 DEF LearnHandle, k
<1> QED BY <1>1, <1>2

LEMMA CloseConnectionType ==
  ASSUME NEW t \in Seq(Entries), NEW c
  PROVE  CloseConnection(t, c) \in Seq(Entries)
<1>1. CASE Len(t) = 0
  <2>1. CloseConnection(t, c) = <<>>
    BY <1>1 DEF CloseConnection
  <2> QED BY <2>1
<1>2. CASE Len(t) # 0
  <2>1. Len(t) - 1 \in Nat /\ Len(t) \in 1..Len(t)
    BY <1>2
  <2>2. \A i \in 1..(Len(t) - 1) : t[i] \in Entries
    BY <2>1
  <2>3. t[Len(t)] \in Entries
    BY <2>1
  <2>4. \A i \in 1..(Len(t) - 1) :
          (IF i = IndexOf(t, c) THEN t[Len(t)] ELSE t[i]) \in Entries
    BY <2>2, <2>3
  <2> QED BY <2>1, <2>4, IsASeq DEF CloseConnection
<1> QED BY <1>1, <1>2

LEMMA ResizedType ==
  ASSUME NEW t \in Seq(Entries), NEW cap \in Nat
  PROVE  Resized(t, cap) \in Seq(Entries) /\ Len(Resized(t, cap)) = Len(t)
<1> DEFINE e(i) == [fd |-> IF i <= cap \div 4 THEN t[i].fd ELSE Null,
                    handle |-> IF i <= cap \div 8 THEN t[i].handle ELSE Null]
<1>1. \A i \in 1..Len(t) : e(i) \in Entries
  <2>1. \A i \in 1..Len(t) : t[i] \in Entries
    OBVIOUS
  <2> QED BY <2>1 DEF Entries
<1> HIDE DEF e
<1>2. [i \in 1..Len(t) |-> e(i)] \in Seq(Entries) /\ Len([i \in 1..Len(t) |-> e(i)]) = Len(t)
  BY <1>1, IsASeq, LenProperties
<1>3. DOMAIN t = 1..Len(t)
  OBVIOUS
<1>4. Resized(t, cap) = IF ~MustResize(t, cap) THEN t ELSE [i \in 1..Len(t) |-> e(i)]
  BY <1>3 DEF Resized, e
<1> QED BY <1>2, <1>4

LEMMA SendOnType ==
  ASSUME Handled, NEW c, NEW p \in Seq(Messages), SendOn(c, p)
  PROVE  Handled'
BY SentType DEF SendOn, FailToSend, Crash, Handled, Statuses

LEMMA RespondType ==
  ASSUME Handled, NEW c, NEW m \in Messages, Respond(c, m)
  PROVE  Handled'
<1>1. <<m>> \in Seq(Messages)
  OBVIOUS
<1> QED BY <1>1, SendOnType DEF Respond

LEMMA DropType ==
  ASSUME Handled, NEW c, Drop(c)
  PROVE  server' \in Statuses /\ table' \in Seq(Entries)
BY CloseConnectionType DEF Drop, Handled, Statuses

LEMMA RespondAndCloseType ==
  ASSUME Handled, NEW c, NEW m \in Messages, RespondAndClose(c, m)
  PROVE  Handled'
<1>1. <<m>> \in Seq(Messages)
  OBVIOUS
<1>2. [conn EXCEPT ![c] = "closed"] \in [Clients -> ConnStates]
  BY DEF Handled, ConnStates
<1>3. Sent({c}, <<m>>) \in [Clients -> Seq(Messages)]
  BY <1>1, SentType
<1>4. CASE FailToSend(c)
  BY <1>4 DEF FailToSend, Crash, Handled, Statuses
<1>5. CASE toClient' = Sent({c}, <<m>>) /\ conn' = [conn EXCEPT ![c] = "closed"] /\ Drop(c)
  BY <1>2, <1>3, <1>5, DropType DEF Handled
<1> QED
  BY <1>4, <1>5 DEF RespondAndClose

LEMMA ConfirmHandleType ==
  ASSUME Handled, NEW c, NEW h \in Names, ConfirmHandle(c, h)
  PROVE  Handled'
<1> DEFINE m == [Plain("confirm", 0) EXCEPT !.to = h]
<1>1. m \in Messages
  BY PlainType DEF Flags, Answers
<1>2. [conn EXCEPT ![c] = "fin_rst"] \in [Clients -> ConnStates]
  BY DEF Handled, ConnStates
<1>3. LearnHandle(table, c, h) \in Seq(Entries)
  BY LearnHandleType DEF Handled
<1> HIDE DEF m
<1>4. Sent({c}, <<m>>) \in [Clients -> Seq(Messages)] /\ AfterSend({c}) \in [Clients -> ConnStates]
  <2>1. <<m>> \in Seq(Messages)
    BY <1>1
  <2> QED BY <2>1, SentType
<1> QED
  BY <1>2, <1>3, <1>4 DEF ConfirmHandle, Crash, Handled, Statuses, m

LEMMA InitialPacketType ==
  ASSUME Handled, NEW c, NEW h \in Names, InitialPacket(c, h)
  PROVE  Handled'
<1>1. CASE ConfirmHandle(c, h)
  BY <1>1, ConfirmHandleType
<1>2. CASE Crash("null")
  BY <1>2 DEF Crash, Handled, Statuses
<1>3. CASE RespondAndClose(c, [Plain("bad_handle", 0) EXCEPT !.to = h])
  <2>1. [Plain("bad_handle", 0) EXCEPT !.to = h] \in Messages
    BY PlainType DEF Flags, Answers
  <2> QED BY <1>3, <2>1, RespondAndCloseType
<1> QED BY <1>1, <1>2, <1>3 DEF InitialPacket

LEMMA BroadcastType ==
  ASSUME Handled, NEW h, NEW p \in Seq(Messages), Broadcast(h, p), UNCHANGED table
  PROVE  Handled'
<1>1. PICK S : toClient' = Sent(S, p) /\ conn' = AfterSend(S)
  BY DEF Broadcast
<1>2. server' \in Statuses
  BY DEF Broadcast, Handled, Statuses
<1> QED BY <1>1, <1>2, SentType DEF Handled

LEMMA HandleType ==
  ASSUME Handled, NEW c, NEW p \in Seq(Messages), Head(p) \in Messages, Handle(c, p)
  PROVE  Handled'
<1> DEFINE m == Head(p)
<1>1. m.from \in Names /\ m.to \in Names /\ m.n \in Nat
  BY MessageType
<1>2. CASE InitialPacket(c, m.from)
  BY <1>1, <1>2, InitialPacketType
<1>3. CASE MessagePacket(c, p)
  <2>1. CASE Broadcast(m.from, p) /\ UNCHANGED table
    BY <2>1, BroadcastType
  <2>2. CASE Respond(c, [Plain("bad_destination", 0) EXCEPT !.to = m.to])
    <3>1. [Plain("bad_destination", 0) EXCEPT !.to = m.to] \in Messages
      BY <1>1, PlainType DEF Flags
    <3> QED BY <2>2, <3>1, RespondType
  <2>3. CASE Crash("null")
    BY <2>3 DEF Crash, Handled, Statuses
  <2>4. CASE \E i \in DOMAIN table : SendOn(table[i].fd, p)
    BY <2>4, SendOnType
  <2> QED BY <1>3, <2>1, <2>2, <2>3, <2>4 DEF MessagePacket, Route
<1>4. CASE RespondAndClose(c, Plain("exit_ack", 0))
  BY <1>4, PlainType, RespondAndCloseType DEF Flags, Answers, Names
<1>5. CASE Respond(c, Plain("length", Len(table)))
  <2>1. Len(table) \in Nat
    BY DEF Handled
  <2> QED BY <1>5, <2>1, PlainType, RespondType DEF Flags, Answers, Names
<1>6. CASE HandleRequest(c, m.n)
  <2>1. CASE Respond(c, Plain("no_handle", 0))
    BY <2>1, PlainType, RespondType DEF Flags, Answers, Names
  <2>2. CASE Crash("null")
    BY <2>2 DEF Crash, Handled, Statuses
  <2>3. CASE Respond(c, Plain("handle", m.n))
    BY <1>1, <2>3, PlainType, RespondType DEF Flags, Answers, Names
  <2> QED BY <1>6, <2>1, <2>2, <2>3 DEF HandleRequest
<1> QED BY <1>2, <1>3, <1>4, <1>5, <1>6 DEF Handle

-----------------------------------------------------------------------------
(* Types.                                                                   *)

LEMMA TypeInit == Init => TypeOK
<1> SUFFICES ASSUME Init PROVE TypeOK
  OBVIOUS
<1>1. listing \in [Clients -> [length : Nat, index : Nat]]
  BY DEF Init, ClientInit
<1> QED
  BY <1>1 DEF Init, StreamsInit, ServerInit, ClientInit, TypeOK, Statuses, ConnStates, Running

\* What the steps of the server leave of the clients' types.
LEMMA TypeServer ==
  ASSUME TypeOK, Server, UNCHANGED clientVars
  PROVE  TypeOK'
<1> USE DEF TypeOK
<1>1. CASE Select
  <2>1. Readable \subseteq Clients
    <3>1. Connected(table) \subseteq Clients \cup {Null}
      <4>1. \A i \in DOMAIN table : table[i] \in Entries
        OBVIOUS
      <4> QED BY <4>1 DEF Connected, Entries
    <3> QED BY <3>1 DEF Readable
  <2>2. CASE backlog = <<>>
    BY <1>1, <2>1, <2>2 DEF Select, clientVars
  <2>3. CASE backlog # <<>>
    <3> DEFINE e == [fd |-> Head(backlog), handle |-> NoHandle]
    <3>1. Head(backlog) \in Clients /\ Tail(backlog) \in Seq(Clients)
      BY <2>3, HeadTailProperties
    <3>2. e \in Entries
      BY <3>1 DEF Entries
    <3>3. Resized(table, capacity) \in Seq(Entries)
      BY ResizedType
    <3> HIDE DEF e
    <3>4. Append(Resized(table, capacity), e) \in Seq(Entries)
      BY <3>2, <3>3, AppendProperties
    <3>5. table' \in Seq(Entries) /\ backlog' \in Seq(Clients)
      BY <1>1, <2>3, <3>1, <3>4 DEF Select, e
    <3>6. capacity' \in Nat
      <4>1. capacity \in Nat
        OBVIOUS
      <4> HIDE DEF TypeOK
      <4>2. capacity' = 2 * capacity \/ capacity' = capacity
        BY <1>1, <2>3 DEF Select
      <4> QED BY <4>1, <4>2
    <3> QED BY <1>1, <2>1, <3>5, <3>6 DEF Select, clientVars
  <2> QED BY <2>2, <2>3
<1>2. CASE ProcessPacket
  <2>1. Handled
    BY DEF Handled
  <2>2. PICK i \in Ready :
          /\ turn' = i + 1
          /\ UNCHANGED <<capacity, readSet, backlog>>
          /\ LET c == table[i].fd
             IN  \/ \E k \in Taken(toServer[c]) :
                      /\ toServer' = [toServer EXCEPT ![c] = Rest(@, k)]
                      /\ Handle(c, SubSeq(toServer[c], 1, k))
                 \/ /\ toServer[c] = <<>> /\ conn[c] \in {"fin", "fin_rst"}
                    /\ conn' = [conn EXCEPT ![c] = "closed"] /\ Drop(c)
                    /\ UNCHANGED <<toServer, toClient>>
                 \/ toServer[c] = <<>> /\ conn[c] = "rst" /\ Crash("recv") /\ UNCHANGED toServer
    BY <1>2 DEF ProcessPacket
  <2> DEFINE c == table[i].fd
  <2>3. c \in Clients /\ turn' \in Nat \ {0}
    BY <2>2, SMTT(30) DEF Ready
  <2> HIDE DEF c
  <2>4. Handled' /\ toServer' \in [Clients -> Seq(Messages)]
    <3>1. CASE \E k \in Taken(toServer[c]) :
                 /\ toServer' = [toServer EXCEPT ![c] = Rest(@, k)]
                 /\ Handle(c, SubSeq(toServer[c], 1, k))
      <4>1. PICK k \in Taken(toServer[c]) :
              /\ toServer' = [toServer EXCEPT ![c] = Rest(@, k)]
              /\ Handle(c, SubSeq(toServer[c], 1, k))
        BY <3>1
      <4>2. toServer[c] \in Seq(Messages) /\ k \in DOMAIN toServer[c]
        BY <2>3, TakenIn
      <4>3. /\ SubSeq(toServer[c], 1, k) \in Seq(Messages)
            /\ Head(SubSeq(toServer[c], 1, k)) \in Messages
            /\ Rest(toServer[c], k) \in Seq(Messages)
        BY <4>2, PrefixType
      <4>4. Handled'
        BY <2>1, <4>1, <4>3, HandleType
      <4>5. toServer' = [toServer EXCEPT ![c] = Rest(toServer[c], k)]
        BY <4>1
      <4> QED BY <4>3, <4>4, <4>5
    <3>2. CASE /\ conn' = [conn EXCEPT ![c] = "closed"] /\ Drop(c)
               /\ UNCHANGED <<toServer, toClient>>
      BY <2>1, <3>2, DropType DEF Handled, ConnStates
    <3>3. CASE Crash("recv") /\ UNCHANGED toServer
      BY <3>3 DEF Crash, Handled, Statuses
    <3> QED BY <2>2, <3>1, <3>2, <3>3 DEF c
  <2> QED BY <2>2, <2>3, <2>4 DEF Handled, clientVars
<1> QED BY <1>1, <1>2 DEF Server

\* What a client may change: its streams, and what belongs to it.
LEMMA CloseType ==
  ASSUME TypeOK, NEW c \in Clients, NEW rest, Close(c, rest)
  PROVE  conn' \in [Clients -> ConnStates] /\ toClient' \in [Clients -> Seq(Messages)]
<1>1. \A s \in ClosedByClient(conn[c], rest) : s \in ConnStates
  BY DEF TypeOK, ClosedByClient, ConnStates
<1>2. <<>> \in Seq(Messages)
  OBVIOUS
<1> QED BY <1>1, <1>2 DEF Close, TypeOK

LEMMA ReceiveType ==
  ASSUME TypeOK, NEW c \in Clients, NEW s \in Running \cup Ended, Receive(c, s),
         toServer' \in [Clients -> Seq(Messages)],
         listing' \in [Clients -> [length : Nat, index : Nat]], UNCHANGED serverVars
  PROVE  TypeOK'
<1>1. PICK k \in Taken(toClient[c]) :
        IF s \in Running
        THEN toClient' = [toClient EXCEPT ![c] = Rest(@, k)] /\ UNCHANGED conn
        ELSE Close(c, Rest(toClient[c], k))
  BY DEF Receive
<1>2. Rest(toClient[c], k) \in Seq(Messages)
  BY <1>1, TakenIn, PrefixType DEF TypeOK
<1>3. conn' \in [Clients -> ConnStates] /\ toClient' \in [Clients -> Seq(Messages)]
  <2>1. CASE s \in Running
    <3>1. toClient' = [toClient EXCEPT ![c] = Rest(toClient[c], k)] /\ conn' = conn
      BY <1>1, <2>1
    <3> QED BY <1>2, <3>1 DEF TypeOK
  <2>2. CASE s \notin Running
    BY <1>1, <2>2, CloseType
  <2> QED BY <2>1, <2>2
<1> QED BY <1>3 DEF Receive, TypeOK, serverVars

LEMMA SendType ==
  ASSUME TypeOK, NEW c \in Clients, NEW m \in Messages, Send(c, m)
  PROVE  toServer' \in [Clients -> Seq(Messages)]
<1>1. Append(toServer[c], m) \in Seq(Messages)
  BY AppendProperties DEF TypeOK
<1> QED BY <1>1 DEF Send, TypeOK

LEMMA FirstType ==
  ASSUME TypeOK, NEW c \in Clients, toClient[c] # <<>>
  PROVE  Head(toClient[c]) \in Messages
BY HeadTailProperties DEF TypeOK

LEMMA RequestType ==
  ASSUME TypeOK, NEW c \in Clients, NEW i \in Nat
  PROVE  Request(c, i) \in Messages
BY PlainType DEF Request, TypeOK, Flags, Requests, Names

LEMMA CommandType ==
  ASSUME TypeOK, NEW c \in Clients, NEW m \in Messages, NEW s \in Running,
         Command(c, m, s), UNCHANGED serverVars
  PROVE  TypeOK'
<1>1. toServer' \in [Clients -> Seq(Messages)]
  BY SendType DEF Command
<1>2. commands' \in [Clients -> 0..MaxCommands]
  BY DEF Command, TypeOK
<1> QED BY <1>1, <1>2 DEF Command, TypeOK, serverVars

\* The steps of the clients: one case for each action.
LEMMA TypeClient ==
  ASSUME TypeOK, NEW c \in Clients, ClientStep(c)
  PROVE  TypeOK'
<1>0. UNCHANGED serverVars
  BY DEF ClientStep
<1>1. ASSUME toServer' = toServer PROVE toServer' \in [Clients -> Seq(Messages)]
  BY <1>1 DEF TypeOK
<1>2. ASSUME listing' = listing PROVE listing' \in [Clients -> [length : Nat, index : Nat]]
  BY <1>2 DEF TypeOK
<1>3. {"idle", "handle", "length", "exit"} \subseteq Running
        /\ {"HANDLE_EX", "MYSTERY_EX", "LIST_EX", "EXIT_EX", "acknowledged"} \subseteq Ended
  BY DEF Running, Waiting, Ended
<1>4. CASE GetConfirmation(c)
  BY <1>0, <1>1, <1>2, <1>3, <1>4, ReceiveType DEF GetConfirmation
<1>5. CASE ProcessMessage(c)
  BY <1>0, <1>1, <1>2, <1>3, <1>5, ReceiveType DEF ProcessMessage
<1>6. CASE GetListLength(c)
  <2>1. CASE Flag(c) = "length"
    <3>1. toServer' \in [Clients -> Seq(Messages)]
      BY <1>6, <2>1, SendType, RequestType DEF GetListLength
    <3>2. Head(toClient[c]).n \in Nat
      BY <1>6, FirstType, MessageType DEF GetListLength
    <3>3. listing' \in [Clients -> [length : Nat, index : Nat]]
      <4> DEFINE l == [length |-> Head(toClient[c]).n, index |-> 0]
      <4>1. l \in [length : Nat, index : Nat]
        BY <3>2
      <4>2. listing' = [listing EXCEPT ![c] = l]
        BY <1>6, <2>1 DEF GetListLength
      <4> HIDE DEF l
      <4> QED BY <4>1, <4>2 DEF TypeOK
    <3> QED BY <1>0, <1>3, <1>6, <2>1, <3>1, <3>3, ReceiveType DEF GetListLength
  <2>2. CASE Flag(c) # "length"
    BY <1>0, <1>1, <1>2, <1>3, <1>6, <2>2, ReceiveType DEF GetListLength
  <2> QED BY <2>1, <2>2
<1>7. CASE GetHandle(c)
  <2> DEFINE next == listing[c].index + 1
             more == next < listing[c].length
  <2>0. next \in Nat
    BY DEF TypeOK
  <2>1. CASE Flag(c) \notin {"handle", "no_handle"}
    BY <1>0, <1>1, <1>2, <1>3, <1>7, <2>1, ReceiveType DEF GetHandle
  <2>2. CASE Flag(c) \in {"handle", "no_handle"} /\ more
    <3>1. toServer' \in [Clients -> Seq(Messages)]
      BY <1>7, <2>0, <2>2, SendType, RequestType DEF GetHandle
    <3>2. listing' = [listing EXCEPT ![c].index = next]
      BY <1>7, <2>2 DEF GetHandle
    <3> HIDE DEF next
    <3>3. listing' \in [Clients -> [length : Nat, index : Nat]]
      BY <2>0, <3>2 DEF TypeOK
    <3>4. Receive(c, "handle")
      BY <1>7, <2>2 DEF GetHandle, next
    <3> QED BY <1>0, <1>3, <3>1, <3>3, <3>4, ReceiveType
  <2>3. CASE Flag(c) \in {"handle", "no_handle"} /\ ~more
    <3>1. /\ Receive(c, "idle") /\ toServer' = toServer
          /\ listing' = [listing EXCEPT ![c] = [length |-> 0, index |-> 0]]
      BY <1>7, <2>3 DEF GetHandle
    <3>2. listing' \in [Clients -> [length : Nat, index : Nat]]
      BY <3>1 DEF TypeOK
    <3> QED BY <1>0, <1>1, <1>3, <3>1, <3>2, ReceiveType
  <2> QED BY <2>1, <2>2, <2>3
<1>8. CASE Acknowledged(c)
  BY <1>0, <1>1, <1>2, <1>3, <1>8, ReceiveType DEF Acknowledged
<1>9. CASE Disconnected(c)
  BY <1>0, <1>9 DEF Disconnected, TypeOK, streamVars, serverVars, Ended
<1>10. CASE \E h \in Handles \cup {NoHandle} : Start(c, h)
  <2>1. PICK h \in Names : Start(c, h)
    BY <1>10 DEF Names
  <2>2. [Plain("initial", 0) EXCEPT !.from = h] \in Messages
    BY PlainType DEF Flags, Requests
  <2>3. toServer' \in [Clients -> Seq(Messages)]
    BY <2>1, <2>2, SendType DEF Start
  <2>4. backlog' \in Seq(Clients)
    BY <2>1, AppendProperties DEF Start, TypeOK
  <2> QED
    BY <1>0, <2>1, <2>3, <2>4
    DEF Start, TypeOK, serverVars, Running, Waiting, ConnStates, Names
<1>11. CASE SendMessage(c) \/ SendToAll(c)
  <2>1. \A h \in Names : Chat(name[c], h) \in Messages
    BY DEF Chat, Messages, TypeOK, Names
  <2> QED BY <1>0, <1>3, <1>11, <2>1, CommandType DEF SendMessage, SendToAll, Names
<1>12. CASE RequestListLength(c) \/ Exit(c)
  <2>1. \A flag \in {"list", "exit"} : [Plain(flag, 0) EXCEPT !.from = name[c]] \in Messages
    BY PlainType DEF TypeOK, Flags, Requests, Names
  <2> QED BY <1>0, <1>3, <1>12, <2>1, CommandType DEF RequestListLength, Exit
<1>13. CASE Kill(c)
  <2>1. conn' \in [Clients -> ConnStates] /\ toClient' \in [Clients -> Seq(Messages)]
    BY <1>13, CloseType DEF Kill
  <2>2. kills' \in 0..MaxKills
    BY <1>13 DEF Kill, TypeOK
  <2> QED BY <1>0, <1>13, <2>1, <2>2 DEF Kill, TypeOK, serverVars, Ended
<1> QED
  BY <1>4, <1>5, <1>6, <1>7, <1>8, <1>9, <1>10, <1>11, <1>12, <1>13 DEF ClientStep, Proceed, Use

LEMMA TypeNext == TypeOK /\ [Next]_vars => TypeOK'
<1> SUFFICES ASSUME TypeOK, [Next]_vars PROVE TypeOK'
  OBVIOUS
<1>1. CASE ServerStep
  BY <1>1, TypeServer DEF ServerStep
<1>2. CASE \E c \in Clients : ClientStep(c)
  BY <1>2, TypeClient
<1>3. CASE UNCHANGED vars
  BY <1>3 DEF vars, streamVars, serverVars, clientVars, TypeOK
<1> QED BY <1>1, <1>2, <1>3 DEF Next

\* Every variable keeps its type: in particular the table stays a sequence of
\* entries and every message in the streams is one the program makes.
THEOREM ChatTypes == Spec => []TypeOK
BY TypeInit, TypeNext, PTL DEF Spec

-----------------------------------------------------------------------------
(* No two entries have one name.                                            *)

\* NamesUnique, of any table.
Unique(t) ==
  \A i, j \in DOMAIN t : t[i].handle = t[j].handle /\ t[i].handle \in Handles => i = j

\* A name is learnt only when the search for it has gone through the table.
LEMMA LearnHandleUnique ==
  ASSUME NEW t \in Seq(Entries), Unique(t), NEW c, NEW h \in Names, Absent(t, h)
  PROVE  Unique(LearnHandle(t, c, h))
<1> DEFINE k == IndexOf(t, c)
           u == [t EXCEPT ![k].handle = h]
<1>1. DOMAIN u = DOMAIN t
  OBVIOUS
<1>2. \A i \in DOMAIN t : t[i] \in Entries
  OBVIOUS
<1>3. \A i \in DOMAIN t : u[i].handle = IF i = k THEN h ELSE t[i].handle
  BY <1>2 DEF Entries
<1>4. Unique(u)
  <2> HIDE DEF u
  <2> QED BY <1>1, <1>3 DEF Unique, Absent
<1> QED BY <1>4 DEF LearnHandle

\* The last entry is moved, not copied: its old place is no longer in the table.
LEMMA CloseConnectionUnique ==
  ASSUME NEW t \in Seq(Entries), Unique(t), NEW c
  PROVE  Unique(CloseConnection(t, c))
<1> DEFINE k == IndexOf(t, c)
           u == [i \in 1..(Len(t) - 1) |-> IF i = k THEN t[Len(t)] ELSE t[i]]
<1>1. DOMAIN u = 1..(Len(t) - 1)
  OBVIOUS
<1>2. \A i \in 1..(Len(t) - 1) : u[i] = IF i = k THEN t[Len(t)] ELSE t[i]
  OBVIOUS
<1>3. Unique(u)
  <2> HIDE DEF u, k
  <2> SUFFICES ASSUME NEW i \in 1..(Len(t) - 1), NEW j \in 1..(Len(t) - 1),
                      u[i].handle = u[j].handle, u[i].handle \in Handles
               PROVE  i = j
    BY <1>1 DEF Unique
  <2> DEFINE old(n) == IF n = k THEN Len(t) ELSE n
  <2>1. old(i) \in DOMAIN t /\ old(j) \in DOMAIN t
    OBVIOUS
  <2>2. u[i] = t[old(i)] /\ u[j] = t[old(j)]
    BY <1>2
  <2> HIDE DEF old
  <2>3. old(i) = old(j)
    BY <2>1, <2>2 DEF Unique
  <2> QED BY <2>3 DEF old
<1> QED BY <1>3 DEF CloseConnection

\* resize() loses names and invents none.
LEMMA ResizedUnique ==
  ASSUME NEW t \in Seq(Entries), Unique(t), NEW cap \in Nat
  PROVE  Unique(Resized(t, cap))
<1>1. \A i \in DOMAIN t :
        LET u == Resized(t, cap) IN u[i].handle \in {t[i].handle, Null}
  BY DEF Resized
<1>2. DOMAIN Resized(t, cap) = DOMAIN t
  BY DEF Resized
<1> QED BY <1>1, <1>2 DEF Unique

LEMMA AppendUnique ==
  ASSUME NEW t \in Seq(Entries), Unique(t), NEW e \in Entries, e.handle = NoHandle
  PROVE  Unique(Append(t, e))
<1>1. DOMAIN Append(t, e) = 1..(Len(t) + 1)
  OBVIOUS
<1>2. \A i \in 1..Len(t) : Append(t, e)[i] = t[i]
  OBVIOUS
<1>3. Append(t, e)[Len(t) + 1] = e
  OBVIOUS
<1> HIDE DEF Entries
<1> QED BY <1>1, <1>2, <1>3 DEF Unique

\* Every handler leaves the table alone, closes one connection, or learns a
\* name that was absent.
LEMMA HandleTable ==
  ASSUME NEW c, NEW p, Head(p) \in Messages, Handle(c, p)
  PROVE  \/ table' = table
         \/ table' = CloseConnection(table, c)
         \/ \E h \in Names : Absent(table, h) /\ table' = LearnHandle(table, c, h)
<1> DEFINE m == Head(p)
<1>1. m.from \in Names
  BY MessageType
<1>2. CASE InitialPacket(c, m.from)
  BY <1>1, <1>2
  DEF InitialPacket, ConfirmHandle, RespondAndClose, Drop, FailToSend, Crash
<1>3. CASE MessagePacket(c, p)
  BY <1>3 DEF MessagePacket, Route, SendOn, Respond, FailToSend, Crash
<1>4. CASE RespondAndClose(c, Plain("exit_ack", 0))
  BY <1>4 DEF RespondAndClose, Drop, FailToSend, Crash
<1>5. CASE Respond(c, Plain("length", Len(table))) \/ HandleRequest(c, m.n)
  BY <1>5 DEF HandleRequest, SendOn, Respond, FailToSend, Crash
<1> QED BY <1>2, <1>3, <1>4, <1>5 DEF Handle

LEMMA NamesUniqueNext ==
  ASSUME TypeOK, NamesUnique, [Next]_vars
  PROVE  NamesUnique'
<1>0. Unique(table) /\ table \in Seq(Entries)
  BY DEF NamesUnique, Unique, TypeOK
<1>1. CASE Select
  <2> DEFINE r == Resized(table, capacity)
             e == [fd |-> Head(backlog), handle |-> NoHandle]
  <2>1. CASE backlog = <<>>
    BY <1>0, <1>1, <2>1 DEF Select, NamesUnique, Unique
  <2>2. CASE backlog # <<>>
    <3>1. r \in Seq(Entries) /\ Unique(r)
      BY <1>0, ResizedType, ResizedUnique DEF TypeOK
    <3>2. e \in Entries /\ e.handle = NoHandle
      BY <2>2, HeadTailProperties DEF TypeOK, Entries
    <3>3. table' = Append(r, e)
      BY <1>1, <2>2 DEF Select
    <3> HIDE DEF r, e
    <3>4. Unique(table')
      BY <3>1, <3>2, <3>3, AppendUnique
    <3> QED BY <3>4 DEF NamesUnique, Unique
  <2> QED BY <2>1, <2>2
<1>2. CASE ProcessPacket
  <2>1. PICK i \in Ready :
          LET c == table[i].fd
          IN  \/ \E k \in Taken(toServer[c]) : Handle(c, SubSeq(toServer[c], 1, k))
              \/ Drop(c)
              \/ Crash("recv")
    BY <1>2 DEF ProcessPacket
  <2> DEFINE c == table[i].fd
  <2>2. c \in Clients
    BY DEF Ready, TypeOK
  <2> HIDE DEF c
  <2>3. \/ table' = table
        \/ table' = CloseConnection(table, c)
        \/ \E h \in Names : Absent(table, h) /\ table' = LearnHandle(table, c, h)
    <3>1. CASE \E k \in Taken(toServer[c]) : Handle(c, SubSeq(toServer[c], 1, k))
      <4>1. PICK k \in Taken(toServer[c]) : Handle(c, SubSeq(toServer[c], 1, k))
        BY <3>1
      <4>2. Head(SubSeq(toServer[c], 1, k)) \in Messages
        BY <2>2, TakenIn, PrefixType DEF TypeOK
      <4> QED BY <4>1, <4>2, HandleTable
    <3>2. CASE Drop(c) \/ Crash("recv")
      BY <3>2 DEF Drop, Crash
    <3> QED BY <2>1, <3>1, <3>2 DEF c
  <2>4. Unique(table')
    BY <1>0, <2>3, CloseConnectionUnique, LearnHandleUnique
  <2> QED BY <2>4 DEF NamesUnique, Unique
<1>3. CASE \E c \in Clients : ClientStep(c)
  BY <1>3 DEF ClientStep, serverVars, NamesUnique
<1>4. CASE UNCHANGED vars
  BY <1>4 DEF vars, serverVars, NamesUnique
<1> QED BY <1>1, <1>2, <1>3, <1>4 DEF Next, ServerStep, Server

\* Whoever joins, leaves, is refused or is dropped, and even when resize()
\* loses entries, no two clients have one name: a message with a destination
\* has at most one client to go to.
THEOREM NoNameTwice == Spec => []NamesUnique
<1>1. Init => NamesUnique
  BY DEF Init, ServerInit, NamesUnique
<1>2. TypeOK /\ NamesUnique /\ [Next]_vars => NamesUnique'
  BY NamesUniqueNext
<1> QED BY <1>1, <1>2, ChatTypes, PTL DEF Spec

-----------------------------------------------------------------------------
(* What the operations of ChatTable do to connections.                      *)

\* No two entries of a table are of one connection; resize() leaves zeros.
SocketsDiffer(t) ==
  \A i, j \in DOMAIN t : t[i].fd = t[j].fd /\ t[i].fd # Null => i = j

LEMMA IndexOfFound ==
  ASSUME NEW t, NEW c \in Connected(t)
  PROVE  IndexOf(t, c) \in DOMAIN t /\ t[IndexOf(t, c)].fd = c
<1>1. \E i \in DOMAIN t : t[i].fd = c
  BY DEF Connected
<1> QED BY <1>1 DEF IndexOf

LEMMA IndexOfOnly ==
  ASSUME NEW t, SocketsDiffer(t), NEW i \in DOMAIN t, t[i].fd # Null
  PROVE  IndexOf(t, t[i].fd) = i
<1>1. t[i].fd \in Connected(t)
  BY DEF Connected
<1> QED BY <1>1, IndexOfFound DEF SocketsDiffer

\* The connection closed leaves the table, every other entry stays, and those
\* above its place do not move.
LEMMA CloseConnectionSockets ==
  ASSUME NEW t \in Seq(Entries), SocketsDiffer(t), NEW c \in Connected(t), c # Null
  PROVE  LET u == CloseConnection(t, c) IN
         /\ SocketsDiffer(u)
         /\ c \notin Connected(u)
         /\ \A j \in DOMAIN u : \E i \in DOMAIN t : u[j] = t[i]
         /\ \A i \in DOMAIN t : t[i].fd # c => \E j \in DOMAIN u : u[j] = t[i]
         /\ \A j \in DOMAIN u : j > IndexOf(t, c) => u[j] = t[j]
         /\ DOMAIN u \subseteq DOMAIN t
<1> DEFINE k == IndexOf(t, c)
           n == Len(t)
           u == CloseConnection(t, c)
           old(j) == IF j = k THEN n ELSE j
<1>1. k \in 1..n /\ t[k].fd = c /\ n \in Nat /\ DOMAIN t = 1..n
  BY IndexOfFound
<1>2. DOMAIN u = 1..(n - 1) /\ \A j \in 1..(n - 1) : u[j] = t[old(j)]
  BY DEF CloseConnection
<1>3. \A i \in 1..n : t[i].fd = c => i = k
  BY <1>1 DEF SocketsDiffer
<1> HIDE DEF k, n, u
<1>4. \A j \in 1..(n - 1) : old(j) \in 1..n /\ old(j) # k
  BY <1>1
<1>5. \A i, j \in 1..(n - 1) : old(i) = old(j) => i = j
  BY <1>1
<1>6. \A i \in 1..n : i # k => \E j \in 1..(n - 1) : old(j) = i
  <2> SUFFICES ASSUME NEW i \in 1..n, i # k PROVE \E j \in 1..(n - 1) : old(j) = i
    OBVIOUS
  <2>1. CASE i = n
    <3>1. k \in 1..(n - 1) /\ old(k) = i
      BY <1>1, <2>1
    <3> QED BY <3>1
  <2>2. CASE i # n
    <3>1. i \in 1..(n - 1) /\ old(i) = i
      BY <1>1, <2>2
    <3> QED BY <3>1
  <2> QED BY <2>1, <2>2
<1> HIDE DEF old
<1>7. SocketsDiffer(u)
  <2> SUFFICES ASSUME NEW i \in 1..(n - 1), NEW j \in 1..(n - 1), u[i].fd = u[j].fd, u[i].fd # Null
               PROVE  i = j
    BY <1>2 DEF SocketsDiffer
  <2>1. t[old(i)].fd = t[old(j)].fd /\ t[old(i)].fd # Null
    BY <1>2
  <2>2. old(i) = old(j)
    BY <1>1, <1>4, <2>1 DEF SocketsDiffer
  <2> QED BY <1>5, <2>2
<1>8. c \notin Connected(u)
  BY <1>2, <1>3, <1>4 DEF Connected
<1>9. \A j \in DOMAIN u : \E i \in DOMAIN t : u[j] = t[i]
  BY <1>1, <1>2, <1>4
<1>10. \A i \in DOMAIN t : t[i].fd # c => \E j \in DOMAIN u : u[j] = t[i]
  BY <1>1, <1>2, <1>6
<1>11. \A j \in DOMAIN u : j > k => u[j] = t[j]
  BY <1>1, <1>2 DEF old
<1>12. DOMAIN u \subseteq DOMAIN t
  BY <1>1, <1>2
<1> QED BY <1>7, <1>8, <1>9, <1>10, <1>11, <1>12 DEF u, k

\* A name learnt changes the name of one entry, and nothing else.
LEMMA LearnHandleSockets ==
  ASSUME NEW t \in Seq(Entries), NEW c, NEW h \in Names
  PROVE  LET u == LearnHandle(t, c, h) IN
         /\ DOMAIN u = DOMAIN t
         /\ \A i \in DOMAIN t : u[i].fd = t[i].fd
         /\ \A i \in DOMAIN t : i # IndexOf(t, c) => u[i] = t[i]
         /\ \A i \in DOMAIN t : i = IndexOf(t, c) => u[i] = [fd |-> t[i].fd, handle |-> h]
<1> DEFINE k == IndexOf(t, c)
           u == LearnHandle(t, c, h)
<1>1. u = [i \in DOMAIN t |-> IF i = k THEN [t[i] EXCEPT !.handle = h] ELSE t[i]]
  BY DEF LearnHandle
<1>2. \A i \in DOMAIN t : t[i] \in Entries
  OBVIOUS
<1>3. \A e \in Entries : [e EXCEPT !.handle = h] = [fd |-> e.fd, handle |-> h]
  BY DEF Entries
<1> HIDE DEF k, u
<1>4. DOMAIN u = DOMAIN t
  BY <1>1
<1>5. \A i \in DOMAIN t : i # k => u[i] = t[i]
  BY <1>1
<1>6. \A i \in DOMAIN t : i = k => u[i] = [fd |-> t[i].fd, handle |-> h]
  BY <1>1, <1>2, <1>3
<1>7. \A i \in DOMAIN t : u[i].fd = t[i].fd
  BY <1>1, <1>2 DEF Entries
<1> QED BY <1>4, <1>5, <1>6, <1>7 DEF u, k

LEMMA ResizedSockets ==
  ASSUME NEW t \in Seq(Entries), NEW cap \in Nat, SocketsDiffer(t)
  PROVE  /\ SocketsDiffer(Resized(t, cap))
         /\ Connected(Resized(t, cap)) \subseteq Connected(t) \cup {Null}
<1>1. DOMAIN Resized(t, cap) = DOMAIN t
  BY DEF Resized
<1>2. \A i \in DOMAIN t : Resized(t, cap)[i].fd \in {t[i].fd, Null}
  BY DEF Resized
<1> QED BY <1>1, <1>2 DEF SocketsDiffer, Connected

LEMMA AppendSockets ==
  ASSUME NEW t \in Seq(Entries), SocketsDiffer(t), NEW e \in Entries, e.fd \notin Connected(t)
  PROVE  /\ SocketsDiffer(Append(t, e))
         /\ Connected(Append(t, e)) = Connected(t) \cup {e.fd}
         /\ \A i \in DOMAIN t : i \in DOMAIN Append(t, e) /\ Append(t, e)[i] = t[i]
<1> DEFINE u == Append(t, e)
           n == Len(t)
<1>1. n \in Nat /\ DOMAIN t = 1..n /\ DOMAIN u = 1..(n + 1)
  OBVIOUS
<1>2. (\A i \in 1..n : u[i] = t[i]) /\ u[n + 1] = e
  OBVIOUS
<1> HIDE DEF n, u, Entries
<1>3. \A i \in DOMAIN u : i \in DOMAIN t \/ i = n + 1
  BY <1>1
<1>4. SocketsDiffer(u)
  BY <1>1, <1>2, <1>3 DEF SocketsDiffer, Connected
<1>5. Connected(u) = Connected(t) \cup {e.fd}
  BY <1>1, <1>2, <1>3 DEF Connected
<1> QED BY <1>1, <1>2, <1>4, <1>5 DEF u

-----------------------------------------------------------------------------
(* What the steps of the server and the clients do to connections.          *)

\* A connection stays as it is, or its client stays gone.
ConnStays(d) == conn'[d] = conn[d] \/ (conn[d] \in Gone /\ conn'[d] \in Gone)

Learns(c) ==
  /\ toServer[c] # <<>> /\ Head(toServer[c]).flag = "initial"
  /\ table' = LearnHandle(table, c, Head(toServer[c]).from)

TableChange(c) ==
  /\ \A d \in Clients \ {c} : ConnStays(d)
  /\ \/ ConnStays(c) /\ (table' = table \/ Learns(c))
     \/ conn'[c] = "closed" /\ table' = CloseConnection(table, c)
     \/ server' # "running" /\ table' = table

LEMMA AfterSendStays ==
  ASSUME NEW S, conn' = AfterSend(S)
  PROVE  \A d \in Clients : ConnStays(d)
BY DEF AfterSend, ConnStays, Gone

LEMMA CrashChange ==
  ASSUME NEW c, NEW why, Crash(why), why # "running", \A d \in Clients : ConnStays(d)
  PROVE  TableChange(c)
BY DEF Crash, TableChange

LEMMA SendOnChange ==
  ASSUME NEW c \in Clients, NEW d, NEW p, SendOn(d, p)
  PROVE  TableChange(c)
<1>1. CASE conn' = AfterSend({d}) /\ UNCHANGED table
  BY <1>1, AfterSendStays DEF TableChange
<1>2. CASE FailToSend(d)
  BY <1>2, CrashChange DEF FailToSend, Crash, ConnStays
<1> QED BY <1>1, <1>2 DEF SendOn

LEMMA CloseChange ==
  ASSUME NEW c \in Clients, conn \in [Clients -> ConnStates],
         conn' = [conn EXCEPT ![c] = "closed"], Drop(c)
  PROVE  TableChange(c)
<1>1. conn'[c] = "closed" /\ \A d \in Clients \ {c} : ConnStays(d)
  BY DEF ConnStays
<1> QED BY <1>1 DEF Drop, TableChange

LEMMA RespondAndCloseChange ==
  ASSUME NEW c \in Clients, conn \in [Clients -> ConnStates], NEW m, RespondAndClose(c, m)
  PROVE  TableChange(c)
<1>1. CASE FailToSend(c)
  BY <1>1, CrashChange DEF FailToSend, Crash, ConnStays
<1>2. CASE conn' = [conn EXCEPT ![c] = "closed"] /\ Drop(c)
  BY <1>2, CloseChange
<1> QED BY <1>1, <1>2 DEF RespondAndClose

LEMMA HandleChange ==
  ASSUME TypeOK, NEW c \in Clients, NEW p, toServer[c] # <<>>, Head(p) = Head(toServer[c]),
         Handle(c, p)
  PROVE  TableChange(c)
<1> DEFINE m == Head(p)
<1>1. conn \in [Clients -> ConnStates]
  BY DEF TypeOK
<1>2. ASSUME Crash("null"), UNCHANGED conn PROVE TableChange(c)
  BY <1>2, CrashChange DEF ConnStays
<1>3. ASSUME m.flag = "initial", InitialPacket(c, m.from) PROVE TableChange(c)
  <2>1. CASE ConfirmHandle(c, m.from)
    <3>1. CASE conn' = AfterSend({c}) /\ table' = LearnHandle(table, c, m.from)
      BY <1>3, <3>1, AfterSendStays DEF TableChange, Learns
    <3>2. CASE /\ conn[c] = "rst" /\ conn' = [conn EXCEPT ![c] = "fin_rst"]
               /\ table' = LearnHandle(table, c, m.from)
      <4>1. \A d \in Clients : ConnStays(d)
        BY <1>1, <3>2 DEF ConnStays, Gone
      <4> QED BY <1>3, <3>2, <4>1 DEF TableChange, Learns
    <3>3. CASE conn[c] = "fin_rst" /\ Crash("send")
      BY <3>3, CrashChange DEF Crash, ConnStays
    <3> QED BY <2>1, <3>1, <3>2, <3>3 DEF ConfirmHandle
  <2>2. CASE Crash("null")
    BY <1>2, <2>2 DEF Crash
  <2>3. CASE RespondAndClose(c, [Plain("bad_handle", 0) EXCEPT !.to = m.from])
    BY <1>1, <2>3, RespondAndCloseChange
  <2> QED BY <1>3, <2>1, <2>2, <2>3 DEF InitialPacket
<1>4. ASSUME MessagePacket(c, p) PROVE TableChange(c)
  <2>1. CASE Broadcast(m.from, p) /\ UNCHANGED table
    <3>1. PICK S : conn' = AfterSend(S)
      BY <2>1 DEF Broadcast
    <3> QED BY <2>1, <3>1, AfterSendStays DEF TableChange
  <2>2. CASE Respond(c, [Plain("bad_destination", 0) EXCEPT !.to = m.to])
    BY <2>2, SendOnChange DEF Respond
  <2>3. CASE Crash("null")
    BY <1>2, <2>3 DEF Crash
  <2>4. CASE \E i \in DOMAIN table : SendOn(table[i].fd, p)
    BY <2>4, SendOnChange
  <2> QED BY <1>4, <2>1, <2>2, <2>3, <2>4 DEF MessagePacket, Route
<1>5. CASE RespondAndClose(c, Plain("exit_ack", 0))
  BY <1>1, <1>5, RespondAndCloseChange
<1>6. CASE Respond(c, Plain("length", Len(table)))
  BY <1>6, SendOnChange DEF Respond
<1>7. CASE HandleRequest(c, m.n)
  <2>1. CASE Crash("null")
    BY <1>2, <2>1 DEF Crash
  <2>2. CASE Respond(c, Plain("no_handle", 0)) \/ Respond(c, Plain("handle", m.n))
    BY <2>2, SendOnChange DEF Respond
  <2> QED BY <1>7, <2>1, <2>2 DEF HandleRequest
<1> QED BY <1>3, <1>4, <1>5, <1>6, <1>7 DEF Handle

\* The step of the server for the entry i.
ProcessChange(i) ==
  /\ table[i].fd \in Clients /\ server = "running"
  /\ turn' = i + 1 /\ UNCHANGED <<capacity, readSet, backlog>>
  /\ \A d \in Clients : d # table[i].fd => toServer'[d] = toServer[d]
  /\ TableChange(table[i].fd)

LEMMA ProcessPacketChange ==
  ASSUME TypeOK, ProcessPacket
  PROVE  \E i \in Ready : ProcessChange(i)
<1>1. PICK i \in Ready :
        /\ server = "running"
        /\ LET c == table[i].fd
           IN  \/ \E k \in Taken(toServer[c]) :
                    /\ toServer' = [toServer EXCEPT ![c] = Rest(@, k)]
                    /\ Handle(c, SubSeq(toServer[c], 1, k))
               \/ /\ toServer[c] = <<>> /\ conn[c] \in {"fin", "fin_rst"}
                  /\ conn' = [conn EXCEPT ![c] = "closed"] /\ Drop(c)
                  /\ UNCHANGED <<toServer, toClient>>
               \/ toServer[c] = <<>> /\ conn[c] = "rst" /\ Crash("recv") /\ UNCHANGED toServer
        /\ turn' = i + 1
        /\ UNCHANGED <<capacity, readSet, backlog>>
  BY DEF ProcessPacket
<1> DEFINE c == table[i].fd
<1>2. c \in Clients
  BY DEF Ready, TypeOK
<1> HIDE DEF c
<1>3. CASE \E k \in Taken(toServer[c]) :
             /\ toServer' = [toServer EXCEPT ![c] = Rest(@, k)]
             /\ Handle(c, SubSeq(toServer[c], 1, k))
  <2>1. PICK k \in Taken(toServer[c]) :
          /\ toServer' = [toServer EXCEPT ![c] = Rest(@, k)]
          /\ Handle(c, SubSeq(toServer[c], 1, k))
    BY <1>3
  <2>2. toServer[c] \in Seq(Messages) /\ k \in 1..Len(toServer[c])
    BY <1>2, TakenIn DEF TypeOK
  <2>3. toServer[c] # <<>> /\ Head(SubSeq(toServer[c], 1, k)) = Head(toServer[c])
    BY <2>2
  <2>4. TableChange(c)
    BY <1>2, <2>1, <2>3, HandleChange
  <2>5. \A d \in Clients : d # c => toServer'[d] = toServer[d]
    BY <2>1 DEF TypeOK
  <2> QED BY <1>1, <1>2, <2>4, <2>5 DEF ProcessChange, c
<1>4. CASE conn' = [conn EXCEPT ![c] = "closed"] /\ Drop(c) /\ UNCHANGED toServer
  <2>1. TableChange(c)
    BY <1>2, <1>4, CloseChange DEF TypeOK
  <2> QED BY <1>1, <1>2, <1>4, <2>1 DEF ProcessChange, c
<1>5. CASE Crash("recv") /\ UNCHANGED toServer
  <2>1. TableChange(c)
    BY <1>5 DEF Crash, TableChange, ConnStays
  <2> QED BY <1>1, <1>2, <1>5, <2>1 DEF ProcessChange, c
<1> QED BY <1>1, <1>3, <1>4, <1>5 DEF c

Connects(c) ==
  /\ cstate[c] = "off" /\ server = "running"
  /\ conn' = [conn EXCEPT ![c] = "open"] /\ backlog' = Append(backlog, c)

\* The step of a client c.
ClientChange(c) ==
  /\ UNCHANGED <<table, capacity, readSet, turn, server>>
  /\ \A d \in Clients : toServer[d] # <<>> => toServer'[d] # <<>>
  /\ cstate'[c] # "off" /\ \A d \in Clients \ {c} : cstate'[d] = cstate[d]
  /\ \/ Connects(c)
     \/ /\ UNCHANGED backlog
        /\ \A d \in Clients \ {c} : conn'[d] = conn[d]
        /\ conn'[c] = conn[c] \/ (conn[c] = "open" /\ conn'[c] \in Gone)

LEMMA SendGrows ==
  ASSUME TypeOK, NEW c \in Clients, NEW m \in Messages, Send(c, m)
  PROVE  \A d \in Clients : toServer[d] # <<>> => toServer'[d] # <<>>
<1>1. toServer' = [toServer EXCEPT ![c] = Append(toServer[c], m)]
  BY DEF Send
<1>2. toServer[c] \in Seq(Messages)
  BY DEF TypeOK
<1>3. Append(toServer[c], m) # <<>>
  BY <1>2
<1> QED BY <1>1, <1>3 DEF TypeOK

LEMMA CloseMoves ==
  ASSUME TypeOK, NEW c \in Clients, NEW rest, Close(c, rest)
  PROVE  /\ \A d \in Clients \ {c} : conn'[d] = conn[d]
         /\ conn'[c] = conn[c] \/ (conn[c] = "open" /\ conn'[c] \in Gone)
BY DEF Close, ClosedByClient, TypeOK, Gone

LEMMA ReceiveChange ==
  ASSUME TypeOK, NEW c \in Clients, NEW s, s # "off", Receive(c, s), UNCHANGED serverVars,
         \A d \in Clients : toServer[d] # <<>> => toServer'[d] # <<>>
  PROVE  ClientChange(c)
<1>1. /\ \A d \in Clients \ {c} : conn'[d] = conn[d]
      /\ conn'[c] = conn[c] \/ (conn[c] = "open" /\ conn'[c] \in Gone)
  <2>1. CASE UNCHANGED conn
    BY <2>1
  <2>2. CASE \E rest : Close(c, rest)
    BY <2>2, CloseMoves
  <2> QED BY <2>1, <2>2 DEF Receive
<1>2. cstate'[c] # "off" /\ \A d \in Clients \ {c} : cstate'[d] = cstate[d]
  BY DEF Receive, TypeOK
<1> QED BY <1>1, <1>2 DEF Receive, ClientChange, serverVars

LEMMA CommandChange ==
  ASSUME TypeOK, NEW c \in Clients, NEW m \in Messages, NEW s, s # "off", Command(c, m, s),
         UNCHANGED serverVars
  PROVE  ClientChange(c)
<1>1. \A d \in Clients : toServer[d] # <<>> => toServer'[d] # <<>>
  BY SendGrows DEF Command
<1>2. cstate'[c] # "off" /\ \A d \in Clients \ {c} : cstate'[d] = cstate[d]
  BY DEF Command, TypeOK
<1> QED BY <1>1, <1>2 DEF Command, ClientChange, serverVars

LEMMA ClientStepChange ==
  ASSUME TypeOK, NEW c \in Clients, ClientStep(c)
  PROVE  ClientChange(c)
<1>0. UNCHANGED serverVars
  BY DEF ClientStep
<1>1. ASSUME NEW s, s # "off", Receive(c, s), UNCHANGED toServer PROVE ClientChange(c)
  BY <1>0, <1>1, ReceiveChange
<1>2. ASSUME NEW s, s # "off", Receive(c, s), NEW n \in Nat, Send(c, Request(c, n))
      PROVE  ClientChange(c)
  BY <1>0, <1>2, ReceiveChange, SendGrows, RequestType
<1>3. CASE GetConfirmation(c) \/ ProcessMessage(c) \/ Acknowledged(c)
  BY <1>1, <1>3 DEF GetConfirmation, ProcessMessage, Acknowledged
<1>4. CASE GetListLength(c)
  BY <1>1, <1>2, <1>4 DEF GetListLength
<1>5. CASE GetHandle(c)
  <2>1. listing[c].index + 1 \in Nat
    BY DEF TypeOK
  <2> QED BY <1>1, <1>2, <1>5, <2>1 DEF GetHandle
<1>6. CASE Disconnected(c)
  BY <1>0, <1>6 DEF Disconnected, ClientChange, serverVars, streamVars, TypeOK
<1>7. CASE \E h \in Handles \cup {NoHandle} : Start(c, h)
  <2>1. PICK h \in Names : Start(c, h)
    BY <1>7 DEF Names
  <2>2. [Plain("initial", 0) EXCEPT !.from = h] \in Messages
    BY PlainType DEF Flags, Requests
  <2>3. \A d \in Clients : toServer[d] # <<>> => toServer'[d] # <<>>
    BY <2>1, <2>2, SendGrows DEF Start
  <2>4. cstate'[c] # "off" /\ \A d \in Clients \ {c} : cstate'[d] = cstate[d]
    BY <2>1 DEF Start, TypeOK
  <2> QED BY <1>0, <2>1, <2>3, <2>4 DEF Start, ClientChange, Connects, serverVars
<1>8. CASE SendMessage(c) \/ SendToAll(c)
  <2>1. \A h \in Names : Chat(name[c], h) \in Messages
    BY DEF Chat, Messages, TypeOK, Names
  <2> QED BY <1>0, <1>8, <2>1, CommandChange DEF SendMessage, SendToAll, Names
<1>9. CASE RequestListLength(c) \/ Exit(c)
  <2>1. \A flag \in {"list", "exit"} : [Plain(flag, 0) EXCEPT !.from = name[c]] \in Messages
    BY PlainType DEF TypeOK, Flags, Requests, Names
  <2> QED BY <1>0, <1>9, <2>1, CommandChange DEF RequestListLength, Exit
<1>10. CASE Kill(c)
  <2>1. cstate'[c] # "off" /\ \A d \in Clients \ {c} : cstate'[d] = cstate[d]
    BY <1>10 DEF Kill, TypeOK
  <2> QED BY <1>0, <1>10, <2>1, CloseMoves DEF Kill, ClientChange, serverVars
<1> QED
  BY <1>3, <1>4, <1>5, <1>6, <1>7, <1>8, <1>9, <1>10 DEF ClientStep, Proceed, Use

-----------------------------------------------------------------------------
(* Each connection has one place.                                           *)

Queued == {backlog[i] : i \in DOMAIN backlog}

\* A connection is in the backlog once, or in the table once, and not before
\* its client connects.
OnePlace ==
  /\ SocketsDiffer(table)
  /\ \A i, j \in DOMAIN backlog : backlog[i] = backlog[j] => i = j
  /\ Queued \cap Connected(table) = {}
  /\ \A c \in Clients : cstate[c] = "off" => c \notin Queued \cup Connected(table)

\* What accept() takes from the backlog, and what it leaves.
LEMMA BacklogTail ==
  ASSUME TypeOK, OnePlace, backlog # <<>>, backlog' = Tail(backlog)
  PROVE  /\ Head(backlog) \in Queued /\ Head(backlog) \in Clients
         /\ Queued' = Queued \ {Head(backlog)}
         /\ \A i, j \in DOMAIN backlog' : backlog'[i] = backlog'[j] => i = j
<1> DEFINE b == backlog
           n == Len(backlog)
<1>1. b \in Seq(Clients) /\ n \in Nat /\ n >= 1 /\ DOMAIN b = 1..n
  BY DEF TypeOK
<1>2. DOMAIN backlog' = 1..(n - 1) /\ \A i \in 1..(n - 1) : backlog'[i] = b[i + 1]
  BY <1>1
<1>3. Head(b) = b[1] /\ 1 \in 1..n /\ b[1] \in Clients
  BY <1>1
<1>4. \A i, j \in 1..n : b[i] = b[j] => i = j
  BY <1>1 DEF OnePlace
<1>5. Queued = {b[i] : i \in 1..n}
  BY <1>1 DEF Queued
<1> HIDE DEF b, n
<1>6. \A i \in 1..(n - 1) : i + 1 \in 1..n /\ i + 1 # 1
  BY <1>1
<1>7. Queued' = {backlog'[i] : i \in 1..(n - 1)}
  BY <1>2 DEF Queued
<1>8. \A i \in 1..n : i # 1 => i - 1 \in 1..(n - 1) /\ backlog'[i - 1] = b[i]
  <2> SUFFICES ASSUME NEW i \in 1..n, i # 1
               PROVE  i - 1 \in 1..(n - 1) /\ backlog'[i - 1] = b[i]
    OBVIOUS
  <2>1. i - 1 \in 1..(n - 1) /\ (i - 1) + 1 = i
    BY <1>1
  <2> QED BY <1>2, <2>1
<1>9. Queued' = Queued \ {b[1]}
  <2>1. ASSUME NEW x \in Queued' PROVE x \in Queued \ {b[1]}
    <3>1. PICK i \in 1..(n - 1) : x = b[i + 1]
      BY <1>2, <1>7, <2>1
    <3> QED BY <1>3, <1>4, <1>5, <1>6, <3>1
  <2>2. ASSUME NEW x \in Queued \ {b[1]} PROVE x \in Queued'
    <3>1. PICK i \in 1..n : x = b[i] /\ i # 1
      BY <1>5, <2>2
    <3> QED BY <1>7, <1>8, <3>1
  <2> QED BY <2>1, <2>2
<1>10. ASSUME NEW i \in 1..(n - 1), NEW j \in 1..(n - 1), backlog'[i] = backlog'[j]
       PROVE  i = j
  <2>1. i + 1 = j + 1
    BY <1>2, <1>4, <1>6, <1>10
  <2> QED BY <1>1, <2>1
<1>11. Head(b) \in Queued
  BY <1>3, <1>5
<1> QED BY <1>2, <1>3, <1>9, <1>10, <1>11 DEF b

LEMMA OnePlaceSelect ==
  ASSUME TypeOK, OnePlace, Select, UNCHANGED clientVars
  PROVE  /\ OnePlace'
         /\ Queued' \cup (Connected(table)' \ {Null}) \subseteq Queued \cup (Connected(table) \ {Null})
<1> DEFINE r == Resized(table, capacity)
           e == [fd |-> Head(backlog), handle |-> NoHandle]
<1>1. UNCHANGED cstate
  BY DEF clientVars
<1>2. CASE backlog = <<>>
  BY <1>1, <1>2 DEF Select, OnePlace, Queued
<1>3. CASE backlog # <<>>
  <2>1. table' = Append(r, e) /\ backlog' = Tail(backlog)
    BY <1>3 DEF Select
  <2>2. /\ Head(backlog) \in Queued /\ Head(backlog) \in Clients
        /\ Queued' = Queued \ {Head(backlog)}
        /\ \A i, j \in DOMAIN backlog' : backlog'[i] = backlog'[j] => i = j
    BY <1>3, <2>1, BacklogTail
  <2>3. r \in Seq(Entries) /\ SocketsDiffer(r) /\ Connected(r) \subseteq Connected(table) \cup {Null}
    BY ResizedType, ResizedSockets DEF TypeOK, OnePlace
  <2>4. e \in Entries /\ e.fd = Head(backlog) /\ Head(backlog) # Null
    BY <2>2 DEF Entries
  <2>5. e.fd \notin Connected(r)
    BY <2>2, <2>3, <2>4 DEF OnePlace
  <2> HIDE DEF r, e
  <2>6. SocketsDiffer(table') /\ Connected(table') = Connected(r) \cup {e.fd}
    BY <2>1, <2>3, <2>4, <2>5, AppendSockets
  <2>7. Null \notin Queued
    BY DEF Queued, TypeOK
  <2>8. Queued' \cap Connected(table') = {}
    BY <2>2, <2>3, <2>4, <2>6, <2>7 DEF OnePlace
  <2>9. \A c \in Clients : cstate'[c] = "off" => c \notin Queued' \cup Connected(table')
    BY <1>1, <2>2, <2>3, <2>4, <2>6 DEF OnePlace
  <2> QED BY <2>2, <2>3, <2>4, <2>6, <2>8, <2>9 DEF OnePlace
<1> QED BY <1>2, <1>3

\* A step for one entry takes nothing into the table.
LEMMA TableChangeSockets ==
  ASSUME TypeOK, OnePlace, NEW c \in Clients, c \in Connected(table), TableChange(c)
  PROVE  SocketsDiffer(table') /\ Connected(table') \subseteq Connected(table)
<1>1. table \in Seq(Entries) /\ c # Null
  BY DEF TypeOK
<1>2. CASE table' = table
  BY <1>2 DEF OnePlace
<1>3. CASE Learns(c)
  <2>1. toServer[c] \in Seq(Messages) /\ toServer[c] # <<>>
    BY <1>3 DEF Learns, TypeOK
  <2>2. Head(toServer[c]).from \in Names
    BY <2>1, MessageType, HeadTailProperties
  <2>3. DOMAIN table' = DOMAIN table /\ \A i \in DOMAIN table : table'[i].fd = table[i].fd
    BY <1>1, <1>3, <2>2, LearnHandleSockets DEF Learns
  <2> QED BY <2>3 DEF OnePlace, SocketsDiffer, Connected
<1>4. CASE table' = CloseConnection(table, c)
  <2>1. /\ SocketsDiffer(table') /\ \A j \in DOMAIN table' : \E i \in DOMAIN table : table'[j] = table[i]
    BY <1>1, <1>4, CloseConnectionSockets DEF OnePlace
  <2> QED BY <2>1 DEF Connected
<1> QED BY <1>2, <1>3, <1>4 DEF TableChange

LEMMA OnePlaceProcess ==
  ASSUME TypeOK, OnePlace, NEW i \in Ready, ProcessChange(i), UNCHANGED clientVars
  PROVE  OnePlace'
<1>1. table[i].fd \in Connected(table)
  BY DEF Ready, Connected, TypeOK
<1>2. SocketsDiffer(table') /\ Connected(table') \subseteq Connected(table)
  BY <1>1, TableChangeSockets DEF ProcessChange
<1> QED BY <1>2 DEF OnePlace, ProcessChange, Queued, clientVars

LEMMA OnePlaceClient ==
  ASSUME TypeOK, OnePlace, NEW c \in Clients, ClientChange(c)
  PROVE  OnePlace'
<1>1. CASE UNCHANGED backlog
  BY <1>1 DEF OnePlace, ClientChange, Queued
<1>2. CASE Connects(c)
  <2> DEFINE n == Len(backlog)
  <2>1. /\ n \in Nat /\ DOMAIN backlog = 1..n /\ DOMAIN backlog' = 1..(n + 1)
        /\ backlog'[n + 1] = c /\ \A i \in 1..n : backlog'[i] = backlog[i]
    BY <1>2 DEF Connects, TypeOK
  <2> HIDE DEF n
  <2>2. c \notin Queued /\ c \notin Connected(table)
    BY <1>2 DEF Connects, OnePlace
  <2>3. \A i \in 1..(n + 1) : i \in 1..n \/ i = n + 1
    BY <2>1
  <2>4. Queued' = Queued \cup {c}
    BY <2>1, <2>3 DEF Queued
  <2>5. \A i, j \in DOMAIN backlog' : backlog'[i] = backlog'[j] => i = j
    BY <2>1, <2>2, <2>3 DEF OnePlace, Queued
  <2>6. /\ SocketsDiffer(table') /\ Queued' \cap Connected(table') = {}
        /\ \A d \in Clients : cstate'[d] = "off" => d \notin Queued' \cup Connected(table')
    BY <2>2, <2>4 DEF OnePlace, ClientChange
  <2> QED BY <2>5, <2>6 DEF OnePlace
<1> QED BY <1>1, <1>2 DEF ClientChange

LEMMA OnePlaceNext ==
  ASSUME TypeOK, OnePlace, [Next]_vars
  PROVE  OnePlace'
<1>1. CASE ServerStep
  BY <1>1, OnePlaceSelect, OnePlaceProcess, ProcessPacketChange DEF ServerStep, Server
<1>2. CASE \E c \in Clients : ClientStep(c)
  BY <1>2, OnePlaceClient, ClientStepChange
<1>3. CASE UNCHANGED vars
  BY <1>3 DEF vars, streamVars, serverVars, clientVars, OnePlace, Queued
<1> QED BY <1>1, <1>2, <1>3 DEF Next

LEMMA OnePlaceInit == Init => OnePlace
BY DEF Init, StreamsInit, ServerInit, OnePlace, Queued, Connected, SocketsDiffer

-----------------------------------------------------------------------------
(* The server never waits for one client.                                   *)

LEMMA NeverBlocksNext ==
  ASSUME TypeOK, OnePlace, NeverBlocks, [Next]_vars
  PROVE  NeverBlocks'
<1> USE DEF TypeOK
<1>1. CASE Select
  <2>1. /\ readSet' \subseteq {c \in Connected(table) \ {Null} : toServer[c] # <<>> \/ conn[c] \in Gone}
        /\ UNCHANGED <<conn, toServer>>
    BY <1>1 DEF Select, Readable
  <2> QED BY <2>1 DEF NeverBlocks, Ready
<1>2. CASE ProcessPacket
  <2>1. PICK i \in Ready : ProcessChange(i)
    BY <1>2, ProcessPacketChange
  <2> DEFINE c == table[i].fd
  <2>2. /\ i \in DOMAIN table /\ i \in Nat /\ i >= turn /\ turn \in Nat
        /\ c \in Clients /\ c # Null /\ DOMAIN table = 1..Len(table) /\ Len(table) \in Nat
    BY <2>1 DEF Ready, ProcessChange
  <2>3. IndexOf(table, c) = i /\ c \in Connected(table)
    BY <2>2, IndexOfOnly DEF OnePlace, Connected
  <2>4. TableChange(c)
    BY <2>1 DEF ProcessChange
  <2>5. ASSUME NEW j \in Ready'
        PROVE  j \in Ready /\ table'[j].fd = table[j].fd /\ j # i
    <3>1. j \in Nat /\ j >= i + 1 /\ j \in 1..Len(table') /\ table'[j].fd \in readSet
      <4>1. j \in turn'..Len(table') /\ table'[j].fd \in readSet'
        BY DEF Ready
      <4>2. turn' = i + 1 /\ readSet' = readSet
        BY <2>1 DEF ProcessChange
      <4>3. Len(table') \in Nat
        BY TypeNext
      <4> HIDE DEF c
      <4>4. i \in Nat
        BY <2>2
      <4> QED BY <4>1, <4>2, <4>3, <4>4
    <3>2. table' \in Seq(Entries)
      BY TypeNext
    <3>3. j \in DOMAIN table'
      BY <3>1, <3>2
    <3>4. j \in DOMAIN table /\ table'[j].fd = table[j].fd
      <4>1. CASE table' = table
        BY <3>3, <4>1
      <4>2. CASE Learns(c)
        <5>1. toServer[c] \in Seq(Messages) /\ toServer[c] # <<>>
          BY <2>2, <4>2 DEF Learns
        <5>2. Head(toServer[c]).from \in Names
          BY <5>1, MessageType, HeadTailProperties
        <5> QED BY <3>3, <4>2, <5>2, LearnHandleSockets DEF Learns
      <4>3. CASE table' = CloseConnection(table, c)
        <5>1. j > IndexOf(table, c)
          BY <2>2, <2>3, <3>1
        <5> QED BY <2>2, <2>3, <3>3, <4>3, <5>1, CloseConnectionSockets DEF OnePlace
      <4> QED BY <2>4, <4>1, <4>2, <4>3 DEF TableChange
    <3>5. j \in turn..Len(table) /\ j # i
      <4> HIDE DEF c
      <4>1. j \in 1..Len(table) /\ i \in Nat /\ turn \in Nat /\ Len(table) \in Nat /\ i >= turn /\ j >= i + 1
        BY <2>2, <3>1, <3>4
      <4> QED BY <4>1
    <3> QED BY <3>1, <3>4, <3>5 DEF Ready
  <2>6. ASSUME NEW j \in Ready'
        PROVE  toServer'[table'[j].fd] # <<>> \/ conn'[table'[j].fd] \in Gone
    <3> DEFINE d == table[j].fd
    <3>1. j \in Ready /\ table'[j].fd = d /\ j # i
      BY <2>5
    <3>2. d \in Clients /\ d # c
      <4>1. j \in DOMAIN table /\ d \in Clients
        BY <3>1 DEF Ready
      <4> QED BY <2>2, <3>1, <4>1 DEF OnePlace, SocketsDiffer
    <3>3. toServer[d] # <<>> \/ conn[d] \in Gone
      BY <3>1 DEF NeverBlocks
    <3>4. toServer'[d] = toServer[d] /\ ConnStays(d)
      BY <2>1, <2>4, <3>2 DEF ProcessChange, TableChange
    <3> HIDE DEF d
    <3> QED BY <3>1, <3>3, <3>4 DEF ConnStays
  <2> HIDE DEF c
  <2> QED BY <2>6 DEF NeverBlocks
<1>3. CASE \E c \in Clients : ClientStep(c)
  <2>1. PICK c \in Clients : ClientChange(c)
    BY <1>3, ClientStepChange
  <2>2. Ready' = Ready
    BY <2>1 DEF ClientChange, Ready
  <2>3. ASSUME NEW j \in Ready
        PROVE  toServer'[table[j].fd] # <<>> \/ conn'[table[j].fd] \in Gone
    <3> DEFINE d == table[j].fd
    <3>1. d \in Clients /\ d \in Connected(table)
      BY DEF Ready, Connected
    <3>2. toServer[d] # <<>> \/ conn[d] \in Gone
      BY DEF NeverBlocks
    <3> HIDE DEF d
    <3>3. toServer[d] # <<>> => toServer'[d] # <<>>
      BY <2>1, <3>1 DEF ClientChange
    <3>4. conn[d] \in Gone => conn'[d] \in Gone
      <4>1. CASE Connects(c)
        <5>1. d # c
          BY <3>1, <4>1 DEF Connects, OnePlace
        <5> QED BY <3>1, <4>1, <5>1 DEF Connects
      <4>2. CASE ~Connects(c)
        BY <2>1, <3>1, <4>2 DEF ClientChange, Gone
      <4> QED BY <4>1, <4>2
    <3> QED BY <3>2, <3>3, <3>4 DEF d
  <2> QED BY <2>1, <2>2, <2>3 DEF NeverBlocks, ClientChange
<1>4. CASE UNCHANGED vars
  BY <1>4 DEF vars, streamVars, serverVars, NeverBlocks, Ready
<1> QED BY <1>1, <1>2, <1>3, <1>4 DEF Next, ServerStep, Server

(* However many connections are accepted, closed and moved while the loop   *)
(* goes through the table, also when resize() has lost entries: recv() is   *)
(* only called where something, or the end, has arrived.                    *)
THEOREM ServerNeverBlocks == Spec => []NeverBlocks
<1>1. Init => OnePlace /\ NeverBlocks
  BY OnePlaceInit DEF Init, ServerInit, NeverBlocks, Ready
<1>2. TypeOK /\ OnePlace /\ NeverBlocks /\ [Next]_vars => OnePlace' /\ NeverBlocks'
  BY OnePlaceNext, NeverBlocksNext
<1> QED BY <1>1, <1>2, ChatTypes, PTL DEF Spec

-----------------------------------------------------------------------------
(* The table is complete, as long as it is never enlarged.                  *)

\* Fewer clients than the arrays have entries at the start, less two.
NeverEnlarged == IsFiniteSet(Clients) /\ Cardinality(Clients) < BufferSize - 2

\* resize() has lost nothing.
Whole ==
  /\ capacity = BufferSize
  /\ \A i \in DOMAIN table : table[i].fd \in Clients /\ table[i].handle \in Names

Established == {c \in Clients : conn[c] \notin {"none", "closed"}}

\* A connection that is established and not closed by the server is in the
\* backlog or in the table, and no other is.
AllPlaced == server = "running" => Established = Queued \cup Connected(table)

\* Each entry is of another client, so they are fewer than the arrays hold.
LEMMA TableFits ==
  ASSUME NeverEnlarged, TypeOK, OnePlace, Whole
  PROVE  ~MustResize(table, capacity)
<1> DEFINE n == Len(table)
           f == [i \in 1..n |-> table[i].fd]
<1>1. n \in Nat /\ DOMAIN table = 1..n
  BY DEF TypeOK
<1> HIDE DEF n
<1>2. \A i \in 1..n : table[i].fd \in Clients /\ table[i].fd # Null
  BY <1>1 DEF Whole
<1>3. f \in Injection(1..n, Clients)
  BY <1>1, <1>2 DEF Injection, IsInjective, OnePlace, SocketsDiffer
<1>4. IsFiniteSet(1..n) /\ Cardinality(1..n) = n
  BY <1>1, FS_Interval
<1>5. n <= Cardinality(Clients)
  BY <1>3, <1>4, FS_Injection DEF NeverEnlarged
<1>6. Cardinality(Clients) \in Nat
  BY FS_CardinalityType DEF NeverEnlarged
<1>7. n # BufferSize - 2
  BY <1>1, <1>5, <1>6 DEF NeverEnlarged
<1> QED BY <1>7 DEF MustResize, Whole, n

LEMMA WholeSelect ==
  ASSUME NeverEnlarged, TypeOK, OnePlace, Whole, Select
  PROVE  /\ Whole' /\ Queued' \cup Connected(table') = Queued \cup Connected(table)
         /\ \A i \in DOMAIN table : i \in DOMAIN table' /\ table'[i] = table[i]
<1>1. CASE backlog = <<>>
  BY <1>1 DEF Select, Whole, Queued
<1>2. CASE backlog # <<>>
  <2> DEFINE e == [fd |-> Head(backlog), handle |-> NoHandle]
  <2>1. table' = Append(table, e) /\ backlog' = Tail(backlog) /\ UNCHANGED capacity
    BY <1>2, TableFits DEF Select, Resized
  <2>2. /\ Head(backlog) \in Queued /\ Head(backlog) \in Clients
        /\ Queued' = Queued \ {Head(backlog)}
    BY <1>2, <2>1, BacklogTail
  <2>3. e \in Entries /\ e.fd = Head(backlog) /\ e.handle \in Names /\ e.fd \notin Connected(table)
    BY <2>2 DEF Entries, OnePlace, Names
  <2> HIDE DEF e
  <2>4. table \in Seq(Entries) /\ SocketsDiffer(table)
    BY DEF TypeOK, OnePlace
  <2>5. /\ Connected(table') = Connected(table) \cup {e.fd}
        /\ \A i \in DOMAIN table : i \in DOMAIN table' /\ table'[i] = table[i]
    BY <2>1, <2>3, <2>4, AppendSockets
  <2>6. \A i \in DOMAIN table' : i \in DOMAIN table \/ table'[i] = e
    BY <2>1, <2>4
  <2>7. Whole'
    BY <2>1, <2>2, <2>3, <2>5, <2>6 DEF Whole
  <2> QED BY <2>2, <2>3, <2>5, <2>7
<1> QED BY <1>1, <1>2

LEMMA LearnsType ==
  ASSUME TypeOK, NEW c \in Clients, Learns(c)
  PROVE  Head(toServer[c]) \in Messages /\ Head(toServer[c]).from \in Names
<1>1. toServer[c] \in Seq(Messages) /\ toServer[c] # <<>>
  BY DEF Learns, TypeOK
<1> QED BY <1>1, MessageType, HeadTailProperties

LEMMA WholeProcess ==
  ASSUME TypeOK, OnePlace, Whole, AllPlaced, NEW i \in Ready, ProcessChange(i)
  PROVE  Whole' /\ AllPlaced'
<1> DEFINE c == table[i].fd
<1>1. /\ c \in Clients /\ c \in Connected(table) /\ c # Null
      /\ table \in Seq(Entries) /\ SocketsDiffer(table)
  BY DEF Ready, ProcessChange, Connected, TypeOK, OnePlace
<1>2. TableChange(c) /\ server = "running" /\ UNCHANGED <<capacity, backlog>>
  BY DEF ProcessChange
<1> HIDE DEF c
<1>3. Queued' = Queued /\ c \notin Queued
  BY <1>1, <1>2 DEF Queued, OnePlace
<1>4. \A d \in Clients \ {c} : d \in Established' <=> d \in Established
  BY <1>2 DEF TableChange, ConnStays, Established, Gone
<1>5. CASE ConnStays(c) /\ table' = table
  <2>1. c \in Established' <=> c \in Established
    BY <1>5 DEF ConnStays, Established, Gone
  <2>2. Established' = Established
    BY <1>4, <2>1 DEF Established
  <2> QED BY <1>2, <1>3, <1>5, <2>2 DEF Whole, AllPlaced
<1>6. CASE ConnStays(c) /\ Learns(c)
  <2> DEFINE h == Head(toServer[c]).from
  <2>1. h \in Names
    BY <1>1, <1>6, LearnsType
  <2>2. table' = LearnHandle(table, c, h)
    BY <1>6 DEF Learns
  <2> HIDE DEF h
  <2>3. /\ DOMAIN table' = DOMAIN table
        /\ \A j \in DOMAIN table :
             table'[j].fd = table[j].fd /\ table'[j].handle \in {table[j].handle, h}
    <3>1. /\ DOMAIN table' = DOMAIN table
          /\ \A j \in DOMAIN table : table'[j].fd = table[j].fd
          /\ \A j \in DOMAIN table : j # IndexOf(table, c) => table'[j] = table[j]
          /\ \A j \in DOMAIN table :
               j = IndexOf(table, c) => table'[j] = [fd |-> table[j].fd, handle |-> h]
      BY <1>1, <2>1, <2>2, LearnHandleSockets
    <3>2. ASSUME NEW j \in DOMAIN table PROVE table'[j].handle \in {table[j].handle, h}
      BY <3>1
    <3> QED BY <3>1, <3>2
  <2>4. Connected(table') = Connected(table)
    BY <2>3 DEF Connected
  <2>5. Whole'
    BY <1>2, <2>1, <2>3 DEF Whole
  <2>6. c \in Established' <=> c \in Established
    BY <1>6 DEF ConnStays, Established, Gone
  <2>7. Established' = Established
    BY <1>4, <2>6 DEF Established
  <2> QED BY <1>2, <1>3, <2>4, <2>5, <2>7 DEF AllPlaced
<1>7. CASE conn'[c] = "closed" /\ table' = CloseConnection(table, c)
  <2>1. /\ c \notin Connected(table')
        /\ \A j \in DOMAIN table' : \E k \in DOMAIN table : table'[j] = table[k]
        /\ \A k \in DOMAIN table : table[k].fd # c => \E j \in DOMAIN table' : table'[j] = table[k]
    BY <1>1, <1>7, CloseConnectionSockets
  <2>2. Connected(table') = Connected(table) \ {c}
    BY <2>1 DEF Connected
  <2>3. Whole'
    BY <1>2, <2>1 DEF Whole
  <2>4. Established' = Established \ {c}
    BY <1>4, <1>7 DEF Established
  <2>5. Established = Queued \cup Connected(table)
    BY <1>2 DEF AllPlaced
  <2> QED BY <1>3, <2>2, <2>3, <2>4, <2>5 DEF AllPlaced
<1>8. CASE server' # "running" /\ table' = table
  BY <1>2, <1>8 DEF Whole, AllPlaced
<1> QED BY <1>2, <1>5, <1>6, <1>7, <1>8 DEF TableChange

LEMMA AllPlacedClient ==
  ASSUME TypeOK, OnePlace, AllPlaced, NEW c \in Clients, ClientChange(c)
  PROVE  AllPlaced'
<1>1. CASE Connects(c)
  <2>1. Established' = Established \cup {c}
    BY <1>1 DEF Connects, Established, TypeOK
  <2>2. Queued' = Queued \cup {c}
    <3> DEFINE n == Len(backlog)
    <3>1. /\ n \in Nat /\ DOMAIN backlog = 1..n /\ DOMAIN backlog' = 1..(n + 1)
          /\ backlog'[n + 1] = c /\ \A i \in 1..n : backlog'[i] = backlog[i]
      BY <1>1 DEF Connects, TypeOK
    <3> HIDE DEF n
    <3>2. \A i \in 1..(n + 1) : i \in 1..n \/ i = n + 1
      BY <3>1
    <3> QED BY <3>1, <3>2 DEF Queued
  <2> QED BY <2>1, <2>2 DEF ClientChange, AllPlaced
<1>2. CASE ~Connects(c)
  <2>1. Established' = Established
    BY <1>2 DEF ClientChange, Established, Gone
  <2> QED BY <1>2, <2>1 DEF ClientChange, AllPlaced, Queued
<1> QED BY <1>1, <1>2

LEMMA WholeNext ==
  ASSUME NeverEnlarged, TypeOK, OnePlace, Whole, AllPlaced, [Next]_vars
  PROVE  Whole' /\ AllPlaced'
<1>1. CASE Select
  <2>1. UNCHANGED <<server, conn>>
    BY <1>1 DEF Select
  <2> QED BY <1>1, <2>1, WholeSelect DEF AllPlaced, Established
<1>2. CASE ProcessPacket
  BY <1>2, ProcessPacketChange, WholeProcess
<1>3. CASE \E c \in Clients : ClientStep(c)
  <2>1. PICK c \in Clients : ClientChange(c)
    BY <1>3, ClientStepChange
  <2> QED BY <2>1, AllPlacedClient DEF ClientChange, Whole
<1>4. CASE UNCHANGED vars
  BY <1>4 DEF vars, streamVars, serverVars, Whole, AllPlaced, Established, Queued
<1> QED BY <1>1, <1>2, <1>3, <1>4 DEF Next, ServerStep, Server

LEMMA WholeInit == Init => Whole /\ AllPlaced
BY DEF Init, StreamsInit, ServerInit, Whole, AllPlaced, Established, Queued, Connected

LEMMA PlacedComplete ==
  ASSUME TypeOK, OnePlace, Whole, AllPlaced
  PROVE  OpenSocketsComplete
<1>1. Accepted = Established \ Queued
  BY DEF Accepted, Established, Queued
<1>2. \A i, j \in DOMAIN table : table[i].fd = table[j].fd => i = j
  BY DEF Whole, OnePlace, SocketsDiffer
<1> QED BY <1>1, <1>2 DEF OpenSocketsComplete, OnePlace, AllPlaced

LEMMA PlacedInvariant ==
  ASSUME NeverEnlarged
  PROVE  Spec => [](TypeOK /\ OnePlace /\ Whole /\ AllPlaced)
<1>1. Init => OnePlace /\ Whole /\ AllPlaced
  BY OnePlaceInit, WholeInit
<1>2. TypeOK /\ OnePlace /\ Whole /\ AllPlaced /\ [Next]_vars => OnePlace' /\ Whole' /\ AllPlaced'
  BY OnePlaceNext, WholeNext
<1> QED BY <1>1, <1>2, ChatTypes, PTL DEF Spec

(* With fewer clients than the arrays hold at the start, less two, the      *)
(* table has exactly one entry of each accepted connection that is open.    *)
THEOREM TableComplete ==
  ASSUME NeverEnlarged
  PROVE  Spec => []OpenSocketsComplete
<1>1. TypeOK /\ OnePlace /\ Whole /\ AllPlaced => OpenSocketsComplete
  BY PlacedComplete
<1> QED BY <1>1, PlacedInvariant, PTL

==============================================================================
