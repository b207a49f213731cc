-------------------------- MODULE ChatClientProofs ---------------------------
(***************************************************************************)
(* Theorems about what the chat clients may rely on, for any number of      *)
(* clients, names and commands: a client that was told its name is in the   *)
(* table with it, as long as the table is never enlarged; and, when every   *)
(* recv() returns one message, a message with a destination reaches only    *)
(* the client of that name, and a client that waits has one request or one  *)
(* answer to it under way.                                                  *)
(***************************************************************************)
EXTENDS ChatProofs

USE NoHandleAssumption, NullAssumption, BufferSizeAssumption

-----------------------------------------------------------------------------
(* The name a client was told is its own is in its entry.                   *)

HasFlag(s, flag) == \E j \in DOMAIN s : s[j].flag = flag

\* A confirmation is under way to the client.
Confirmed(c) == HasFlag(toClient[c], "confirm")

\* The requests a client sent are its own, with its name in the first.
OwnRequests ==
  \A c \in Clients : \A j \in DOMAIN toServer[c] :
    /\ toServer[c][j].flag \in Requests \cup {"message"}
    /\ toServer[c][j].flag = "initial" => toServer[c][j].from = name[c]

\* Before it connects a client has neither sent nor received anything.
Unused ==
  \A c \in Clients : cstate[c] = "off" =>
    conn[c] = "none" /\ toServer[c] = <<>> /\ toClient[c] = <<>>

HasEntry(c) == \E i \in DOMAIN table : table[i] = [fd |-> c, handle |-> name[c]]

Registers(c) == cstate[c] \in Running \ {"confirm"} \/ Confirmed(c)

\* Registered, from the moment the confirmation is sent.
EntryKept ==
  server = "running" => \A c \in Clients : conn[c] = "open" /\ Registers(c) => HasEntry(c)

\* What the server sends in a step for c: nothing to a client whose connection
\* is not open, and a confirmation only with the name it learns.
AnswersChange(c) ==
  \A d \in Clients :
    /\ conn[d] # "open" => toClient'[d] = toClient[d]
    /\ HasFlag(toClient'[d], "confirm") => Confirmed(d) \/ (d = c /\ Learns(c))

LEMMA ConcatFlags ==
  ASSUME NEW s \in Seq(Messages), NEW p \in Seq(Messages), NEW flag
  PROVE  HasFlag(s \o p, flag) <=> HasFlag(s, flag) \/ HasFlag(p, flag)
<1> DEFINE u == s \o p
           m == Len(s)
           n == Len(p)
<1>1. /\ m \in Nat /\ n \in Nat /\ DOMAIN s = 1..m /\ DOMAIN p = 1..n /\ DOMAIN u = 1..(m + n)
      /\ \A i \in 1..(m + n) : u[i] = IF i <= m THEN s[i] ELSE p[i - m]
  BY ConcatProperties
<1> HIDE DEF m, n, u
<1>2. \A i \in 1..m : i \in 1..(m + n) /\ u[i] = s[i]
  BY <1>1
<1>3. \A i \in 1..n : i + m \in 1..(m + n) /\ u[i + m] = p[i]
  BY <1>1
<1>4. \A i \in 1..(m + n) : i \in 1..m \/ (i - m \in 1..n /\ u[i] = p[i - m])
  BY <1>1
<1>5. HasFlag(s, flag) => HasFlag(u, flag)
  BY <1>1, <1>2 DEF HasFlag
<1>6. HasFlag(p, flag) => HasFlag(u, flag)
  BY <1>1, <1>3 DEF HasFlag
<1>7. HasFlag(u, flag) => HasFlag(s, flag) \/ HasFlag(p, flag)
  BY <1>1, <1>2, <1>4 DEF HasFlag
<1> QED BY <1>5, <1>6, <1>7 DEF u

LEMMA SentAnswers ==
  ASSUME TypeOK, NEW c \in Clients, NEW S, NEW p \in Seq(Messages), toClient' = Sent(S, p),
         ~HasFlag(p, "confirm")
  PROVE  AnswersChange(c)
<1>1. ASSUME NEW d \in Clients
      PROVE  toClient'[d] = toClient[d] \/ (toClient'[d] = toClient[d] \o p /\ conn[d] = "open")
  BY DEF Sent
<1>2. ASSUME NEW d \in Clients
      PROVE  HasFlag(toClient[d] \o p, "confirm") => Confirmed(d)
  BY ConcatFlags DEF TypeOK, Confirmed
<1> QED BY <1>1, <1>2 DEF AnswersChange, Confirmed

LEMMA OneFlag ==
  ASSUME NEW m \in Messages
  PROVE  <<m>> \in Seq(Messages) /\ \A flag : HasFlag(<<m>>, flag) <=> m.flag = flag
BY DEF HasFlag

LEMMA SilentAnswers ==
  ASSUME NEW c, UNCHANGED toClient
  PROVE  AnswersChange(c)
BY DEF AnswersChange, Confirmed

LEMMA SendOnAnswers ==
  ASSUME TypeOK, NEW c \in Clients, NEW d, NEW p \in Seq(Messages), SendOn(d, p),
         ~HasFlag(p, "confirm")
  PROVE  AnswersChange(c)
BY SentAnswers, SilentAnswers DEF SendOn, FailToSend, Crash

LEMMA RespondAnswers ==
  ASSUME TypeOK, NEW c \in Clients, NEW m \in Messages, m.flag # "confirm",
         Respond(c, m) \/ RespondAndClose(c, m)
  PROVE  AnswersChange(c)
<1>1. <<m>> \in Seq(Messages) /\ ~HasFlag(<<m>>, "confirm")
  BY OneFlag
<1>2. CASE Respond(c, m)
  BY <1>1, <1>2, SendOnAnswers DEF Respond
<1>3. CASE RespondAndClose(c, m)
  BY <1>1, <1>3, SentAnswers, SilentAnswers DEF RespondAndClose, FailToSend, Crash
<1> QED BY <1>2, <1>3

LEMMA PlainAnswers ==
  ASSUME TypeOK, NEW c \in Clients, NEW flag \in Flags, flag # "confirm", NEW n \in Nat,
         NEW h \in Names,
         \/ Respond(c, Plain(flag, n)) \/ RespondAndClose(c, Plain(flag, n))
         \/ Respond(c, [Plain(flag, n) EXCEPT !.to = h])
         \/ RespondAndClose(c, [Plain(flag, n) EXCEPT !.to = h])
  PROVE  AnswersChange(c)
<1> DEFINE m == Plain(flag, n)
           r == [Plain(flag, n) EXCEPT !.to = h]
<1>1. m \in Messages /\ r \in Messages
  BY PlainType
<1>2. m.flag = flag /\ r.flag = flag
  BY DEF Plain
<1>3. Respond(c, m) \/ RespondAndClose(c, m) \/ Respond(c, r) \/ RespondAndClose(c, r)
  OBVIOUS
<1> HIDE DEF m, r
<1> QED BY <1>1, <1>2, <1>3, RespondAnswers

LEMMA HandleAnswers ==
  ASSUME TypeOK, NEW c \in Clients, NEW p \in Seq(Messages), Head(p) \in Messages,
         toServer[c] # <<>>, Head(p) = Head(toServer[c]), ~HasFlag(p, "confirm"), Handle(c, p)
  PROVE  AnswersChange(c)
<1> DEFINE m == Head(p)
<1>1. m.from \in Names /\ m.to \in Names /\ m.n \in Nat
  BY MessageType
<1>2. ASSUME NEW why, Crash(why) PROVE AnswersChange(c)
  BY <1>2, SilentAnswers DEF Crash
<1>3. ASSUME m.flag = "initial", InitialPacket(c, m.from) PROVE AnswersChange(c)
  <2>1. CASE ConfirmHandle(c, m.from)
    <3>1. CASE UNCHANGED toClient
      BY <3>1, SilentAnswers
    <3>2. CASE /\ toClient' = Sent({c}, <<[Plain("confirm", 0) EXCEPT !.to = m.from]>>)
               /\ table' = LearnHandle(table, c, m.from)
      <4>1. Learns(c)
        BY <1>3, <3>2 DEF Learns
      <4>2. \A d \in Clients : (d # c \/ conn[d] # "open") => toClient'[d] = toClient[d]
        BY <3>2 DEF Sent
      <4> QED BY <4>1, <4>2 DEF AnswersChange, Confirmed
    <3> QED BY <2>1, <3>1, <3>2 DEF ConfirmHandle, Crash
  <2>2. CASE RespondAndClose(c, [Plain("bad_handle", 0) EXCEPT !.to = m.from])
    BY <1>1, <2>2, PlainAnswers DEF Flags, Answers
  <2> QED BY <1>2, <1>3, <2>1, <2>2 DEF InitialPacket
<1>4. ASSUME MessagePacket(c, p) PROVE AnswersChange(c)
  <2>1. CASE Broadcast(m.from, p)
    <3>1. PICK S : toClient' = Sent(S, p)
      BY <2>1 DEF Broadcast
    <3> QED BY <3>1, SentAnswers
  <2>2. CASE Respond(c, [Plain("bad_destination", 0) EXCEPT !.to = m.to])
    BY <1>1, <2>2, PlainAnswers DEF Flags
  <2>3. CASE \E i \in DOMAIN table : SendOn(table[i].fd, p)
    BY <2>3, SendOnAnswers
  <2> QED BY <1>2, <1>4, <2>1, <2>2, <2>3 DEF MessagePacket, Route
<1>5. CASE RespondAndClose(c, Plain("exit_ack", 0))
  BY <1>5, PlainAnswers DEF Flags, Answers, Names
<1>6. CASE Respond(c, Plain("length", Len(table)))
  <2>1. Len(table) \in Nat
    BY DEF TypeOK
  <2> QED BY <1>6, <2>1, PlainAnswers DEF Flags, Answers, Names
<1>7. CASE HandleRequest(c, m.n)
  <2>1. CASE Respond(c, Plain("no_handle", 0)) \/ Respond(c, Plain("handle", m.n))
    BY <1>1, <2>1, PlainAnswers DEF Flags, Answers, Names
  <2> QED BY <1>2, <1>7, <2>1 DEF HandleRequest
<1> QED BY <1>3, <1>4, <1>5, <1>6, <1>7 DEF Handle

LEMMA RestMembers ==
  ASSUME NEW s \in Seq(Messages), NEW k \in 1..Len(s)
  PROVE  \A j \in DOMAIN Rest(s, k) : \E l \in DOMAIN s : Rest(s, k)[j] = s[l]
<1>1. /\ DOMAIN Rest(s, k) = 1..(Len(s) - k)
      /\ \A j \in 1..(Len(s) - k) : Rest(s, k)[j] = s[k + j]
  BY DEF Rest
<1>2. \A j \in 1..(Len(s) - k) : k + j \in DOMAIN s
  OBVIOUS
<1> QED BY <1>1, <1>2

LEMMA PrefixMembers ==
  ASSUME NEW s \in Seq(Messages), NEW k \in 1..Len(s)
  PROVE  /\ Head(SubSeq(s, 1, k)) = Head(s) /\ s # <<>>
         /\ \A j \in DOMAIN SubSeq(s, 1, k) : j \in DOMAIN s /\ SubSeq(s, 1, k)[j] = s[j]
OBVIOUS

\* What is left of a stream was in it.
Shrinks(d) ==
  \A j \in DOMAIN toServer'[d] : \E l \in DOMAIN toServer[d] : toServer'[d][j] = toServer[d][l]

LEMMA ProcessPacketAnswers ==
  ASSUME TypeOK, OwnRequests, ProcessPacket, NEW i \in Ready, turn' = i + 1
  PROVE  AnswersChange(table[i].fd) /\ \A d \in Clients : Shrinks(d)
<1> DEFINE c == table[i].fd
<1>1. \/ \E k \in Taken(toServer[c]) :
             /\ toServer' = [toServer EXCEPT ![c] = Rest(@, k)]
             /\ Handle(c, SubSeq(toServer[c], 1, k))
      \/ UNCHANGED <<toServer, toClient>>
      \/ Crash("recv") /\ UNCHANGED toServer
  <2>1. PICK n \in Ready :
          /\ LET d == table[n].fd
             IN  \/ \E k \in Taken(toServer[d]) :
                      /\ toServer' = [toServer EXCEPT ![d] = Rest(@, k)]
                      /\ Handle(d, SubSeq(toServer[d], 1, k))
                 \/ UNCHANGED <<toServer, toClient>>
                 \/ Crash("recv") /\ UNCHANGED toServer
          /\ turn' = n + 1
    BY DEF ProcessPacket
  <2>2. n = i
    BY <2>1 DEF Ready, TypeOK
  <2> QED BY <2>1, <2>2
<1>2. c \in Clients
  BY DEF Ready, TypeOK
<1> HIDE DEF c
<1>3. CASE \E k \in Taken(toServer[c]) :
             /\ toServer' = [toServer EXCEPT ![c] = Rest(@, k)]
             /\ Handle(c, SubSeq(toServer[c], 1, k))
  <2>1. PICK k \in Taken(toServer[c]) :
          /\ toServer' = [toServer EXCEPT ![c] = Rest(@, k)]
          /\ Handle(c, SubSeq(toServer[c], 1, k))
    BY <1>3
  <2> DEFINE s == toServer[c]
             p == SubSeq(s, 1, k)
  <2>2. s \in Seq(Messages) /\ k \in 1..Len(s) /\ k \in DOMAIN s
    BY <1>2, TakenIn DEF TypeOK
  <2>3. p \in Seq(Messages) /\ Head(p) \in Messages
    BY <2>2, PrefixType
  <2>4. s # <<>> /\ Head(p) = Head(s) /\ \A j \in DOMAIN p : j \in DOMAIN s /\ p[j] = s[j]
    BY <2>2, PrefixMembers
  <2>5. ~HasFlag(p, "confirm")
    <3>1. \A j \in DOMAIN s : s[j].flag \in Requests \cup {"message"}
      BY <1>2 DEF OwnRequests
    <3> HIDE DEF p, s
    <3> QED BY <2>4, <3>1 DEF HasFlag, Requests
  <2>6. Handle(c, p)
    BY <2>1
  <2>7. AnswersChange(c)
    <3> HIDE DEF p
    <3> QED BY <1>2, <2>3, <2>4, <2>5, <2>6, HandleAnswers
  <2>8. toServer' = [toServer EXCEPT ![c] = Rest(s, k)]
    BY <2>1
  <2>9. \A j \in DOMAIN Rest(s, k) : \E l \in DOMAIN s : Rest(s, k)[j] = s[l]
    BY <2>2, RestMembers
  <2>10. \A d \in Clients : toServer'[d] = IF d = c THEN Rest(s, k) ELSE toServer[d]
    BY <2>8 DEF TypeOK
  <2>11. \A d \in Clients : Shrinks(d)
    BY <2>9, <2>10 DEF Shrinks
  <2> QED BY <2>7, <2>11 DEF c
<1>4. CASE UNCHANGED <<toServer, toClient>>
  BY <1>4, SilentAnswers DEF Shrinks, c
<1> QED BY <1>1, <1>3, <1>4 DEF Crash

StreamsInv == OwnRequests /\ Unused

RegisterInv == StreamsInv /\ EntryKept

LEMMA StreamsProcess ==
  ASSUME TypeOK, OnePlace, StreamsInv, NEW i \in Ready, ProcessChange(i), UNCHANGED clientVars,
         AnswersChange(table[i].fd), \A d \in Clients : Shrinks(d)
  PROVE  StreamsInv'
<1> DEFINE c == table[i].fd
<1>1. c \in Clients /\ c \in Connected(table)
  BY DEF Ready, ProcessChange, Connected, TypeOK
<1>2. /\ TableChange(c) /\ AnswersChange(c)
      /\ \A d \in Clients : d # c => toServer'[d] = toServer[d]
  BY DEF ProcessChange
<1>3. UNCHANGED <<cstate, name>>
  BY DEF clientVars
<1> HIDE DEF c
<1>4. OwnRequests'
  BY <1>3 DEF OwnRequests, StreamsInv, Shrinks
<1>5. Unused'
  <2> SUFFICES ASSUME NEW d \in Clients, cstate[d] = "off"
               PROVE  conn'[d] = "none" /\ toServer'[d] = <<>> /\ toClient'[d] = <<>>
    BY <1>3 DEF Unused
  <2>1. d # c /\ conn[d] = "none" /\ toServer[d] = <<>> /\ toClient[d] = <<>>
    BY <1>1 DEF OnePlace, StreamsInv, Unused
  <2> QED BY <1>2, <2>1 DEF TableChange, ConnStays, Gone, AnswersChange
<1> QED BY <1>4, <1>5 DEF StreamsInv

\* The name a client asks for is the one it gave itself.
LEMMA LearnsOwnName ==
  ASSUME TypeOK, OwnRequests, NEW c \in Clients, Learns(c)
  PROVE  Head(toServer[c]).from \in Names /\ Head(toServer[c]).from = name[c]
<1>1. toServer[c] \in Seq(Messages) /\ toServer[c] # <<>>
  BY DEF Learns, TypeOK
<1>2. 1 \in DOMAIN toServer[c] /\ Head(toServer[c]) = toServer[c][1]
  BY <1>1
<1>3. toServer[c][1].flag = "initial"
  BY <1>2 DEF Learns
<1> QED BY <1>2, <1>3, LearnsType DEF OwnRequests

LEMMA RegisterProcess ==
  ASSUME TypeOK, OnePlace, RegisterInv, NEW i \in Ready, ProcessChange(i), UNCHANGED clientVars,
         AnswersChange(table[i].fd), \A d \in Clients : Shrinks(d)
  PROVE  RegisterInv'
<1> DEFINE c == table[i].fd
<1>1. /\ c \in Clients /\ c \in Connected(table) /\ c # Null
      /\ table \in Seq(Entries) /\ SocketsDiffer(table)
  BY DEF Ready, ProcessChange, Connected, TypeOK, OnePlace
<1>2. /\ TableChange(c) /\ server = "running" /\ AnswersChange(c)
      /\ \A d \in Clients : d # c => toServer'[d] = toServer[d]
  BY DEF ProcessChange
<1>3. UNCHANGED <<cstate, name>>
  BY DEF clientVars
<1> HIDE DEF c
<1>4. StreamsInv'
  BY StreamsProcess DEF RegisterInv
<1>6. EntryKept'
  <2> SUFFICES ASSUME server' = "running", NEW d \in Clients, conn'[d] = "open", Registers(d)'
               PROVE  HasEntry(d)'
    BY DEF EntryKept
  <2>1. conn[d] = "open" /\ (d = c => conn'[c] # "closed")
    BY <1>2 DEF TableChange, ConnStays, Gone
  <2>2. Registers(d) \/ (d = c /\ Learns(c))
    BY <1>2, <1>3 DEF Registers, Confirmed, AnswersChange
  <2>3. Registers(d) => \E n \in DOMAIN table : table[n] = [fd |-> d, handle |-> name[d]]
    BY <1>2, <2>1 DEF RegisterInv, EntryKept, HasEntry
  <2>4. CASE table' = table /\ ~Learns(c)
    BY <1>3, <2>2, <2>3, <2>4 DEF HasEntry
  <2>5. CASE Learns(c)
    <3> DEFINE h == Head(toServer[c]).from
    <3>1. h \in Names /\ h = name[c]
      BY <1>1, <2>5, LearnsOwnName DEF RegisterInv, StreamsInv
    <3>2. table' = LearnHandle(table, c, h)
      BY <2>5 DEF Learns
    <3> HIDE DEF h
    <3>3. /\ DOMAIN table' = DOMAIN table
          /\ \A n \in DOMAIN table : n # IndexOf(table, c) => table'[n] = table[n]
          /\ \A n \in DOMAIN table :
               n = IndexOf(table, c) => table'[n] = [fd |-> table[n].fd, handle |-> h]
      BY <1>1, <3>1, <3>2, LearnHandleSockets
    <3>4. IndexOf(table, c) \in DOMAIN table /\ table[IndexOf(table, c)].fd = c
      BY <1>1, IndexOfFound
    <3>5. CASE d = c
      BY <1>3, <3>1, <3>3, <3>4, <3>5 DEF HasEntry
    <3>6. CASE d # c
      <4>1. PICK n \in DOMAIN table : table[n] = [fd |-> d, handle |-> name[d]]
        BY <2>2, <2>3, <3>6
      <4>2. n # IndexOf(table, c)
        BY <3>4, <3>6, <4>1
      <4> QED BY <1>3, <3>3, <4>1, <4>2 DEF HasEntry
    <3> QED BY <3>5, <3>6
  <2>6. CASE conn'[c] = "closed" /\ table' = CloseConnection(table, c) /\ ~Learns(c)
    <3>1. \A n \in DOMAIN table : table[n].fd # c => \E j \in DOMAIN table' : table'[j] = table[n]
      BY <1>1, <2>6, CloseConnectionSockets
    <3>2. d # c
      BY <2>1, <2>6
    <3>3. PICK n \in DOMAIN table : table[n] = [fd |-> d, handle |-> name[d]]
      BY <2>2, <2>3, <3>2
    <3>4. table[n].fd # c
      BY <3>2, <3>3
    <3> QED BY <1>3, <3>1, <3>3, <3>4 DEF HasEntry
  <2> QED BY <1>2, <2>4, <2>5, <2>6 DEF TableChange
<1> QED BY <1>4, <1>6 DEF RegisterInv

LEMMA RegisterSelect ==
  ASSUME NeverEnlarged, TypeOK, OnePlace, Whole, RegisterInv, Select, UNCHANGED clientVars
  PROVE  RegisterInv'
<1>1. UNCHANGED <<server, conn, toServer, toClient, cstate, name>>
  BY DEF Select, clientVars
<1>2. \A i \in DOMAIN table : i \in DOMAIN table' /\ table'[i] = table[i]
  BY WholeSelect
<1>3. \A c \in Clients : HasEntry(c) => HasEntry(c)'
  BY <1>1, <1>2 DEF HasEntry
<1>4. \A c \in Clients : Registers(c)' <=> Registers(c)
  BY <1>1 DEF Registers, Confirmed
<1> QED BY <1>1, <1>3, <1>4 DEF RegisterInv, StreamsInv, OwnRequests, Unused, EntryKept

\* What the step of a client c does to its streams and its state.
RequestChange(c) ==
  \/ UNCHANGED toServer
  \/ \E m \in Messages : Send(c, m) /\ m.flag \in (Requests \ {"initial"}) \cup {"message"}

StateChange(c) ==
  /\ \A d \in Clients \ {c} : cstate'[d] = cstate[d] /\ name'[d] = name[d] /\ toClient'[d] = toClient[d]
  /\ cstate'[c] # "off"
  /\ HasFlag(toClient'[c], "confirm") => Confirmed(c)
  /\ \/ /\ cstate[c] = "off" /\ cstate'[c] = "confirm" /\ toClient'[c] = toClient[c]
        /\ \E m \in Messages : Send(c, m) /\ m.flag = "initial" /\ m.from = name'[c]
     \/ /\ name' = name /\ RequestChange(c)
        /\ cstate'[c] \in Running \ {"confirm"} => Registers(c)

\* What is left of a stream after a recv() was there before.
LEMMA RestFlags ==
  ASSUME NEW s \in Seq(Messages), NEW k \in Taken(s), NEW flag, HasFlag(Rest(s, k), flag)
  PROVE  HasFlag(s, flag)
<1>1. k \in 1..Len(s)
  BY TakenIn
<1> QED BY <1>1, RestMembers DEF HasFlag

LEMMA CloseFlags ==
  ASSUME TypeOK, NEW c \in Clients, NEW rest, Close(c, rest)
  PROVE  /\ \A d \in Clients \ {c} : toClient'[d] = toClient[d]
         /\ ~HasFlag(toClient'[c], "confirm")
BY DEF Close, TypeOK, HasFlag

LEMMA ReceiveState ==
  ASSUME TypeOK, NEW c \in Clients, NEW s, s # "off", Receive(c, s), RequestChange(c),
         s \in Running \ {"confirm"} => Registers(c)
  PROVE  StateChange(c)
<1>1. PICK k \in Taken(toClient[c]) :
        IF s \in Running
        THEN toClient' = [toClient EXCEPT ![c] = Rest(@, k)] /\ UNCHANGED conn
        ELSE Close(c, Rest(toClient[c], k))
  BY DEF Receive
<1>2. /\ \A d \in Clients \ {c} : toClient'[d] = toClient[d]
      /\ HasFlag(toClient'[c], "confirm") => Confirmed(c)
  <2>1. CASE s \in Running
    <3>1. /\ toClient'[c] = Rest(toClient[c], k) /\ toClient[c] \in Seq(Messages)
          /\ \A d \in Clients \ {c} : toClient'[d] = toClient[d]
      BY <1>1, <2>1 DEF TypeOK
    <3> QED BY <3>1, RestFlags DEF Confirmed
  <2>2. CASE s \notin Running
    BY <1>1, <2>2, CloseFlags
  <2> QED BY <2>1, <2>2
<1>3. /\ cstate'[c] = s /\ name' = name
      /\ \A d \in Clients \ {c} : cstate'[d] = cstate[d]
  BY DEF Receive, TypeOK
<1> QED BY <1>2, <1>3 DEF StateChange

LEMMA CommandState ==
  ASSUME TypeOK, NEW c \in Clients, NEW m \in Messages, NEW s \in Running \ {"confirm"},
         Command(c, m, s), m.flag \in (Requests \ {"initial"}) \cup {"message"}
  PROVE  StateChange(c)
<1>1. RequestChange(c)
  BY DEF Command, RequestChange
<1>2. /\ cstate'[c] = s /\ s # "off" /\ UNCHANGED <<name, toClient>>
      /\ \A d \in Clients \ {c} : cstate'[d] = cstate[d]
  BY DEF Command, TypeOK, Running, Waiting
<1>3. Registers(c)
  BY DEF Command, Registers, Running
<1> QED BY <1>1, <1>2, <1>3 DEF StateChange, Confirmed

LEMMA RequestFlag ==
  ASSUME NEW c, NEW n
  PROVE  Request(c, n).flag = "request"
BY DEF Request, Plain

LEMMA ClientStepState ==
  ASSUME TypeOK, NEW c \in Clients, ClientStep(c)
  PROVE  StateChange(c)
<1>1. UNCHANGED toServer => RequestChange(c)
  BY DEF RequestChange
<1>2. ASSUME NEW n \in Nat, Send(c, Request(c, n)) PROVE RequestChange(c)
  BY <1>2, RequestType, RequestFlag DEF RequestChange, Requests
<1>3. cstate[c] \in {"idle", "length", "handle", "exit"} => Registers(c)
  BY DEF Registers, Running, Waiting
<1>4. {"HANDLE_EX", "MYSTERY_EX", "LIST_EX", "EXIT_EX", "acknowledged"} \cap Running = {}
  BY DEF Running, Waiting
<1>5. CASE GetConfirmation(c)
  <2>1. Flag(c) = "confirm" => Registers(c)
    <3>1. toClient[c] \in Seq(Messages) /\ toClient[c] # <<>>
      BY <1>5 DEF GetConfirmation, TypeOK
    <3>2. 1 \in DOMAIN toClient[c] /\ Head(toClient[c]) = toClient[c][1]
      BY <3>1
    <3> QED BY <3>2 DEF Flag, Registers, Confirmed, HasFlag
  <2> DEFINE s == IF Flag(c) = "confirm" THEN "idle"
                  ELSE IF Flag(c) = "bad_handle" THEN "HANDLE_EX" ELSE "MYSTERY_EX"
  <2>2. s # "off" /\ (s \in Running \ {"confirm"} => Registers(c))
    BY <1>4, <2>1
  <2>3. Receive(c, s) /\ UNCHANGED toServer
    BY <1>5 DEF GetConfirmation
  <2> HIDE DEF s
  <2> QED BY <1>1, <2>2, <2>3, ReceiveState
<1>6. CASE ProcessMessage(c)
  BY <1>1, <1>3, <1>6, ReceiveState DEF ProcessMessage
<1>7. CASE Acknowledged(c)
  BY <1>1, <1>3, <1>7, ReceiveState DEF Acknowledged
<1>8. CASE GetListLength(c)
  BY <1>1, <1>2, <1>3, <1>8, ReceiveState DEF GetListLength
<1>9. CASE GetHandle(c)
  <2>1. listing[c].index + 1 \in Nat
    BY DEF TypeOK
  <2> QED BY <1>1, <1>2, <1>3, <1>9, <2>1, ReceiveState DEF GetHandle
<1>10. CASE Disconnected(c)
  BY <1>1, <1>10 DEF Disconnected, StateChange, streamVars, TypeOK, Confirmed, Running, Waiting
<1>11. CASE \E h \in Handles \cup {NoHandle} : Start(c, h)
  <2>1. PICK h \in Names : Start(c, h)
    BY <1>11 DEF Names
  <2> DEFINE m == [Plain("initial", 0) EXCEPT !.from = h]
  <2>2. m \in Messages
    BY <2>1, PlainType DEF Flags, Requests
  <2>3. m.flag = "initial" /\ m.from = h
    BY DEF Plain
  <2>4. Send(c, m)
    BY <2>1 DEF Start
  <2> HIDE DEF m
  <2>5. /\ cstate[c] = "off" /\ cstate'[c] = "confirm" /\ name'[c] = h /\ UNCHANGED toClient
        /\ \A d \in Clients \ {c} : cstate'[d] = cstate[d] /\ name'[d] = name[d]
    BY <2>1 DEF Start, TypeOK
  <2> QED BY <2>2, <2>3, <2>4, <2>5 DEF StateChange, Confirmed
<1>12. CASE SendMessage(c) \/ SendToAll(c)
  <2>1. \A h \in Names : Chat(name[c], h) \in Messages /\ Chat(name[c], h).flag = "message"
    BY DEF Chat, Messages, TypeOK, Names
  <2>2. "idle" \in Running \ {"confirm"}
    BY DEF Running
  <2> QED BY <1>12, <2>1, <2>2, CommandState DEF SendMessage, SendToAll, Names
<1>13. CASE RequestListLength(c) \/ Exit(c)
  <2>1. \A flag \in {"list", "exit"} :
          /\ [Plain(flag, 0) EXCEPT !.from = name[c]] \in Messages
          /\ [Plain(flag, 0) EXCEPT !.from = name[c]].flag = flag
    BY PlainType DEF TypeOK, Flags, Requests, Names, Plain
  <2>2. {"length", "exit"} \subseteq Running \ {"confirm"}
        /\ {"list", "exit"} \subseteq Requests \ {"initial"}
    BY DEF Running, Waiting, Requests
  <2> QED BY <1>13, <2>1, <2>2, CommandState DEF RequestListLength, Exit
<1>14. CASE Kill(c)
  <2>1. /\ cstate'[c] = "killed" /\ UNCHANGED <<name, toServer>>
        /\ \A d \in Clients \ {c} : cstate'[d] = cstate[d]
    BY <1>14 DEF Kill, TypeOK
  <2>2. "killed" \notin Running
    BY DEF Running, Waiting
  <2> QED BY <1>1, <1>14, <2>1, <2>2, CloseFlags DEF Kill, StateChange
<1> QED
  BY <1>5, <1>6, <1>7, <1>8, <1>9, <1>10, <1>11, <1>12, <1>13, <1>14 DEF ClientStep, Proceed, Use

\* A message sent is the last of its stream.
LEMMA SendMembers ==
  ASSUME TypeOK, NEW c \in Clients, NEW m \in Messages, Send(c, m)
  PROVE  /\ \A d \in Clients \ {c} : toServer'[d] = toServer[d]
         /\ \A j \in DOMAIN toServer'[c] :
              toServer'[c][j] = m \/ (j \in DOMAIN toServer[c] /\ toServer'[c][j] = toServer[c][j])
<1>1. /\ toServer'[c] = Append(toServer[c], m) /\ toServer[c] \in Seq(Messages)
      /\ \A d \in Clients \ {c} : toServer'[d] = toServer[d]
  BY DEF Send, TypeOK
<1>2. \A j \in 1..(Len(toServer[c]) + 1) : j \in 1..Len(toServer[c]) \/ j = Len(toServer[c]) + 1
  BY <1>1
<1> QED BY <1>1, <1>2

LEMMA StreamsClient ==
  ASSUME TypeOK, StreamsInv, NEW c \in Clients, ClientChange(c), StateChange(c)
  PROVE  /\ StreamsInv'
         /\ \A d \in Clients \ {c} : conn'[d] = conn[d] /\ toServer'[d] = toServer[d]
<1> USE DEF StreamsInv
<1>1. \A d \in Clients \ {c} : cstate'[d] = cstate[d] /\ name'[d] = name[d] /\ toClient'[d] = toClient[d]
  BY DEF StateChange
<1>2. \A d \in Clients \ {c} : conn'[d] = conn[d] /\ toServer'[d] = toServer[d]
  <2>1. \A d \in Clients \ {c} : conn'[d] = conn[d]
    BY DEF ClientChange, Connects, TypeOK
  <2>2. \A d \in Clients \ {c} : toServer'[d] = toServer[d]
    BY SendMembers DEF StateChange, RequestChange
  <2> QED BY <2>1, <2>2
<1>3. \A j \in DOMAIN toServer'[c] :
        /\ toServer'[c][j].flag \in Requests \cup {"message"}
        /\ toServer'[c][j].flag = "initial" => toServer'[c][j].from = name'[c]
  <2>1. CASE /\ cstate[c] = "off"
             /\ \E m \in Messages : Send(c, m) /\ m.flag = "initial" /\ m.from = name'[c]
    <3>1. PICK m \in Messages : Send(c, m) /\ m.flag = "initial" /\ m.from = name'[c]
      BY <2>1
    <3>2. DOMAIN toServer[c] = {}
      BY <2>1 DEF Unused
    <3>3. \A j \in DOMAIN toServer'[c] : toServer'[c][j] = m
      BY <3>1, <3>2, SendMembers
    <3> QED BY <3>1, <3>3 DEF Requests
  <2>2. CASE name' = name /\ RequestChange(c)
    <3>1. CASE UNCHANGED toServer
      BY <2>2, <3>1 DEF OwnRequests
    <3>2. CASE \E m \in Messages : Send(c, m) /\ m.flag \in (Requests \ {"initial"}) \cup {"message"}
      <4>1. PICK m \in Messages : Send(c, m) /\ m.flag \in (Requests \ {"initial"}) \cup {"message"}
        BY <3>2
      <4>2. m.flag # "initial"
        BY <4>1
      <4>3. \A j \in DOMAIN toServer'[c] :
              toServer'[c][j] = m \/ (j \in DOMAIN toServer[c] /\ toServer'[c][j] = toServer[c][j])
        BY <4>1, SendMembers
      <4> QED BY <2>2, <4>1, <4>2, <4>3 DEF OwnRequests
    <3> QED BY <2>2, <3>1, <3>2 DEF RequestChange
  <2> QED BY <2>1, <2>2 DEF StateChange
<1>4. OwnRequests'
  <2> SUFFICES ASSUME NEW d \in Clients, NEW j \in DOMAIN toServer'[d]
               PROVE  /\ toServer'[d][j].flag \in Requests \cup {"message"}
                      /\ toServer'[d][j].flag = "initial" => toServer'[d][j].from = name'[d]
    BY DEF OwnRequests
  <2>1. CASE d = c
    BY <1>3, <2>1
  <2>2. CASE d # c
    <3>1. toServer'[d] = toServer[d] /\ name'[d] = name[d] /\ j \in DOMAIN toServer[d]
      BY <1>1, <1>2, <2>2
    <3> QED BY <3>1 DEF OwnRequests
  <2> QED BY <2>1, <2>2
<1>5. Unused'
  BY <1>1, <1>2 DEF Unused, StateChange
<1> QED BY <1>2, <1>4, <1>5

LEMMA RegisterClient ==
  ASSUME TypeOK, RegisterInv, NEW c \in Clients, ClientChange(c), StateChange(c)
  PROVE  RegisterInv'
<1> USE DEF RegisterInv, StreamsInv
<1>1. \A d \in Clients \ {c} : cstate'[d] = cstate[d] /\ name'[d] = name[d] /\ toClient'[d] = toClient[d]
  BY DEF StateChange
<1>2. StreamsInv' /\ \A d \in Clients \ {c} : conn'[d] = conn[d]
  BY StreamsClient
<1>6. EntryKept'
  <2> SUFFICES ASSUME server' = "running", NEW d \in Clients, conn'[d] = "open", Registers(d)'
               PROVE  HasEntry(d)'
    BY DEF EntryKept
  <2>1. server = "running" /\ table' = table
    BY DEF ClientChange
  <2>2. CASE d # c
    <3>1. Registers(d) /\ conn[d] = "open"
      BY <1>1, <1>2, <2>2 DEF Registers, Confirmed
    <3> QED BY <1>1, <2>1, <2>2, <3>1 DEF EntryKept, HasEntry
  <2>3. CASE d = c
    <3>1. cstate[c] # "off"
      <4> SUFFICES ASSUME cstate[c] = "off" PROVE FALSE
        OBVIOUS
      <4>1. ~Confirmed(c)
        BY DEF Unused, Confirmed, HasFlag
      <4>2. conn[c] = "none"
        BY DEF Unused
      <4>3. Connects(c)
        BY <2>3, <4>2 DEF ClientChange, Gone
      <4>4. cstate'[c] \in Running \ {"confirm"}
        BY <2>3, <4>1 DEF Registers, Confirmed, StateChange
      <4>5. Registers(c)
        BY <4>4 DEF StateChange
      <4> QED BY <4>1, <4>5 DEF Registers, Running, Waiting
    <3>2. conn[c] = "open"
      BY <2>3, <3>1 DEF ClientChange, Connects, Gone
    <3>3. Registers(c) /\ name' = name
      <4>1. name' = name /\ (cstate'[c] \in Running \ {"confirm"} => Registers(c))
        BY <3>1 DEF StateChange
      <4> QED BY <2>3, <4>1 DEF Registers, StateChange, Confirmed
    <3> QED BY <2>1, <2>3, <3>2, <3>3 DEF EntryKept, HasEntry
  <2> QED BY <2>2, <2>3
<1> QED BY <1>2, <1>6

LEMMA RegisterNext ==
  ASSUME NeverEnlarged, TypeOK, OnePlace, Whole, RegisterInv, [Next]_vars
  PROVE  RegisterInv'
<1>1. CASE Select /\ UNCHANGED clientVars
  BY <1>1, RegisterSelect
<1>2. CASE ProcessPacket /\ UNCHANGED clientVars
  <2>1. PICK i \in Ready : ProcessChange(i)
    BY <1>2, ProcessPacketChange
  <2>2. AnswersChange(table[i].fd) /\ \A d \in Clients : Shrinks(d)
    BY <1>2, <2>1, ProcessPacketAnswers DEF ProcessChange, RegisterInv, StreamsInv
  <2> QED BY <1>2, <2>1, <2>2, RegisterProcess
<1>3. CASE \E c \in Clients : ClientStep(c)
  BY <1>3, RegisterClient, ClientStepChange, ClientStepState
<1>4. CASE UNCHANGED vars
  BY <1>4 DEF vars, streamVars, serverVars, clientVars, RegisterInv, StreamsInv,
       OwnRequests, Unused, EntryKept, HasEntry, Registers, Confirmed
<1> QED BY <1>1, <1>2, <1>3, <1>4 DEF Next, ServerStep, Server

(* On the same condition a client that was told its name is confirmed has   *)
(* an entry with this name and its own connection for as long as it is      *)
(* connected, whichever entries close_connection() moves.                   *)
THEOREM RegistrationKept ==
  ASSUME NeverEnlarged
  PROVE  Spec => []Registered
<1>1. Init => RegisterInv
  BY DEF Init, StreamsInit, ServerInit, ClientInit, RegisterInv, StreamsInv, OwnRequests, Unused,
       EntryKept
<1>2. TypeOK /\ OnePlace /\ Whole /\ RegisterInv /\ [Next]_vars => RegisterInv'
  BY RegisterNext
<1>3. RegisterInv => Registered
  BY DEF RegisterInv, EntryKept, Registers, HasEntry, Registered
<1> QED BY <1>1, <1>2, <1>3, PlacedInvariant, PTL DEF Spec

-----------------------------------------------------------------------------
(* The invariants.                                                          *)

\* A name in the table is the name of the client the entry is of, resize()
\* included: it forgets names before sockets.
EntryNamed ==
  \A i \in DOMAIN table : table[i].handle \in Handles =>
    table[i].fd \in Clients /\ table[i].handle = name[table[i].fd]

\* The server closes no connection that it keeps.
ConnOpen ==
  server = "running" =>
    \A c \in Clients : cstate[c] \in Running /\ c \in Queued \cup Connected(table) => conn[c] = "open"

\* No message of s has a flag in F; one has, and its flag is in A.
None(s, F) == \A i \in DOMAIN s : s[i].flag \notin F

One(s, F, A) ==
  \E i \in DOMAIN s : s[i].flag \in A /\ \A j \in DOMAIN s : s[j].flag \in F => j = i

\* The request of a client is under way; the answer to it is; neither is.
Asked(c) == One(toServer[c], Requests, {RequestOf(cstate[c])}) /\ None(toClient[c], Answers)

Told(c) == None(toServer[c], Requests) /\ One(toClient[c], Answers, AnswersTo(cstate[c]))

Quiet(c) == None(toServer[c], Requests) /\ None(toClient[c], Answers)

InTurns(c) == IF cstate[c] \in Waiting THEN Asked(c) \/ Told(c) ELSE Quiet(c)

Turns == server = "running" => \A c \in Clients : cstate[c] \in Running => InTurns(c)

-----------------------------------------------------------------------------
(* Streams of one message at a time.                                        *)

LEMMA AppendLast ==
  ASSUME NEW s \in Seq(Messages), NEW m \in Messages
  PROVE  LET u == Append(s, m) IN
         /\ u \in Seq(Messages) /\ Len(s) + 1 \in DOMAIN u /\ u[Len(s) + 1] = m
         /\ Len(s) + 1 \notin DOMAIN s
         /\ \A i \in DOMAIN s : i \in DOMAIN u /\ u[i] = s[i]
         /\ \A i \in DOMAIN u : i \in DOMAIN s \/ i = Len(s) + 1
<1> DEFINE u == Append(s, m)
           n == Len(s)
<1>1. u \in Seq(Messages) /\ n \in Nat /\ DOMAIN s = 1..n /\ DOMAIN u = 1..(n + 1)
  BY AppendProperties
<1>2. u[n + 1] = m /\ \A i \in 1..n : u[i] = s[i]
  BY <1>1, AppendProperties
<1> HIDE DEF u, n
<1>3. /\ n + 1 \in 1..(n + 1) /\ n + 1 \notin 1..n
      /\ \A i \in 1..n : i \in 1..(n + 1)
      /\ \A i \in 1..(n + 1) : i \in 1..n \/ i = n + 1
  BY <1>1
<1> QED BY <1>1, <1>2, <1>3 DEF u, n

LEMMA TailFirst ==
  ASSUME NEW s \in Seq(Messages), s # <<>>
  PROVE  LET u == Tail(s) IN
         /\ u \in Seq(Messages) /\ Head(s) \in Messages /\ 1 \in DOMAIN s /\ s[1] = Head(s)
         /\ \A i \in DOMAIN u : i + 1 \in DOMAIN s /\ i + 1 # 1 /\ u[i] = s[i + 1]
         /\ \A i \in DOMAIN s : i # 1 => \E j \in DOMAIN u : j + 1 = i
<1> DEFINE u == Tail(s)
           n == Len(s)
<1>1. /\ u \in Seq(Messages) /\ n \in Nat \ {0} /\ DOMAIN s = 1..n
      /\ Head(s) \in Messages /\ s[1] = Head(s)
  BY HeadTailProperties
<1>2. DOMAIN u = 1..(n - 1) /\ \A i \in 1..(n - 1) : u[i] = s[i + 1]
  OBVIOUS
<1> HIDE DEF u, n
<1>3. 1 \in 1..n /\ \A i \in 1..(n - 1) : i + 1 \in 1..n /\ i + 1 # 1
  BY <1>1
<1>4. ASSUME NEW i \in 1..n, i # 1 PROVE \E j \in 1..(n - 1) : j + 1 = i
  <2>1. i - 1 \in 1..(n - 1) /\ (i - 1) + 1 = i
    BY <1>1, <1>4
  <2> QED BY <2>1
<1> QED BY <1>1, <1>2, <1>3, <1>4 DEF u, n

\* With one message for every recv(), what it leaves is the rest.
LEMMA TakesFirst ==
  ASSUME ~Coalescing, NEW s \in Seq(Messages), NEW k \in Taken(s)
  PROVE  s # <<>> /\ Rest(s, k) = Tail(s) /\ SubSeq(s, 1, k) = <<Head(s)>>
<1>1. k = 1 /\ 1 \in 1..Len(s)
  BY DEF Taken
<1>2. s # <<>> /\ SubSeq(s, 2, Len(s)) = Tail(s)
  BY <1>1, TailIsSubSeq
<1>3. SubSeq(s, 1, 1) = <<Head(s)>>
  <2> DEFINE u == SubSeq(s, 1, 1)
             v == <<Head(s)>>
  <2>1. Head(s) = s[1] /\ s[1] \in Messages
    BY <1>1
  <2>2. u \in Seq(Messages) /\ Len(u) = 1 /\ u[1] = s[1]
    BY <1>1, <2>1
  <2>3. v \in Seq(Messages) /\ Len(v) = 1 /\ v[1] = s[1]
    BY <2>1
  <2> HIDE DEF u, v
  <2>4. \A i \in 1..Len(u) : u[i] = v[i]
    BY <2>2, <2>3
  <2>5. u = v
    BY <2>2, <2>3, <2>4, SeqEqual
  <2> QED BY <2>5 DEF u, v
<1> QED BY <1>1, <1>2, <1>3 DEF Rest

LEMMA AppendCounts ==
  ASSUME NEW s \in Seq(Messages), NEW m \in Messages, NEW F, NEW A
  PROVE  LET u == Append(s, m) IN
         /\ m.flag \notin F /\ None(s, F) => None(u, F)
         /\ m.flag \notin F /\ One(s, F, A) => One(u, F, A)
         /\ m.flag \in A /\ None(s, F) => One(u, F, A)
<1> DEFINE u == Append(s, m)
           l == Len(s) + 1
<1>1. /\ l \in DOMAIN u /\ u[l] = m /\ l \notin DOMAIN s
      /\ \A i \in DOMAIN s : i \in DOMAIN u /\ u[i] = s[i]
      /\ \A i \in DOMAIN u : i \in DOMAIN s \/ i = l
  BY AppendLast
<1> HIDE DEF u, l
<1>2. m.flag \notin F /\ None(s, F) => None(u, F)
  BY <1>1 DEF None
<1>3. ASSUME m.flag \notin F, One(s, F, A) PROVE One(u, F, A)
  <2>1. PICK i \in DOMAIN s : s[i].flag \in A /\ \A j \in DOMAIN s : s[j].flag \in F => j = i
    BY <1>3 DEF One
  <2>2. i \in DOMAIN u /\ u[i].flag \in A /\ \A j \in DOMAIN u : u[j].flag \in F => j = i
    BY <1>1, <1>3, <2>1
  <2> QED BY <2>2 DEF One
<1>4. ASSUME m.flag \in A, None(s, F) PROVE One(u, F, A)
  <2>1. u[l].flag \in A /\ \A j \in DOMAIN u : u[j].flag \in F => j = l
    BY <1>1, <1>4 DEF None
  <2> QED BY <1>1, <2>1 DEF One
<1> QED BY <1>2, <1>3, <1>4 DEF u

LEMMA TailCounts ==
  ASSUME NEW s \in Seq(Messages), s # <<>>, NEW F, NEW A \in SUBSET F
  PROVE  LET u == Tail(s) IN
         /\ None(s, F) => None(u, F) /\ Head(s).flag \notin F
         /\ One(s, F, A) /\ Head(s).flag \notin F => One(u, F, A)
         /\ One(s, F, A) /\ Head(s).flag \in F => None(u, F) /\ Head(s).flag \in A
<1> DEFINE u == Tail(s)
<1>1. /\ 1 \in DOMAIN s /\ s[1] = Head(s)
      /\ \A i \in DOMAIN u : i + 1 \in DOMAIN s /\ i + 1 # 1 /\ u[i] = s[i + 1]
      /\ \A i \in DOMAIN s : i # 1 => \E j \in DOMAIN u : j + 1 = i
      /\ u \in Seq(Messages)
  BY TailFirst
<1>2. \A i, j \in DOMAIN u : i + 1 = j + 1 => i = j
  BY <1>1
<1> HIDE DEF u
<1>3. None(s, F) => None(u, F) /\ Head(s).flag \notin F
  BY <1>1 DEF None
<1>4. ASSUME One(s, F, A), Head(s).flag \notin F PROVE One(u, F, A)
  <2>1. PICK i \in DOMAIN s : s[i].flag \in A /\ \A j \in DOMAIN s : s[j].flag \in F => j = i
    BY <1>4 DEF One
  <2>2. i # 1
    BY <1>1, <1>4, <2>1
  <2>3. PICK k \in DOMAIN u : k + 1 = i
    BY <1>1, <2>2
  <2>4. u[k].flag \in A
    BY <1>1, <2>1, <2>3
  <2>5. ASSUME NEW j \in DOMAIN u, u[j].flag \in F PROVE j = k
    <3>1. j + 1 \in DOMAIN s /\ s[j + 1].flag \in F
      BY <1>1, <2>5
    <3>2. j + 1 = k + 1
      BY <2>1, <2>3, <3>1
    <3> QED BY <1>2, <3>2
  <2> QED BY <2>4, <2>5 DEF One
<1>5. ASSUME One(s, F, A), Head(s).flag \in F PROVE None(u, F) /\ Head(s).flag \in A
  <2>1. PICK i \in DOMAIN s : s[i].flag \in A /\ \A j \in DOMAIN s : s[j].flag \in F => j = i
    BY <1>5 DEF One
  <2>2. i = 1
    BY <1>1, <1>5, <2>1
  <2> QED BY <1>1, <2>1, <2>2 DEF None
<1> QED BY <1>3, <1>4, <1>5 DEF u

LEMMA EmptyCounts ==
  ASSUME NEW F
  PROVE  None(<<>>, F)
BY DEF None

-----------------------------------------------------------------------------
(* What the server sends in a step.                                         *)

\* At most r is added to the stream of d.
Adds(d, r) == toClient'[d] = toClient[d] \/ toClient'[d] = Append(toClient[d], r)

\* A message is passed on, or its destination reported: with a destination it
\* goes to the sockets of that name only.
PassesOn ==
  \E r \in Messages :
    /\ r.flag \in {"message", "bad_destination"}
    /\ \A d \in Clients : Adds(d, r)
    /\ r.flag = "message" /\ r.to # NoHandle =>
         \A d \in Clients : toClient'[d] = toClient[d]
           \/ \E i \in DOMAIN table : table[i] = [fd |-> d, handle |-> r.to]

Replies(flag) ==
  CASE flag = "initial" -> {"confirm", "bad_handle"} [] flag = "list" -> {"length"}
    [] flag = "request" -> {"handle", "no_handle"} [] OTHER -> {"exit_ack"}

\* A request is answered, unless its client is gone or the server ends.
Replied(c, flag) ==
  /\ \A d \in Clients \ {c} : toClient'[d] = toClient[d]
  /\ \/ toClient'[c] = toClient[c] /\ (server' # "running" \/ conn[c] # "open")
     \/ \E r \in Messages : r.flag \in Replies(flag) /\ toClient'[c] = Append(toClient[c], r)

\* One message is taken from the stream of c and handled.
TakesOne(c) ==
  /\ toServer[c] # <<>> /\ toServer'[c] = Tail(toServer[c])
  /\ LET flag == Head(toServer[c]).flag
     IN  (flag = "message" /\ PassesOn) \/ (flag \in Requests /\ Replied(c, flag))

LEMMA SentOne ==
  ASSUME TypeOK, NEW S, NEW r \in Messages, toClient' = Sent(S, <<r>>)
  PROVE  \A d \in Clients :
           \/ toClient'[d] = toClient[d] /\ (conn[d] # "open" \/ d \notin S)
           \/ toClient'[d] = Append(toClient[d], r) /\ d \in S
<1>1. \A d \in Clients : Append(toClient[d], r) = toClient[d] \o <<r>>
  BY AppendIsConcat DEF TypeOK
<1> QED BY <1>1 DEF Sent

LEMMA RespondSends ==
  ASSUME TypeOK, NEW c \in Clients, NEW r \in Messages, NEW flag, r.flag \in Replies(flag),
         Respond(c, r) \/ RespondAndClose(c, r)
  PROVE  Replied(c, flag)
<1>1. CASE FailToSend(c)
  BY <1>1 DEF FailToSend, Crash, Replied
<1>2. CASE toClient' = Sent({c}, <<r>>)
  BY <1>2, SentOne, ZenonT(30) DEF Replied
<1> QED BY <1>1, <1>2 DEF Respond, SendOn, RespondAndClose

LEMMA InitialSends ==
  ASSUME TypeOK, NEW c \in Clients, NEW h \in Names, InitialPacket(c, h)
  PROVE  Replied(c, "initial")
<1>1. ASSUME NEW flag \in {"confirm", "bad_handle"}
      PROVE  LET r == [Plain(flag, 0) EXCEPT !.to = h]
             IN  r \in Messages /\ r.flag \in Replies("initial")
  <2>1. [Plain(flag, 0) EXCEPT !.to = h] \in Messages
    BY PlainType DEF Flags, Answers
  <2>2. [Plain(flag, 0) EXCEPT !.to = h].flag = flag
    BY DEF Plain
  <2> QED BY <2>1, <2>2 DEF Replies
<1>2. CASE \E why : Crash(why) /\ why # "running"
  BY <1>2 DEF Crash, Replied
<1>3. CASE toClient' = Sent({c}, <<[Plain("confirm", 0) EXCEPT !.to = h]>>)
  <2> DEFINE r == [Plain("confirm", 0) EXCEPT !.to = h]
  <2>1. r \in Messages /\ r.flag \in Replies("initial")
    BY <1>1
  <2>2. toClient' = Sent({c}, <<r>>)
    BY <1>3
  <2> HIDE DEF r
  <2> QED BY <2>1, <2>2, SentOne, ZenonT(30) DEF Replied
<1>4. CASE conn[c] = "rst" /\ UNCHANGED toClient
  BY <1>4 DEF Replied
<1>5. CASE RespondAndClose(c, [Plain("bad_handle", 0) EXCEPT !.to = h])
  BY <1>1, <1>5, RespondSends
<1> QED BY <1>2, <1>3, <1>4, <1>5 DEF InitialPacket, ConfirmHandle

LEMMA MessageSends ==
  ASSUME TypeOK, NEW c \in Clients, NEW m \in Messages, m.flag = "message", MessagePacket(c, <<m>>)
  PROVE  PassesOn
<1>0. m.to \in Names /\ m.from \in Names /\ Head(<<m>>) = m
  BY MessageType
<1>1. ASSUME NEW why, Crash(why) PROVE PassesOn
  BY <1>1 DEF Crash, PassesOn, Adds
<1>2. CASE m.to = NoHandle /\ Broadcast(m.from, <<m>>)
  <2>1. PICK S : toClient' = Sent(S, <<m>>)
    BY <1>2 DEF Broadcast
  <2> QED BY <1>2, <2>1, SentOne DEF PassesOn, Adds
<1>3. CASE Respond(c, [Plain("bad_destination", 0) EXCEPT !.to = m.to])
  <2> DEFINE r == [Plain("bad_destination", 0) EXCEPT !.to = m.to]
  <2>1. r \in Messages
    BY <1>0, PlainType DEF Flags
  <2>2. r.flag = "bad_destination"
    BY DEF Plain
  <2> HIDE DEF r
  <2>3. CASE Crash("send")
    BY <1>1, <2>3
  <2>4. CASE toClient' = Sent({c}, <<r>>)
    <3>1. \A d \in Clients : Adds(d, r)
      BY <2>1, <2>4, SentOne DEF Adds
    <3> QED BY <2>1, <2>2, <3>1 DEF PassesOn
  <2> QED BY <1>3, <2>3, <2>4 DEF Respond, SendOn, FailToSend, r
<1>4. CASE \E i \in DOMAIN table : table[i].handle = m.to /\ SendOn(table[i].fd, <<m>>)
  <2>1. PICK i \in DOMAIN table : table[i].handle = m.to /\ SendOn(table[i].fd, <<m>>)
    BY <1>4
  <2>2. table[i] = [fd |-> table[i].fd, handle |-> m.to]
    <3>1. table[i] \in Entries
      BY DEF TypeOK
    <3> QED BY <2>1, <3>1 DEF Entries
  <2>3. CASE Crash("send")
    BY <1>1, <2>3
  <2>4. CASE toClient' = Sent({table[i].fd}, <<m>>)
    <3> DEFINE t == table[i].fd
    <3>1. table[i] = [fd |-> t, handle |-> m.to] /\ toClient' = Sent({t}, <<m>>)
      BY <2>2, <2>4
    <3> HIDE DEF t
    <3>2. \A d \in Clients :
            toClient'[d] = toClient[d] \/ (toClient'[d] = Append(toClient[d], m) /\ d \in {t})
      <4>1. toClient' = Sent({t}, <<m>>)
        BY <3>1
      <4>2. \A d \in Clients :
              \/ toClient'[d] = toClient[d] /\ (conn[d] # "open" \/ d \notin {t})
              \/ toClient'[d] = Append(toClient[d], m) /\ d \in {t}
        BY <4>1, SentOne
      <4> QED BY <4>2
    <3>3. \A d \in Clients : toClient'[d] = toClient[d] \/ table[i] = [fd |-> d, handle |-> m.to]
      BY <3>1, <3>2
    <3> QED BY <3>2, <3>3 DEF PassesOn, Adds
  <2> QED BY <2>1, <2>3, <2>4 DEF SendOn, FailToSend
<1> QED BY <1>0, <1>1, <1>2, <1>3, <1>4 DEF MessagePacket, Route

LEMMA HandleSends ==
  ASSUME TypeOK, NEW c \in Clients, NEW m \in Messages, Handle(c, <<m>>)
  PROVE  (m.flag = "message" /\ PassesOn) \/ (m.flag \in Requests /\ Replied(c, m.flag))
<1>0. Head(<<m>>) = m /\ m.from \in Names /\ m.n \in Nat /\ Len(table) \in Nat
  BY MessageType DEF TypeOK
<1>1. CASE m.flag = "initial" /\ InitialPacket(c, m.from)
  BY <1>0, <1>1, InitialSends DEF Requests
<1>2. CASE m.flag = "message" /\ MessagePacket(c, <<m>>)
  BY <1>2, MessageSends
<1>3. ASSUME NEW flag \in {"exit_ack", "length", "handle", "no_handle"}, NEW n \in Nat
      PROVE  Plain(flag, n) \in Messages /\ Plain(flag, n).flag = flag
  <2>1. flag \in Flags
    BY DEF Flags, Answers
  <2> QED BY <2>1, PlainType DEF Plain, Names
<1>4. CASE m.flag = "exit" /\ RespondAndClose(c, Plain("exit_ack", 0))
  <2>1. Replied(c, "exit")
    BY <1>3, <1>4, RespondSends DEF Replies
  <2> QED BY <1>4, <2>1 DEF Requests
<1>5. CASE m.flag = "list" /\ Respond(c, Plain("length", Len(table)))
  <2>1. Replied(c, "list")
    BY <1>0, <1>3, <1>5, RespondSends DEF Replies
  <2> QED BY <1>5, <2>1 DEF Requests
<1>6. CASE m.flag = "request" /\ HandleRequest(c, m.n)
  <2>1. CASE Crash("null")
    BY <1>6, <2>1 DEF Crash, Replied, Requests
  <2>2. CASE Respond(c, Plain("no_handle", 0)) \/ Respond(c, Plain("handle", m.n))
    <3>1. Replied(c, "request")
      BY <1>0, <1>3, <2>2, RespondSends DEF Replies
    <3> QED BY <1>6, <3>1 DEF Requests
  <2> QED BY <1>6, <2>1, <2>2 DEF HandleRequest
<1> QED BY <1>0, <1>1, <1>2, <1>4, <1>5, <1>6 DEF Handle

LEMMA ProcessSends ==
  ASSUME TypeOK, ~Coalescing, ProcessPacket
  PROVE  \E i \in Ready :
           ProcessChange(i) /\ (TakesOne(table[i].fd) \/ UNCHANGED <<toServer, toClient>>)
<1>1. PICK i \in Ready : ProcessChange(i)
  BY ProcessPacketChange
<1> DEFINE c == table[i].fd
<1>2. \/ \E k \in Taken(toServer[c]) :
             /\ toServer' = [toServer EXCEPT ![c] = Rest(@, k)]
             /\ Handle(c, SubSeq(toServer[c], 1, k))
      \/ UNCHANGED <<toServer, toClient>>
      \/ Crash("recv") /\ UNCHANGED toServer
  <2>1. PICK n \in Ready :
          /\ LET d == table[n].fd
             IN  \/ \E k \in Taken(toServer[d]) :
                      /\ toServer' = [toServer EXCEPT ![d] = Rest(@, k)]
                      /\ Handle(d, SubSeq(toServer[d], 1, k))
                 \/ UNCHANGED <<toServer, toClient>>
                 \/ Crash("recv") /\ UNCHANGED toServer
          /\ turn' = n + 1
    BY DEF ProcessPacket
  <2>2. n = i
    BY <1>1, <2>1 DEF Ready, TypeOK, ProcessChange
  <2> QED BY <2>1, <2>2
<1>3. c \in Clients
  BY <1>1 DEF ProcessChange
<1> HIDE DEF c
<1>4. CASE \E k \in Taken(toServer[c]) :
             /\ toServer' = [toServer EXCEPT ![c] = Rest(@, k)]
             /\ Handle(c, SubSeq(toServer[c], 1, k))
  <2>1. PICK k \in Taken(toServer[c]) :
          /\ toServer' = [toServer EXCEPT ![c] = Rest(@, k)]
          /\ Handle(c, SubSeq(toServer[c], 1, k))
    BY <1>4
  <2>2. toServer[c] \in Seq(Messages)
    BY <1>3 DEF TypeOK
  <2>3. /\ toServer[c] # <<>> /\ Rest(toServer[c], k) = Tail(toServer[c])
        /\ SubSeq(toServer[c], 1, k) = <<Head(toServer[c])>>
    BY <2>2, TakesFirst
  <2>4. Head(toServer[c]) \in Messages /\ Handle(c, <<Head(toServer[c])>>)
    BY <2>1, <2>2, <2>3, TailFirst
  <2>5. toServer'[c] = Tail(toServer[c])
    BY <1>3, <2>1, <2>3 DEF TypeOK
  <2>6. TakesOne(c)
    BY <1>3, <2>3, <2>4, <2>5, HandleSends DEF TakesOne
  <2> QED BY <1>1, <2>6 DEF c
<1> QED BY <1>1, <1>2, <1>4 DEF Crash, c

-----------------------------------------------------------------------------
(* A message reaches the client it is for.                                  *)

\* resize() forgets a socket only with its name.
LEMMA ResizedNames ==
  ASSUME NEW t \in Seq(Entries), NEW cap \in Nat, NEW i \in DOMAIN Resized(t, cap),
         Resized(t, cap)[i].handle # Null
  PROVE  i \in DOMAIN t /\ Resized(t, cap)[i] = t[i]
<1>1. i \in DOMAIN t
  BY DEF Resized
<1>2. i \in Nat /\ t[i] \in Entries
  BY <1>1
<1>3. CASE ~MustResize(t, cap)
  BY <1>1, <1>3 DEF Resized
<1>4. CASE MustResize(t, cap)
  <2>1. Resized(t, cap)[i] = [fd |-> IF i <= cap \div 4 THEN t[i].fd ELSE Null,
                              handle |-> IF i <= cap \div 8 THEN t[i].handle ELSE Null]
    BY <1>1, <1>4 DEF Resized
  <2>2. i <= cap \div 8
    BY <2>1
  <2>3. i <= cap \div 4
    BY <1>2, <2>2
  <2>4. Resized(t, cap)[i] = [fd |-> t[i].fd, handle |-> t[i].handle]
    BY <2>1, <2>2, <2>3
  <2> QED BY <1>1, <1>2, <2>4 DEF Entries
<1> QED BY <1>3, <1>4

LEMMA NamedSelect ==
  ASSUME TypeOK, EntryNamed, Select, UNCHANGED clientVars
  PROVE  EntryNamed'
<1>1. UNCHANGED name
  BY DEF clientVars
<1>2. CASE backlog = <<>>
  BY <1>1, <1>2 DEF Select, EntryNamed
<1>3. CASE backlog # <<>>
  <2> DEFINE r == Resized(table, capacity)
             e == [fd |-> Head(backlog), handle |-> NoHandle]
  <2>1. table' = Append(r, e) /\ r \in Seq(Entries)
    BY <1>3, ResizedType DEF Select, TypeOK
  <2>2. \A i \in DOMAIN r : r[i].handle # Null => i \in DOMAIN table /\ r[i] = table[i]
    BY ResizedNames DEF TypeOK
  <2>3. e.handle = NoHandle
    OBVIOUS
  <2> HIDE DEF r, e
  <2>4. \A i \in DOMAIN table' : (i \in DOMAIN r /\ table'[i] = r[i]) \/ table'[i] = e
    BY <2>1
  <2> SUFFICES ASSUME NEW i \in DOMAIN table', table'[i].handle \in Handles
               PROVE  table'[i].fd \in Clients /\ table'[i].handle = name[table'[i].fd]
    BY <1>1 DEF EntryNamed
  <2>5. i \in DOMAIN table /\ table'[i] = table[i]
    BY <2>2, <2>3, <2>4
  <2> QED BY <2>5 DEF EntryNamed
<1> QED BY <1>2, <1>3

LEMMA NamedProcess ==
  ASSUME TypeOK, OnePlace, StreamsInv, EntryNamed, NEW c \in Clients, c \in Connected(table),
         TableChange(c), UNCHANGED clientVars
  PROVE  EntryNamed'
<1>1. UNCHANGED name /\ table \in Seq(Entries) /\ c # Null
  BY DEF clientVars, TypeOK
<1>2. CASE table' = table
  BY <1>1, <1>2 DEF EntryNamed
<1>3. CASE Learns(c)
  <2> DEFINE h == Head(toServer[c]).from
  <2>1. h \in Names /\ h = name[c] /\ table' = LearnHandle(table, c, h)
    BY <1>3, LearnsOwnName DEF StreamsInv, Learns
  <2> HIDE DEF h
  <2>2. /\ DOMAIN table' = DOMAIN table
        /\ \A i \in DOMAIN table : i # IndexOf(table, c) => table'[i] = table[i]
        /\ \A i \in DOMAIN table :
             i = IndexOf(table, c) => table'[i] = [fd |-> table[i].fd, handle |-> h]
    BY <1>1, <2>1, LearnHandleSockets
  <2>3. table[IndexOf(table, c)].fd = c
    BY IndexOfFound
  <2> SUFFICES ASSUME NEW i \in DOMAIN table', table'[i].handle \in Handles
               PROVE  table'[i].fd \in Clients /\ table'[i].handle = name[table'[i].fd]
    BY <1>1 DEF EntryNamed
  <2>4. CASE i = IndexOf(table, c)
    <3>1. table'[i] = [fd |-> c, handle |-> h]
      BY <2>2, <2>3, <2>4
    <3> QED BY <2>1, <3>1
  <2>5. CASE i # IndexOf(table, c)
    BY <2>2, <2>5 DEF EntryNamed
  <2> QED BY <2>4, <2>5
<1>4. CASE table' = CloseConnection(table, c)
  <2>1. \A j \in DOMAIN table' : \E i \in DOMAIN table : table'[j] = table[i]
    BY <1>1, <1>4, CloseConnectionSockets DEF OnePlace
  <2> QED BY <1>1, <2>1 DEF EntryNamed
<1> QED BY <1>2, <1>3, <1>4 DEF TableChange

LEMMA NamedClient ==
  ASSUME OnePlace, EntryNamed, NEW c \in Clients, ClientChange(c), StateChange(c)
  PROVE  EntryNamed'
<1>1. UNCHANGED table /\ \A d \in Clients : d \in Connected(table) => name'[d] = name[d]
  BY DEF ClientChange, StateChange, OnePlace
<1>2. \A i \in DOMAIN table : table[i].fd \in Connected(table)
  BY DEF Connected
<1> QED BY <1>1, <1>2 DEF EntryNamed

\* What a client steps over or the server adds: the addressee is still right.
LEMMA AddressedProcess ==
  ASSUME TypeOK, EntryNamed, RightAddressee, NEW c \in Clients, UNCHANGED name,
         TakesOne(c) \/ UNCHANGED toClient
  PROVE  RightAddressee'
<1> SUFFICES ASSUME NEW d \in Clients, NEW i \in DOMAIN toClient'[d],
                    toClient'[d][i].flag = "message", toClient'[d][i].to # NoHandle
             PROVE  toClient'[d][i].to = name[d]
  BY DEF RightAddressee
<1>1. CASE toClient'[d] = toClient[d]
  BY <1>1 DEF RightAddressee
<1>2. ASSUME NEW r \in Messages, toClient'[d] = Append(toClient[d], r),
             r.flag = "message" /\ r.to # NoHandle => r.to = name[d]
      PROVE  toClient'[d][i].to = name[d]
  <2>1. toClient[d] \in Seq(Messages)
    BY DEF TypeOK
  <2>2. toClient'[d][i] = r \/ (i \in DOMAIN toClient[d] /\ toClient'[d][i] = toClient[d][i])
    BY <1>2, <2>1, AppendLast
  <2> QED BY <1>2, <2>2 DEF RightAddressee
<1>3. CASE PassesOn
  <2>1. PICK r \in Messages :
          /\ r.flag \in {"message", "bad_destination"}
          /\ Adds(d, r)
          /\ r.flag = "message" /\ r.to # NoHandle =>
               \/ toClient'[d] = toClient[d]
               \/ \E j \in DOMAIN table : table[j] = [fd |-> d, handle |-> r.to]
    BY <1>3 DEF PassesOn
  <2>2. CASE r.flag = "message" /\ r.to # NoHandle
    <3>1. r.to \in Handles
      BY <2>2, MessageType DEF Names
    <3> QED BY <1>1, <1>2, <2>1, <2>2, <3>1 DEF Adds, EntryNamed
  <2>3. CASE ~(r.flag = "message" /\ r.to # NoHandle)
    BY <1>1, <1>2, <2>1, <2>3 DEF Adds
  <2> QED BY <2>2, <2>3
<1>4. CASE \E flag \in Requests : Replied(c, flag)
  <2>1. PICK flag \in Requests : Replied(c, flag)
    BY <1>4
  <2>2. \A r \in Messages : r.flag \in Replies(flag) => r.flag # "message"
    BY DEF Replies
  <2> QED BY <1>1, <1>2, <2>1, <2>2 DEF Replied
<1> QED BY <1>1, <1>3, <1>4 DEF TakesOne

-----------------------------------------------------------------------------
(* What a client receives and sends in a step.                              *)

Ends(c) ==
  /\ cstate'[c] \notin Running /\ name' = name
  /\ toClient'[c] = toClient[c] \/ toClient'[c] = <<>>

Asks(c) ==
  /\ UNCHANGED toClient
  /\ \E m \in Messages :
       /\ Send(c, m)
       /\ \/ /\ cstate[c] = "off" /\ cstate'[c] = "confirm" /\ m.flag = "initial"
             /\ conn'[c] = "open"
          \/ /\ cstate[c] = "idle" /\ cstate'[c] \in {"length", "exit"}
             /\ m.flag = RequestOf(cstate'[c]) /\ UNCHANGED <<conn, name>>
          \/ /\ cstate[c] = "idle" /\ cstate'[c] = "idle" /\ m.flag = "message"
             /\ UNCHANGED <<conn, name>>

Hears(c) ==
  /\ toClient[c] # <<>> /\ toClient'[c] = Tail(toClient[c]) /\ UNCHANGED <<conn, name>>
  /\ \/ cstate[c] = "idle" /\ cstate'[c] = "idle" /\ UNCHANGED toServer
     \/ /\ cstate[c] \in Waiting /\ Head(toClient[c]).flag \in AnswersTo(cstate[c])
        /\ \/ cstate'[c] = "idle" /\ UNCHANGED toServer
           \/ cstate'[c] = "handle" /\ \E m \in Messages : Send(c, m) /\ m.flag = "request"

ClientTurn(c) == Ends(c) \/ Asks(c) \/ Hears(c)

LEMMA ReceiveTurn ==
  ASSUME TypeOK, ~Coalescing, NEW c \in Clients, NEW s, Receive(c, s)
  PROVE  /\ cstate'[c] = s /\ name' = name
         /\ s \in Running =>
              toClient[c] # <<>> /\ toClient'[c] = Tail(toClient[c]) /\ UNCHANGED conn
         /\ s \notin Running => toClient'[c] = <<>>
<1>1. cstate'[c] = s /\ name' = name
  BY DEF Receive, TypeOK
<1>2. PICK k \in Taken(toClient[c]) :
        IF s \in Running
        THEN toClient' = [toClient EXCEPT ![c] = Rest(@, k)] /\ UNCHANGED conn
        ELSE Close(c, Rest(toClient[c], k))
  BY DEF Receive
<1>3. toClient[c] \in Seq(Messages)
  BY DEF TypeOK
<1>4. toClient[c] # <<>> /\ Rest(toClient[c], k) = Tail(toClient[c])
  BY <1>3, TakesFirst
<1>5. s \in Running => toClient'[c] = Tail(toClient[c]) /\ UNCHANGED conn
  BY <1>2, <1>4 DEF TypeOK
<1>6. s \notin Running => toClient'[c] = <<>>
  BY <1>2 DEF Close, TypeOK
<1> QED BY <1>1, <1>4, <1>5, <1>6

LEMMA CommandTurn ==
  ASSUME TypeOK, NEW c \in Clients, NEW m \in Messages, NEW s,
         Command(c, m, s),
         (s = "idle" /\ m.flag = "message") \/ (s \in {"length", "exit"} /\ m.flag = RequestOf(s))
  PROVE  ClientTurn(c)
<1>1. /\ cstate[c] = "idle" /\ cstate'[c] = s /\ Send(c, m)
      /\ UNCHANGED <<toClient, conn, name>>
  BY DEF Command, TypeOK
<1> QED BY <1>1 DEF Asks, ClientTurn

LEMMA ClientStepTurn ==
  ASSUME TypeOK, ~Coalescing, NEW c \in Clients, ClientStep(c)
  PROVE  ClientTurn(c)
<1>1. ASSUME NEW s, s \notin Running, Receive(c, s) PROVE ClientTurn(c)
  BY <1>1, ReceiveTurn DEF ClientTurn, Ends
<1>2. \A s \in {"HANDLE_EX", "MYSTERY_EX", "LIST_EX", "EXIT_EX", "acknowledged", "killed",
                "CONNECT_EX"} : s \notin Running
  BY DEF Running, Waiting
<1>3. /\ {"idle", "handle"} \subseteq Running
      /\ AnswersTo("confirm") = {"confirm", "bad_handle"} /\ AnswersTo("length") = {"length"}
      /\ AnswersTo("handle") = {"handle", "no_handle"}
      /\ {"confirm", "length", "handle"} \subseteq Waiting
  BY DEF Running, Waiting, AnswersTo
<1>4. ASSUME NEW n \in Nat, Send(c, Request(c, n))
      PROVE  \E m \in Messages : Send(c, m) /\ m.flag = "request"
  BY <1>4, RequestType, RequestFlag
<1>5. CASE GetConfirmation(c)
  <2>1. CASE Flag(c) = "confirm"
    <3>1. Receive(c, "idle") /\ UNCHANGED toServer /\ cstate[c] = "confirm"
      BY <1>5, <2>1 DEF GetConfirmation
    <3>2. Head(toClient[c]).flag \in AnswersTo(cstate[c])
      BY <1>3, <2>1, <3>1 DEF Flag
    <3> QED BY <1>3, <3>1, <3>2, ReceiveTurn DEF ClientTurn, Hears
  <2>2. CASE Flag(c) # "confirm"
    BY <1>1, <1>2, <1>5, <2>2 DEF GetConfirmation
  <2> QED BY <2>1, <2>2
<1>6. CASE ProcessMessage(c)
  BY <1>3, <1>6, ReceiveTurn DEF ProcessMessage, ClientTurn, Hears
<1>7. CASE Acknowledged(c)
  BY <1>1, <1>2, <1>7 DEF Acknowledged
<1>8. CASE GetListLength(c)
  <2>1. CASE Flag(c) = "length"
    <3>1. Receive(c, "handle") /\ Send(c, Request(c, 0)) /\ cstate[c] = "length"
      BY <1>8, <2>1 DEF GetListLength
    <3>2. Head(toClient[c]).flag \in AnswersTo(cstate[c])
      BY <1>3, <2>1, <3>1 DEF Flag
    <3> QED BY <1>3, <1>4, <3>1, <3>2, ReceiveTurn DEF ClientTurn, Hears
  <2>2. CASE Flag(c) # "length"
    BY <1>1, <1>2, <1>8, <2>2 DEF GetListLength
  <2> QED BY <2>1, <2>2
<1>9. CASE GetHandle(c)
  <2>1. CASE Flag(c) \in {"handle", "no_handle"}
    <3>1. /\ cstate[c] = "handle"
          /\ \/ Receive(c, "handle") /\ Send(c, Request(c, listing[c].index + 1))
             \/ Receive(c, "idle") /\ UNCHANGED toServer
      BY <1>9, <2>1 DEF GetHandle
    <3>2. Head(toClient[c]).flag \in AnswersTo(cstate[c])
      BY <1>3, <2>1, <3>1 DEF Flag
    <3>3. listing[c].index + 1 \in Nat
      BY DEF TypeOK
    <3>4. CASE Receive(c, "handle") /\ Send(c, Request(c, listing[c].index + 1))
      BY <1>3, <1>4, <3>1, <3>2, <3>3, <3>4, ReceiveTurn DEF ClientTurn, Hears
    <3>5. CASE Receive(c, "idle") /\ UNCHANGED toServer
      BY <1>3, <3>1, <3>2, <3>5, ReceiveTurn DEF ClientTurn, Hears
    <3> QED BY <3>1, <3>4, <3>5
  <2>2. CASE Flag(c) \notin {"handle", "no_handle"}
    BY <1>1, <1>2, <1>9, <2>2 DEF GetHandle
  <2> QED BY <2>1, <2>2
<1>10. CASE Disconnected(c)
  BY <1>2, <1>10 DEF Disconnected, ClientTurn, Ends, streamVars, TypeOK
<1>11. CASE \E h \in Handles \cup {NoHandle} : Start(c, h)
  <2>1. PICK h \in Names : Start(c, h)
    BY <1>11 DEF Names
  <2> DEFINE m == [Plain("initial", 0) EXCEPT !.from = h]
  <2>2. m \in Messages /\ m.flag = "initial"
    BY <2>1, PlainType DEF Flags, Requests, Plain
  <2>3. Send(c, m)
    BY <2>1 DEF Start
  <2> HIDE DEF m
  <2>4. cstate[c] = "off" /\ cstate'[c] = "confirm" /\ conn'[c] = "open" /\ UNCHANGED toClient
    BY <2>1 DEF Start, TypeOK
  <2> QED BY <2>2, <2>3, <2>4 DEF ClientTurn, Asks
<1>12. CASE SendMessage(c) \/ SendToAll(c)
  <2>1. \A h \in Names : Chat(name[c], h) \in Messages /\ Chat(name[c], h).flag = "message"
    BY DEF Chat, Messages, TypeOK, Names
  <2> QED BY <1>12, <2>1, CommandTurn DEF SendMessage, SendToAll, Names
<1>13. CASE RequestListLength(c) \/ Exit(c)
  <2>1. \A flag \in {"list", "exit"} :
          /\ [Plain(flag, 0) EXCEPT !.from = name[c]] \in Messages
          /\ [Plain(flag, 0) EXCEPT !.from = name[c]].flag = flag
    BY PlainType DEF TypeOK, Flags, Requests, Names, Plain
  <2>2. RequestOf("length") = "list" /\ RequestOf("exit") = "exit"
    BY DEF RequestOf
  <2> QED BY <1>13, <2>1, <2>2, CommandTurn DEF RequestListLength, Exit
<1>14. CASE Kill(c)
  <2>1. cstate'[c] = "killed" /\ UNCHANGED name /\ toClient'[c] = <<>>
    BY <1>14 DEF Kill, TypeOK, Close
  <2> QED BY <1>2, <2>1 DEF ClientTurn, Ends
<1> QED
  BY <1>5, <1>6, <1>7, <1>8, <1>9, <1>10, <1>11, <1>12, <1>13, <1>14 DEF ClientStep, Proceed, Use

LEMMA AddressedClient ==
  ASSUME TypeOK, StreamsInv, RightAddressee, NEW c \in Clients, ClientTurn(c), StateChange(c)
  PROVE  RightAddressee'
<1> SUFFICES ASSUME NEW d \in Clients, NEW i \in DOMAIN toClient'[d],
                    toClient'[d][i].flag = "message", toClient'[d][i].to # NoHandle
             PROVE  toClient'[d][i].to = name'[d]
  BY DEF RightAddressee
<1>1. CASE toClient'[d] = toClient[d] /\ name'[d] = name[d]
  BY <1>1 DEF RightAddressee
<1>2. CASE d # c
  <2>1. toClient'[d] = toClient[d] /\ name'[d] = name[d]
    BY <1>2 DEF StateChange
  <2> QED BY <1>1, <2>1
<1>3. CASE d = c
  <2>1. CASE toClient'[c] = <<>>
    BY <1>3, <2>1
  <2>2. CASE Ends(c) \/ Asks(c)
    <3>1. cstate[c] = "off" => toClient[c] = <<>>
      BY DEF StreamsInv, Unused
    <3> QED BY <1>1, <1>3, <2>1, <2>2, <3>1 DEF Ends, Asks
  <2>3. CASE Hears(c)
    <3>1. toClient[c] # <<>> /\ toClient'[c] = Tail(toClient[c]) /\ toClient[c] \in Seq(Messages)
          /\ name' = name
      BY <2>3 DEF Hears, TypeOK
    <3>2. i + 1 \in DOMAIN toClient[c] /\ toClient'[c][i] = toClient[c][i + 1]
      BY <1>3, <3>1, TailFirst
    <3> QED BY <1>3, <3>1, <3>2 DEF RightAddressee
  <2> QED BY <2>2, <2>3 DEF ClientTurn
<1> QED BY <1>2, <1>3

LEMMA StreamsNext ==
  ASSUME TypeOK, OnePlace, StreamsInv, [Next]_vars
  PROVE  StreamsInv'
<1>1. CASE Select /\ UNCHANGED clientVars
  BY <1>1 DEF Select, clientVars, StreamsInv, OwnRequests, Unused
<1>2. CASE ProcessPacket /\ UNCHANGED clientVars
  <2>1. PICK i \in Ready : ProcessChange(i)
    BY <1>2, ProcessPacketChange
  <2>2. AnswersChange(table[i].fd) /\ \A d \in Clients : Shrinks(d)
    BY <1>2, <2>1, ProcessPacketAnswers DEF ProcessChange, StreamsInv
  <2> QED BY <1>2, <2>1, <2>2, StreamsProcess
<1>3. CASE \E c \in Clients : ClientStep(c)
  BY <1>3, StreamsClient, ClientStepChange, ClientStepState
<1>4. CASE UNCHANGED vars
  BY <1>4 DEF vars, streamVars, serverVars, clientVars, StreamsInv, OwnRequests, Unused
<1> QED BY <1>1, <1>2, <1>3, <1>4 DEF Next, ServerStep, Server

LEMMA StreamsBegin == Init => StreamsInv
BY DEF Init, StreamsInit, ClientInit, StreamsInv, OwnRequests, Unused

LEMMA AddressedNext ==
  ASSUME ~Coalescing, TypeOK, OnePlace, StreamsInv, EntryNamed, RightAddressee, [Next]_vars
  PROVE  EntryNamed' /\ RightAddressee'
<1>1. CASE Select /\ UNCHANGED clientVars
  <2>1. EntryNamed'
    BY <1>1, NamedSelect
  <2> QED BY <1>1, <2>1 DEF Select, clientVars, RightAddressee
<1>2. CASE ProcessPacket /\ UNCHANGED clientVars
  <2>1. PICK i \in Ready :
          ProcessChange(i) /\ (TakesOne(table[i].fd) \/ UNCHANGED <<toServer, toClient>>)
    BY <1>2, ProcessSends
  <2> DEFINE c == table[i].fd
  <2>2. c \in Clients /\ c \in Connected(table) /\ TableChange(c)
    BY <2>1 DEF ProcessChange, Ready, Connected, TypeOK
  <2>3. TakesOne(c) \/ UNCHANGED toClient
    BY <2>1
  <2> HIDE DEF c
  <2>4. EntryNamed'
    BY <1>2, <2>2, NamedProcess
  <2>5. RightAddressee'
    BY <1>2, <2>2, <2>3, AddressedProcess DEF clientVars
  <2> QED BY <2>4, <2>5
<1>3. CASE \E c \in Clients : ClientStep(c)
  BY <1>3, NamedClient, AddressedClient, ClientStepChange, ClientStepState, ClientStepTurn
<1>4. CASE UNCHANGED vars
  BY <1>4 DEF vars, streamVars, serverVars, clientVars, EntryNamed, RightAddressee
<1> QED BY <1>1, <1>2, <1>3, <1>4 DEF Next, ServerStep, Server

(* While a recv() returns one message, a client is sent no message for      *)
(* another name than its own, whoever else joins, leaves or takes a name,   *)
(* and however often the table has been enlarged.                           *)
THEOREM AddresseeRight ==
  ASSUME ~Coalescing
  PROVE  Spec => []RightAddressee
<1>1. Init => TypeOK /\ OnePlace /\ StreamsInv /\ EntryNamed /\ RightAddressee
  <2>1. Init => EntryNamed /\ RightAddressee
    BY DEF Init, ServerInit, StreamsInit, EntryNamed, RightAddressee
  <2> QED BY <2>1, TypeInit, OnePlaceInit, StreamsBegin
<1>2. TypeOK /\ OnePlace /\ StreamsInv /\ EntryNamed /\ RightAddressee /\ [Next]_vars
        => (TypeOK /\ OnePlace /\ StreamsInv /\ EntryNamed /\ RightAddressee)'
  BY TypeNext, OnePlaceNext, StreamsNext, AddressedNext
<1> QED BY <1>1, <1>2, PTL DEF Spec

-----------------------------------------------------------------------------
(* A request and its answer take turns.                                     *)

LEMMA RequestsAndAnswers ==
  ASSUME NEW s \in Waiting
  PROVE  /\ RequestOf(s) \in Requests /\ AnswersTo(s) \in SUBSET Answers
         /\ Replies(RequestOf(s)) \subseteq AnswersTo(s)
         /\ "message" \notin Requests \cup Answers /\ "bad_destination" \notin Requests \cup Answers
BY DEF Waiting, RequestOf, AnswersTo, Replies, Requests, Answers

LEMMA OpenNext ==
  ASSUME TypeOK, OnePlace, ConnOpen, ~Coalescing, StreamsInv, [Next]_vars
  PROVE  ConnOpen'
<1> SUFFICES ASSUME server' = "running", NEW d \in Clients, cstate'[d] \in Running,
                    d \in Queued' \cup Connected(table')
             PROVE  conn'[d] = "open"
  BY DEF ConnOpen
<1>0. d # Null
  OBVIOUS
<1>1. CASE Select /\ UNCHANGED clientVars
  <2>1. d \in Queued \cup Connected(table)
    BY <1>0, <1>1, OnePlaceSelect
  <2> QED BY <1>1, <2>1 DEF Select, clientVars, ConnOpen
<1>2. CASE ProcessPacket /\ UNCHANGED clientVars
  <2>1. PICK i \in Ready : ProcessChange(i)
    BY <1>2, ProcessPacketChange
  <2> DEFINE c == table[i].fd
  <2>2. /\ c \in Clients /\ c \in Connected(table) /\ TableChange(c)
        /\ server = "running" /\ UNCHANGED backlog
    BY <2>1 DEF ProcessChange, Ready, Connected, TypeOK
  <2> HIDE DEF c
  <2>3. Connected(table') \subseteq Connected(table) /\ Queued' = Queued
    BY <2>2, TableChangeSockets DEF Queued
  <2>4. conn[d] = "open"
    BY <1>2, <2>2, <2>3 DEF ConnOpen, clientVars
  <2>5. CASE ConnStays(d)
    BY <2>4, <2>5 DEF ConnStays, Gone
  <2>6. CASE d = c /\ table' = CloseConnection(table, c)
    <3>1. c \notin Connected(table')
      BY <1>0, <2>2, <2>6, CloseConnectionSockets DEF TypeOK, OnePlace
    <3>2. c \notin Queued
      BY <2>2 DEF OnePlace
    <3> QED BY <2>3, <2>6, <3>1, <3>2
  <2> QED BY <2>2, <2>5, <2>6 DEF TableChange
<1>3. CASE \E c \in Clients : ClientStep(c)
  <2>1. PICK c \in Clients : ClientChange(c) /\ StateChange(c) /\ ClientTurn(c)
    BY <1>3, ClientStepChange, ClientStepState, ClientStepTurn
  <2>2. server = "running" /\ table' = table
    BY <2>1 DEF ClientChange
  <2>3. CASE d # c
    <3>1. cstate'[d] = cstate[d] /\ conn'[d] = conn[d]
      BY <2>1, <2>3, StreamsClient DEF StateChange
    <3>2. d \in Queued \cup Connected(table)
      <4>1. CASE UNCHANGED backlog
        BY <2>2, <4>1 DEF Queued
      <4>2. CASE backlog' = Append(backlog, c)
        <5>1. \A i \in DOMAIN backlog' : backlog'[i] = c \/ (i \in DOMAIN backlog /\ backlog'[i] = backlog[i])
          <6> DEFINE n == Len(backlog)
          <6>1. /\ n \in Nat /\ DOMAIN backlog = 1..n /\ DOMAIN backlog' = 1..(n + 1)
                /\ backlog'[n + 1] = c /\ \A i \in 1..n : backlog'[i] = backlog[i]
            BY <4>2 DEF TypeOK
          <6> HIDE DEF n
          <6>2. \A i \in 1..(n + 1) : i \in 1..n \/ i = n + 1
            BY <6>1
          <6> QED BY <6>1, <6>2
        <5> QED BY <2>2, <2>3, <5>1 DEF Queued
      <4> QED BY <2>1, <4>1, <4>2 DEF ClientChange, Connects
    <3> QED BY <2>2, <3>1, <3>2 DEF ConnOpen
  <2>4. CASE d = c
    <3>1. CASE cstate[c] = "off"
      <4>1. conn'[c] = "open"
        BY <2>1, <2>4, <3>1 DEF ClientTurn, Ends, Asks, Hears, Waiting
      <4> QED BY <2>4, <4>1
    <3>2. CASE cstate[c] # "off"
      <4>1. UNCHANGED conn /\ cstate[c] \in Running
        BY <2>1, <2>4, <3>2 DEF ClientTurn, Ends, Asks, Hears, Running
      <4>2. UNCHANGED backlog
        BY <2>1, <3>2 DEF ClientChange, Connects
      <4> QED BY <2>2, <2>4, <4>1, <4>2 DEF ConnOpen, Queued
    <3> QED BY <3>1, <3>2
  <2> QED BY <2>3, <2>4
<1>4. CASE UNCHANGED vars
  BY <1>4 DEF vars, streamVars, serverVars, clientVars, ConnOpen, Queued
<1> QED BY <1>1, <1>2, <1>3, <1>4 DEF Next, ServerStep, Server

\* What is added to or taken from the streams of a client, neither a request
\* nor an answer, changes nothing.
LEMMA TurnStays ==
  ASSUME TypeOK, NEW d \in Clients, cstate[d] \in Running, InTurns(d), UNCHANGED cstate,
         \/ toServer'[d] = toServer[d]
         \/ /\ toServer[d] # <<>> /\ toServer'[d] = Tail(toServer[d])
            /\ Head(toServer[d]).flag \notin Requests,
         \/ toClient'[d] = toClient[d]
         \/ \E r \in Messages : r.flag \notin Answers /\ toClient'[d] = Append(toClient[d], r)
  PROVE  InTurns(d)'
<1> DEFINE q == toServer[d]
           a == toClient[d]
           state == cstate[d]
<1>1. q \in Seq(Messages) /\ a \in Seq(Messages)
  BY DEF TypeOK
<1>2. /\ None(q, Requests) => None(toServer'[d], Requests)
      /\ \A A \in SUBSET Requests : One(q, Requests, A) => One(toServer'[d], Requests, A)
  <2>1. CASE toServer'[d] = q
    BY <2>1
  <2>2. CASE q # <<>> /\ toServer'[d] = Tail(q) /\ Head(q).flag \notin Requests
    <3> HIDE DEF q
    <3>1. None(q, Requests) => None(Tail(q), Requests)
      BY <1>1, <2>2, TailCounts
    <3>2. \A A \in SUBSET Requests : One(q, Requests, A) => One(Tail(q), Requests, A)
      BY <1>1, <2>2, TailCounts
    <3> QED BY <2>2, <3>1, <3>2
  <2> QED BY <2>1, <2>2
<1>3. /\ None(a, Answers) => None(toClient'[d], Answers)
      /\ \A A \in SUBSET Answers : One(a, Answers, A) => One(toClient'[d], Answers, A)
  BY <1>1, AppendCounts
<1>4. CASE state \in Waiting
  <2>1. {RequestOf(state)} \in SUBSET Requests /\ AnswersTo(state) \in SUBSET Answers
    BY <1>4, RequestsAndAnswers
  <2> QED BY <1>2, <1>3, <1>4, <2>1 DEF InTurns, Asked, Told
<1>5. CASE state \notin Waiting
  BY <1>2, <1>3, <1>5 DEF InTurns, Quiet
<1> QED BY <1>4, <1>5

LEMMA TurnsServer ==
  ASSUME TypeOK, ConnOpen, Turns, NEW i \in Ready, ProcessChange(i), TakesOne(table[i].fd),
         UNCHANGED clientVars
  PROVE  Turns'
<1> DEFINE c == table[i].fd
<1>1. /\ c \in Clients /\ c \in Connected(table) /\ server = "running" /\ TakesOne(c)
      /\ \A d \in Clients : d # c => toServer'[d] = toServer[d]
  BY DEF ProcessChange, Ready, Connected, TypeOK
<1>2. UNCHANGED cstate
  BY DEF clientVars
<1> HIDE DEF c
<1> SUFFICES ASSUME server' = "running", NEW d \in Clients, cstate[d] \in Running
             PROVE  InTurns(d)'
  BY <1>2 DEF Turns
<1>3. InTurns(d)
  BY <1>1 DEF Turns
<1>4. CASE Head(toServer[c]).flag = "message" /\ PassesOn
  <2>1. PICK r \in Messages : r.flag \in {"message", "bad_destination"} /\ Adds(d, r)
    BY <1>4 DEF PassesOn
  <2>2. r.flag \notin Answers /\ Head(toServer[c]).flag \notin Requests
    BY <1>4, <2>1 DEF Answers, Requests
  <2>3. CASE d = c
    BY <1>1, <1>2, <1>3, <2>1, <2>2, <2>3, TurnStays DEF TakesOne, Adds
  <2>4. CASE d # c
    BY <1>1, <1>2, <1>3, <2>1, <2>2, <2>4, TurnStays DEF Adds
  <2> QED BY <2>3, <2>4
<1>5. ASSUME NEW flag, flag = Head(toServer[c]).flag, flag \in Requests, Replied(c, flag)
      PROVE  InTurns(d)'
  <2>1. CASE d # c
    <3>1. toServer'[d] = toServer[d] /\ toClient'[d] = toClient[d]
      BY <1>1, <1>5, <2>1 DEF Replied
    <3> QED BY <1>2, <1>3, <3>1, TurnStays
  <2>2. CASE d = c
    <3> DEFINE q == toServer[c]
               a == toClient[c]
               state == cstate[c]
    <3>1. q \in Seq(Messages) /\ q # <<>> /\ toServer'[c] = Tail(q) /\ a \in Seq(Messages)
      BY <1>1 DEF TypeOK, TakesOne
    <3>2. ~None(q, Requests)
      BY <1>5, <3>1, TailCounts
    <3>3. state \in Waiting /\ One(q, Requests, {RequestOf(state)}) /\ None(a, Answers)
      BY <1>3, <2>2, <3>2 DEF InTurns, Quiet, Asked, Told
    <3>4. {RequestOf(state)} \in SUBSET Requests /\ Replies(RequestOf(state)) \subseteq AnswersTo(state)
      BY <3>3, RequestsAndAnswers
    <3>5. None(toServer'[c], Requests) /\ flag = RequestOf(state)
      BY <1>5, <3>1, <3>3, <3>4, TailCounts
    <3>6. conn[c] = "open"
      BY <1>1, <2>2 DEF ConnOpen
    <3>7. PICK r \in Messages : r.flag \in Replies(flag) /\ toClient'[c] = Append(a, r)
      BY <1>5, <3>6 DEF Replied
    <3>8. One(toClient'[c], Answers, AnswersTo(state))
      BY <3>1, <3>3, <3>4, <3>5, <3>7, AppendCounts
    <3> QED BY <1>2, <2>2, <3>3, <3>5, <3>8 DEF InTurns, Told
  <2> QED BY <2>1, <2>2
<1> QED BY <1>1, <1>4, <1>5 DEF TakesOne

LEMMA TurnsAsk ==
  ASSUME TypeOK, StreamsInv, NEW c \in Clients, Asks(c), cstate[c] \in Running => InTurns(c)
  PROVE  InTurns(c)'
<1> DEFINE q == toServer[c]
<1>1. PICK m \in Messages :
        /\ Send(c, m)
        /\ \/ cstate[c] = "off" /\ cstate'[c] = "confirm" /\ m.flag = "initial"
           \/ cstate[c] = "idle" /\ cstate'[c] \in {"length", "exit"} /\ m.flag = RequestOf(cstate'[c])
           \/ cstate[c] = "idle" /\ cstate'[c] = "idle" /\ m.flag = "message"
  BY DEF Asks
<1>2. toServer'[c] = Append(q, m) /\ q \in Seq(Messages)
  BY <1>1 DEF Send, TypeOK
<1>3. None(q, Requests) /\ None(toClient[c], Answers)
  <2>1. CASE cstate[c] = "off"
    BY <2>1, EmptyCounts DEF StreamsInv, Unused
  <2>2. CASE cstate[c] = "idle"
    BY <2>2 DEF InTurns, Quiet, Running, Waiting
  <2> QED BY <1>1, <2>1, <2>2
<1>4. None(toClient'[c], Answers)
  BY <1>3 DEF Asks
<1> HIDE DEF q
<1>5. CASE cstate'[c] = "idle" /\ m.flag = "message"
  <2>1. None(toServer'[c], Requests)
    BY <1>2, <1>3, <1>5, AppendCounts DEF Requests
  <2> QED BY <1>4, <1>5, <2>1 DEF InTurns, Quiet, Waiting
<1>6. CASE cstate'[c] \in Waiting /\ m.flag = RequestOf(cstate'[c])
  <2>1. One(toServer'[c], Requests, {RequestOf(cstate'[c])})
    BY <1>2, <1>3, <1>6, AppendCounts
  <2> QED BY <1>4, <1>6, <2>1 DEF InTurns, Asked
<1> QED BY <1>1, <1>5, <1>6 DEF Waiting, RequestOf

LEMMA TurnsHear ==
  ASSUME TypeOK, NEW c \in Clients, Hears(c), InTurns(c)
  PROVE  InTurns(c)'
<1> DEFINE q == toServer[c]
           a == toClient[c]
           state == cstate[c]
<1>1. q \in Seq(Messages) /\ a \in Seq(Messages) /\ a # <<>> /\ toClient'[c] = Tail(a)
  BY DEF TypeOK, Hears
<1>2. CASE state = "idle" /\ cstate'[c] = "idle" /\ UNCHANGED toServer
  <2>1. None(q, Requests) /\ None(a, Answers)
    BY <1>2 DEF InTurns, Quiet, Waiting
  <2>2. None(toClient'[c], Answers)
    <3> HIDE DEF a
    <3>1. {} \in SUBSET Answers
      OBVIOUS
    <3>2. None(Tail(a), Answers)
      BY <1>1, <2>1, <3>1, TailCounts
    <3> QED BY <1>1, <3>2
  <2> QED BY <1>2, <2>1, <2>2 DEF InTurns, Quiet, Waiting
<1>3. ASSUME state \in Waiting, Head(a).flag \in AnswersTo(state),
             \/ cstate'[c] = "idle" /\ UNCHANGED toServer
             \/ cstate'[c] = "handle" /\ \E m \in Messages : Send(c, m) /\ m.flag = "request"
      PROVE  InTurns(c)'
  <2>1. AnswersTo(state) \in SUBSET Answers /\ Head(a).flag \in Answers
    BY <1>3, RequestsAndAnswers
  <2>2. ~None(a, Answers)
    BY <1>1, <2>1, TailCounts
  <2>3. None(q, Requests) /\ One(a, Answers, AnswersTo(state))
    BY <1>3, <2>2 DEF InTurns, Asked, Told
  <2>4. None(toClient'[c], Answers)
    BY <1>1, <2>1, <2>3, TailCounts
  <2>5. CASE cstate'[c] = "idle" /\ UNCHANGED toServer
    BY <2>3, <2>4, <2>5 DEF InTurns, Quiet, Waiting
  <2>6. CASE cstate'[c] = "handle" /\ \E m \in Messages : Send(c, m) /\ m.flag = "request"
    <3>1. PICK m \in Messages : Send(c, m) /\ m.flag = "request"
      BY <2>6
    <3>2. toServer'[c] = Append(q, m)
      BY <3>1 DEF Send, TypeOK
    <3>3. m.flag \in {RequestOf("handle")}
      BY <3>1 DEF RequestOf
    <3> HIDE DEF q
    <3>4. One(toServer'[c], Requests, {RequestOf("handle")})
      BY <1>1, <2>3, <3>2, <3>3, AppendCounts
    <3> QED BY <2>4, <2>6, <3>4 DEF InTurns, Asked, Waiting
  <2> QED BY <1>3, <2>5, <2>6
<1> QED BY <1>2, <1>3 DEF Hears

LEMMA TurnsClient ==
  ASSUME TypeOK, StreamsInv, Turns, NEW c \in Clients, ClientChange(c), StateChange(c), ClientTurn(c)
  PROVE  Turns'
<1>1. server' = server
  BY DEF ClientChange
<1> SUFFICES ASSUME server = "running", NEW d \in Clients, cstate'[d] \in Running
             PROVE  InTurns(d)'
  BY <1>1 DEF Turns
<1>2. cstate[d] \in Running => InTurns(d)
  BY DEF Turns
<1>3. CASE d # c
  <2>1. toServer'[d] = toServer[d] /\ toClient'[d] = toClient[d] /\ cstate'[d] = cstate[d]
    BY <1>3, StreamsClient DEF StateChange
  <2> QED BY <1>2, <2>1 DEF InTurns, Asked, Told, Quiet
<1>4. CASE d = c
  <2>1. CASE Asks(c)
    BY <1>2, <1>4, <2>1, TurnsAsk
  <2>2. CASE Hears(c)
    <3>1. cstate[c] \in Running
      BY <2>2 DEF Hears, Running
    <3> QED BY <1>2, <1>4, <2>2, <3>1, TurnsHear
  <2> QED BY <1>4, <2>1, <2>2 DEF ClientTurn, Ends
<1> QED BY <1>3, <1>4

LEMMA TurnsNext ==
  ASSUME ~Coalescing, TypeOK, OnePlace, StreamsInv, ConnOpen, Turns, [Next]_vars
  PROVE  ConnOpen' /\ Turns'
<1>0. ConnOpen'
  BY OpenNext
<1>1. CASE Select /\ UNCHANGED clientVars
  BY <1>0, <1>1 DEF Select, clientVars, Turns, InTurns, Asked, Told, Quiet
<1>2. CASE ProcessPacket /\ UNCHANGED clientVars
  <2>1. PICK i \in Ready :
          ProcessChange(i) /\ (TakesOne(table[i].fd) \/ UNCHANGED <<toServer, toClient>>)
    BY <1>2, ProcessSends
  <2>2. CASE TakesOne(table[i].fd)
    BY <1>0, <1>2, <2>1, <2>2, TurnsServer
  <2>3. CASE UNCHANGED <<toServer, toClient>>
    <3>1. server = "running" /\ UNCHANGED cstate
      BY <1>2, <2>1 DEF ProcessChange, clientVars
    <3> QED BY <1>0, <2>3, <3>1 DEF Turns, InTurns, Asked, Told, Quiet
  <2> QED BY <2>1, <2>2, <2>3
<1>3. CASE \E c \in Clients : ClientStep(c)
  BY <1>0, <1>3, TurnsClient, ClientStepChange, ClientStepState, ClientStepTurn
<1>4. CASE UNCHANGED vars
  BY <1>0, <1>4 DEF vars, streamVars, serverVars, clientVars, Turns, InTurns, Asked, Told, Quiet
<1> QED BY <1>1, <1>2, <1>3, <1>4 DEF Next, ServerStep, Server

LEMMA CountNone ==
  ASSUME NEW s, NEW F, None(s, F), NEW A \in SUBSET F
  PROVE  In(s, F) = 0 /\ In(s, A) = 0
<1>1. {i \in DOMAIN s : s[i].flag \in F} = {} /\ {i \in DOMAIN s : s[i].flag \in A} = {}
  BY DEF None
<1> QED BY <1>1, FS_EmptySet DEF In

LEMMA CountOne ==
  ASSUME NEW s, NEW F, NEW A \in SUBSET F, One(s, F, A)
  PROVE  In(s, F) = 1 /\ In(s, A) = 1
<1>1. PICK i \in DOMAIN s : s[i].flag \in A /\ \A j \in DOMAIN s : s[j].flag \in F => j = i
  BY DEF One
<1>2. {j \in DOMAIN s : s[j].flag \in F} = {i} /\ {j \in DOMAIN s : s[j].flag \in A} = {i}
  BY <1>1
<1> QED BY <1>2, FS_Singleton DEF In

LEMMA TurnsCounted ==
  ASSUME TypeOK, Turns
  PROVE  OneAnswerPerRequest
<1> SUFFICES ASSUME NEW c \in Clients, cstate[c] \in Running, server = "running"
             PROVE  /\ In(toServer[c], Requests) = In(toServer[c], {RequestOf(cstate[c])})
                    /\ In(toClient[c], Answers) = In(toClient[c], AnswersTo(cstate[c]))
                    /\ In(toServer[c], Requests) + In(toClient[c], Answers)
                         = IF cstate[c] \in Waiting THEN 1 ELSE 0
  BY DEF OneAnswerPerRequest
<1> DEFINE state == cstate[c]
<1>1. InTurns(c)
  BY DEF Turns
<1>2. CASE state \in Waiting
  <2>1. {RequestOf(state)} \in SUBSET Requests /\ AnswersTo(state) \in SUBSET Answers
    BY <1>2, RequestsAndAnswers
  <2>2. CASE Asked(c)
    <3>1. In(toServer[c], Requests) = 1 /\ In(toServer[c], {RequestOf(state)}) = 1
      BY <2>1, <2>2, CountOne DEF Asked
    <3>2. In(toClient[c], Answers) = 0 /\ In(toClient[c], AnswersTo(state)) = 0
      BY <2>1, <2>2, CountNone DEF Asked
    <3> QED BY <1>2, <3>1, <3>2
  <2>3. CASE Told(c)
    <3>1. In(toServer[c], Requests) = 0 /\ In(toServer[c], {RequestOf(state)}) = 0
      BY <2>1, <2>3, CountNone DEF Told
    <3>2. In(toClient[c], Answers) = 1 /\ In(toClient[c], AnswersTo(state)) = 1
      BY <2>1, <2>3, CountOne DEF Told
    <3> QED BY <1>2, <3>1, <3>2
  <2> QED BY <1>1, <1>2, <2>2, <2>3 DEF InTurns
<1>3. CASE state \notin Waiting
  <2>1. state = "idle" /\ Quiet(c)
    BY <1>1, <1>3 DEF Running, InTurns
  <2>2. RequestOf(state) = "none" /\ AnswersTo(state) = {}
    BY <2>1 DEF RequestOf, AnswersTo
  <2>3. None(toServer[c], Requests \cup {"none"})
    <3>1. toServer[c] \in Seq(Messages)
      BY DEF TypeOK
    <3>2. \A m \in Messages : m.flag # "none"
      BY DEF Messages, Requests, Answers
    <3>3. \A i \in DOMAIN toServer[c] : toServer[c][i].flag # "none"
      BY <3>1, <3>2
    <3> QED BY <2>1, <3>3 DEF Quiet, None
  <2>4. In(toServer[c], Requests) = 0 /\ In(toServer[c], {"none"}) = 0
    BY <2>3, CountNone
  <2>5. In(toClient[c], Answers) = 0 /\ In(toClient[c], {}) = 0
    BY <2>1, CountNone DEF Quiet
  <2> QED BY <1>3, <2>2, <2>4, <2>5
<1> QED BY <1>2, <1>3

(* While a recv() returns one message, a client that waits has its request  *)
(* or one answer to it under way, never both and nothing else of the kind,  *)
(* and a client that does not wait has neither: no answer is taken for the  *)
(* answer to something else.                                                *)
THEOREM RequestsAnswered ==
  ASSUME ~Coalescing
  PROVE  Spec => []OneAnswerPerRequest
<1>1. Init => TypeOK /\ OnePlace /\ StreamsInv /\ ConnOpen /\ Turns
  <2>1. Init => ConnOpen /\ Turns
    BY DEF Init, ServerInit, ClientInit, ConnOpen, Turns, Running, Waiting
  <2> QED BY <2>1, TypeInit, OnePlaceInit, StreamsBegin
<1>2. TypeOK /\ OnePlace /\ StreamsInv /\ ConnOpen /\ Turns /\ [Next]_vars
        => (TypeOK /\ OnePlace /\ StreamsInv /\ ConnOpen /\ Turns)'
  BY TypeNext, OnePlaceNext, StreamsNext, TurnsNext
<1>3. TypeOK /\ Turns => OneAnswerPerRequest
  BY TurnsCounted
<1> QED BY <1>1, <1>2, <1>3, PTL DEF Spec

==============================================================================
