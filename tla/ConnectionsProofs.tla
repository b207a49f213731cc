-------------------------- MODULE ConnectionsProofs --------------------------
(***************************************************************************)
(* Theorems about how connections begin, for any number of clients and of   *)
(* attempts, any lists of messages to drop and any network: types, the      *)
(* server's processes, the first answer, the children of a socket, and who  *)
(* is served.                                                               *)
(***************************************************************************)
EXTENDS Connections, FiniteSetTheorems, SequenceTheorems, TLAPS

USE MaxSelectsAssumption, BurstAssumption, MaxDuplicatesAssumption

-----------------------------------------------------------------------------
(* What the library may do to a message.                                    *)

LEMMA LibraryType ==
  ASSUME NEW env, NEW rate \in Rates,
         env.rate \in Rates \cup {Unset},
         env.drop \in {Unset} \cup Seq(Int \cup {Invalid})
  PROVE  Library(env, rate) \in Libraries
<1>1. ASSUME NEW lib \in Libraries, NEW event \in Events
      PROVE  AddRandom(lib, event) \in Libraries
  <2>1. Append(lib.chance, event) \in Seq(Events)
    BY <1>1 DEF Libraries
  <2> QED BY <1>1, <2>1 DEF AddRandom, Libraries
<1>2. ASSUME NEW lib \in Libraries, NEW r \in Rates
      PROVE  SetErrorRate(lib, r) \in Libraries
  BY <1>2 DEF SetErrorRate, Libraries
<1>3. NewLibrary \in Libraries
  BY DEF NewLibrary, Libraries, Rates
<1>4. ASSUME NEW tokens \in Seq(Int \cup {Invalid})
      PROVE  ParsedList(tokens) \subseteq Nat
  <2>1. ASSUME NEW j \in DOMAIN tokens, tokens[j] # Invalid
        PROVE  tokens[j] \in Int
    BY <1>4, <2>1
  <2> QED BY <1>4, <2>1 DEF ParsedList
<1>5. ASSUME NEW lib \in Libraries
      PROVE  LoadEnvErrDrop(lib, env) \in Libraries
  <2>1. CASE env.drop = Unset
    BY <2>1 DEF LoadEnvErrDrop
  <2>2. CASE env.drop # Unset
    <3>1. ParsedList(env.drop) \subseteq Nat
      BY <1>4, <2>2
    <3>2. [lib EXCEPT !.drops = ParsedList(env.drop)] \in Libraries
      BY <3>1 DEF Libraries
    <3> QED BY <1>1, <2>2, <3>2 DEF LoadEnvErrDrop, Events
  <2> QED BY <2>1, <2>2
<1>6. LoadEnv(env) \in Libraries
  <2>1. (IF env.rate = Unset THEN NewLibrary ELSE SetErrorRate(NewLibrary, env.rate))
          \in Libraries
    BY <1>2, <1>3
  <2> QED BY <1>1, <1>5, <2>1 DEF LoadEnv, LoadEnvErrFlip, Events
<1>7. Library(env, rate) \in Libraries
  <2> DEFINE rated == IF env.rate = Unset THEN SetErrorRate(LoadEnv(env), rate)
                      ELSE LoadEnv(env)
             dropping == IF env.drop = Unset THEN AddRandom(rated, "drop") ELSE rated
  <2>1. rated \in Libraries
    BY <1>2, <1>6
  <2>2. dropping \in Libraries
    BY <1>1, <2>1 DEF Events
  <2> QED BY <1>1, <2>2 DEF Library, SendErrInit, Events
<1> QED BY <1>7

LEMMA SentType ==
  ASSUME NEW S, NEW lib, NEW n, NEW ch \in Seq(S), NEW p \in S, Damaged(p) \in S,
         NEW x \in Sent(lib, n, ch, p)
  PROVE  /\ x \in Seq(S)
         /\ \/ x = ch
            \/ x = Append(ch, p)
            \/ x = Append(ch, Damaged(p))
<1>1. \/ x = ch
      \/ x = Append(ch, p)
      \/ x = Append(ch, Damaged(p))
  BY Zenon DEF Sent
<1>2. \A q \in S : Append(ch, q) \in Seq(S)
  BY AppendProperties
<1> QED BY <1>1, <1>2

LEMMA RequestSent ==
  ASSUME NEW s \in Sockets, requests \in Seq(Requests), NEW lib, NEW n,
         NEW x \in Sent(lib, n, requests, [from |-> s, ok |-> TRUE])
  PROVE  \/ x = requests
         \/ \E q \in Requests : q.from = s /\ x = Append(requests, q)
<1> DEFINE p == [from |-> s, ok |-> TRUE]
<1>1. p \in Requests /\ p.from = s
  BY DEF Requests
<1>2. Damaged(p) \in Requests
  BY DEF Requests, Damaged
<1>3. Damaged(p).from = s
  BY DEF Damaged
<1>4. x \in Sent(lib, n, requests, p)
  OBVIOUS
<1> HIDE DEF p
<1>5. x = requests \/ x = Append(requests, p) \/ x = Append(requests, Damaged(p))
  BY <1>1, <1>2, <1>4, SentType
<1> QED BY <1>1, <1>2, <1>3, <1>5

(* The first message of a process is not damaged.                           *)
LEMMA SentFirst ==
  ASSUME NEW lib, NEW ch, NEW p, NEW x \in Sent(lib, 1, ch, p)
  PROVE  x = ch \/ x = Append(ch, p)
<1>1. Outcomes(lib, 1) \subseteq {"drop", "send"}
  BY DEF Outcomes
<1> QED BY <1>1 DEF Sent

(* Only listed messages are lost when nothing is random.                    *)
LEMMA SentListed ==
  ASSUME NEW lib, NEW n, NEW ch, NEW p, NEW x \in Sent(lib, n, ch, p),
         lib.rate = "never", network = "reliable"
  PROVE  x = IF n \in lib.drops THEN ch ELSE Append(ch, p)
<1>1. Outcomes(lib, n) = IF n \in lib.drops THEN {"drop"} ELSE {"send"}
  BY DEF Outcomes
<1> QED BY <1>1 DEF Sent

-----------------------------------------------------------------------------
(* The types.  A client that tries again has used a socket for each attempt *)
(* it counted, and one more while it waits.                                 *)

AttemptsCounted ==
  \A c \in Clients :
    /\ cstate[c] = "FILENAME" => socket[c] = selects[c] /\ selects[c] <= MaxSelects
    /\ cstate[c] = "WAIT" => socket[c] = selects[c] + 1 /\ selects[c] <= MaxSelects

TypeInv == TypeOK /\ AttemptsCounted

\* What a process's step on a child's entry does.
ChildEffect(s, i) ==
  /\ UNCHANGED <<libraries, requests, clientVars, parent, duplicated, peak>>
  /\ answers' \in [Clients -> Seq(Answers)]
  /\ children[s][i].state \in {"FILENAME", "SEND_DATA"}
  /\ \E state \in {"SEND_DATA", "ZOMBIE"}, n \in Nat :
       children' = [children EXCEPT ![s][i] = [state |-> state, msgs |-> n]]

LEMMA ChildSteps ==
  ASSUME TypeOK, NEW s \in Sockets, NEW i \in Slots, Child(s, i)
  PROVE  ChildEffect(s, i)
<1>1. children[s][i] \in Children /\ s[1] \in Clients
  BY DEF TypeOK, Sockets
<1>2. ASSUME NEW flag \in {"FNAME_OK", "FNAME_BAD", "DATA"},
             NEW next \in {"SEND_DATA", "ZOMBIE"}, ChildSends(s, i, flag, next)
      PROVE  /\ UNCHANGED <<libraries, requests, clientVars, parent, duplicated, peak>>
             /\ answers' \in [Clients -> Seq(Answers)]
             /\ \E n \in Nat :
                  children' = [children EXCEPT ![s][i] = [state |-> next, msgs |-> n]]
  <2>1. children[s][i].msgs + 1 \in Nat
    BY <1>1 DEF Children
  <2>2. answers' \in [Clients -> Seq(Answers)]
    <3> DEFINE p == [flag |-> flag, ok |-> TRUE]
    <3>1. p \in Answers /\ Damaged(p) \in Answers
      BY DEF Answers, Damaged
    <3>2. answers[s[1]] \in Seq(Answers)
      BY <1>1 DEF TypeOK
    <3>3. \A x \in Sent(serverLib, children[s][i].msgs + 1, answers[s[1]], p) :
            x \in Seq(Answers)
      BY <3>1, <3>2, SentType
    <3> QED BY <1>2, <3>3 DEF ChildSends, TypeOK
  <2> QED BY <1>2, <2>1, <2>2 DEF ChildSends
<1>3. CASE ChildFilename(s, i)
  BY <1>2, <1>3 DEF ChildFilename, ChildEffect
<1>4. CASE ChildSendData(s, i)
  BY <1>2, <1>4 DEF ChildSendData, ChildEffect
<1>5. CASE ChildEnds(s, i)
  <2> DEFINE n == children[s][i].msgs
  <2>1. children' = [children EXCEPT ![s][i] = [state |-> "ZOMBIE", msgs |-> n]]
    BY <1>1, <1>5 DEF ChildEnds, Children, TypeOK
  <2>2. n \in Nat
    BY <1>1 DEF Children
  <2> QED BY <1>5, <2>1, <2>2 DEF ChildEnds, TypeOK, ChildEffect
<1> QED BY <1>3, <1>4, <1>5 DEF Child

\* A step of a client that waits is a return of filename().
LEMMA ClientSteps ==
  ASSUME NEW c \in Clients, Client(c)
  PROVE  \/ Attempt(c)
         \/ /\ cstate[c] = "WAIT"
            /\ \E next \in {"FILENAME", "DONE", "FILE_OK"} : FilenameReturns(c, next)
BY DEF Client, AnswerArrives, FilenameTimeout

\* What an attempt does to the requests: at most one more, from a new socket.
AttemptEffect(c) ==
  /\ cstate[c] = "FILENAME" /\ UNCHANGED <<libraries, answers, selects, serverVars>>
  /\ socket[c] = selects[c] /\ selects[c] <= MaxSelects
  /\ <<c, socket[c] + 1>> \in Sockets
  /\ \/ /\ cstate' = [cstate EXCEPT ![c] = "WAIT"]
        /\ socket' = [socket EXCEPT ![c] = @ + 1]
        /\ cmsgs' = [cmsgs EXCEPT ![c] = @ + 1]
        /\ \/ requests' = requests
           \/ \E q \in Requests : /\ q.from = <<c, socket[c] + 1>>
                                  /\ requests' = Append(requests, q)
     \/ /\ cstate' = [cstate EXCEPT ![c] = "DONE"] /\ Unreliable
        /\ UNCHANGED <<requests, socket, cmsgs>>

LEMMA AttemptSteps ==
  ASSUME TypeInv, NEW c \in Clients, Attempt(c)
  PROVE  AttemptEffect(c)
<1>1. cstate[c] = "FILENAME" /\ UNCHANGED <<libraries, answers, selects, serverVars>>
  BY DEF Attempt
<1>2. socket[c] = selects[c] /\ selects[c] <= MaxSelects
  BY <1>1 DEF TypeInv, AttemptsCounted
<1>3. <<c, socket[c] + 1>> \in Sockets
  BY <1>2 DEF Sockets, TypeInv, TypeOK
<1>4. CASE /\ cmsgs' = [cmsgs EXCEPT ![c] = @ + 1]
           /\ socket' = [socket EXCEPT ![c] = @ + 1]
           /\ cstate' = [cstate EXCEPT ![c] = "WAIT"]
           /\ requests' \in Sent(clientLib, cmsgs[c] + 1, requests,
                                 [from |-> <<c, socket[c] + 1>>, ok |-> TRUE])
  <2> DEFINE s == <<c, socket[c] + 1>>
  <2>1. requests \in Seq(Requests)
    BY DEF TypeInv, TypeOK
  <2>2. s \in Sockets
    BY <1>3
  <2>3. requests' \in Sent(clientLib, cmsgs[c] + 1, requests, [from |-> s, ok |-> TRUE])
    BY <1>4
  <2> HIDE DEF s
  <2>4. \/ requests' = requests
        \/ \E q \in Requests : q.from = s /\ requests' = Append(requests, q)
    BY <2>1, <2>2, <2>3, RequestSent
  <2> QED BY <1>1, <1>2, <1>3, <1>4, <2>4 DEF s, AttemptEffect
<1>5. CASE /\ Unreliable /\ cstate' = [cstate EXCEPT ![c] = "DONE"]
           /\ UNCHANGED <<requests, socket, cmsgs>>
  BY <1>1, <1>2, <1>3, <1>5 DEF AttemptEffect
<1> QED BY <1>4, <1>5 DEF Attempt

LEMMA RunningFinite ==
  ASSUME NEW kids
  PROVE  /\ IsFiniteSet(Processes(kids)) /\ IsFiniteSet(Running(kids))
         /\ Cardinality(Processes(kids)) \in Nat /\ Cardinality(Running(kids)) \in Nat
<1>1. IsFiniteSet(Sockets)
  <2>1. IsFiniteSet(1..(MaxSelects + 1))
    BY FS_Interval
  <2> QED BY <2>1, ClientsAssumption, FS_Product, Zenon DEF Sockets
<1>2. IsFiniteSet(Sockets \X Slots)
  <2>1. IsFiniteSet(Slots)
    <3>1. \A n \in Nat : IsFiniteSet(1..n)
      BY FS_Interval
    <3> QED BY <3>1 DEF Slots
  <2> QED BY <1>1, <2>1, FS_Product, Zenon
<1> QED BY <1>2, FS_Subset, FS_CardinalityType DEF Processes, Running

LEMMA MaxOfTwo ==
  ASSUME NEW a \in Nat, NEW b \in Nat
  PROVE  Max({a, b}) \in Nat /\ Max({a, b}) >= a /\ Max({a, b}) >= b
BY DEF Max

LEMMA ReceiveTypes ==
  ASSUME TypeOK, Receive
  PROVE  /\ requests' \in Seq(Requests) /\ duplicated' \subseteq Sockets
         /\ Head(requests) \in Requests
         /\ children' \in [Sockets -> [Slots -> Children]]
         /\ peak' \in Nat
<1>1. requests \in Seq(Requests) /\ requests # <<>>
  BY DEF TypeOK, Receive
<1>2. Head(requests) \in Requests /\ Tail(requests) \in Seq(Requests)
  BY <1>1, HeadTailProperties
<1>3. requests' \in Seq(Requests) /\ duplicated' \subseteq Sockets
  BY <1>1, <1>2 DEF Receive, TypeOK, Requests
<1>4. NoChild \in Children /\ [state |-> "FILENAME", msgs |-> 0] \in Children
  BY DEF NoChild, Children, ChildStates
<1>5. ASSUME NEW kids \in [Sockets -> [Slots -> Children]], NEW from \in Sockets
      PROVE  Fork(kids, from) \in [Sockets -> [Slots -> Children]]
  BY <1>4, <1>5 DEF Fork
<1>6. children' \in [Sockets -> [Slots -> Children]]
  BY <1>2, <1>5 DEF Receive, TypeOK, Requests
<1>7. peak' \in Nat
  BY RunningFinite, MaxOfTwo DEF Receive, TypeOK
<1> QED BY <1>2, <1>3, <1>6, <1>7

\* waitpid() only frees the entry of a child that ended.
ReapEffect ==
  /\ UNCHANGED <<libraries, requests, answers, clientVars, duplicated, peak>>
  /\ parent' \in {"select", "reap"}
  /\ children' \in [Sockets -> [Slots -> Children]]
  /\ \A s \in Sockets, i \in Slots :
       \/ children'[s][i] = children[s][i]
       \/ children[s][i].state = "ZOMBIE" /\ children'[s][i] = NoChild

LEMMA ReapSteps ==
  ASSUME TypeOK, Reap \/ NoneToReap
  PROVE  ReapEffect
<1>1. CASE Reap
  <2>1. PICK x \in Processes(children) \ Running(children) :
          children' = [children EXCEPT ![x[1]][x[2]] = NoChild]
    BY <1>1 DEF Reap
  <2>2. x[1] \in Sockets /\ x[2] \in Slots /\ children[x[1]][x[2]].state = "ZOMBIE"
    BY <2>1 DEF Processes, Running
  <2>3. NoChild \in Children
    BY DEF NoChild, Children, ChildStates
  <2>4. /\ children' \in [Sockets -> [Slots -> Children]]
        /\ \A s \in Sockets, i \in Slots :
             \/ children'[s][i] = children[s][i]
             \/ children[s][i].state = "ZOMBIE" /\ children'[s][i] = NoChild
    BY <2>1, <2>2, <2>3 DEF TypeOK
  <2> QED BY <1>1, <2>4 DEF Reap, ReapEffect
<1>2. CASE NoneToReap
  BY <1>2 DEF NoneToReap, ReapEffect, TypeOK
<1> QED BY <1>1, <1>2

LEMMA ServerSteps ==
  ASSUME Server
  PROVE  Receive \/ (Reap \/ NoneToReap)
BY DEF Server

LEMMA InitTypeInv == Init => TypeInv
<1> SUFFICES ASSUME Init PROVE TypeInv
  OBVIOUS
<1>1. clientLib \in Libraries /\ serverLib \in Libraries
        /\ network \in {"reliable", "unreliable"}
  <2>1. PICK s \in Scenarios : /\ network = s.network
                               /\ clientLib = Library(s.client, s.rate)
                               /\ serverLib = Library(s.server, s.rate)
    BY DEF Init
  <2> QED BY <2>1, LibraryType, ScenariosAssumption
<1>2. cstate \in [Clients -> ClientStates]
  BY DEF Init, ClientStates
<1>3. requests \in Seq(Requests) /\ answers \in [Clients -> Seq(Answers)]
  BY DEF Init
<1>4. children \in [Sockets -> [Slots -> Children]]
  BY DEF Init, NoChild, Children, ChildStates
<1>5. AttemptsCounted
  BY DEF Init, AttemptsCounted
<1> QED BY <1>1, <1>2, <1>3, <1>4, <1>5 DEF Init, TypeInv, TypeOK

LEMMA NextTypeInv == TypeInv /\ [Next]_vars => TypeInv'
<1> SUFFICES ASSUME TypeInv, [Next]_vars PROVE TypeInv'
  OBVIOUS
<1>0. TypeOK /\ AttemptsCounted
  BY DEF TypeInv
<1>1. ASSUME NEW c \in Clients, Attempt(c) PROVE TypeInv'
  <2>1. AttemptEffect(c)
    BY <1>1, AttemptSteps
  <2>2. CASE cstate' = [cstate EXCEPT ![c] = "WAIT"]
    <3>1. requests' = requests \/ \E q \in Requests : requests' = Append(requests, q)
      BY <1>0, <2>1, <2>2 DEF AttemptEffect, TypeOK
    <3>2. requests' \in Seq(Requests)
      <4>1. requests \in Seq(Requests)
        BY <1>0 DEF TypeOK
      <4>2. \A q \in Requests : Append(requests, q) \in Seq(Requests)
        BY <4>1, AppendProperties
      <4> QED BY <3>1, <4>1, <4>2
    <3>3. socket' = [socket EXCEPT ![c] = @ + 1] /\ cmsgs' = [cmsgs EXCEPT ![c] = @ + 1]
      BY <1>0, <2>1, <2>2 DEF AttemptEffect, TypeOK
    <3>4. socket[c] = selects[c] /\ selects[c] <= MaxSelects /\ selects' = selects
      BY <2>1 DEF AttemptEffect
    <3>5. AttemptsCounted'
      BY <1>0, <2>2, <3>3, <3>4 DEF AttemptsCounted, TypeOK
    <3>6. /\ cstate' \in [Clients -> ClientStates] /\ cmsgs' \in [Clients -> Nat]
          /\ socket' \in [Clients -> 0..(MaxSelects + 1)]
      BY <1>0, <2>2, <3>3, <3>4 DEF TypeOK, ClientStates
    <3> QED BY <1>0, <2>1, <3>2, <3>5, <3>6
            DEF AttemptEffect, TypeInv, TypeOK, libraries, serverVars
  <2>3. CASE cstate' = [cstate EXCEPT ![c] = "DONE"] /\ UNCHANGED <<requests, socket, cmsgs>>
    <3>1. selects' = selects
      BY <2>1 DEF AttemptEffect
    <3>2. AttemptsCounted'
      BY <1>0, <2>3, <3>1 DEF AttemptsCounted, TypeOK
    <3>3. cstate' \in [Clients -> ClientStates]
      BY <1>0, <2>3 DEF TypeOK, ClientStates
    <3> QED BY <1>0, <2>1, <2>3, <3>2, <3>3
            DEF AttemptEffect, TypeInv, TypeOK, libraries, serverVars
  <2> QED BY <2>1, <2>2, <2>3 DEF AttemptEffect
<1>2. ASSUME NEW c \in Clients, cstate[c] = "WAIT",
             NEW next \in {"FILENAME", "DONE", "FILE_OK"}, FilenameReturns(c, next)
      PROVE  TypeInv'
  <2>1. socket[c] = selects[c] + 1 /\ selects[c] <= MaxSelects
    BY <1>0, <1>2 DEF AttemptsCounted
  <2>2. AttemptsCounted'
    BY <1>0, <1>2, <2>1 DEF FilenameReturns, AttemptsCounted, TypeOK
  <2>3. answers' \in [Clients -> Seq(Answers)]
    BY <1>0, <1>2 DEF FilenameReturns, TypeOK
  <2> QED BY <1>0, <1>2, <2>1, <2>2, <2>3
          DEF TypeInv, FilenameReturns, TypeOK, ClientStates, libraries, serverVars
<1>3. CASE Receive
  BY <1>0, <1>3, ReceiveTypes
     DEF TypeInv, Receive, TypeOK, AttemptsCounted, libraries, clientVars
<1>4. CASE ForkFails
  BY <1>0, <1>4 DEF TypeInv, ForkFails, TypeOK, AttemptsCounted, libraries, clientVars
<1>5. ASSUME NEW s \in Sockets, NEW i \in Slots, Child(s, i) PROVE TypeInv'
  <2>1. children' \in [Sockets -> [Slots -> Children]]
    <3>1. PICK state \in {"SEND_DATA", "ZOMBIE"}, n \in Nat :
            children' = [children EXCEPT ![s][i] = [state |-> state, msgs |-> n]]
      BY <1>0, <1>5, ChildSteps DEF ChildEffect
    <3>2. [state |-> state, msgs |-> n] \in Children
      BY <1>0 DEF Children, ChildStates
    <3> QED BY <1>0, <3>1, <3>2 DEF TypeOK
  <2>2. ChildEffect(s, i)
    BY <1>0, <1>5, ChildSteps
  <2> QED BY <1>0, <2>1, <2>2
          DEF ChildEffect, TypeInv, TypeOK, AttemptsCounted, libraries, clientVars
<1>6. CASE UNCHANGED vars
  BY <1>0, <1>6 DEF TypeInv, vars, TypeOK, AttemptsCounted, libraries, clientVars, serverVars
<1>7. CASE Reap \/ NoneToReap
  BY <1>0, <1>7, ReapSteps
     DEF ReapEffect, TypeInv, TypeOK, AttemptsCounted, libraries, clientVars
<1> QED BY <1>0, <1>1, <1>2, <1>3, <1>4, <1>5, <1>6, <1>7, ClientSteps, ServerSteps
        DEF Next, AnyChild

(* Every variable keeps its type.                                           *)
THEOREM TypeCorrect == Spec => []TypeOK
<1>1. TypeInv => TypeOK
  BY DEF TypeInv
<1> QED BY <1>1, InitTypeInv, NextTypeInv, PTL DEF Spec

-----------------------------------------------------------------------------
(* The server's processes.                                                  *)

\* At the top of the loop no more hold an entry than ran at once; between fork()
\* and the last waitpid() the child just forked may be one more.
ProcessesInv == ProcessesBounded /\ Cardinality(Running(children)) <= peak

LEMMA InitProcesses == Init => ProcessesInv
<1> SUFFICES ASSUME Init PROVE ProcessesInv
  OBVIOUS
<1>1. Processes(children) = {} /\ Running(children) = {}
  BY DEF Init, Processes, Running, NoChild
<1>2. Cardinality(Processes(children)) = 0 /\ Cardinality(Running(children)) = 0
  BY <1>1, FS_EmptySet
<1>3. peak = 0 /\ parent = "select"
  BY DEF Init
<1> QED BY <1>2, <1>3 DEF ProcessesInv, ProcessesBounded

\* A set of processes that is part of another is not larger.
LEMMA FewerProcesses ==
  ASSUME NEW k1, NEW k2
  PROVE  /\ Processes(k1) \subseteq Processes(k2) =>
              Cardinality(Processes(k1)) <= Cardinality(Processes(k2))
         /\ Running(k1) \subseteq Running(k2) =>
              Cardinality(Running(k1)) <= Cardinality(Running(k2))
BY RunningFinite, FS_Subset

\* A step that forks no child, nor leaves the loop over waitpid().
LEMMA ProcessesKept ==
  ASSUME TypeOK, ProcessesInv, peak' = peak,
         parent' = parent \/ (parent' = "exited" /\ parent = "select"),
         Processes(children') \subseteq Processes(children),
         Running(children') \subseteq Running(children)
  PROVE  ProcessesInv'
<1>1. /\ Cardinality(Processes(children')) <= Cardinality(Processes(children))
      /\ Cardinality(Running(children')) <= Cardinality(Running(children))
  BY FewerProcesses
<1>2. /\ Cardinality(Processes(children)) \in Nat /\ Cardinality(Running(children)) \in Nat
      /\ Cardinality(Processes(children')) \in Nat /\ Cardinality(Running(children')) \in Nat
  BY RunningFinite
<1>3. Cardinality(Processes(children')) <= peak + (IF parent = "reap" THEN 1 ELSE 0)
  BY <1>1, <1>2 DEF ProcessesInv, ProcessesBounded, TypeOK
<1>4. Cardinality(Running(children')) <= peak
  BY <1>1, <1>2 DEF ProcessesInv, TypeOK
<1> QED BY <1>3, <1>4 DEF ProcessesInv, ProcessesBounded

LEMMA ReceiveProcesses ==
  ASSUME TypeOK, ProcessesInv, Receive
  PROVE  ProcessesInv'
<1> DEFINE from == Head(requests).from
           new == <<from, FreeSlot(children, from)>>
<1>1. /\ parent = "select" /\ parent' = "reap"
      /\ peak' = Max({peak, Cardinality(Running(children'))})
  BY DEF Receive
<1>2. /\ IsFiniteSet(Processes(children)) /\ Cardinality(Processes(children)) \in Nat
      /\ Cardinality(Processes(children')) \in Nat /\ Cardinality(Running(children')) \in Nat
      /\ peak \in Nat
  BY RunningFinite DEF TypeOK
<1>3. peak' \in Nat /\ peak' >= peak /\ peak' >= Cardinality(Running(children'))
  BY <1>1, <1>2, MaxOfTwo
<1>4. Cardinality(Processes(children)) <= peak
  BY <1>1, <1>2 DEF ProcessesInv, ProcessesBounded
<1>5. from \in Sockets
  BY ReceiveTypes DEF Requests
<1>6. Processes(children') \subseteq Processes(children) \cup {new}
  <2>1. ASSUME NEW x \in Processes(children'), x # new PROVE x \in Processes(children)
    <3>1. x \in Sockets \X Slots /\ children'[x[1]][x[2]].state # "NONE"
      BY <2>1 DEF Processes
    <3>2. children'[x[1]][x[2]] = children[x[1]][x[2]]
      <4>1. children' = children \/ children' = Fork(children, from)
        BY DEF Receive
      <4>2. x[1] # from \/ x[2] # FreeSlot(children, from)
        BY <2>1, <3>1
      <4> HIDE DEF from
      <4> QED BY <1>5, <3>1, <4>1, <4>2 DEF Fork, TypeOK
    <3> QED BY <3>1, <3>2 DEF Processes
  <2> QED BY <2>1
<1> HIDE DEF new
<1>7. Cardinality(Processes(children')) <= Cardinality(Processes(children)) + 1
  <2>1. /\ IsFiniteSet(Processes(children) \cup {new})
        /\ Cardinality(Processes(children) \cup {new}) \in Nat
        /\ Cardinality(Processes(children) \cup {new}) <= Cardinality(Processes(children)) + 1
    <3> DEFINE P == Processes(children)
    <3>1. IsFiniteSet(P) /\ Cardinality(P) \in Nat
      BY <1>2
    <3> HIDE DEF P
    <3>2. /\ IsFiniteSet(P \cup {new})
          /\ \/ Cardinality(P \cup {new}) = Cardinality(P)
             \/ Cardinality(P \cup {new}) = Cardinality(P) + 1
      BY <3>1, FS_AddElement, Zenon
    <3>3. Cardinality(P \cup {new}) \in Nat /\ Cardinality(P \cup {new}) <= Cardinality(P) + 1
      BY <3>1, <3>2
    <3> QED BY <3>2, <3>3 DEF P
  <2>2. Cardinality(Processes(children')) <= Cardinality(Processes(children) \cup {new})
    BY <1>6, <2>1, FS_Subset
  <2> QED BY <1>2, <2>1, <2>2
<1>8. Cardinality(Processes(children')) <= peak' + 1
  BY <1>2, <1>3, <1>4, <1>7
<1> QED BY <1>1, <1>3, <1>8 DEF ProcessesInv, ProcessesBounded

LEMMA NextProcesses ==
  ASSUME TypeOK, ProcessesInv, [Next]_vars
  PROVE  ProcessesInv'
<1>1. CASE Receive
  BY <1>1, ReceiveProcesses
<1>2. ASSUME NEW s \in Sockets, NEW i \in Slots, Child(s, i) PROVE ProcessesInv'
  <2>1. ChildEffect(s, i)
    BY <1>2, ChildSteps
  <2>2. Processes(children') = Processes(children)
    BY <2>1 DEF ChildEffect, Processes, TypeOK
  <2>3. Running(children') \subseteq Running(children)
    <3>1. \A u \in Sockets, k \in Slots :
            children'[u][k] = children[u][k] \/ children[u][k].state # "ZOMBIE"
      BY <2>1 DEF ChildEffect, TypeOK
    <3>2. ASSUME NEW x \in Running(children') PROVE x \in Running(children)
      <4>1. x \in Processes(children) /\ x[1] \in Sockets /\ x[2] \in Slots
        BY <2>2, <3>2 DEF Running, Processes
      <4>2. children'[x[1]][x[2]].state # "ZOMBIE"
        BY <3>2 DEF Running
      <4> QED BY <3>1, <4>1, <4>2 DEF Running
    <3> QED BY <3>2
  <2>4. peak' = peak /\ parent' = parent
    BY <2>1 DEF ChildEffect
  <2>5. Processes(children') \subseteq Processes(children)
    BY <2>2
  <2> QED BY <2>3, <2>4, <2>5, ProcessesKept
<1>3. ASSUME NEW c \in Clients, Client(c) PROVE ProcessesInv'
  BY <1>3 DEF Client, Attempt, AnswerArrives, FilenameTimeout, FilenameReturns, serverVars,
              ProcessesInv, ProcessesBounded
<1>4. CASE ForkFails
  BY <1>4, ProcessesKept DEF ForkFails
<1>5. CASE UNCHANGED vars
  BY <1>5 DEF vars, serverVars, ProcessesInv, ProcessesBounded
<1>6. CASE Reap
  <2>1. ReapEffect
    BY <1>6, ReapSteps
  <2>2. \A x \in Processes(children') :
          x \in Processes(children) /\ children'[x[1]][x[2]] = children[x[1]][x[2]]
    BY <2>1 DEF ReapEffect, Processes, NoChild
  <2>3. Running(children') \subseteq Running(children)
    BY <2>2 DEF Running
  <2>4. peak' = peak /\ parent' = parent
    BY <1>6 DEF Reap
  <2>5. Processes(children') \subseteq Processes(children)
    BY <2>2
  <2> QED BY <2>3, <2>4, <2>5, ProcessesKept
<1>7. CASE NoneToReap
  <2>1. /\ Processes(children) = Running(children) /\ UNCHANGED <<children, peak>>
        /\ parent' = "select"
    BY <1>7 DEF NoneToReap
  <2>2. Cardinality(Processes(children')) <= peak' /\ Cardinality(Running(children')) <= peak'
    BY <2>1 DEF ProcessesInv
  <2>3. peak' + 0 = peak'
    BY <2>1 DEF TypeOK
  <2> QED BY <2>1, <2>2, <2>3 DEF ProcessesInv, ProcessesBounded
<1> QED BY <1>1, <1>2, <1>3, <1>4, <1>5, <1>6, <1>7 DEF Next, Server, AnyChild

(* Though the server reaps only when it received a packet, its children     *)
(* hold no more process entries than ran at once at some time, and one more *)
(* only between a fork() and the last waitpid() of the same turn.           *)
THEOREM ProcessesCorrect == Spec => []ProcessesBounded
<1>1. TypeInv /\ ProcessesInv /\ [Next]_vars => (TypeInv /\ ProcessesInv)'
  BY NextTypeInv, NextProcesses DEF TypeInv
<1>2. ProcessesInv => ProcessesBounded
  BY DEF ProcessesInv
<1> QED BY <1>1, <1>2, InitTypeInv, InitProcesses, PTL DEF Spec

-----------------------------------------------------------------------------
(* The first answer.                                                        *)

\* A child that has not answered yet has sent nothing.
AnswerIsFirst ==
  \A s \in Sockets, i \in Slots :
    children[s][i].state = "FILENAME" => children[s][i].msgs = 0

AnswerInv == AnswerIsFirst /\ FirstAnswerIntact

LEMMA InitAnswer == Init => AnswerInv
BY DEF Init, NoChild, AnswerInv, AnswerIsFirst, FirstAnswerIntact

\* The children after the server received a packet.
LEMMA ReceiveChildren ==
  ASSUME TypeOK, Receive, NEW s \in Sockets, NEW i \in Slots
  PROVE  \/ children'[s][i] = children[s][i]
         \/ /\ s = Head(requests).from /\ i = FreeSlot(children, s)
            /\ children'[s][i] = [state |-> "FILENAME", msgs |-> 0]
<1>1. Head(requests).from \in Sockets
  BY ReceiveTypes DEF Requests
<1>2. children' = children \/ children' = Fork(children, Head(requests).from)
  BY DEF Receive
<1> QED BY <1>1, <1>2 DEF Fork, TypeOK

LEMMA NextAnswer ==
  ASSUME TypeOK, AnswerInv, [Next]_vars
  PROVE  AnswerInv'
<1>0. AnswerIsFirst /\ FirstAnswerIntact
  BY DEF AnswerInv
<1>1. ASSUME NEW c \in Clients, Client(c) PROVE AnswerInv'
  <2>1. CASE Attempt(c)
    BY <1>0, <2>1 DEF Attempt, serverVars, AnswerInv, AnswerIsFirst, FirstAnswerIntact
  <2>2. ASSUME NEW next, FilenameReturns(c, next) PROVE AnswerInv'
    <3>1. children' = children /\ answers' = [answers EXCEPT ![c] = <<>>]
      BY <2>2 DEF FilenameReturns, serverVars
    <3>2. \A d \in Clients : answers'[d] = answers[d] \/ answers'[d] = <<>>
      BY <3>1 DEF TypeOK
    <3> QED BY <1>0, <3>1, <3>2 DEF AnswerInv, AnswerIsFirst, FirstAnswerIntact
  <2> QED BY <1>1, <2>1, <2>2 DEF Client, AnswerArrives, FilenameTimeout
<1>2. CASE Receive
  <2>1. AnswerIsFirst'
    BY <1>0, <1>2, ReceiveChildren DEF AnswerIsFirst, NoChild
  <2> QED BY <1>0, <1>2, <2>1 DEF Receive, AnswerInv, FirstAnswerIntact
<1>3. CASE ForkFails
  BY <1>0, <1>3 DEF ForkFails, AnswerInv, AnswerIsFirst, FirstAnswerIntact
<1>4. ASSUME NEW s \in Sockets, NEW i \in Slots, Child(s, i) PROVE AnswerInv'
  <2>1. ChildEffect(s, i)
    BY <1>4, ChildSteps
  <2>2. AnswerIsFirst'
    BY <1>0, <2>1 DEF ChildEffect, AnswerIsFirst, TypeOK
  <2>3. s[1] \in Clients /\ answers[s[1]] \in Seq(Answers)
    BY DEF Sockets, TypeOK
  <2>4. ASSUME NEW flag, NEW next, ChildSends(s, i, flag, next),
               flag = "DATA" \/ children[s][i].msgs = 0
        PROVE  FirstAnswerIntact'
    <3> DEFINE p == [flag |-> flag, ok |-> TRUE]
               n == children[s][i].msgs + 1
    <3>1. CASE answers' = answers
      BY <1>0, <3>1 DEF FirstAnswerIntact
    <3>2. CASE \E ch \in Sent(serverLib, n, answers[s[1]], p) :
                 answers' = [answers EXCEPT ![s[1]] = ch]
      <4>1. PICK ch \in Sent(serverLib, n, answers[s[1]], p) :
              answers' = [answers EXCEPT ![s[1]] = ch]
        BY <3>2
      <4>2. \/ ch = answers[s[1]]
            \/ ch = Append(answers[s[1]], p)
            \/ ch = Append(answers[s[1]], Damaged(p)) /\ flag = "DATA"
        <5>1. CASE flag = "DATA"
          BY <4>1, <5>1 DEF Sent
        <5>2. CASE children[s][i].msgs = 0
          <6>1. n = 1
            BY <5>2
          <6> QED BY <4>1, <6>1, SentFirst
        <5> QED BY <2>4, <5>1, <5>2
      <4>3. p.ok = TRUE /\ (flag = "DATA" => Damaged(p).flag = "DATA")
        BY DEF Damaged
      <4> HIDE DEF p
      <4>4. \A j \in DOMAIN ch : ch[j].flag \in {"FNAME_OK", "FNAME_BAD"} => ch[j].ok
        <5>1. \A j \in DOMAIN answers[s[1]] :
                answers[s[1]][j].flag \in {"FNAME_OK", "FNAME_BAD"} => answers[s[1]][j].ok
          BY <1>0, <2>3 DEF FirstAnswerIntact
        <5>2. ASSUME NEW q, q.flag \in {"FNAME_OK", "FNAME_BAD"} => q.ok,
                     ch = Append(answers[s[1]], q), NEW j \in DOMAIN ch,
                     ch[j].flag \in {"FNAME_OK", "FNAME_BAD"}
              PROVE  ch[j].ok
          <6>1. ch[j] = q \/ (j \in DOMAIN answers[s[1]] /\ ch[j] = answers[s[1]][j])
            BY <2>3, <5>2
          <6> QED BY <5>1, <5>2, <6>1
        <5> QED BY <4>2, <4>3, <5>1, <5>2
      <4> QED BY <1>0, <2>3, <4>1, <4>4 DEF FirstAnswerIntact, TypeOK
    <3> QED BY <2>4, <3>1, <3>2 DEF ChildSends
  <2>5. CASE ChildFilename(s, i)
    BY <1>0, <2>2, <2>4, <2>5 DEF ChildFilename, AnswerInv, AnswerIsFirst
  <2>6. CASE ChildSendData(s, i)
    BY <2>2, <2>4, <2>6 DEF ChildSendData, AnswerInv
  <2>7. CASE ChildEnds(s, i)
    BY <1>0, <2>2, <2>7 DEF ChildEnds, AnswerInv, FirstAnswerIntact
  <2> QED BY <1>4, <2>5, <2>6, <2>7 DEF Child
<1>5. CASE UNCHANGED vars
  BY <1>0, <1>5 DEF vars, serverVars, AnswerInv, AnswerIsFirst, FirstAnswerIntact
<1>6. CASE Reap \/ NoneToReap
  BY <1>0, <1>6, ReapSteps DEF ReapEffect, NoChild, AnswerInv, AnswerIsFirst, FirstAnswerIntact
<1> QED BY <1>1, <1>2, <1>3, <1>4, <1>5, <1>6, ServerSteps DEF Next, AnyChild

(* Whatever the random events, an answer to FNAME that arrives is intact.   *)
THEOREM FirstAnswerCorrect == Spec => []FirstAnswerIntact
<1>1. TypeInv /\ AnswerInv /\ [Next]_vars => (TypeInv /\ AnswerInv)'
  BY NextTypeInv, NextAnswer DEF TypeInv
<1>2. AnswerInv => FirstAnswerIntact
  BY DEF AnswerInv
<1> QED BY <1>1, <1>2, InitTypeInv, InitAnswer, PTL DEF Spec

-----------------------------------------------------------------------------
(* The children of a socket.  A socket sends one FNAME: while it is under   *)
(* way the socket has no child, and no socket to come has either.           *)

Quiet(s) == \A i \in Slots : children[s][i].state = "NONE"

RequestsDiffer ==
  \A j, k \in DOMAIN requests : requests[j].from = requests[k].from => j = k

RequestsUnserved ==
  \A j \in DOMAIN requests :
    requests[j].from \notin duplicated => Quiet(requests[j].from)

OneEntry ==
  \A s \in Sockets : \A i, k \in Slots :
    children[s][i].state # "NONE" /\ children[s][k].state # "NONE" /\ i # k => s \in duplicated

SocketsToCome ==
  \A s \in Sockets :
    s[2] > socket[s[1]] => Quiet(s) /\ \A j \in DOMAIN requests : requests[j].from # s

SocketsInv == RequestsDiffer /\ RequestsUnserved /\ OneEntry /\ SocketsToCome

LEMMA RequestFrom ==
  ASSUME requests \in Seq(Requests), NEW j \in DOMAIN requests
  PROVE  requests[j].from \in Sockets
<1>1. requests[j] \in Requests
  OBVIOUS
<1> QED BY <1>1 DEF Requests

LEMMA InitSockets == Init => SocketsInv
BY DEF Init, NoChild, Quiet, SocketsInv, RequestsDiffer, RequestsUnserved, OneEntry,
       SocketsToCome

LEMMA AttemptSockets ==
  ASSUME TypeOK, SocketsInv, NEW c \in Clients, AttemptEffect(c)
  PROVE  SocketsInv'
<1> DEFINE new == <<c, socket[c] + 1>>
<1>1. UNCHANGED <<children, duplicated>>
  BY DEF AttemptEffect, serverVars
<1>2. new \in Sockets /\ new[1] = c /\ new[2] = socket[c] + 1
  BY DEF AttemptEffect
<1>3. requests \in Seq(Requests) /\ socket[c] \in Nat
  BY DEF TypeOK
<1>4. RequestsDiffer /\ RequestsUnserved /\ OneEntry /\ SocketsToCome
  BY DEF SocketsInv
<1>5. new[2] > socket[new[1]]
  BY <1>2, <1>3
<1>6. Quiet(new) /\ \A j \in DOMAIN requests : requests[j].from # new
  BY <1>2, <1>4, <1>5 DEF SocketsToCome
<1> HIDE DEF new
<1>7. \A s \in Sockets : Quiet(s)' <=> Quiet(s)
  BY <1>1 DEF Quiet
<1>8. CASE /\ requests' = requests
           /\ \A d \in Clients : socket'[d] \in Nat /\ socket'[d] >= socket[d]
  <2>1. ASSUME NEW s \in Sockets, s[2] > socket'[s[1]]
        PROVE  s[2] > socket[s[1]]
    <3>1. s[1] \in Clients /\ s[2] \in Nat
      BY DEF Sockets
    <3> QED BY <1>8, <2>1, <3>1, SMTT(30) DEF TypeOK
  <2>2. SocketsToCome'
    BY <1>4, <1>7, <1>8, <2>1 DEF SocketsToCome
  <2> QED BY <1>1, <1>4, <1>8, <2>2
          DEF SocketsInv, RequestsDiffer, RequestsUnserved, OneEntry, Quiet
<1>9. CASE /\ socket' = [socket EXCEPT ![c] = @ + 1]
           /\ \E q \in Requests : q.from = new /\ requests' = Append(requests, q)
  <2>1. PICK q \in Requests : q.from = new /\ requests' = Append(requests, q)
    BY <1>9
  <2>2. /\ DOMAIN requests' = 1..(Len(requests) + 1)
        /\ \A j \in DOMAIN requests' :
             \/ j = Len(requests) + 1 /\ requests'[j] = q
             \/ j \in DOMAIN requests /\ requests'[j] = requests[j]
    BY <1>3, <2>1
  <2>3. RequestsDiffer'
    BY <1>4, <1>6, <2>1, <2>2 DEF RequestsDiffer
  <2>4. RequestsUnserved'
    BY <1>1, <1>4, <1>6, <2>1, <2>2 DEF RequestsUnserved, Quiet
  <2>5. OneEntry'
    BY <1>1, <1>4 DEF OneEntry
  <2>6. SocketsToCome'
    <3>1. ASSUME NEW s \in Sockets, s[2] > socket'[s[1]]
          PROVE  Quiet(s)' /\ \A j \in DOMAIN requests' : requests'[j].from # s
      <4>1. s[2] \in Nat /\ s[1] \in Clients
        BY DEF Sockets
      <4>2. s # new /\ s[2] > socket[s[1]]
        BY <1>2, <1>9, <3>1, <4>1, SMTT(30) DEF TypeOK
      <4> QED BY <1>4, <1>7, <2>1, <2>2, <4>2 DEF SocketsToCome
    <3> QED BY <3>1, Zenon DEF SocketsToCome
  <2> QED BY <2>3, <2>4, <2>5, <2>6 DEF SocketsInv
<1>10. CASE requests' = requests /\ socket' = [socket EXCEPT ![c] = @ + 1]
  BY <1>8, <1>10 DEF TypeOK
<1>11. CASE UNCHANGED <<requests, socket>>
  BY <1>8, <1>11 DEF TypeOK
<1> QED BY <1>9, <1>10, <1>11 DEF AttemptEffect, new

LEMMA ReceiveSockets ==
  ASSUME TypeOK, SocketsInv, Receive
  PROVE  SocketsInv'
<1> DEFINE from == Head(requests).from
<1>1. requests \in Seq(Requests) /\ requests # <<>> /\ from \in Sockets
  BY ReceiveTypes DEF Receive, TypeOK, Requests
<1>2. RequestsDiffer /\ RequestsUnserved /\ OneEntry /\ SocketsToCome
  BY DEF SocketsInv
<1>3. /\ 1 \in DOMAIN requests /\ requests[1].from = from
      /\ socket' = socket /\ duplicated \subseteq duplicated'
  BY <1>1 DEF Receive, clientVars
<1>4. \/ requests' = Tail(requests) /\ duplicated' = duplicated
      \/ requests' = requests /\ from \in duplicated'
  BY DEF Receive
<1> HIDE DEF from
<1>5. \A j \in DOMAIN requests' :
         \/ j \in Nat \ {0} /\ j + 1 \in DOMAIN requests /\ requests'[j] = requests[j + 1]
              /\ requests' # requests
         \/ j \in DOMAIN requests /\ requests'[j] = requests[j] /\ from \in duplicated'
              /\ requests' = requests
  BY <1>1, <1>4
<1>6. \A s \in Sockets, i \in Slots :
        \/ children'[s][i].state = children[s][i].state
        \/ s = from /\ i = FreeSlot(children, s)
  BY ReceiveChildren DEF from
<1>7. \A s \in Sockets : s # from /\ Quiet(s) => Quiet(s)'
  BY <1>6 DEF Quiet
<1>8. RequestsDiffer'
  BY <1>2, <1>5 DEF RequestsDiffer
<1>9. RequestsUnserved'
  <2>1. ASSUME NEW j \in DOMAIN requests', NEW s, s = requests'[j].from, s \notin duplicated'
        PROVE  Quiet(s)'
    <3>1. s # from /\ \E k \in DOMAIN requests : s = requests[k].from
      BY <1>2, <1>3, <1>5, <2>1 DEF RequestsDiffer
    <3>2. Quiet(s) /\ s \in Sockets
      BY <1>2, <1>3, <2>1, <3>1, RequestFrom DEF RequestsUnserved, TypeOK
    <3> QED BY <1>7, <3>1, <3>2
  <2> QED BY <2>1 DEF RequestsUnserved, Quiet
<1>10. OneEntry'
  <2>1. ASSUME NEW s \in Sockets, NEW i \in Slots, NEW k \in Slots, i # k,
               s \notin duplicated'
        PROVE  children'[s][i].state = "NONE" \/ children'[s][k].state = "NONE"
    <3>1. CASE s = from
      <4>1. Quiet(s)
        BY <1>2, <1>3, <2>1, <3>1 DEF RequestsUnserved
      <4> QED BY <1>6, <2>1, <4>1 DEF Quiet
    <3>2. CASE s # from
      BY <1>2, <1>3, <1>6, <2>1, <3>2 DEF OneEntry
    <3> QED BY <3>1, <3>2
  <2> QED BY <2>1 DEF OneEntry
<1>11. SocketsToCome'
  <2>1. ASSUME NEW s \in Sockets, s[2] > socket[s[1]]
        PROVE  Quiet(s)' /\ \A j \in DOMAIN requests' : requests'[j].from # s
    <3>1. Quiet(s) /\ \A j \in DOMAIN requests : requests[j].from # s
      BY <1>2, <2>1 DEF SocketsToCome
    <3>2. s # from
      BY <1>3, <3>1
    <3> QED BY <1>5, <1>7, <3>1, <3>2
  <2> QED BY <1>3, <2>1 DEF SocketsToCome
<1> QED BY <1>8, <1>9, <1>10, <1>11 DEF SocketsInv

LEMMA NextSockets ==
  ASSUME TypeInv, SocketsInv, [Next]_vars
  PROVE  SocketsInv'
<1>0. TypeOK /\ RequestsDiffer /\ RequestsUnserved /\ OneEntry /\ SocketsToCome
  BY DEF TypeInv, SocketsInv
<1>1. ASSUME NEW c \in Clients, Client(c) PROVE SocketsInv'
  <2>1. CASE Attempt(c)
    BY <1>0, <2>1, AttemptSteps, AttemptSockets
  <2>2. ASSUME NEW next, FilenameReturns(c, next) PROVE SocketsInv'
    BY <1>0, <2>2 DEF FilenameReturns, serverVars, SocketsInv, RequestsDiffer,
                      RequestsUnserved, OneEntry, SocketsToCome, Quiet
  <2> QED BY <1>1, <2>1, <2>2 DEF Client, AnswerArrives, FilenameTimeout
<1>2. CASE Receive
  BY <1>0, <1>2, ReceiveSockets
<1>3. CASE ForkFails
  <2>1. requests' = <<>> /\ UNCHANGED <<children, duplicated, socket>>
    BY <1>3 DEF ForkFails, clientVars
  <2> QED BY <1>0, <2>1 DEF SocketsInv, RequestsDiffer, RequestsUnserved, OneEntry,
                            SocketsToCome, Quiet
<1>4. ASSUME NEW s \in Sockets, NEW i \in Slots, Child(s, i) PROVE SocketsInv'
  <2>1. ChildEffect(s, i)
    BY <1>0, <1>4, ChildSteps
  <2>2. UNCHANGED <<requests, duplicated, socket>>
    BY <2>1 DEF ChildEffect, clientVars
  <2>3. \A u \in Sockets, k \in Slots :
          children'[u][k].state = "NONE" <=> children[u][k].state = "NONE"
    BY <1>0, <2>1 DEF ChildEffect, TypeOK
  <2>4. \A u \in Sockets : Quiet(u)' <=> Quiet(u)
    BY <2>3 DEF Quiet
  <2>5. \A j \in DOMAIN requests : requests[j].from \in Sockets
    BY <1>0, RequestFrom DEF TypeOK
  <2> QED BY <1>0, <2>2, <2>3, <2>4, <2>5
          DEF SocketsInv, RequestsDiffer, RequestsUnserved, OneEntry, SocketsToCome
<1>5. CASE UNCHANGED vars
  BY <1>0, <1>5 DEF vars, serverVars, clientVars, SocketsInv, RequestsDiffer,
                    RequestsUnserved, OneEntry, SocketsToCome, Quiet
<1>6. CASE Reap \/ NoneToReap
  <2>1. ReapEffect
    BY <1>0, <1>6, ReapSteps
  <2>2. UNCHANGED <<requests, duplicated, socket>>
    BY <2>1 DEF ReapEffect, clientVars
  <2>3. \A u \in Sockets, k \in Slots :
          children[u][k].state = "NONE" => children'[u][k].state = "NONE"
    BY <2>1 DEF ReapEffect
  <2>4. \A u \in Sockets, k \in Slots :
          children'[u][k].state # "NONE" => children[u][k].state # "NONE"
    BY <2>3
  <2>5. \A u \in Sockets : Quiet(u) => Quiet(u)'
    BY <2>3 DEF Quiet
  <2>6. \A j \in DOMAIN requests : requests[j].from \in Sockets
    BY <1>0, RequestFrom DEF TypeOK
  <2> QED BY <1>0, <2>2, <2>4, <2>5, <2>6
          DEF SocketsInv, RequestsDiffer, RequestsUnserved, OneEntry, SocketsToCome
<1> QED BY <1>1, <1>2, <1>3, <1>4, <1>5, <1>6, ServerSteps DEF Next, AnyChild

(* Two children send to one socket only if its FNAME was delivered twice.   *)
THEOREM OneChildCorrect == Spec => []OneChildPerSocket
<1>1. TypeInv /\ SocketsInv /\ [Next]_vars => (TypeInv /\ SocketsInv)'
  BY NextTypeInv, NextSockets
<1>2. SocketsInv => OneChildPerSocket
  <2>1. ASSUME SocketsInv, NEW x \in Running(children), NEW y \in Running(children),
               x[1] = y[1], x # y
        PROVE  x[1] \in duplicated
    <3>1. /\ x \in Sockets \X Slots /\ y \in Sockets \X Slots
          /\ children[x[1]][x[2]].state # "NONE" /\ children[y[1]][y[2]].state # "NONE"
      BY DEF Running, Processes
    <3>2. x[2] # y[2]
      BY <2>1, <3>1
    <3> QED BY <2>1, <3>1, <3>2 DEF SocketsInv, OneEntry
  <2> QED BY <2>1 DEF OneChildPerSocket
<1> QED BY <1>1, <1>2, InitTypeInv, InitSockets, PTL DEF Spec

-----------------------------------------------------------------------------
(* Who is served.  While nothing is lost but listed messages, a client that *)
(* waits after a message that is not listed has its packet, its child or    *)
(* its answer on the way.                                                   *)

OnItsWay(c) ==
  \/ answers[c] # <<>>
  \/ \E j \in DOMAIN requests : requests[j].from = <<c, socket[c]>>
  \/ \E i \in Slots :
       LET kid == children[<<c, socket[c]>>][i]
       IN  kid.state \in {"FILENAME", "SEND_DATA"} /\ 1..kid.msgs \subseteq serverLib.drops

RequestsListed ==
  \A j \in DOMAIN requests :
    requests[j].ok /\ requests[j].from[2] \notin clientLib.drops

ChildrenListed ==
  \A s \in Sockets, i \in Slots :
    children[s][i].state # "NONE" => s[2] \notin clientLib.drops

AnswersListed ==
  \A c \in Clients :
    /\ answers[c] # <<>> => cstate[c] = "WAIT" /\ socket[c] \notin clientLib.drops
    /\ \A j \in DOMAIN answers[c] : answers[c][j].ok /\ answers[c][j].flag # "FNAME_BAD"

AttemptListed(c) ==
  /\ cmsgs[c] = socket[c]
  /\ cstate[c] = "FILENAME" => 1..socket[c] \subseteq clientLib.drops
  /\ cstate[c] \in {"WAIT", "FILE_OK"} => 1..(socket[c] - 1) \subseteq clientLib.drops
  /\ cstate[c] = "WAIT" => socket[c] \in clientLib.drops \/ OnItsWay(c)
  /\ cstate[c] = "FILE_OK" => socket[c] \notin clientLib.drops
  /\ cstate[c] = "DONE" => 1..MaxSelects \subseteq clientLib.drops /\ socket[c] = MaxSelects + 1

ListedInv ==
  /\ duplicated = {} /\ RequestsListed /\ ChildrenListed /\ AnswersListed
  /\ \A c \in Clients : AttemptListed(c)

ServedInv == ListedLossesOnly => ListedInv

LEMMA ListedReliable ==
  ASSUME ListedLossesOnly
  PROVE  /\ network = "reliable" /\ ~Unreliable
         /\ clientLib.rate = "never" /\ serverLib.rate = "never"
         /\ ~(1..Burst \subseteq serverLib.drops)
BY DEF ListedLossesOnly, Unreliable

LEMMA InitServed == Init => ListedInv
<1> SUFFICES ASSUME Init PROVE ListedInv
  OBVIOUS
<1>1. \A c \in Clients : AttemptListed(c)
  BY DEF Init, AttemptListed
<1>2. RequestsListed /\ AnswersListed
  BY DEF Init, RequestsListed, AnswersListed
<1>3. ChildrenListed
  BY DEF Init, NoChild, ChildrenListed
<1> QED BY <1>1, <1>2, <1>3 DEF Init, ListedInv

\* A step that leaves a client and what is on its way to it alone.
LEMMA AttemptKept ==
  ASSUME NEW c \in Clients, AttemptListed(c), UNCHANGED <<clientLib, serverLib>>,
         cmsgs'[c] = cmsgs[c], socket'[c] = socket[c], cstate'[c] = cstate[c],
         cstate[c] = "WAIT" /\ OnItsWay(c) => OnItsWay(c)'
  PROVE  AttemptListed(c)'
BY DEF AttemptListed

LEMMA AttemptServed ==
  ASSUME TypeInv, ListedLossesOnly, ListedInv, NEW c \in Clients, Attempt(c)
  PROVE  ListedInv'
<1> DEFINE s == <<c, socket[c] + 1>>
           p == [from |-> s, ok |-> TRUE]
<1>1. /\ duplicated = {} /\ RequestsListed /\ ChildrenListed /\ AnswersListed
      /\ \A d \in Clients : AttemptListed(d)
  BY DEF ListedInv
<1>2. /\ cstate[c] = "FILENAME" /\ cstate' = [cstate EXCEPT ![c] = "WAIT"]
      /\ cmsgs' = [cmsgs EXCEPT ![c] = @ + 1]
      /\ socket' = [socket EXCEPT ![c] = @ + 1]
      /\ requests' \in Sent(clientLib, cmsgs[c] + 1, requests, p)
      /\ UNCHANGED <<clientLib, serverLib, answers, children, duplicated>>
  BY ListedReliable DEF Attempt, libraries, serverVars
<1>3. cmsgs[c] = socket[c] /\ 1..socket[c] \subseteq clientLib.drops
  BY <1>1, <1>2 DEF AttemptListed
<1>4. requests \in Seq(Requests) /\ socket[c] \in Nat
  BY DEF TypeInv, TypeOK
<1>5. /\ socket'[c] = socket[c] + 1 /\ cmsgs'[c] = socket[c] + 1 /\ cstate'[c] = "WAIT"
      /\ \A d \in Clients \ {c} :
           socket'[d] = socket[d] /\ cmsgs'[d] = cmsgs[d] /\ cstate'[d] = cstate[d]
  BY <1>2, <1>3 DEF TypeInv, TypeOK
<1>6. answers[c] = <<>>
  BY <1>1, <1>2 DEF AnswersListed
<1>7. p.ok = TRUE /\ p.from = s /\ s[2] = socket[c] + 1
  OBVIOUS
<1>8. requests' = IF socket[c] + 1 \in clientLib.drops THEN requests ELSE Append(requests, p)
  BY <1>2, <1>3, SentListed, ListedReliable
<1> HIDE DEF p
<1>9. /\ \A j \in DOMAIN requests : j \in DOMAIN requests' /\ requests'[j] = requests[j]
      /\ \A j \in DOMAIN requests' :
           \/ j \in DOMAIN requests /\ requests'[j] = requests[j]
           \/ requests'[j] = p /\ socket[c] + 1 \notin clientLib.drops
      /\ socket[c] + 1 \notin clientLib.drops => \E j \in DOMAIN requests' : requests'[j] = p
  <2>1. CASE socket[c] + 1 \in clientLib.drops
    BY <1>8, <2>1
  <2>2. CASE socket[c] + 1 \notin clientLib.drops
    <3>1. requests' = Append(requests, p)
      BY <1>8, <2>2
    <3>2. Len(requests) + 1 \in DOMAIN requests' /\ requests'[Len(requests) + 1] = p
      BY <1>4, <3>1
    <3> QED BY <1>4, <2>2, <3>1, <3>2
  <2> QED BY <2>1, <2>2
<1>10. RequestsListed'
  BY <1>1, <1>2, <1>7, <1>9 DEF RequestsListed
<1>11. ChildrenListed' /\ duplicated' = {}
  BY <1>1, <1>2 DEF ChildrenListed
<1>12. AnswersListed'
  BY <1>1, <1>2, <1>5, <1>6 DEF AnswersListed
<1>13. ASSUME NEW d \in Clients \ {c} PROVE AttemptListed(d)'
  <2>1. OnItsWay(d) => OnItsWay(d)'
    BY <1>2, <1>5, <1>9 DEF OnItsWay
  <2> QED BY <1>1, <1>2, <1>5, <2>1, AttemptKept
<1>14. AttemptListed(c)'
  <2>1. socket[c] + 1 \in clientLib.drops \/ OnItsWay(c)'
    BY <1>5, <1>7, <1>9 DEF OnItsWay
  <2>2. 1..(socket'[c] - 1) \subseteq clientLib'.drops
    BY <1>2, <1>3, <1>4, <1>5
  <2> QED BY <1>2, <1>5, <2>1, <2>2 DEF AttemptListed
<1> QED BY <1>10, <1>11, <1>12, <1>13, <1>14 DEF ListedInv

LEMMA ReturnServed ==
  ASSUME TypeInv, ListedInv, NEW c \in Clients, cstate[c] = "WAIT", NEW next,
         FilenameReturns(c, next),
         \/ next = "FILENAME" /\ socket[c] \in clientLib.drops
         \/ next = "FILE_OK" /\ socket[c] \notin clientLib.drops
  PROVE  ListedInv'
<1>1. /\ duplicated = {} /\ RequestsListed /\ ChildrenListed /\ AnswersListed
      /\ \A d \in Clients : AttemptListed(d)
  BY DEF ListedInv
<1>2. /\ UNCHANGED <<clientLib, serverLib, requests, socket, cmsgs, children, duplicated>>
      /\ cstate' = [cstate EXCEPT ![c] = IF selects[c] + 1 > MaxSelects THEN "DONE" ELSE next]
      /\ answers' = [answers EXCEPT ![c] = <<>>]
  BY DEF FilenameReturns, libraries, serverVars
<1>3. /\ cstate'[c] = IF selects[c] + 1 > MaxSelects THEN "DONE" ELSE next
      /\ answers'[c] = <<>>
      /\ \A d \in Clients \ {c} : cstate'[d] = cstate[d] /\ answers'[d] = answers[d]
  BY <1>2 DEF TypeInv, TypeOK
<1>4. socket[c] = selects[c] + 1 /\ selects[c] \in Nat /\ selects[c] <= MaxSelects
  BY DEF TypeInv, TypeOK, AttemptsCounted
<1>5. cmsgs[c] = socket[c] /\ 1..(socket[c] - 1) \subseteq clientLib.drops
  BY <1>1 DEF AttemptListed
<1>6. next = "FILENAME" => 1..socket[c] \subseteq clientLib.drops
  <2>1. ASSUME NEW k \in 1..socket[c] PROVE k = socket[c] \/ k \in 1..(socket[c] - 1)
    BY <1>4
  <2> QED BY <1>5, <2>1
<1>7. selects[c] + 1 > MaxSelects =>
        1..MaxSelects \subseteq clientLib.drops /\ socket[c] = MaxSelects + 1
  <2>1. ASSUME selects[c] + 1 > MaxSelects
        PROVE  MaxSelects = socket[c] - 1 /\ socket[c] = MaxSelects + 1
    BY <1>4, <2>1
  <2> QED BY <1>5, <2>1
<1>8. AttemptListed(c)'
  BY <1>2, <1>3, <1>5, <1>6, <1>7 DEF AttemptListed
<1>9. ASSUME NEW d \in Clients \ {c} PROVE AttemptListed(d)'
  <2>1. OnItsWay(d) => OnItsWay(d)'
    BY <1>2, <1>3 DEF OnItsWay
  <2> QED BY <1>1, <1>2, <1>3, <2>1, AttemptKept
<1>10. AnswersListed'
  BY <1>1, <1>2, <1>3 DEF AnswersListed
<1>11. RequestsListed' /\ ChildrenListed' /\ duplicated' = {}
  BY <1>1, <1>2 DEF RequestsListed, ChildrenListed
<1> QED BY <1>8, <1>9, <1>10, <1>11 DEF ListedInv

\* A client that waits after a message that is not listed does not time out.
LEMMA NoTimeout ==
  ASSUME TypeInv, ListedLossesOnly, ListedInv, NEW c \in Clients, cstate[c] = "WAIT",
         ~UnderWay(c)
  PROVE  socket[c] \in clientLib.drops
<1>1. socket[c] \in clientLib.drops \/ OnItsWay(c)
  BY DEF ListedInv, AttemptListed
<1>2. <<c, socket[c]>> \in Sockets
  BY DEF TypeInv, TypeOK, AttemptsCounted, Sockets
<1>3. ASSUME NEW i \in Slots, 1..children[<<c, socket[c]>>][i].msgs \subseteq serverLib.drops
      PROVE  children[<<c, socket[c]>>][i].msgs < Burst
  <2> DEFINE n == children[<<c, socket[c]>>][i].msgs
  <2>1. children[<<c, socket[c]>>][i] \in Children
    BY <1>2 DEF TypeInv, TypeOK
  <2>2. n \in Nat
    BY <2>1 DEF Children
  <2> HIDE DEF n
  <2>3. n >= Burst => 1..Burst \subseteq 1..n
    BY <2>2
  <2> QED BY <1>3, <2>2, <2>3, ListedReliable DEF n
<1> QED BY <1>1, <1>3 DEF OnItsWay, UnderWay

\* The child of a packet whose socket has none yet.
LEMMA ReceiveForks ==
  ASSUME TypeOK, Receive, Head(requests).ok, Quiet(Head(requests).from)
  PROVE  \E i \in Slots :
           children'[Head(requests).from][i] = [state |-> "FILENAME", msgs |-> 0]
<1> DEFINE from == Head(requests).from
           i == FreeSlot(children, from)
<1>1. from \in Sockets
  BY ReceiveTypes DEF Requests
<1>2. i \in Slots
  <2>1. \E k \in Slots : children[from][k].state = "NONE"
    BY DEF Quiet, Slots
  <2> QED BY <2>1 DEF FreeSlot
<1>3. Fork(children, from)[from][i] = [state |-> "FILENAME", msgs |-> 0]
  BY <1>1, <1>2 DEF Fork, TypeOK
<1>4. children' = Fork(children, from)
  BY DEF Receive
<1> HIDE DEF i, from
<1> QED BY <1>2, <1>3, <1>4 DEF from

LEMMA ReceiveServed ==
  ASSUME TypeInv, SocketsInv, ListedLossesOnly, ListedInv, Receive
  PROVE  ListedInv'
<1> DEFINE from == Head(requests).from
<1>1. /\ duplicated = {} /\ RequestsListed /\ ChildrenListed /\ AnswersListed
      /\ (\A d \in Clients : AttemptListed(d)) /\ TypeOK
  BY DEF ListedInv, TypeInv
<1>2. requests \in Seq(Requests) /\ requests # <<>> /\ from \in Sockets
  BY <1>1, ReceiveTypes DEF Receive, TypeOK, Requests
<1>3. /\ requests' = Tail(requests) /\ duplicated' = {}
      /\ UNCHANGED <<clientLib, serverLib, answers, cstate, socket, cmsgs>>
  BY <1>1, ListedReliable DEF Receive, libraries, clientVars
<1>4. 1 \in DOMAIN requests /\ requests[1] = Head(requests)
  BY <1>2
<1>5. /\ Head(requests).ok /\ from[2] \notin clientLib.drops /\ Quiet(from)
  BY <1>1, <1>4 DEF RequestsListed, SocketsInv, RequestsUnserved
<1>6. /\ \A j \in DOMAIN requests' : j + 1 \in DOMAIN requests /\ requests'[j] = requests[j + 1]
      /\ \A j \in DOMAIN requests :
           j = 1 \/ (j - 1 \in DOMAIN requests' /\ requests'[j - 1] = requests[j])
  BY <1>2, <1>3
<1>7. \E i \in Slots : children'[from][i] = [state |-> "FILENAME", msgs |-> 0]
  BY <1>1, <1>5, ReceiveForks
<1>8. \A s \in Sockets, i \in Slots :
        children'[s][i].state # "NONE" => children[s][i].state # "NONE" \/ s = from
  BY <1>1, ReceiveChildren
<1>9. \A s \in Sockets, i \in Slots :
        children[s][i].state \in {"FILENAME", "SEND_DATA"} =>
          \/ children'[s][i] = children[s][i]
          \/ children'[s][i] = [state |-> "FILENAME", msgs |-> 0]
  BY <1>1, ReceiveChildren
<1> HIDE DEF from
<1>10. RequestsListed'
  BY <1>1, <1>3, <1>6 DEF RequestsListed
<1>11. ChildrenListed'
  BY <1>1, <1>3, <1>5, <1>8 DEF ChildrenListed
<1>12. AnswersListed'
  BY <1>1, <1>3 DEF AnswersListed
<1>13. ASSUME NEW d \in Clients PROVE AttemptListed(d)'
  <2> DEFINE s == <<d, socket[d]>>
  <2>1. ASSUME cstate[d] = "WAIT", OnItsWay(d) PROVE OnItsWay(d)'
    <3>1. s \in Sockets
      BY <2>1 DEF TypeInv, TypeOK, AttemptsCounted, Sockets
    <3>2. CASE answers[d] # <<>>
      BY <1>3, <3>2 DEF OnItsWay
    <3>3. CASE \E j \in DOMAIN requests : requests[j].from = s
      <4>1. PICK j \in DOMAIN requests : requests[j].from = s
        BY <3>3
      <4>2. CASE j = 1
        <5>1. from = s
          BY <1>4, <4>1, <4>2 DEF from
        <5>2. PICK i \in Slots : children'[s][i] = [state |-> "FILENAME", msgs |-> 0]
          BY <1>7, <5>1
        <5>3. children'[s][i].state = "FILENAME" /\ children'[s][i].msgs = 0
          BY <5>2
        <5>4. 1..children'[s][i].msgs \subseteq serverLib.drops
          BY <5>3
        <5> QED BY <1>3, <5>3, <5>4 DEF OnItsWay
      <4>3. CASE j # 1
        <5>1. j - 1 \in DOMAIN requests' /\ requests'[j - 1] = requests[j]
          BY <1>6, <4>3
        <5>2. \E k \in DOMAIN requests' : requests'[k].from = s
          BY <4>1, <5>1
        <5>3. \E k \in DOMAIN requests' : requests'[k].from = <<d, socket'[d]>>
          BY <1>3, <5>2, Zenon
        <5> QED BY <5>3 DEF OnItsWay
      <4> QED BY <4>2, <4>3
    <3>4. CASE \E i \in Slots : /\ children[s][i].state \in {"FILENAME", "SEND_DATA"}
                                /\ 1..children[s][i].msgs \subseteq serverLib.drops
      <4>1. PICK i \in Slots : /\ children[s][i].state \in {"FILENAME", "SEND_DATA"}
                               /\ 1..children[s][i].msgs \subseteq serverLib.drops
        BY <3>4
      <4>2. /\ children'[s][i].state \in {"FILENAME", "SEND_DATA"}
            /\ 1..children'[s][i].msgs \subseteq serverLib.drops
        BY <1>9, <3>1, <4>1
      <4> QED BY <1>3, <4>2 DEF OnItsWay
    <3> QED BY <2>1, <3>2, <3>3, <3>4 DEF OnItsWay
  <2> QED BY <1>1, <1>3, <2>1, AttemptKept
<1> QED BY <1>3, <1>10, <1>11, <1>12, <1>13 DEF ListedInv

\* What a child's step is while nothing is lost but listed messages.
LEMMA ChildListed ==
  ASSUME TypeOK, ListedLossesOnly, NEW s \in Sockets, NEW i \in Slots, Child(s, i)
  PROVE  \/ \E flag \in {"FNAME_OK", "DATA"} : ChildSends(s, i, flag, "SEND_DATA")
         \/ ~IsAwaited(s) /\ answers' = answers
BY ListedReliable DEF Child, ChildFilename, ChildSendData, ChildEnds

LEMMA ChildServed ==
  ASSUME TypeInv, ListedLossesOnly, ListedInv, NEW s \in Sockets, NEW i \in Slots, Child(s, i)
  PROVE  ListedInv'
<1> DEFINE n == children[s][i].msgs + 1
<1>1. /\ duplicated = {} /\ RequestsListed /\ ChildrenListed /\ AnswersListed
      /\ (\A d \in Clients : AttemptListed(d)) /\ TypeOK
  BY DEF ListedInv, TypeInv
<1>2. ChildEffect(s, i)
  BY <1>1, ChildSteps
<1>3. UNCHANGED <<clientLib, serverLib, requests, duplicated, cstate, socket, cmsgs>>
  BY <1>2 DEF ChildEffect, libraries, clientVars
<1>4. /\ children[s][i] \in Children /\ children[s][i].msgs \in Nat /\ s[1] \in Clients
      /\ s = <<s[1], s[2]>> /\ answers[s[1]] \in Seq(Answers)
  BY <1>1 DEF TypeOK, Sockets, Children
<1>5. s[2] \notin clientLib.drops
  BY <1>1, <1>2 DEF ChildrenListed, ChildEffect
<1>6. /\ \A u \in Sockets, k \in Slots : u # s \/ k # i => children'[u][k] = children[u][k]
      /\ children'[s][i].state # "NONE"
  BY <1>1, <1>2 DEF ChildEffect, TypeOK
<1>7. RequestsListed' /\ duplicated' = {}
  BY <1>1, <1>3 DEF RequestsListed
<1>8. ChildrenListed'
  BY <1>1, <1>3, <1>5, <1>6 DEF ChildrenListed
<1>9. CASE ~IsAwaited(s) /\ answers' = answers
  <2>1. AnswersListed'
    BY <1>1, <1>3, <1>9 DEF AnswersListed
  <2>2. ASSUME NEW d \in Clients PROVE AttemptListed(d)'
    <3>1. ASSUME cstate[d] = "WAIT", OnItsWay(d) PROVE OnItsWay(d)'
      <4>1. <<d, socket[d]>> \in Sockets
        BY <3>1 DEF TypeInv, TypeOK, AttemptsCounted, Sockets
      <4>2. s # <<d, socket[d]>>
        BY <1>9, <3>1 DEF IsAwaited
      <4> QED BY <1>3, <1>6, <1>9, <3>1, <4>1, <4>2 DEF OnItsWay
    <3> QED BY <1>1, <1>3, <3>1, AttemptKept
  <2> QED BY <1>7, <1>8, <2>1, <2>2 DEF ListedInv
<1>10. ASSUME NEW flag \in {"FNAME_OK", "DATA"}, ChildSends(s, i, flag, "SEND_DATA")
       PROVE  ListedInv'
  <2> DEFINE p == [flag |-> flag, ok |-> TRUE]
             c == s[1]
  <2>1. children' = [children EXCEPT ![s][i] = [state |-> "SEND_DATA", msgs |-> n]]
    BY <1>10 DEF ChildSends
  <2>2. children'[s][i] = [state |-> "SEND_DATA", msgs |-> n]
    BY <1>1, <2>1 DEF TypeOK
  <2>3. \/ answers' = answers /\ (IsAwaited(s) => n \in serverLib.drops)
        \/ /\ IsAwaited(s) /\ answers' = [answers EXCEPT ![c] = Append(answers[c], p)]
    <3>1. CASE ~IsAwaited(s)
      BY <1>10, <3>1 DEF ChildSends
    <3>2. CASE IsAwaited(s)
      <4>1. PICK ch \in Sent(serverLib, n, answers[c], p) :
              answers' = [answers EXCEPT ![c] = ch]
        BY <1>10, <3>2 DEF ChildSends
      <4>2. ch = IF n \in serverLib.drops THEN answers[c] ELSE Append(answers[c], p)
        BY <4>1, SentListed, ListedReliable
      <4> QED BY <1>1, <1>4, <3>2, <4>1, <4>2 DEF TypeOK
    <3> QED BY <3>1, <3>2
  <2>4. p.ok = TRUE /\ p.flag # "FNAME_BAD"
    OBVIOUS
  <2> HIDE DEF p
  <2>5. CASE answers' = answers
    <3>1. AnswersListed'
      BY <1>1, <1>3, <2>5 DEF AnswersListed
    <3>2. ASSUME NEW d \in Clients PROVE AttemptListed(d)'
      <4>1. ASSUME cstate[d] = "WAIT", OnItsWay(d) PROVE OnItsWay(d)'
        <5> DEFINE u == <<d, socket[d]>>
        <5>1. u \in Sockets
          BY <4>1 DEF TypeInv, TypeOK, AttemptsCounted, Sockets
        <5>2. CASE answers[d] # <<>> \/ \E j \in DOMAIN requests : requests[j].from = u
          BY <1>3, <2>5, <5>2 DEF OnItsWay
        <5>3. ASSUME NEW k \in Slots, children[u][k].state \in {"FILENAME", "SEND_DATA"},
                     1..children[u][k].msgs \subseteq serverLib.drops
              PROVE  OnItsWay(d)'
          <6>1. CASE u # s \/ k # i
            <7>1. children'[u][k] = children[u][k]
              BY <1>6, <5>1, <6>1
            <7> QED BY <1>3, <5>3, <7>1 DEF OnItsWay
          <6>2. CASE u = s /\ k = i
            <7>1. IsAwaited(s)
              BY <4>1, <6>2 DEF IsAwaited
            <7>2. CASE answers' = answers /\ (IsAwaited(s) => n \in serverLib.drops)
              <8>1. n \in serverLib.drops
                BY <7>1, <7>2
              <8>2. 1..children[s][i].msgs \subseteq serverLib.drops
                BY <5>3, <6>2
              <8>3. \A k1 \in 1..n : k1 = n \/ k1 \in 1..children[s][i].msgs
                BY <1>4
              <8>4. 1..n \subseteq serverLib.drops
                BY <8>1, <8>2, <8>3
              <8> QED BY <1>3, <2>2, <6>2, <8>4 DEF OnItsWay
            <7>3. CASE answers' = [answers EXCEPT ![c] = Append(answers[c], p)]
              <8>1. answers'[d] = Append(answers[d], p) /\ answers[d] \in Seq(Answers)
                BY <1>1, <1>4, <6>2, <7>3 DEF TypeOK
              <8>2. answers'[d] # <<>>
                BY <8>1
              <8> QED BY <8>2 DEF OnItsWay
            <7> QED BY <2>3, <7>2, <7>3
          <6> QED BY <6>1, <6>2
        <5> QED BY <4>1, <5>2, <5>3 DEF OnItsWay
      <4> QED BY <1>1, <1>3, <4>1, AttemptKept
    <3> QED BY <1>7, <1>8, <3>1, <3>2 DEF ListedInv
  <2>6. CASE IsAwaited(s) /\ answers' = [answers EXCEPT ![c] = Append(answers[c], p)]
    <3>1. /\ answers'[c] = Append(answers[c], p) /\ answers'[c] # <<>>
          /\ \A d \in Clients \ {c} : answers'[d] = answers[d]
      <4>1. Append(answers[c], p) # <<>>
        <5>1. ASSUME NEW q \in Seq(Answers) PROVE Append(q, p) # <<>>
          <6>1. Len(Append(q, p)) = Len(q) + 1 /\ Len(q) \in Nat
            OBVIOUS
          <6> QED BY <6>1
        <5> QED BY <1>4, <5>1
      <4>2. c \in Clients /\ answers \in [Clients -> Seq(Answers)]
        BY <1>1, <1>4 DEF TypeOK
      <4> HIDE DEF c
      <4> QED BY <2>6, <4>1, <4>2
    <3>2. cstate[c] = "WAIT" /\ s[2] = socket[c]
      BY <2>6 DEF IsAwaited
    <3>3. \A j \in DOMAIN answers'[c] :
            answers'[c][j] = p \/ (j \in DOMAIN answers[c] /\ answers'[c][j] = answers[c][j])
      BY <1>4, <3>1
    <3>4. AnswersListed'
      <4>1. \A j \in DOMAIN answers'[c] : answers'[c][j].ok /\ answers'[c][j].flag # "FNAME_BAD"
        BY <1>1, <1>4, <2>4, <3>3 DEF AnswersListed
      <4>2. cstate'[c] = "WAIT" /\ socket'[c] \notin clientLib'.drops
        BY <1>3, <1>5, <3>2
      <4>3. c \in Clients
        BY <1>4
      <4> HIDE DEF c
      <4>4. ASSUME NEW d \in Clients
            PROVE  /\ answers'[d] # <<>> => /\ cstate'[d] = "WAIT"
                                             /\ socket'[d] \notin clientLib'.drops
                   /\ \A j \in DOMAIN answers'[d] :
                        answers'[d][j].ok /\ answers'[d][j].flag # "FNAME_BAD"
        <5>1. CASE d = c
          BY <4>1, <4>2, <5>1
        <5>2. CASE d # c
          BY <1>1, <1>3, <3>1, <5>2 DEF AnswersListed
        <5> QED BY <5>1, <5>2
      <4> QED BY <4>4, Zenon DEF AnswersListed
    <3>5. ASSUME NEW d \in Clients \ {c} PROVE AttemptListed(d)'
      <4>1. ASSUME cstate[d] = "WAIT", OnItsWay(d) PROVE OnItsWay(d)'
        <5>1. <<d, socket[d]>> \in Sockets /\ s # <<d, socket[d]>>
          BY <4>1 DEF TypeInv, TypeOK, AttemptsCounted, Sockets
        <5> QED BY <1>3, <1>6, <3>1, <4>1, <5>1, ZenonT(30) DEF OnItsWay
      <4> QED BY <1>1, <1>3, <4>1, AttemptKept
    <3>6. AttemptListed(c)'
      BY <1>1, <1>3, <1>4, <3>1, AttemptKept DEF OnItsWay
    <3> QED BY <1>4, <1>7, <1>8, <3>4, <3>5, <3>6 DEF ListedInv
  <2> QED BY <2>3, <2>5, <2>6
<1> QED BY <1>1, <1>9, <1>10, ChildListed

\* A child that is reaped is none that a client waits for.
LEMMA ReapServed ==
  ASSUME TypeInv, ListedInv, ReapEffect
  PROVE  ListedInv'
<1>1. /\ duplicated = {} /\ RequestsListed /\ ChildrenListed /\ AnswersListed
      /\ \A d \in Clients : AttemptListed(d)
  BY DEF ListedInv
<1>2. UNCHANGED <<clientLib, serverLib, requests, answers, duplicated, cstate, socket, cmsgs>>
  BY DEF ReapEffect, libraries, clientVars
<1>3. RequestsListed' /\ AnswersListed' /\ duplicated' = {}
  BY <1>1, <1>2 DEF RequestsListed, AnswersListed
<1>4. ChildrenListed'
  BY <1>1, <1>2 DEF ReapEffect, ChildrenListed, NoChild
<1>5. ASSUME NEW d \in Clients PROVE AttemptListed(d)'
  <2>1. ASSUME cstate[d] = "WAIT", OnItsWay(d) PROVE OnItsWay(d)'
    <3>1. <<d, socket[d]>> \in Sockets
      BY <2>1 DEF TypeInv, TypeOK, AttemptsCounted, Sockets
    <3>2. \A i \in Slots : children[<<d, socket[d]>>][i].state \in {"FILENAME", "SEND_DATA"} =>
                             children'[<<d, socket[d]>>][i] = children[<<d, socket[d]>>][i]
      BY <3>1 DEF ReapEffect
    <3> QED BY <1>2, <2>1, <3>2 DEF OnItsWay
  <2> QED BY <1>1, <1>2, <2>1, AttemptKept
<1> QED BY <1>3, <1>4, <1>5 DEF ListedInv

LEMMA NextServed ==
  ASSUME TypeInv, SocketsInv, ServedInv, [Next]_vars
  PROVE  ServedInv'
<1>1. UNCHANGED libraries
  BY ClientSteps DEF Next, AnyChild, Client, Attempt, AnswerArrives, FilenameTimeout,
     FilenameReturns, Server, Receive, Reap, NoneToReap, ForkFails, Child, ChildFilename, ChildSendData, ChildEnds,
     ChildSends, vars
<1>2. SUFFICES ASSUME ListedLossesOnly, ListedInv PROVE ListedInv'
  BY <1>1 DEF ServedInv, ListedLossesOnly, libraries
<1>3. AnswersListed /\ TypeOK
  BY <1>2 DEF ListedInv, TypeInv
<1>4. ASSUME NEW c \in Clients, Client(c) PROVE ListedInv'
  <2>1. CASE Attempt(c)
    BY <1>2, <2>1, AttemptServed
  <2>2. CASE AnswerArrives(c)
    <3>1. cstate[c] = "WAIT" /\ answers[c] # <<>> /\ answers[c] \in Seq(Answers)
      BY <1>3, <2>2 DEF AnswerArrives, TypeOK
    <3>2. 1 \in DOMAIN answers[c] /\ Head(answers[c]) = answers[c][1]
      BY <3>1
    <3>3. /\ Head(answers[c]).ok /\ Head(answers[c]).flag # "FNAME_BAD"
          /\ socket[c] \notin clientLib.drops
      BY <1>3, <3>1, <3>2 DEF AnswersListed
    <3>4. Head(answers[c]) # [flag |-> "FNAME_BAD", ok |-> TRUE]
      BY <3>3
    <3>5. FilenameReturns(c, "FILE_OK")
      BY <2>2, <3>3, <3>4 DEF AnswerArrives
    <3> QED BY <1>2, <3>1, <3>3, <3>5, ReturnServed
  <2>3. CASE FilenameTimeout(c)
    <3>1. cstate[c] = "WAIT" /\ ~UnderWay(c) /\ FilenameReturns(c, "FILENAME")
      BY <1>2, <2>3, ListedReliable DEF FilenameTimeout
    <3>2. socket[c] \in clientLib.drops
      BY <1>2, <3>1, NoTimeout
    <3> QED BY <1>2, <3>1, <3>2, ReturnServed
  <2> QED BY <1>4, <2>1, <2>2, <2>3 DEF Client
<1>5. CASE Receive
  BY <1>2, <1>5, ReceiveServed
<1>6. CASE ForkFails
  BY <1>2, <1>6, ListedReliable DEF ForkFails
<1>7. ASSUME NEW s \in Sockets, NEW i \in Slots, Child(s, i) PROVE ListedInv'
  BY <1>2, <1>7, ChildServed
<1>8. CASE UNCHANGED vars
  <2>1. ASSUME NEW d \in Clients PROVE AttemptListed(d)'
    <3>1. AttemptListed(d) /\ (OnItsWay(d)' <=> OnItsWay(d))
      BY <1>2, <1>8 DEF vars, libraries, clientVars, serverVars, ListedInv, OnItsWay
    <3>2. UNCHANGED <<cstate, socket, cmsgs, clientLib>>
      BY <1>8 DEF vars, libraries, clientVars
    <3> QED BY <3>1, <3>2 DEF AttemptListed
  <2> QED BY <1>2, <1>8, <2>1 DEF vars, libraries, clientVars, serverVars, ListedInv,
             RequestsListed, ChildrenListed, AnswersListed
<1>9. CASE Reap \/ NoneToReap
  BY <1>2, <1>3, <1>9, ReapSteps, ReapServed
<1> QED BY <1>4, <1>5, <1>6, <1>7, <1>8, <1>9, ServerSteps DEF Next, AnyChild

(* While nothing is lost but the messages of the lists, every client is     *)
(* served at its first message that is not in the list.  One that gives up  *)
(* has made its last attempt, and all messages before that one were listed: *)
(* only of the last does filename() throw an answer away.                   *)
THEOREM ServedCorrect == Spec => []ServedAtFirstSent
<1>1. TypeInv /\ SocketsInv /\ ServedInv /\ [Next]_vars => (TypeInv /\ SocketsInv /\ ServedInv)'
  BY NextTypeInv, NextSockets, NextServed
<1>2. Init => ServedInv
  BY InitServed DEF ServedInv
<1>3. ServedInv => ServedAtFirstSent
  BY DEF ServedInv, ListedInv, AttemptListed, ServedAtFirstSent
<1> QED BY <1>1, <1>2, <1>3, InitTypeInv, InitSockets, PTL DEF Spec

=============================================================================
