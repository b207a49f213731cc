---------------------------- MODULE Connections ----------------------------
(***************************************************************************)
(* How connections of the remote copy begin (Program3/RemoteCopy): several  *)
(* rcopy processes, each with its attempts to reach the server (main() and  *)
(* filename() of rcopy.c), the server's main loop that forks a child for    *)
(* every FNAME packet and reaps the ones that ended (main() of server.c),   *)
(* and the children up to their first packets (filename() of server.c).     *)
(* What follows an answer is RemoteCopy: here a served client does nothing  *)
(* more, and its child only ends.  Every process sends through its own copy *)
(* of the error library.                                                    *)
(***************************************************************************)
EXTENDS ErrorInjection, FiniteSets, FiniteSetsExt

CONSTANTS
  Clients,         \* rcopy processes
  MaxSelects,      \* 9 in the code: the attempts a client makes but one
  Burst,           \* the packets of a child that matter to a waiting client
  MaxDuplicates,   \* FNAME packets the network delivers twice
  Scenarios        \* see Init: the network, both environments, the argument errorRate,
                   \* and the clients that are started

ASSUME MaxSelectsAssumption == MaxSelects \in Nat
ASSUME BurstAssumption == Burst \in Nat \ {0}
ASSUME MaxDuplicatesAssumption == MaxDuplicates \in Nat
ASSUME ClientsAssumption == IsFiniteSet(Clients)
ASSUME ScenariosAssumption ==
  \A s \in Scenarios :
    /\ s.network \in {"reliable", "unreliable"} /\ s.rate \in Rates
    /\ \A env \in {s.client, s.server} :
         /\ env.rate \in Rates \cup {Unset}
         /\ env.drop \in {Unset} \cup Seq(Int \cup {Invalid})

VARIABLES
  network,      \* "reliable", or what UDP allows; chosen once
  clientLib,    \* the library of every client, after sendErr_init()
  serverLib,    \* the library of the server, which its children inherit
  requests,     \* FNAME packets under way to the server's main socket
  answers,      \* packets under way to each client's open socket
  cstate,       \* main()'s state, WAIT for filename() in its select(1)
  selects,      \* select_count
  socket,       \* the number of the socket the client opened last
  cmsgs,        \* the client's m_MsgNo: the messages it has sent
  parent,       \* where the server's main loop is, or that it exited
  children,     \* by the client's address they serve: the children that hold a
                \* process entry
  duplicated,   \* history: sockets whose FNAME was delivered twice
  peak          \* history: the most children that ran at once

libraries == <<network, clientLib, serverLib>>
clientVars == <<cstate, selects, socket, cmsgs>>
serverVars == <<parent, children, duplicated, peak>>
vars == <<libraries, requests, answers, clientVars, serverVars>>

ClientStates == {"NOT_STARTED", "FILENAME", "WAIT", "FILE_OK", "DONE"}
ChildStates == {"NONE", "FILENAME", "SEND_DATA", "ZOMBIE"}

\* A client opens a new socket for each attempt: its address is a pair.
Sockets == Clients \X (1..(MaxSelects + 1))

\* A socket sends one FNAME, which is delivered at most twice: a child for each.
Slots == 1..2

Requests == [from : Sockets, ok : BOOLEAN]
Answers == [flag : {"FNAME_OK", "FNAME_BAD", "DATA"}, ok : BOOLEAN]
Children == [state : ChildStates, msgs : Nat]
NoChild == [state |-> "NONE", msgs |-> 0]

Init ==
  /\ \E s \in Scenarios :
       /\ network = s.network
       /\ clientLib = Library(s.client, s.rate)
       /\ serverLib = Library(s.server, s.rate)
       /\ cstate = [c \in Clients |-> IF c \in s.started THEN "FILENAME" ELSE "NOT_STARTED"]
  /\ requests = <<>> /\ answers = [c \in Clients |-> <<>>]
  /\ selects = [c \in Clients |-> 0]
  /\ socket = [c \in Clients |-> 0] /\ cmsgs = [c \in Clients |-> 0]
  /\ parent = "select" /\ duplicated = {} /\ peak = 0
  /\ children = [s \in Sockets |-> [i \in Slots |-> NoChild]]

Unreliable == network = "unreliable"

Processes(kids) == {x \in Sockets \X Slots : kids[x[1]][x[2]].state # "NONE"}
Running(kids) == {x \in Processes(kids) : kids[x[1]][x[2]].state # "ZOMBIE"}

\* The socket of the attempt a client waits in: what arrives at an older one is
\* gone, what arrives after the answer is RemoteCopy's.
IsAwaited(s) == s[2] = socket[s[1]] /\ cstate[s[1]] = "WAIT"

Damaged(p) == [p EXCEPT !.ok = FALSE]

\* The channels that message n of a process leaves when it sends p on ch.
Sent(lib, n, ch, p) ==
  {ch : x \in Outcomes(lib, n) \cap {"drop"}}
    \cup {Append(ch, p) : x \in Outcomes(lib, n) \cap {"send"}}
    \cup {Append(ch, Damaged(p)) : x \in Outcomes(lib, n) \cap {"flip"}}
    \cup {ch : x \in {network} \cap {"unreliable"}}

-----------------------------------------------------------------------------
\* Mutant: the socket of a failed attempt is used again.
AttemptSameSocket(c) ==
  /\ cstate[c] = "FILENAME"
  /\ \/ /\ cmsgs' = [cmsgs EXCEPT ![c] = @ + 1]
        /\ socket' = [socket EXCEPT ![c] = 1]
        /\ requests' \in Sent(clientLib, cmsgs[c] + 1, requests,
                              [from |-> <<c, 1>>, ok |-> TRUE])
        /\ cstate' = [cstate EXCEPT ![c] = "WAIT"]
     \/ /\ Unreliable
        /\ cstate' = [cstate EXCEPT ![c] = "DONE"]
        /\ UNCHANGED <<requests, socket, cmsgs>>
  /\ UNCHANGED <<libraries, answers, selects, serverVars>>

\* udp_client_setup() and filename() up to its select(): a new socket, and FNAME.
Attempt(c) ==
  /\ cstate[c] = "FILENAME"
  /\ \/ /\ cmsgs' = [cmsgs EXCEPT ![c] = @ + 1]
        /\ socket' = [socket EXCEPT ![c] = @ + 1]
        /\ requests' \in Sent(clientLib, cmsgs[c] + 1, requests,
                              [from |-> <<c, socket[c] + 1>>, ok |-> TRUE])
        /\ cstate' = [cstate EXCEPT ![c] = "WAIT"]
     \/ /\ Unreliable   \* the host is not found
        /\ cstate' = [cstate EXCEPT ![c] = "DONE"]
        /\ UNCHANGED <<requests, socket, cmsgs>>
  /\ UNCHANGED <<libraries, answers, selects, serverVars>>

\* Mutant: one attempt more.
FilenameReturnsLate(c, next) ==
  LET over == selects[c] > MaxSelects
  IN  /\ selects' = [selects EXCEPT ![c] = @ + 1]
      /\ cstate' = [cstate EXCEPT ![c] = IF over THEN "DONE" ELSE next]
      /\ answers' = [answers EXCEPT ![c] = <<>>]
      /\ UNCHANGED <<libraries, requests, socket, cmsgs, serverVars>>

(* main() after filename() returned next: the count of attempts is raised   *)
(* and compared whatever it was, and overrides an answer too.               *)
FilenameReturns(c, next) ==
  LET over == selects[c] + 1 > MaxSelects
  IN  /\ selects' = [selects EXCEPT ![c] = @ + 1]
      /\ cstate' = [cstate EXCEPT ![c] = IF over THEN "DONE" ELSE next]
      /\ answers' = [answers EXCEPT ![c] = <<>>]
      /\ UNCHANGED <<libraries, requests, socket, cmsgs, serverVars>>

\* A packet fails deconstruct(), says FNAME_BAD, or is taken for FNAME_OK.
AnswerArrives(c) ==
  /\ cstate[c] = "WAIT"
  /\ answers[c] # <<>>
  /\ FilenameReturns(c, CASE ~Head(answers[c]).ok -> "FILENAME"
                          [] Head(answers[c]) = [flag |-> "FNAME_BAD", ok |-> TRUE] -> "DONE"
                          [] OTHER -> "FILE_OK")

\* Some packet of this attempt is on its way, or about to be sent.
UnderWay(c) ==
  \/ answers[c] # <<>>
  \/ \E i \in DOMAIN requests : requests[i].from = <<c, socket[c]>>
  \/ \E i \in Slots :
       LET kid == children[<<c, socket[c]>>][i]
       IN  kid.state \in {"FILENAME", "SEND_DATA"} /\ kid.msgs < Burst

\* Mutant: filename() waits again without sending again.
FilenameTimeoutWaits(c) ==
  /\ cstate[c] = "WAIT"
  /\ ~UnderWay(c) \/ Unreliable
  /\ UNCHANGED vars

\* A second without an answer: the socket is closed.
FilenameTimeout(c) ==
  /\ cstate[c] = "WAIT"
  /\ ~UnderWay(c) \/ Unreliable
  /\ FilenameReturns(c, "FILENAME")

-----------------------------------------------------------------------------
\* The slot of a new child.
FreeSlot(kids, from) == CHOOSE i \in Slots : kids[from][i].state = "NONE"

\* Mutant: the children go on counting the messages of one another.
ForkSharedCount(kids, from) ==
  [kids EXCEPT ![from][FreeSlot(kids, from)] =
     [state |-> "FILENAME", msgs |-> Cardinality(Processes(kids))]]

\* The child has the parent's library; the parent itself never sends.
Fork(kids, from) ==
  [kids EXCEPT ![from][FreeSlot(kids, from)] = [state |-> "FILENAME", msgs |-> 0]]

\* Mutant: waitpid() is called only after a packet that forked none.
ReceiveReapsElsewhere ==
  /\ parent = "select" /\ requests # <<>>
  /\ requests' = Tail(requests)
  /\ IF Head(requests).ok
     THEN children' = Fork(children, Head(requests).from) /\ UNCHANGED parent
     ELSE parent' = "reap" /\ UNCHANGED children
  /\ peak' = Max({peak, Cardinality(Running(children'))})
  /\ UNCHANGED <<libraries, answers, clientVars, duplicated>>

(* recv_packet() and fork() of the server's main loop: a packet that is not *)
(* corrupt gets a child, whoever sent it.  Children that ended still have   *)
(* their entries then.  An unreliable network may deliver the packet again. *)
Receive ==
  /\ parent = "select" /\ requests # <<>>
  /\ \/ requests' = Tail(requests) /\ UNCHANGED duplicated
     \/ /\ Unreliable /\ Head(requests).from \notin duplicated
        /\ Cardinality(duplicated) < MaxDuplicates
        /\ duplicated' = duplicated \cup {Head(requests).from}
        /\ UNCHANGED requests
  /\ children' = IF Head(requests).ok THEN Fork(children, Head(requests).from) ELSE children
  /\ parent' = "reap"
  /\ peak' = Max({peak, Cardinality(Running(children'))})
  /\ UNCHANGED <<libraries, answers, clientVars>>

\* fork() fails and the server exits, before it reaps anything.
ForkFails ==
  /\ Unreliable /\ parent = "select" /\ requests # <<>>
  /\ Head(requests).ok
  /\ parent' = "exited" /\ requests' = <<>>
  /\ UNCHANGED <<libraries, answers, clientVars, children, duplicated, peak>>

\* waitpid() returns some child that ended, or there is none and the loop goes on.
Reap ==
  /\ parent = "reap"
  /\ \E x \in Processes(children) \ Running(children) :
       children' = [children EXCEPT ![x[1]][x[2]] = NoChild]
  /\ UNCHANGED <<libraries, requests, answers, clientVars, parent, duplicated, peak>>

NoneToReap ==
  /\ parent = "reap" /\ Processes(children) = Running(children)
  /\ parent' = "select"
  /\ UNCHANGED <<libraries, requests, answers, clientVars, children, duplicated, peak>>

\* Child i of address s sends its next message to it.
ChildSends(s, i, flag, next) ==
  LET n == children[s][i].msgs + 1
  IN  /\ children' = [children EXCEPT ![s][i] = [state |-> next, msgs |-> n]]
      /\ IF IsAwaited(s)
         THEN \E ch \in Sent(serverLib, n, answers[s[1]], [flag |-> flag, ok |-> TRUE]) :
                answers' = [answers EXCEPT ![s[1]] = ch]
         ELSE UNCHANGED answers
      /\ UNCHANGED <<libraries, requests, clientVars, parent, duplicated, peak>>

\* filename(): the source file is there, or not.
ChildFilename(s, i) ==
  /\ children[s][i].state = "FILENAME"
  /\ \/ ChildSends(s, i, "FNAME_OK", "SEND_DATA")
     \/ Unreliable /\ ChildSends(s, i, "FNAME_BAD", "ZOMBIE")

\* The copy itself (FileServer): the packets a client still waiting may take.
ChildSendData(s, i) ==
  /\ children[s][i].state = "SEND_DATA" /\ children[s][i].msgs < Burst
  /\ IsAwaited(s)
  /\ ChildSends(s, i, "DATA", "SEND_DATA")

\* process_client() returns and the child exits; it gives up only after ten
\* nudges, when a reliable client is no longer waiting.
ChildEnds(s, i) ==
  /\ children[s][i].state = "SEND_DATA"
  /\ Unreliable \/ ~IsAwaited(s)
  /\ children' = [children EXCEPT ![s][i] = [state |-> "ZOMBIE", msgs |-> @.msgs]]
  /\ UNCHANGED <<libraries, requests, answers, clientVars, parent, duplicated, peak>>

-----------------------------------------------------------------------------
Client(c) ==
  Attempt(c) \/ AnswerArrives(c) \/ FilenameTimeout(c)

Child(s, i) == ChildFilename(s, i) \/ ChildSendData(s, i) \/ ChildEnds(s, i)

AnyChild == \E s \in Sockets, i \in Slots : Child(s, i)

Server == Receive \/ Reap \/ NoneToReap

Next ==
  \/ \E c \in Clients : Client(c)
  \/ Server \/ ForkFails
  \/ AnyChild

Spec == Init /\ [][Next]_vars

(* A process that can run does, and a select() with a timeout returns.      *)
Fairness ==
  /\ \A c \in Clients : WF_vars(Client(c))
  /\ WF_vars(Server) /\ WF_vars(AnyChild)

FairSpec == Spec /\ Fairness

-----------------------------------------------------------------------------
\* Every variable has the type the code gives it.
TypeOK ==
  /\ network \in {"reliable", "unreliable"}
  /\ clientLib \in Libraries /\ serverLib \in Libraries
  /\ requests \in Seq(Requests) /\ answers \in [Clients -> Seq(Answers)]
  /\ cstate \in [Clients -> ClientStates] /\ selects \in [Clients -> 0..(MaxSelects + 1)]
  /\ socket \in [Clients -> 0..(MaxSelects + 1)] /\ cmsgs \in [Clients -> Nat]
  /\ parent \in {"select", "reap", "exited"} /\ children \in [Sockets -> [Slots -> Children]]
  /\ duplicated \subseteq Sockets /\ peak \in Nat

(* Two children send to the same socket only if the network delivered one   *)
(* FNAME twice: rcopy.c:59 gets a new socket for every attempt so that the   *)
(* child of a failed one cannot reach it.                                   *)
OneChildPerSocket ==
  \A x, y \in Running(children) : x[1] = y[1] /\ x # y => x[1] \in duplicated

(* An answer to FNAME under way is intact: it is its process's first        *)
(* message, which no random error hits, for the parent sends nothing and    *)
(* every child counts from its fork.  RemoteCopy relies on it (Flippable).  *)
FirstAnswerIntact ==
  \A c \in Clients : \A i \in DOMAIN answers[c] :
    answers[c][i].flag \in {"FNAME_OK", "FNAME_BAD"} => answers[c][i].ok

\* Nothing is lost but the messages of the lists, and not all of a child's.
ListedLossesOnly ==
  /\ network = "reliable" /\ clientLib.rate = "never" /\ serverLib.rate = "never"
  /\ ~(1..Burst \subseteq serverLib.drops)

(* A client whose attempts meet nothing but the list of messages to drop is *)
(* served at the first message that is not in the list, and gives up only   *)
(* after its last attempt, when all messages before that one are in the     *)
(* list; the last may be answered all the same (rcopy.c:70).                *)
ServedAtFirstSent ==
  ListedLossesOnly =>
    \A c \in Clients :
      /\ cstate[c] = "FILE_OK" => 1..(socket[c] - 1) \subseteq clientLib.drops
                                    /\ socket[c] \notin clientLib.drops
      /\ cstate[c] = "DONE" => 1..MaxSelects \subseteq clientLib.drops
                                 /\ socket[c] = MaxSelects + 1

(* The children that hold an entry of the process table, zombies included,  *)
(* are never more than ran at once at some time, and one more only from a   *)
(* fork() (server.c:78) until waitpid() (server.c:90) has taken those that  *)
(* ended: they do not pile up, though the server reaps only after it        *)
(* received a packet.                                                       *)
ProcessesBounded ==
  Cardinality(Processes(children)) <= peak + (IF parent = "reap" THEN 1 ELSE 0)

(* Every client gets an answer or gives up, whatever the network, the       *)
(* library and the server do.                                               *)
ClientsServedOrEnded ==
  \A c \in Clients : <>(cstate[c] \in {"FILE_OK", "DONE", "NOT_STARTED"})

=============================================================================
