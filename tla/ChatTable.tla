------------------------------ MODULE ChatTable ------------------------------
(***************************************************************************)
(* The chat server's table of connections (Program 2/server.cpp): the two   *)
(* arrays open_sockets and clients as one sequence of entries, num_open and *)
(* num_clients (always changed together) as its length.  A client connects  *)
(* once, so its name stands for the descriptor of its connection.           *)
(***************************************************************************)
EXTENDS Integers, Sequences

CONSTANTS
  Clients,       \* client processes
  Handles,       \* the names they may choose
  NoHandle,      \* the empty string: a connection that has no name yet
  Null,          \* a null pointer in clients, a 0 in open_sockets
  BufferSize     \* 1024 in the code: the entries the arrays have at the start

ASSUME NoHandleAssumption == NoHandle \notin Handles
ASSUME NullAssumption == Null \notin Handles \cup Clients \cup {NoHandle}
ASSUME BufferSizeAssumption == BufferSize \in Nat \ (0..2)

Entries == [fd : Clients \cup {Null}, handle : Handles \cup {NoHandle, Null}]

Connected(t) == {t[i].fd : i \in DOMAIN t}

\* The index of a connection that is in the table.
IndexOf(t, c) == CHOOSE i \in DOMAIN t : t[i].fd = c

\* Mutant: the loop starts one entry late.
AbsentFromSecond(t, h) == \A i \in 2..Len(t) : t[i].handle \notin {h, Null}

\* A search for h goes through the whole table, or ends at the first entry of
\* that name, or at a null name, and there in a crash.
Absent(t, h) == \A i \in DOMAIN t : t[i].handle \notin {h, Null}

EndsAt(t, h, i) ==
  t[i].handle \in {h, Null} /\ \A j \in 1..(i - 1) : t[j].handle \notin {h, Null}

Finds(t, h) == \E i \in DOMAIN t : EndsAt(t, h, i) /\ t[i].handle = h

MeetsNull(t, h) == \E i \in DOMAIN t : EndsAt(t, h, i) /\ t[i].handle = Null

LearnHandle(t, c, h) == [t EXCEPT ![IndexOf(t, c)].handle = h]

\* The name at an index counted from 0: past the table the array holds nulls.
HandleAt(t, i) == IF i + 1 \in DOMAIN t THEN t[i + 1].handle ELSE Null

(* resize() counts in bytes what memcpy() is to copy in entries: of the     *)
(* sockets (4 bytes) a quarter is copied, of the names (8 bytes) an eighth. *)
MustResize(t, capacity) == Len(t) = capacity - 2

Resized(t, capacity) ==
  IF ~MustResize(t, capacity) THEN t
  ELSE [i \in DOMAIN t |->
          [fd |-> IF i <= capacity \div 4 THEN t[i].fd ELSE Null,
           handle |-> IF i <= capacity \div 8 THEN t[i].handle ELSE Null]]

\* Mutants: the last entry is dropped, whichever was closed; only its socket is
\* moved; num_open is not decremented.
DropLast(t, c) == SubSeq(t, 1, Len(t) - 1)

MoveSocketOnly(t, c) ==
  [i \in 1..(Len(t) - 1) |->
     IF i = IndexOf(t, c) THEN [t[i] EXCEPT !.fd = t[Len(t)].fd] ELSE t[i]]

KeepLast(t, c) == [i \in DOMAIN t |-> IF i = IndexOf(t, c) THEN t[Len(t)] ELSE t[i]]

\* The last entry takes the place of the closed one; its name is copied.
CloseConnection(t, c) ==
  [i \in 1..(Len(t) - 1) |-> IF i = IndexOf(t, c) THEN t[Len(t)] ELSE t[i]]

CopiesNull(t, c) == t[Len(t)].handle = Null /\ IndexOf(t, c) # Len(t)

=============================================================================
