------------------------------- MODULE Window -------------------------------
(***************************************************************************)
(* The sliding window of Program3/RemoteCopy/window.c, used by the sender   *)
(* (bottom: oldest unacknowledged, middle: next to send) and the receiver   *)
(* (bottom: next to write, middle: first hole).  A window is a record; the  *)
(* buffer and the valid flags are rings of WindowSize slots.                *)
(***************************************************************************)
EXTENDS Packet

CONSTANT WindowSize   \* rcopy's window_size argument; the server is told it

ASSUME WindowSizeAssumption == WindowSize \in Nat \ {0}

Slots == 0..(WindowSize - 1)

\* The slot of a sequence number; sequence numbers start at 1.
Index(seq) == (seq - 1) % WindowSize

Windows == [bottom : Nat, middle : Nat, top : Nat,
            buffer : [Slots -> Packets \cup {NoPacket}],
            valid : [Slots -> BOOLEAN]]

InitWindow == [bottom |-> 1, middle |-> 1, top |-> WindowSize,
               buffer |-> [i \in Slots |-> NoPacket],
               valid |-> [i \in Slots |-> FALSE]]

\* Mutant: one packet more than the window holds.
IsClosedLate(w) == w.middle > w.top + 1

IsClosed(w) == w.middle > w.top

IsInWindow(w, seq) == w.bottom <= seq /\ seq <= w.top

IsValid(w, seq) == w.valid[Index(seq)]

\* Mutant: only the bottom slot is looked at.
EmptyBufferBottomOnly(w) == ~IsValid(w, w.bottom)

EmptyBuffer(w) == \A seq \in w.bottom..w.top : ~IsValid(w, seq)

\* Mutant: sequence numbers taken to start at 0 when storing.
AddToBufferFromZero(w, p) == [w EXCEPT !.buffer[p.seq % WindowSize] = p,
                                       !.valid[p.seq % WindowSize] = TRUE]

AddToBuffer(w, p) == [w EXCEPT !.buffer[Index(p.seq)] = p,
                               !.valid[Index(p.seq)] = TRUE]

\* The packet of a slot, whatever the slot holds: the valid flag is not read.
GetFromBuffer(w, seq) == w.buffer[Index(seq)]

\* The valid flags once the slots of a range of sequence numbers are released.
Released(w, seqs) ==
  [i \in Slots |-> w.valid[i] /\ ~\E seq \in seqs : Index(seq) = i]

\* remove_from_buffer() of every number in seqs: only the flags change.
RemoveFromBuffer(w, seqs) == [w EXCEPT !.valid = Released(w, seqs)]

Slide(w, newBottom) ==
  [w EXCEPT !.bottom = newBottom,
            !.middle = IF w.middle < newBottom THEN newBottom ELSE w.middle,
            !.top = newBottom + WindowSize - 1,
            !.valid = Released(w, w.bottom..(newBottom - 1))]

\* The first number of the window whose slot is not valid; top + 1 if none.
IsFirstHole(w, m) ==
  /\ m \in w.bottom..(w.top + 1)
  /\ \A seq \in w.bottom..(m - 1) : IsValid(w, seq)
  /\ m <= w.top => ~IsValid(w, m)

=============================================================================
