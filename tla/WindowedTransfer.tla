-------------------------- MODULE WindowedTransfer --------------------------
(***************************************************************************)
(* What the sliding-window protocol promises, with no packets, timers or    *)
(* buffers: the chunks of a file are released by the sender, delivered in   *)
(* order exactly once, and acknowledged, never more than Window of them     *)
(* ahead of the acknowledgements; and each end that declares the transfer   *)
(* complete is right.                                                       *)
(***************************************************************************)
EXTENDS Integers, Sequences

CONSTANTS Chunks, Width   \* chunks of the file, chunks that may be outstanding

VARIABLES
  sent,       \* chunks released by the sender
  output,     \* chunks delivered by the receiver, in order
  acked,      \* chunks the sender knows to be delivered
  received,   \* the receiver knows the file to be complete
  confirmed   \* the sender knows the receiver to know it

transferVars == <<sent, output, acked, received, confirmed>>

TransferInit ==
  sent = 0 /\ output = <<>> /\ acked = 0 /\ received = FALSE /\ confirmed = FALSE

Release ==
  /\ sent < Chunks /\ sent - acked < Width
  /\ sent' = sent + 1
  /\ UNCHANGED <<output, acked, received, confirmed>>

Deliver ==
  /\ ~received
  /\ \E n \in Len(output)..sent : output' = output \o [i \in 1..(n - Len(output)) |-> Len(output) + i]
  /\ UNCHANGED <<sent, acked, received, confirmed>>

Acknowledge ==
  /\ ~confirmed
  /\ \E n \in acked..Len(output) : acked' = n
  /\ UNCHANGED <<sent, output, received, confirmed>>

Complete ==
  /\ Len(output) = Chunks /\ acked = Chunks
  /\ received' = TRUE
  /\ UNCHANGED <<sent, output, acked, confirmed>>

Confirm ==
  /\ received
  /\ confirmed' = TRUE
  /\ UNCHANGED <<sent, output, acked, received>>

TransferNext == Release \/ Deliver \/ Acknowledge \/ Complete \/ Confirm

TransferSpec == TransferInit /\ [][TransferNext]_transferVars

=============================================================================
