------------------------------- MODULE MCChat --------------------------------
(* The chat program for TLC.  The properties do not tell the clients or the *)
(* names apart, so either set of model values may be permuted.              *)
EXTENDS Chat, TLC

Symmetry == Permutations(Clients) \cup Permutations(Handles)

=============================================================================
