---------------------------- MODULE MCRemoteCopy ----------------------------
(* The sets of faults the runs of RemoteCopy.tla choose from.               *)
EXTENDS RemoteCopyInvariant

NoFaults == {}
AllFaults == FaultKinds
LossesAndFlips == {"drop", "flip", "delay"}
DropsOnly == {"drop"}

=============================================================================
