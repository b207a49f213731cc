---------------------------- MODULE MCConnections ----------------------------
(* The scenarios of the run of Connections.tla: a reliable network, where    *)
(* messages are lost by the lists in the environment, or by the random       *)
(* events of testRandError.sh; and an unreliable one.                        *)
EXTENDS Connections

Clean == [drop |-> Unset, flip |-> Unset, rate |-> Unset]
Random == [drop |-> <<-1>>, flip |-> <<-1>>, rate |-> "sometimes"]
Dropping(list) == [Clean EXCEPT !.drop = list]

Lists == {<<1>>, <<2>>, <<2, 1>>, <<1, Invalid, 2>>}

MCScenarios ==
  [network : {"reliable"}, client : {Dropping(l) : l \in Lists},
   server : {Clean, Dropping(<<1>>)}, rate : {"never"},
   started : {Clients}]
  \cup [network : {"reliable"}, client : {[Clean EXCEPT !.flip = <<2>>]},
        server : {Clean}, rate : {"always"},
        started : {Clients}]
  \cup [network : {"unreliable"}, client : {Random}, server : {Random}, rate : {"never"},
        started : {{CHOOSE c \in Clients : TRUE}}]

=============================================================================
