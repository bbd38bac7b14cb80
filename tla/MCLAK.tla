-------------------------------- MODULE MCLAK --------------------------------
(* Quorums for the model checker, as testbed.cpp's grid assigns them, and  *)
(* how many requests each machine's schedule holds.                        *)
EXTENDS LAKNode

\* Two machines: each has the other in its quorum.
Nodes2 == 1..2
Peers2 == 1 :> <<2>> @@ 2 :> <<1>>

\* Four machines: the grid is 1 2 / 3 4, and 4 does not know at first who has the
\* token.
Nodes4 == 1..4
Peers4 == 1 :> <<2, 3>> @@ 2 :> <<1, 4>> @@ 3 :> <<1, 4>> @@ 4 :> <<2, 3>>

\* Five machines without the last, which asks for nothing: the grid is 1 2 3 / 4 6,
\* 3 is in the quorums of 1 and of 2, and 4 in that of 1 alone.
Peers5 == 1 :> <<2, 3, 4>> @@ 2 :> <<1, 3>> @@ 3 :> <<1, 2>> @@ 4 :> <<1>>

\* Enough requests for numbers of two digits.
Twelve == [n \in Nodes |-> 12]

\* Everyone but the first holder asks once.
Others1 == [n \in Nodes |-> IF n = 1 THEN 0 ELSE 1]

\* The two peers of the first holder.
PeersOfFirst == [n \in Nodes |-> IF n \in {2, 3} THEN 1 ELSE 0]

\* The first holder, who may come back during its section or after it, and one of
\* its peers.
FirstTwice == [n \in Nodes |-> CASE n = 1 -> 2 [] n = 2 -> 1 [] OTHER -> 0]

\* Every switch has the same net_status.
Reliable == [n \in Nodes |-> 1]

=============================================================================
