-------------------------------- MODULE MCMAK --------------------------------
(* Quorums for the model checker, as testbed.cpp's grid assigns them, and  *)
(* how many requests each machine's schedule holds.                        *)
EXTENDS MAKNode

\* Two machines: each has the other in its quorum.
Nodes2 == 1..2
Peers2 == 1 :> <<2>> @@ 2 :> <<1>>

\* Three machines: the grid is 1 2 / 3 and node 1 is in every quorum.
Nodes3 == 1..3
Peers3 == 1 :> <<2, 3>> @@ 2 :> <<1>> @@ 3 :> <<1>>

\* Four machines: the grid is 1 2 / 3 4, each quorum has three members.
Nodes4 == 1..4
Peers4 == 1 :> <<2, 3>> @@ 2 :> <<1, 4>> @@ 3 :> <<1, 4>> @@ 4 :> <<2, 3>>

Once == [n \in Nodes |-> 1]

\* Only the two machines at opposite corners of the grid ask for the section:
\* the other two arbitrate between them and never compete.
Corners == [n \in Nodes |-> IF n \in {1, 4} THEN 1 ELSE 0]

\* One machine asks again, during its section or after it.
SecondTwice == [n \in Nodes |-> IF n = 2 THEN 2 ELSE 1]

\* No switch loses messages; the switch of node 3 does.
Reliable == [n \in Nodes |-> 1]
ThirdUnreliable == [n \in Nodes |-> IF n = 3 THEN 3 ELSE 1]

=============================================================================
