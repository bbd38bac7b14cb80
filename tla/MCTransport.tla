----------------------------- MODULE MCTransport -----------------------------
(* Two machines, each in the quorum of the other: one with whole messages and *)
(* a reliable switch, one whose stream may be cut and whose switch drops.     *)
EXTENDS Transport, TLC

Nodes2 == 1..2
Peers2 == 1 :> <<2>> @@ 2 :> <<1>>
OneUnreliable == 1 :> 1 @@ 2 :> 3
TwoAndOne == 1 :> 2 @@ 2 :> 1
Control == {255}

=============================================================================
