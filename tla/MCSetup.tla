------------------------------- MODULE MCSetup -------------------------------
(* The configurations of config.txt: as many compute nodes as the machines *)
(* net01 .. net45 allow, and every setting of the network.                 *)
EXTENDS Setup

AllSizes == 0..36
AllReliable == {1, 2}
AllCongested == {0, 1}

=============================================================================
