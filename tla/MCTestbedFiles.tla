---------------------------- MODULE MCTestbedFiles ----------------------------
(* Reading config.txt does not look at the logs and reading the logs does not *)
(* look at config.txt: every short config.txt comes with one pair of logs,    *)
(* and every pair of short logs with one config.txt.                          *)
EXTENDS TestbedFiles

\* Between the two there is a switch.
TwoNodes == {4, 5}

MaxLines == 4
MaxRecords == 2

Configs == UNION {[1..k -> ConfigLine] : k \in 1..MaxLines}
ShortRecord == [control : BOOLEAN, split : BOOLEAN, length : 1..2]
Log == UNION {[1..k -> ShortRecord] : k \in 0..MaxRecords}
AMessage == [control |-> FALSE, split |-> FALSE, length |-> 2]

ShortFiles ==
  [config_txt : Configs, terminated : BOOLEAN, logs : {[m \in Machines |-> <<AMessage>>]}]
  \cup [config_txt : {<<Start, End>>}, terminated : {TRUE}, logs : [Machines -> Log]]

=============================================================================
