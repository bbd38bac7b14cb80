-------------------------------- MODULE Setup --------------------------------
(***************************************************************************)
(* How src/testbed.cpp prepares a test: it lays the compute nodes out in a *)
(* square grid, makes the quorum of each from its row and its column,      *)
(* writes the quorum files and the configuration files under the machines' *)
(* numbers, and contacts the listening servers one by one.  On the         *)
(* machines net01 .. net45 every fifth is a switch and the others are      *)
(* compute nodes: trans maps the index of a node to its machine.  One      *)
(* process runs the steps; the configuration is the input.                 *)
(***************************************************************************)
EXTENDS Integers, Sequences, FiniteSets

CONSTANTS
  Sizes,        \* the values of num_nodes
  Reliable,     \* the values of net_reliable
  Congested     \* the values of net_congested

ASSUME SizesAssumption == Sizes \subseteq Nat
ASSUME NetAssumption == Reliable \subseteq Nat /\ Congested \subseteq {0, 1}

VARIABLES
  num_nodes, reliable, congested,   \* config.txt
  pc,             \* what main does next
  row, col,       \* the cell of the grid whose quorum is made next
  quorum_list,    \* the quorums so far
  quorum_file,    \* machine -> the machines its quorum file lists
  config_file,    \* switch -> the net_status in its config file
  count, current, \* contact_servers: nodes still to count, machine to contact next
  contacted       \* the machines whose listening server has been contacted

inputVars == <<num_nodes, reliable, congested>>
gridVars == <<row, col, quorum_list>>
fileVars == <<quorum_file, config_file>>
contactVars == <<count, current, contacted>>
vars == <<inputVars, pc, gridVars, fileVars, contactVars>>

-----------------------------------------------------------------------------
(* The grid.                                                               *)

\* The side of the smallest square with n cells.
Side(n) == CHOOSE k \in 1..(n + 1) : k * k >= n /\ \A j \in 1..(k - 1) : j * j < n

\* myMatrix: the nodes fill the square row by row; cells above n stay empty.
\* Faulty form: the rows overlap.
Overlapping(n, k, r, c) == r * (k - 1) + c + 1
Cell(n, k, r, c) == r * k + c + 1

\* Empty cells hold -1 and are left out.
Filled(n, S) == {x \in S : x <= n}

\* The nodes in the row and in the column of a cell.  Faulty form: the row alone.
RowOnly(n, k, r, c) == Filled(n, {Cell(n, k, r, i) : i \in 0..(k - 1)})
Members(n, k, r, c) ==
  Filled(n, {Cell(n, k, r, i) : i \in 0..(k - 1)} \cup {Cell(n, k, i, c) : i \in 0..(k - 1)})

\* trans[i]: the i-th machine that is not a switch.
Trans(i) == CHOOSE m \in 1..45 : m % 5 # 0 /\ Cardinality({x \in 1..m : x % 5 # 0}) = i

\* The switch of a compute node (NodeNetwork::init).
SwitchOf(m) == 5 * (m \div 5 + 1)

-----------------------------------------------------------------------------
Init ==
  /\ num_nodes \in Sizes /\ reliable \in Reliable /\ congested \in Congested
  /\ pc = "assign"
  /\ row = 0 /\ col = 0
  /\ quorum_list = <<>>
  /\ quorum_file = <<>> /\ config_file = <<>>
  /\ count = num_nodes /\ current = 1
  /\ contacted = {}

\* QuorumAssignment, the quorum of one cell.  When all nodes have one, only the
\* loop over the row is left.
AssignQuorum ==
  /\ pc = "assign" /\ row < Side(num_nodes)
  /\ \/ /\ Len(quorum_list) = num_nodes
        /\ row' = row + 1 /\ col' = 0
        /\ UNCHANGED quorum_list
     \/ /\ Len(quorum_list) # num_nodes
        /\ quorum_list' = Append(quorum_list,
             [id |-> Cell(num_nodes, Side(num_nodes), row, col),
              quorum_members |-> Members(num_nodes, Side(num_nodes), row, col)])
        /\ IF col + 1 = Side(num_nodes) THEN row' = row + 1 /\ col' = 0
                                        ELSE row' = row /\ col' = col + 1
  /\ UNCHANGED <<inputVars, pc, fileVars, contactVars>>

\* The quorum files carry the machines' numbers.  Faulty form: the indices.
Untranslated ==
  [m \in {Trans(quorum_list[i].id) : i \in DOMAIN quorum_list} |->
     UNION {quorum_list[i].quorum_members : i \in {x \in DOMAIN quorum_list : Trans(quorum_list[x].id) = m}}]
QuorumFiles ==
  [m \in {Trans(quorum_list[i].id) : i \in DOMAIN quorum_list} |->
     UNION {{Trans(x) : x \in quorum_list[i].quorum_members} :
              i \in {x \in DOMAIN quorum_list : Trans(quorum_list[x].id) = m}}]

WriteQuorums ==
  /\ pc = "assign" /\ row = Side(num_nodes)
  /\ pc' = "config"
  /\ quorum_file' = QuorumFiles
  /\ UNCHANGED <<inputVars, gridVars, config_file, contactVars>>

\* The net_status in every switch's config file.  c.reliable is assigned 0 where
\* it was meant to be compared, so that 3 is never written.
NetStatusOf(cong) == IF cong = 1 THEN 2 ELSE 1
Switches == {m \in 1..45 : m % 5 = 0}

WriteConfig ==
  /\ pc = "config"
  /\ pc' = "contact"
  /\ config_file' = [m \in Switches |-> NetStatusOf(congested)]
  /\ UNCHANGED <<inputVars, gridVars, quorum_file, contactVars>>

\* The loop of contact_servers: only compute nodes are counted.
ContactNext ==
  /\ pc = "contact" /\ count # 0
  /\ count' = IF current % 5 # 0 THEN count - 1 ELSE count
  /\ contacted' = contacted \cup {current}
  /\ current' = current + 1
  /\ UNCHANGED <<inputVars, pc, gridVars, fileVars>>

\* The switch after the last compute node.
LastSwitch(m) == IF m % 5 # 0 THEN m + 5 - (m % 5) ELSE m

ContactLast ==
  /\ pc = "contact" /\ count = 0
  /\ pc' = "done"
  /\ current' = LastSwitch(current)
  /\ contacted' = contacted \cup {LastSwitch(current)}
  /\ UNCHANGED <<inputVars, gridVars, fileVars, count>>

Next == AssignQuorum \/ WriteQuorums \/ WriteConfig \/ ContactNext \/ ContactLast

Spec == Init /\ [][Next]_vars

-----------------------------------------------------------------------------
(* Properties.                                                             *)

Ids(i) == quorum_list[i].quorum_members

\* Any two quorums have a member in common, also when the last rows of the grid
\* are not full: the property both algorithms rest on.
QuorumsIntersect == \A i, j \in DOMAIN quorum_list : Ids(i) \cap Ids(j) # {}

\* The n-th quorum is node n's, node n belongs to it, and membership is mutual: a
\* node hears of every node that it tells (RELEASE, RECEIVE and the answers of
\* both algorithms go back along the same quorums).
QuorumsMutual ==
  \A i \in DOMAIN quorum_list :
    /\ quorum_list[i].id = i /\ i \in Ids(i)
    /\ \A j \in DOMAIN quorum_list : j \in Ids(i) <=> i \in Ids(j)

\* When the test starts, exactly the compute nodes that have a quorum file have
\* been contacted, the files list such nodes only, and each node's switch has
\* been contacted too and has a config file.  No other switch has: every one that is
\* contacted serves some compute node of the test, unless the test has none.
ReadyToStart ==
  pc = "done" =>
    /\ {m \in contacted : m % 5 # 0} = DOMAIN quorum_file
    /\ Cardinality(DOMAIN quorum_file) = num_nodes
    /\ \A m \in DOMAIN quorum_file :
         /\ quorum_file[m] \subseteq DOMAIN quorum_file
         /\ SwitchOf(m) \in contacted \cap DOMAIN config_file
    /\ num_nodes > 0 =>
         {m \in contacted : m % 5 = 0} = {SwitchOf(m) : m \in DOMAIN quorum_file}

=============================================================================
