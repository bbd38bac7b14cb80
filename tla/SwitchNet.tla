------------------------------ MODULE SwitchNet ------------------------------
(***************************************************************************)
(* The star network between the nodes.  A node hands a message to its      *)
(* Socket, whose send thread writes the queue to the switch in order; one  *)
(* switch process per node reads that stream, and forwards one message     *)
(* after the other, each over a fresh connection, to the accept thread of  *)
(* the destination, which appends it to the destination's m_message_queue. *)
(* outq[n] is everything n has sent and its switch has not handled yet;    *)
(* mailbox[n] is m_message_queue.                                          *)
(***************************************************************************)
EXTENDS Integers, Sequences, FiniteSets

CONSTANTS
  Nodes,      \* the ids of the compute nodes
  Peers,      \* Peers[n]: quorum_set of n without n, in the order std::set iterates it
  NetStatus   \* NetStatus[n]: net_status of n's switch: 1 reliable, 2 congested, 3 unreliable

ASSUME NodesAssumption == Nodes \subseteq Nat \ {0}

ASSUME PeersAssumption ==
  /\ Peers \in [Nodes -> Seq(Nodes)]
  /\ \A n \in Nodes : \A i \in 1..Len(Peers[n]) :
       /\ Peers[n][i] # n
       /\ \A j \in 1..(i-1) : Peers[n][j] < Peers[n][i]

ASSUME NetStatusAssumption == NetStatus \in [Nodes -> {1, 2, 3}]

VARIABLES
  outq,       \* outq[n]: sequence of [to, msg], sent by n and not yet forwarded
  mailbox     \* mailbox[n]: messages waiting for n's run loop

netVars == <<outq, mailbox>>

NetInit ==
  /\ outq = [n \in Nodes |-> <<>>]
  /\ mailbox = [n \in Nodes |-> <<>>]

PeerSet(n) == {Peers[n][i] : i \in 1..Len(Peers[n])}

To(t, m) == <<[to |-> t, msg |-> m]>>

\* The loop over quorum_set that skips node_id and sends m to everyone else.
\* Faulty form: quorum_set is taken for all nodes.
ToAll(n, m) ==
  LET others == CHOOSE s \in [1..(Cardinality(Nodes) - 1) -> Nodes \ {n}] :
                  \A i, j \in DOMAIN s : i < j => s[i] < s[j]
  IN  [i \in DOMAIN others |-> [to |-> others[i], msg |-> m]]
ToPeers(n, m) == [i \in 1..Len(Peers[n]) |-> [to |-> Peers[n][i], msg |-> m]]

\* n consumes the head of its mailbox and sends the messages of the sequence s.
Consume(n, s) ==
  /\ mailbox[n] # <<>>
  /\ mailbox' = [mailbox EXCEPT ![n] = Tail(@)]
  /\ outq' = [outq EXCEPT ![n] = @ \o s]

\* n sends s of its own accord: its mailbox is not touched.
Emit(n, s) ==
  /\ outq' = [outq EXCEPT ![n] = @ \o s]
  /\ UNCHANGED mailbox

-----------------------------------------------------------------------------
(* The switch process that serves n.  A destination outside the machines   *)
(* the test runs on (0, 255, an id without a listener) is not forwarded.   *)

\* The accept thread of the addressee appends the message to m_message_queue.
Deliver(e) ==
  mailbox' = IF e.to \in Nodes
             THEN [mailbox EXCEPT ![e.to] = Append(@, e.msg)] ELSE mailbox

Forward(n) ==
  /\ outq[n] # <<>>
  /\ Deliver(Head(outq[n]))
  /\ outq' = [outq EXCEPT ![n] = Tail(@)]

\* net_status 3: one message in ten is read, logged and not forwarded.
Drop(n) ==
  /\ NetStatus[n] = 3
  /\ outq[n] # <<>>
  /\ outq' = [outq EXCEPT ![n] = Tail(@)]
  /\ UNCHANGED mailbox

SwitchStep(n) == Forward(n) \/ Drop(n)

-----------------------------------------------------------------------------
(* What the network promises, whatever the nodes say to each other: every  *)
(* message is in one place at a time, those of one sender are handled in   *)
(* the order they were sent, and only a switch with net_status 3 loses     *)
(* any.  Nothing a node has sent stays with its switch for ever.           *)

\* The messages that n sends in this step.
Burst(n) == SubSeq(outq'[n], Len(outq[n]) + 1, Len(outq'[n]))

NetNext == \E n \in Nodes : SwitchStep(n) \/ Consume(n, Burst(n)) \/ Emit(n, Burst(n))

NetSpec == NetInit /\ [][NetNext]_netVars
FairNetSpec == NetSpec /\ \A n \in Nodes : WF_netVars(SwitchStep(n))

=============================================================================
