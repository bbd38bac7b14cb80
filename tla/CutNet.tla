-------------------------------- MODULE CutNet --------------------------------
(***************************************************************************)
(* The network of SwitchNet when recv of a switch process may return less  *)
(* than a message.  From then on that switch takes the bytes that are left *)
(* for messages.  What follows the text of a message is whatever           *)
(* NodeNetwork::send found in memory behind it, so these bytes may name    *)
(* any addressee, or 46, at which the switch process exits.  The promise   *)
(* that is left is about the others: see CutNext.                          *)
(***************************************************************************)
EXTENDS SwitchNet

CONSTANTS
  Cut,        \* the nodes whose stream may be cut
  Garbage     \* messages that no node has sent as they are

\* Garbage is forwarded: in front of what is under way, or in place of the message
\* whose beginning was in the same buffer.
Garble(n) ==
  /\ n \in Cut
  /\ outq'[n] # <<>>
  /\ LET e == Head(outq'[n])
     IN  /\ e.msg \in Garbage
         /\ \/ outq' = [outq EXCEPT ![n] = <<e>> \o @]
            \/ outq[n] # <<>> /\ outq' = [outq EXCEPT ![n] = <<e>> \o Tail(@)]
  /\ UNCHANGED mailbox

\* Messages of n are swallowed, all of them when its switch process exits.
Swallow(n) ==
  /\ n \in Cut
  /\ \E i \in 1..Len(outq[n]) :
       outq' = [outq EXCEPT ![n] = SubSeq(@, i + 1, Len(@))]
  /\ UNCHANGED mailbox

\* The node is killed when it writes to a switch process that is gone.
Die(n) ==
  /\ n \in Cut
  /\ outq' = [outq EXCEPT ![n] = <<>>]
  /\ mailbox' = [mailbox EXCEPT ![n] = <<>>]

\* A message to such a node finds nobody.
Miss(n) ==
  /\ outq[n] # <<>> /\ Head(outq[n]).to \in Cut
  /\ outq' = [outq EXCEPT ![n] = Tail(@)]
  /\ UNCHANGED mailbox

\* Whatever a cut stream leads to, the messages of the other nodes stay whole and in
\* order, and reach every node whose own stream is whole.
CutNext == NetNext \/ \E n \in Nodes : Garble(n) \/ Swallow(n) \/ Die(n) \/ Miss(n)

CutSpec == NetInit /\ [][CutNext]_netVars
FairCutSpec == CutSpec /\ \A n \in Nodes \ Cut : WF_netVars(SwitchStep(n) \/ Miss(n))

=============================================================================
