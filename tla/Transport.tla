------------------------------ MODULE Transport ------------------------------
(***************************************************************************)
(* What lies between two run loops, in detail: the queue of a node's       *)
(* Socket, its send thread, the TCP stream to the switch process, the loop *)
(* of that process, the connections it opens to the accept thread of the   *)
(* addressee, and m_message_queue.  The run loops are abstract here: they  *)
(* send what they like when they like.  CutNet, which is SwitchNet where   *)
(* recv returns whole messages, is what this implements.                   *)
(***************************************************************************)
EXTENDS Integers, Sequences, FiniteSets

CONSTANTS
  Nodes,      \* the ids of the compute nodes
  Peers,      \* quorum_set of each node, as in SwitchNet; nothing here depends on it
  NetStatus,  \* NetStatus[n]: net_status of n's switch
  Cut,        \* nodes of whose stream recv may return any number of bytes
  Early,      \* nodes that START may reach before every other node listens
  Controls,   \* addressees outside the nodes: 255, which a switch only logs, and the testbed
  MaxRest,    \* how many bytes of a message are left at most: 1023, fewer for TLC
  Backlog,    \* how many connections wait at most for an accept thread
  Budget      \* Budget[n]: how many messages n sends at most, a bound for TLC

ASSUME NodesAssumption == Nodes \subseteq Nat \ {0}
ASSUME NetStatusAssumption == NetStatus \in [Nodes -> {1, 2, 3}]
ASSUME CutAssumption == Cut \subseteq Nodes /\ Early \subseteq Nodes
ASSUME ControlsAssumption == Controls \cap Nodes = {}
ASSUME MaxRestAssumption == MaxRest \in Nat \ {0}
ASSUME BacklogAssumption == Backlog \in Nat \ {0}
ASSUME BudgetAssumption == Budget \in [Nodes -> Nat]

VARIABLES
  started,    \* the nodes whose START has come
  listening,  \* the nodes whose accept thread has begun to listen
  dead,       \* the nodes that were killed: they wrote to a switch process that had exited
  count,      \* count[n]: how many messages n has sent
  msgs,       \* msgs[n]: m_messages, what the send thread of n has not written yet
  stream,     \* stream[n]: the messages whose first bytes n's switch has not read yet
  rest,       \* rest[n]: how many bytes of an earlier message come before stream[n]
  held,       \* held[n]: the message n's switch has read and not dealt with, or <<>>
  exited,     \* the nodes whose switch process has exited
  backlog,    \* backlog[t]: messages of the connections that t has not accepted yet
  queue       \* queue[t]: m_message_queue

nodeVars == <<started, listening, dead, count>>
switchVars == <<rest, held, exited>>
vars == <<nodeVars, msgs, stream, switchVars, backlog, queue>>

\* Messages are told apart by their sender and their number; 0 stands for bytes that
\* are not a message as the sender sent it.
Message == [from : Nodes, no : Nat]
Envelope == [to : Nodes \cup Controls, msg : Message]
Garbled(n) == [from |-> n, no |-> 0]

Empty == [n \in Nodes |-> <<>>]

\* Of the message with its id, too, a node's switch may have read a part only.
Init ==
  /\ started = {} /\ listening = {} /\ dead = {} /\ exited = {}
  /\ count = [n \in Nodes |-> 0]
  /\ msgs = Empty /\ stream = Empty /\ held = Empty /\ backlog = Empty /\ queue = Empty
  /\ rest \in [Nodes -> 0..MaxRest] /\ \A n \in Nodes \ Cut : rest[n] = 0

-----------------------------------------------------------------------------
(* The node.                                                               *)

Listen(n) ==
  /\ n \notin listening
  /\ listening' = listening \cup {n}
  /\ UNCHANGED <<started, dead, count, msgs, stream, switchVars, backlog, queue>>

\* testbed.cpp sleeps before it sends START, long enough for every node to listen;
\* where Early says so, it is only n that listens.
Slept(n) == n \notin Early => listening = Nodes

\* Who can be sent START.  Faulty form: a node that does not listen counts too.
Anyone == Nodes
Listeners == listening

Start(n) ==
  /\ n \in Listeners \ started /\ Slept(n)
  /\ started' = started \cup {n}
  /\ UNCHANGED <<listening, dead, count, msgs, stream, switchVars, backlog, queue>>

\* Node::send and the send_*_msg functions, down to Socket::send.
Send(n, t) ==
  /\ n \in started \ dead /\ count[n] < Budget[n]
  /\ msgs' = [msgs EXCEPT ![n] = Append(@, [to |-> t, msg |-> [from |-> n, no |-> count[n] + 1]])]
  /\ count' = [count EXCEPT ![n] = @ + 1]
  /\ UNCHANGED <<started, listening, dead, stream, switchVars, backlog, queue>>

\* The send thread.
Write(n) ==
  /\ msgs[n] # <<>> /\ n \notin exited
  /\ stream' = [stream EXCEPT ![n] = Append(@, Head(msgs[n]))]
  /\ msgs' = [msgs EXCEPT ![n] = Tail(@)]
  /\ UNCHANGED <<nodeVars, switchVars, backlog, queue>>

\* The switch process is gone: what is written is lost, and SIGPIPE kills the node.
WriteLost(n) ==
  /\ msgs[n] # <<>> /\ n \in exited
  /\ msgs' = [msgs EXCEPT ![n] = Tail(@)]
  /\ UNCHANGED <<nodeVars, stream, switchVars, backlog, queue>>

Killed(n) ==
  /\ msgs[n] # <<>> /\ n \in exited
  /\ dead' = dead \cup {n}
  /\ msgs' = [msgs EXCEPT ![n] = <<>>]
  /\ backlog' = [backlog EXCEPT ![n] = <<>>]
  /\ queue' = [queue EXCEPT ![n] = <<>>]
  /\ UNCHANGED <<started, listening, count, stream, switchVars>>

\* The accept thread reads the next connection.  m_message_queue grows at its end.
\* Faulty form: at its front.
PushFront(q, m) == <<m>> \o q
Push(q, m) == Append(q, m)

Accept(n) ==
  /\ n \in listening /\ backlog[n] # <<>>
  /\ queue' = [queue EXCEPT ![n] = Push(@, Head(backlog[n]))]
  /\ backlog' = [backlog EXCEPT ![n] = Tail(@)]
  /\ UNCHANGED <<nodeVars, msgs, stream, switchVars>>

\* The run loop takes a message.
GetMessage(n) ==
  /\ n \in started /\ queue[n] # <<>>
  /\ queue' = [queue EXCEPT ![n] = Tail(@)]
  /\ UNCHANGED <<nodeVars, msgs, stream, switchVars, backlog>>

-----------------------------------------------------------------------------
(* The switch process of n.                                                *)

\* recv gets a message from its first byte on: all of it, or the addressee with as
\* much of the rest as has come.
Recv(n) ==
  /\ held[n] = <<>> /\ rest[n] = 0 /\ stream[n] # <<>>
  /\ LET e == Head(stream[n])
     IN  \/ /\ held' = [held EXCEPT ![n] = <<e>>]
            /\ UNCHANGED rest
         \/ /\ n \in Cut
            /\ \E m \in {e.msg, Garbled(n)} :
                 held' = [held EXCEPT ![n] = <<[to |-> e.to, msg |-> m]>>]
            /\ \E k \in 1..MaxRest : rest' = [rest EXCEPT ![n] = k]
  /\ stream' = [stream EXCEPT ![n] = Tail(@)]
  /\ UNCHANGED <<nodeVars, exited, msgs, backlog, queue>>

\* recv gets what is left of a message first, perhaps with the beginning of the next
\* one in the same buffer.  Past the header and the text these bytes are the memory
\* that NodeNetwork::send copied, so the first of them names anybody.
RecvRest(n) ==
  /\ held[n] = <<>> /\ rest[n] > 0
  /\ \E t \in Nodes \cup Controls :
       held' = [held EXCEPT ![n] = <<[to |-> t, msg |-> Garbled(n)]>>]
  /\ \/ /\ \E k \in 0..(rest[n] - 1) : rest' = [rest EXCEPT ![n] = k]
        /\ UNCHANGED stream
     \/ /\ stream[n] # <<>>
        /\ stream' = [stream EXCEPT ![n] = Tail(@)]
        /\ \E k \in 1..MaxRest : rest' = [rest EXCEPT ![n] = k]
  /\ UNCHANGED <<nodeVars, exited, msgs, backlog, queue>>

\* The first of these bytes is 46.
Exit(n) ==
  /\ held[n] = <<>> /\ rest[n] > 0
  /\ exited' = exited \cup {n}
  /\ rest' = [rest EXCEPT ![n] = 0]
  /\ stream' = [stream EXCEPT ![n] = <<>>]
  /\ UNCHANGED <<nodeVars, held, msgs, backlog, queue>>

\* The switch process has dealt with the message it held.
Cleared(n) == [held EXCEPT ![n] = <<>>]

\* A control message is only logged; END goes to the testbed.
NotForwarded(n) ==
  /\ held[n] # <<>> /\ Head(held[n]).to \in Controls
  /\ held' = Cleared(n)
  /\ UNCHANGED <<nodeVars, msgs, stream, rest, exited, backlog, queue>>

\* net_status 3: one message in ten; never END, never a control message.
Drop(n) ==
  /\ held[n] # <<>> /\ Head(held[n]).to \in Nodes
  /\ NetStatus[n] = 3
  /\ held' = Cleared(n)
  /\ UNCHANGED <<nodeVars, msgs, stream, rest, exited, backlog, queue>>

\* forward: the message is written to a new connection, and the next one is not
\* read before.
Connect(n) ==
  /\ held[n] # <<>>
  /\ LET e == Head(held[n])
     IN  /\ e.to \in listening \ dead /\ Len(backlog[e.to]) < Backlog
         /\ backlog' = [backlog EXCEPT ![e.to] = Append(@, e.msg)]
  /\ held' = Cleared(n)
  /\ UNCHANGED <<nodeVars, msgs, stream, rest, exited, queue>>

\* forward returns 2: nobody listens, and the message is gone.
Refused(n) ==
  /\ held[n] # <<>> /\ Head(held[n]).to \in (Nodes \ listening) \cup dead
  /\ held' = Cleared(n)
  /\ UNCHANGED <<nodeVars, msgs, stream, rest, exited, backlog, queue>>

Switch(n) ==
  \/ Recv(n) \/ RecvRest(n) \/ Exit(n)
  \/ NotForwarded(n) \/ Drop(n) \/ Connect(n) \/ Refused(n)

-----------------------------------------------------------------------------
Next ==
  \E n \in Nodes :
    \/ Listen(n) \/ Start(n) \/ Write(n) \/ WriteLost(n) \/ Killed(n)
    \/ Accept(n) \/ GetMessage(n) \/ Switch(n)
    \/ \E t \in Nodes \cup Controls : Send(n, t)

Spec == Init /\ [][Next]_vars

\* The threads and processes are scheduled.  What the run loops send is up to them.
Fairness ==
  \A n \in Nodes : /\ WF_vars(Listen(n)) /\ WF_vars(Write(n)) /\ WF_vars(Accept(n))
                   /\ WF_vars(Switch(n))

\* Connect waits for room in the backlog, which other switches may take first.
FairSpec == Spec /\ Fairness /\ \A n \in Nodes : SF_vars(Connect(n))

-----------------------------------------------------------------------------
(* Properties.                                                             *)

TypeOK ==
  /\ dead \subseteq exited /\ exited \subseteq Cut
  /\ started \subseteq listening /\ listening \subseteq Nodes
  /\ count \in [Nodes -> Nat]
  /\ msgs \in [Nodes -> Seq(Envelope)]
  /\ stream \in [Nodes -> Seq(Envelope)]
  /\ rest \in [Nodes -> 0..MaxRest]
  /\ held \in [Nodes -> Seq(Envelope)] /\ \A n \in Nodes : Len(held[n]) <= 1
  /\ backlog \in [Nodes -> Seq(Message)]
  /\ queue \in [Nodes -> Seq(Message)]

\* The network of CutNet.  What a node has sent and its switch has not dealt with
\* is spread over the switch, the stream and the socket; a message has arrived once
\* its connection waits for the accept thread.  The switch of a node that starts
\* early loses messages as one with net_status 3 does.
Net == INSTANCE CutNet WITH
  NetStatus <- [n \in Nodes |-> IF n \in Early THEN 3 ELSE NetStatus[n]],
  Garbage <- {Garbled(n) : n \in Cut},
  outq <- [n \in Nodes |-> held[n] \o stream[n] \o msgs[n]],
  mailbox <- [n \in Nodes |-> queue[n] \o backlog[n]]

\* Threads, stream, connections and accept queues together do what CutNet promises:
\* whatever the switch makes of a stream that was cut, and though it may take a node
\* down, what the others send is not mixed up with it, reordered, repeated or lost,
\* but by a switch that drops it or at a node that is gone, and does not stay under
\* way for ever.
ImplementsNet == Net!FairCutSpec

=============================================================================
