------------------------------- MODULE LAKNode -------------------------------
(***************************************************************************)
(* The run loop of src/node/LAKNode.cpp: mutual exclusion with a token.    *)
(* A node that holds the token enters the critical section at once; one    *)
(* that does not asks the holder it knows of, or its whole quorum.  A      *)
(* member of the quorum that knows the holder relays the request.  The     *)
(* holder collects the requests that come during its critical section and  *)
(* gives the token to the first of them; the old holder's quorum learns    *)
(* of it by RELEASE, the new holder's by RECEIVE.                          *)
(* Each action is one handler of the run loop, from its first statement to *)
(* its last; the schedule and the length of the section are inputs.        *)
(***************************************************************************)
EXTENDS SwitchNet, RequestOrder, SequencesExt

CONSTANTS
  Schedule,   \* Schedule[n]: how many requests the time_schedule of n holds
  Spaced      \* TRUE: a node's schedule waits until its last request is over

ASSUME TokenAssumption == 1 \in Nodes
ASSUME ScheduleAssumption == Schedule \in [Nodes -> Nat]
ASSUME SpacedAssumption == Spaced \in BOOLEAN

VARIABLES
  num_req,        \* num_req[n]: how many requests n's schedule has started
  seq,            \* seq[n]: number of n's next REQUEST, larger than those n has seen
  token_holder,   \* token_holder[n]: the node n takes for the holder, or Unknown
  has_token,      \* has_token[n]: n holds the token
  is_inCS,        \* is_inCS[n]: n is in the critical section
  token_list,     \* token_list[n]: request -> the number that ends it on the wire
  acked_node,     \* acked_node[n]: who answered ACK to n's last request
  expt_resp,      \* expt_resp[n]: counts these answers down
  hung            \* hung[n]: n's thread is stuck in string_message

tokenVars == <<token_holder, has_token, token_list>>
answerVars == <<acked_node, expt_resp>>
nodeVars == <<num_req, seq, tokenVars, is_inCS, answerVars, hung>>
vars == <<netVars, nodeVars>>

-----------------------------------------------------------------------------
(* Messages, and the list of requests a TOKEN carries.                     *)

Unknown == -1

Quorum(n) == PeerSet(n) \cup {n}

Request(n, s) == [type |-> "REQUEST", from |-> n, seq |-> s]
Relay(n, m) == [type |-> "RELAY", from |-> m.from, seq |-> m.seq, relay |-> n]
Signal(t, n) == [type |-> t, from |-> n]

\* std::set::insert: an entry with the same seq and from stays as it is.
Insert(list, r, last) ==
  IF r \in DOMAIN list THEN list
  ELSE [x \in DOMAIN list \cup {r} |-> IF x = r THEN last ELSE list[x]]

\* The TOKEN that n sends with list: what string_message makes of an entry has
\* the entry's last number for its seq (a REQUEST ends with seq, a RELAY with
\* relay); tail is the last number of the whole string.  Faulty form: the list
\* is cleared before it is sent.
BareToken(n, to, list) ==
  [type |-> "TOKEN", from |-> n, req_list |-> {}, tail |-> to]
Token(n, to, list) ==
  [type |-> "TOKEN", from |-> n,
   req_list |-> {<<list[r], r[2]>> : r \in DOMAIN list},
   tail |-> IF DOMAIN list = {} THEN to ELSE list[Final(DOMAIN list)]]

\* string_message never ends when tail has two digits: what is left of the
\* string is then longer than one character, and the loop does not shorten it.
Parsed(m) == m.tail < 10

\* The first holder is node 1, whom a node knows of when 1 is in its quorum.
FirstHolder(n) == IF 1 \in Quorum(n) THEN 1 ELSE Unknown

Init ==
  /\ NetInit
  /\ num_req = [n \in Nodes |-> 0]
  /\ seq = [n \in Nodes |-> 1]
  /\ token_holder = [n \in Nodes |-> FirstHolder(n)]
  /\ has_token = [n \in Nodes |-> n = 1]
  /\ is_inCS = [n \in Nodes |-> FALSE]
  /\ token_list = [n \in Nodes |-> <<>>]
  /\ acked_node = [n \in Nodes |-> {}]
  /\ expt_resp = [n \in Nodes |-> -1]
  /\ hung = [n \in Nodes |-> FALSE]

-----------------------------------------------------------------------------
(* The requester.                                                          *)

\* The last request of n is not over: it is on its way, or collected, or the token
\* comes to n.
Asks(n, m) == m.type \in {"REQUEST", "RELAY"} /\ m.from = n
Pending(n) ==
  \E k \in Nodes :
    \/ \E i \in DOMAIN outq[k] :
         LET e == outq[k][i]
         IN  Asks(n, e.msg) \/ (e.to = n /\ e.msg.type = "TOKEN")
    \/ \E i \in DOMAIN mailbox[k] :
         LET m == mailbox[k][i]
         IN  Asks(n, m) \/ (k = n /\ m.type = "TOKEN")
    \/ \E r \in DOMAIN token_list[k] : r[2] = n

\* Who gets a REQUEST of n.  Faulty form: always the presumed holder.
Holder(n, m) == To(token_holder[n], m)
Asked(n, m) == IF token_holder[n] \in Quorum(n) THEN To(token_holder[n], m) ELSE ToPeers(n, m)

\* The schedule fires: the holder of the token enters the critical section (or
\* stays there for another CS_time), any other node sends a REQUEST.
SendRequest(n) ==
  /\ ~hung[n]
  /\ num_req[n] < Schedule[n]
  /\ Spaced => ~Pending(n)
  /\ num_req' = [num_req EXCEPT ![n] = @ + 1]
  /\ is_inCS' = [is_inCS EXCEPT ![n] = has_token[n]]
  /\ \/ /\ has_token[n]
        /\ UNCHANGED <<netVars, seq, answerVars>>
     \/ /\ ~has_token[n]
        /\ Emit(n, Asked(n, Request(n, seq[n])))
        /\ seq' = [seq EXCEPT ![n] = @ + 1]
        /\ acked_node' = [acked_node EXCEPT ![n] = {}]
        /\ expt_resp' = [expt_resp EXCEPT ![n] = Len(Peers[n])]
  /\ UNCHANGED <<tokenVars, hung>>

\* n takes a message of type t out of its m_message_queue.
Receives(n, t) == ~hung[n] /\ mailbox[n] # <<>> /\ Head(mailbox[n]).type = t

\* An ACK is counted; nothing depends on the count.
ReceiveAck(n) ==
  /\ Receives(n, "ACK")
  /\ acked_node' = [acked_node EXCEPT ![n] = @ \cup {Head(mailbox[n]).from}]
  /\ expt_resp' = [expt_resp EXCEPT ![n] = @ - 1]
  /\ Consume(n, <<>>)
  /\ UNCHANGED <<num_req, seq, tokenVars, is_inCS, hung>>

-----------------------------------------------------------------------------
(* The holder of the token.                                                *)

\* Messages of send_token and send_release.  Faulty form: no TOKEN to the node
\* itself.
Others(n, to, list) ==
  (IF to = n THEN <<>> ELSE To(to, Token(n, to, list))) \o ToPeers(n, Signal("RELEASE", n))
Handover(n, to, list) ==
  To(to, Token(n, to, list)) \o ToPeers(n, Signal("RELEASE", n))

\* The assignments of send_token.  Faulty forms: has_token is not cleared; the new
\* holder is not remembered.
GiveBlindly(n, to) ==
  /\ token_holder' = [token_holder EXCEPT ![n] = Unknown]
  /\ has_token' = [has_token EXCEPT ![n] = FALSE]
  /\ token_list' = [token_list EXCEPT ![n] = <<>>]
KeepToken(n, to) ==
  /\ token_holder' = [token_holder EXCEPT ![n] = to]
  /\ token_list' = [token_list EXCEPT ![n] = <<>>]
  /\ UNCHANGED has_token
GiveToken(n, to) ==
  /\ token_holder' = [token_holder EXCEPT ![n] = to]
  /\ has_token' = [has_token EXCEPT ![n] = FALSE]
  /\ token_list' = [token_list EXCEPT ![n] = <<>>]

\* Requests are collected during the critical section.  Faulty forms: as long as
\* n has the token; never.
Holding(n) == has_token[n]
Never(n) == FALSE
Collects(n) == is_inCS[n]

\* A REQUEST with a number above n's is numbered anew.  The holder collects it or
\* gives the token away; another node relays it to the holder it knows of, or
\* answers ACK when it knows of none.
ReceiveRequest(n) ==
  /\ Receives(n, "REQUEST")
  /\ LET head == Head(mailbox[n])
         m == IF seq[n] < head.seq THEN [head EXCEPT !.seq = @ + 1] ELSE head
         list == Insert(token_list[n], <<m.seq, m.from>>, m.seq)
     IN  /\ seq' = [seq EXCEPT ![n] = IF @ < head.seq THEN m.seq ELSE @]
         /\ \/ /\ has_token[n] /\ Collects(n)
               /\ token_list' = [token_list EXCEPT ![n] = list]
               /\ Consume(n, <<>>)
               /\ UNCHANGED <<token_holder, has_token>>
            \/ /\ has_token[n] /\ ~Collects(n)
               /\ GiveToken(n, m.from)
               /\ Consume(n, Handover(n, m.from, list))
            \/ /\ ~has_token[n]
               /\ Consume(n, IF token_holder[n] = Unknown THEN To(m.from, Signal("ACK", n))
                             ELSE To(token_holder[n], Relay(n, m)))
               /\ UNCHANGED tokenVars
  /\ UNCHANGED <<num_req, is_inCS, answerVars, hung>>

\* A RELAY is collected during the critical section; any other time the node
\* sends the token to the relay, with or without having it: the test of
\* token_holder is true of Unknown, too.
ReceiveRelay(n) ==
  /\ Receives(n, "RELAY")
  /\ LET m == Head(mailbox[n])
     IN  /\ seq' = [seq EXCEPT ![n] = IF @ < m.seq THEN m.seq ELSE @]
         /\ \/ /\ Collects(n)
               /\ token_list' = [token_list EXCEPT ![n] = Insert(@, <<m.seq, m.from>>, m.relay)]
               /\ Consume(n, <<>>)
               /\ UNCHANGED <<token_holder, has_token>>
            \/ /\ ~Collects(n)
               /\ GiveToken(n, m.relay)
               /\ Consume(n, Handover(n, m.relay, token_list[n]))
  /\ UNCHANGED <<num_req, is_inCS, answerVars, hung>>

\* The critical section ends, and the token goes to the first request collected.
FinishCS(n) ==
  /\ ~hung[n] /\ is_inCS[n]
  /\ is_inCS' = [is_inCS EXCEPT ![n] = FALSE]
  /\ LET list == token_list[n]
         first == Begin(DOMAIN list)[2]
     IN  \/ /\ DOMAIN list # {}
            /\ GiveToken(n, first)
            /\ Emit(n, Handover(n, first, list))
         \/ /\ DOMAIN list = {}
            /\ UNCHANGED <<netVars, tokenVars>>
  /\ UNCHANGED <<num_req, seq, answerVars, hung>>

-----------------------------------------------------------------------------
(* The token and the news of it.                                           *)

\* send_receive is called once per peer, and sends to every peer each time.
Receipts(n) ==
  LET k == Len(Peers[n])
  IN  [i \in 1..(k * k) |-> [to |-> Peers[n][((i - 1) % k) + 1], msg |-> Signal("RECEIVE", n)]]

\* A TOKEN whose first request is another node's goes back to its sender, with
\* n's own list.  Any other is n's, who enters the critical section unless the
\* list is empty.  The list itself is dropped.
ReceiveToken(n) ==
  /\ Receives(n, "TOKEN")
  /\ LET m == Head(mailbox[n])
         misled == m.req_list # {} /\ Begin(m.req_list)[2] # n
     IN  /\ Parsed(m)
         /\ \/ /\ misled
               /\ GiveToken(n, m.from)
               /\ Consume(n, To(m.from, Token(n, m.from, token_list[n])))
               /\ UNCHANGED is_inCS
            \/ /\ ~misled
               /\ has_token' = [has_token EXCEPT ![n] = TRUE]
               /\ token_holder' = [token_holder EXCEPT ![n] = n]
               /\ is_inCS' = [is_inCS EXCEPT ![n] = @ \/ m.req_list # {}]
               /\ Consume(n, Receipts(n))
               /\ UNCHANGED token_list
  /\ UNCHANGED <<num_req, seq, answerVars, hung>>

\* get_message has taken the TOKEN out of the queue, and string_message never ends.
ReceiveTokenHangs(n) ==
  /\ Receives(n, "TOKEN")
  /\ ~Parsed(Head(mailbox[n]))
  /\ hung' = [hung EXCEPT ![n] = TRUE]
  /\ Consume(n, <<>>)
  /\ UNCHANGED <<num_req, seq, tokenVars, is_inCS, answerVars>>

ReceiveReceive(n) ==
  /\ Receives(n, "RECEIVE")
  /\ token_holder' = [token_holder EXCEPT ![n] = Head(mailbox[n]).from]
  /\ Consume(n, <<>>)
  /\ UNCHANGED <<num_req, seq, has_token, token_list, is_inCS, answerVars, hung>>

\* What n knows of the holder after a RELEASE: a holder does not forget that it is
\* the holder itself.  Faulty form: the old holder is not forgotten.
StillHeld(n) == token_holder[n]
Released(n) == IF token_holder[n] = n THEN n ELSE Unknown

ReceiveRelease(n) ==
  /\ Receives(n, "RELEASE")
  /\ token_holder' = [token_holder EXCEPT ![n] = Released(n)]
  /\ Consume(n, <<>>)
  /\ UNCHANGED <<num_req, seq, has_token, token_list, is_inCS, answerVars, hung>>

-----------------------------------------------------------------------------
Handle(n) ==
  \/ ReceiveRequest(n) \/ ReceiveRelay(n) \/ ReceiveToken(n) \/ ReceiveTokenHangs(n)
  \/ ReceiveAck(n) \/ ReceiveReceive(n) \/ ReceiveRelease(n)

NodeStep(n) == SendRequest(n) \/ Handle(n) \/ FinishCS(n)

Switch(n) == SwitchStep(n) /\ UNCHANGED nodeVars

Next == \E n \in Nodes : NodeStep(n) \/ Switch(n)

Spec == Init /\ [][Next]_vars

\* As in MAKNode: the run loop and the switch processes never stop polling; when
\* the schedule fires is an input.
Fairness ==
  \A n \in Nodes : WF_vars(Handle(n)) /\ WF_vars(FinishCS(n)) /\ WF_vars(Switch(n))

FairSpec == Spec /\ Fairness

-----------------------------------------------------------------------------
(* Properties.                                                             *)

Pairs == Nat \X Nodes

Message ==
  [type : {"REQUEST"}, from : Nodes, seq : Nat]
    \cup [type : {"RELAY"}, from : Nodes, seq : Nat, relay : Nodes]
    \cup [type : {"TOKEN"}, from : Nodes, req_list : SUBSET Pairs, tail : Nat]
    \cup [type : {"ACK", "RECEIVE", "RELEASE"}, from : Nodes]

\* Every variable of LAKNode.h and of the network holds a value of its type, and
\* every message goes to a node.
TypeOK ==
  /\ outq \in [Nodes -> Seq([to : Nodes, msg : Message])]
  /\ mailbox \in [Nodes -> Seq(Message)]
  /\ num_req \in [Nodes -> Nat]
  /\ seq \in [Nodes -> Nat]
  /\ token_holder \in [Nodes -> Nodes \cup {Unknown}]
  /\ has_token \in [Nodes -> BOOLEAN]
  /\ is_inCS \in [Nodes -> BOOLEAN]
  /\ \A n \in Nodes : /\ DOMAIN token_list[n] \subseteq Pairs
                      /\ \A r \in DOMAIN token_list[n] : token_list[n][r] \in Nat
  /\ acked_node \in [Nodes -> SUBSET Nodes]
  /\ expt_resp \in [Nodes -> Int]
  /\ hung \in [Nodes -> BOOLEAN]

TokensIn(s) == {i \in DOMAIN s : s[i].type = "TOKEN"}
TokensOut(s) == {i \in DOMAIN s : s[i].msg.type = "TOKEN"}

\* The token is never lost: as long as the network loses no message, some node
\* has it or it is on its way, whoever passes it on or sends it back, unless the
\* parser of a node has swallowed it.
TokenSurvives ==
  (\A n \in Nodes : NetStatus[n] # 3) =>
    \E n \in Nodes :
      has_token[n] \/ hung[n] \/ TokensIn(mailbox[n]) # {} \/ TokensOut(outq[n]) # {}

\* Every place where a token is: with a node that has it, or in a queue.
Tokens ==
  {<<"held", n, 0>> : n \in {m \in Nodes : has_token[m]}}
    \cup (UNION {{<<"mailbox", n, i>> : i \in TokensIn(mailbox[n])} : n \in Nodes})
    \cup (UNION {{<<"outq", n, i>> : i \in TokensOut(outq[n])} : n \in Nodes})

\* There is one token: no relayed request makes a second one.
OneToken == \A x, y \in Tokens : x = y

\* A node in the critical section has the token: it is not given away, and not
\* sent back, before finishCS.
SectionHasToken == \A n \in Nodes : is_inCS[n] => has_token[n]

\* Requests are only kept by a node in the critical section, whose end will pass
\* them on: none is left behind in an idle node.
CollectedInSection == \A n \in Nodes : DOMAIN token_list[n] # {} => is_inCS[n]

\* Once all news has been read, nobody takes another node than the holder for it,
\* though the RELEASE of the old holder and the RECEIVE of the new one may come to
\* a peer of both in either order.
NobodyMisled ==
  (\A n \in Nodes : outq[n] = <<>> /\ mailbox[n] = <<>>) =>
    \A n, p \in Nodes : has_token[n] => token_holder[p] \in {n, Unknown}

\* A REQUEST leads to a critical section of its sender, also when it chases the token
\* or is collected in the other's section; as long as its number has one digit,
\* the one it may be given included.
RequestServed ==
  \A n \in Nodes :
    (\E m \in Nodes : \E i \in DOMAIN outq[m] :
       Asks(n, outq[m][i].msg) /\ outq[m][i].msg.seq < 9) ~> is_inCS[n]

\* A request that the holder has collected leads to a critical section of the
\* node that asked, unless a node hangs.
CollectedServed ==
  \A n \in Nodes :
    (\E m \in Nodes : \E r \in DOMAIN token_list[m] : r[2] = n)
      ~> (is_inCS[n] \/ \E m \in Nodes : hung[m])

\* receive_ack, "Error occurs and the request doesn't satisfied!": it never
\* happens that all of a node's quorum answer that they know of no holder.
NeverUnsatisfied == \A n \in Nodes : acked_node[n] # {} => acked_node[n] # PeerSet(n)

-----------------------------------------------------------------------------
(* What the source says of the program, and the code keeps on some         *)
(* instances only.                                                         *)

\* LAKNode.h, "mutual exclusion": no two nodes are in the critical section at
\* the same time.
Mutex == \A m, n \in Nodes : is_inCS[m] /\ is_inCS[n] => m = n

=============================================================================
