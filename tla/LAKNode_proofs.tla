--------------------------- MODULE LAKNode_proofs ---------------------------
(***************************************************************************)
(* Theorems about LAKNode for every set of nodes, every quorum and every   *)
(* schedule; and, for two neighbours who compete for the token, that the   *)
(* algorithm keeps its promises, which it does not keep for everyone.      *)
(***************************************************************************)
EXTENDS LAKNode, Shared_proofs

-----------------------------------------------------------------------------
(* Messages and lists.                                                     *)

Envelope == [to : Nodes, msg : Message]
AnyMessage == [t \in Nodes |-> Message]

Signals == {"ACK", "RECEIVE", "RELEASE"}

\* A list of requests with their last numbers.  The bound makes it a finite list,
\* which has a last entry.
ListOK(list) ==
  /\ list = [r \in DOMAIN list |-> list[r]]
  /\ DOMAIN list \subseteq Pairs
  /\ \A r \in DOMAIN list : list[r] \in Nat
  /\ \E b \in Nat : \A r \in DOMAIN list : r[1] <= b /\ r[2] <= b

\* What is known of a message of each type.
LEMMA MessageFacts ==
  ASSUME NEW m \in Message
  PROVE  /\ m.from \in Nodes
         /\ m.type \in Signals \cup {"REQUEST", "RELAY", "TOKEN"}
         /\ m.type \in {"REQUEST", "RELAY"} => m.seq \in Nat
         /\ m.type = "RELAY" => m.relay \in Nodes
BY DEF Message, Signals

\* The messages a node makes are of their types.
LEMMA MadeMessages ==
  ASSUME NEW n \in Nodes
  PROVE  /\ \A s \in Nat : Request(n, s) \in Message /\ Request(n, s).type = "REQUEST"
         /\ \A m : m.from \in Nodes /\ m.seq \in Nat
                     => Relay(n, m) \in Message /\ Relay(n, m).type = "RELAY"
         /\ \A t \in Signals : Signal(t, n) \in Message /\ Signal(t, n).type = t
<1>1. ASSUME NEW s \in Nat
      PROVE  Request(n, s) \in Message /\ Request(n, s).type = "REQUEST"
  BY DEF Request, Message
<1>2. ASSUME NEW m, m.from \in Nodes, m.seq \in Nat
      PROVE  Relay(n, m) \in Message /\ Relay(n, m).type = "RELAY"
  BY <1>2 DEF Relay, Message
<1>3. ASSUME NEW t \in Signals
      PROVE  Signal(t, n) \in Message /\ Signal(t, n).type = t
  BY DEF Signal, Message, Signals
<1>. QED
  BY <1>1, <1>2, <1>3

\* The list is empty at first and after it has been sent.
LEMMA EmptyList == ListOK(<<>>)
<1>1. DOMAIN <<>> = {}
  OBVIOUS
<1>2. <<>> = [r \in {} |-> <<>>[r]]
  OBVIOUS
<1>. QED
  BY <1>1, <1>2 DEF ListOK

\* std::set::insert keeps a list of its type, and keeps it bounded.
LEMMA InsertOK ==
  ASSUME NEW list, ListOK(list), NEW r \in Pairs, NEW k \in Nat
  PROVE  ListOK(Insert(list, r, k))
<1>1. CASE r \in DOMAIN list
  BY <1>1 DEF Insert
<1>2. CASE r \notin DOMAIN list
  <2>. DEFINE new == [x \in DOMAIN list \cup {r} |-> IF x = r THEN k ELSE list[x]]
  <2>1. Insert(list, r, k) = new
    BY <1>2 DEF Insert
  <2>2. PICK b \in Nat : \A x \in DOMAIN list : x[1] <= b /\ x[2] <= b
    BY DEF ListOK
  <2>3. r[1] \in Nat /\ r[2] \in Nat
    BY NodesAssumption DEF Pairs
  <2>4. \A x \in DOMAIN list : x[1] \in Nat /\ x[2] \in Nat
    BY NodesAssumption DEF Pairs, ListOK
  <2>5. PICK c \in Nat : b <= c /\ r[1] <= c /\ r[2] <= c
    <3>1. b + r[1] + r[2] \in Nat
      BY <2>3
    <3>. QED
      BY <2>3, <3>1
  <2>6. \A x \in DOMAIN new : x[1] <= c /\ x[2] <= c
    BY <2>2, <2>3, <2>4, <2>5
  <2>7. DOMAIN new \subseteq Pairs /\ \A x \in DOMAIN new : new[x] \in Nat
    BY DEF ListOK
  <2>8. new = [x \in DOMAIN new |-> new[x]]
    OBVIOUS
  <2>. QED
    BY <2>1, <2>6, <2>7, <2>8 DEF ListOK
<1>. QED
  BY <1>1, <1>2

\* A list that is not empty has a first and a last request.
LEMMA ListEnds ==
  ASSUME NEW list, ListOK(list), DOMAIN list # {}
  PROVE  /\ Begin(DOMAIN list) \in DOMAIN list
         /\ Begin(DOMAIN list)[2] \in Nodes
         /\ Final(DOMAIN list) \in DOMAIN list
<1>1. DOMAIN list \subseteq Nat \X Nat
  BY NodesAssumption DEF ListOK, Pairs
<1>2. Begin(DOMAIN list) \in DOMAIN list
  BY <1>1, BeginInQueue
<1>3. Final(DOMAIN list) \in DOMAIN list
  BY <1>1, FinalInQueue DEF ListOK
<1>. QED
  BY <1>2, <1>3 DEF ListOK, Pairs

\* A TOKEN with any such list is a message.
LEMMA TokenMade ==
  ASSUME NEW n \in Nodes, NEW to \in Nodes, NEW list, ListOK(list)
  PROVE  Token(n, to, list) \in Message /\ Token(n, to, list).type = "TOKEN"
<1>. DEFINE rl == {<<list[r], r[2]>> : r \in DOMAIN list}
            tl == IF DOMAIN list = {} THEN to ELSE list[Final(DOMAIN list)]
<1>1. rl \in SUBSET Pairs
  BY DEF ListOK, Pairs
<1>2. tl \in Nat
  BY ListEnds, NodesAssumption DEF ListOK
<1>3. Token(n, to, list) = [type |-> "TOKEN", from |-> n, req_list |-> rl, tail |-> tl]
  BY DEF Token
<1>. QED
  BY <1>1, <1>2, <1>3 DEF Message

\* What a node sends is a sequence of envelopes.
LEMMA SentTyped ==
  ASSUME NEW n \in Nodes
  PROVE  /\ <<>> \in Seq(Envelope)
         /\ \A t \in Nodes : \A m \in Message : To(t, m) \in Seq(Envelope)
         /\ \A m \in Message : ToPeers(n, m) \in Seq(Envelope)
         /\ \A m \in Message :
              token_holder[n] \in Nodes \cup {Unknown} => Asked(n, m) \in Seq(Envelope)
<1>1. \A t \in Nodes : \A m \in Message : To(t, m) \in Seq(Envelope)
  BY ToHolds DEF Envelope
<1>2. \A m \in Message : ToPeers(n, m) \in Seq(Envelope)
  BY PeerSetFacts, ToPeersHolds DEF Envelope
<1>3. \A m \in Message :
        token_holder[n] \in Nodes \cup {Unknown} => Asked(n, m) \in Seq(Envelope)
  <2>1. Quorum(n) \subseteq Nodes
    BY PeerSetFacts DEF Quorum
  <2>. QED
    BY <1>1, <1>2, <2>1 DEF Asked
<1>. QED
  BY <1>1, <1>2, <1>3, EmptySeq

LEMMA HandoverTyped ==
  ASSUME NEW n \in Nodes, NEW to \in Nodes, NEW list, ListOK(list)
  PROVE  Handover(n, to, list) \in Seq(Envelope)
<1>1. To(to, Token(n, to, list)) \in Seq(Envelope)
  BY TokenMade, SentTyped
<1>2. ToPeers(n, Signal("RELEASE", n)) \in Seq(Envelope)
  BY MadeMessages, SentTyped DEF Signals
<1>. QED
  BY <1>1, <1>2, ConcatProperties DEF Handover

\* An index into a sequence of length k, round and round.
LEMMA Remainder ==
  ASSUME NEW j \in Nat, NEW k \in Nat, k # 0
  PROVE  (j % k) + 1 \in 1..k
<1>. DEFINE r == j % k
<1>1. r \in 0..(k - 1)
  OBVIOUS
<1>. HIDE DEF r
<1>2. r + 1 \in 1..k
  BY <1>1
<1>. QED
  BY <1>2 DEF r

LEMMA ReceiptsTyped ==
  ASSUME NEW n \in Nodes
  PROVE  Receipts(n) \in Seq(Envelope)
<1>. DEFINE k == Len(Peers[n])
            e(i) == [to |-> Peers[n][((i - 1) % k) + 1], msg |-> Signal("RECEIVE", n)]
<1>1. k \in Nat /\ \A i \in 1..k : Peers[n][i] \in Nodes
  BY PeersAssumption, LenProperties, ElementOfSeq
<1>2. k * k \in Nat
  BY <1>1
<1>3. Signal("RECEIVE", n) \in Message
  BY MadeMessages DEF Signals
<1>4. ASSUME NEW i \in 1..(k * k)
      PROVE  e(i) \in Envelope
  <2>1. k # 0
    BY <1>1, <1>4
  <2>2. ((i - 1) % k) + 1 \in 1..k
    <3>1. i - 1 \in Nat
      BY <1>2, <1>4
    <3>. QED
      BY <1>1, <2>1, <3>1, Remainder
  <2>. QED
    BY <1>1, <1>3, <2>2 DEF Envelope
<1>5. Receipts(n) = [i \in 1..(k * k) |-> e(i)]
  BY DEF Receipts
<1>. HIDE DEF e
<1>. QED
  BY <1>2, <1>4, <1>5, IsASeq

-----------------------------------------------------------------------------
(* The type invariant.                                                     *)

CountersOK ==
  /\ num_req \in [Nodes -> Nat]
  /\ seq \in [Nodes -> Nat]
  /\ acked_node \in [Nodes -> SUBSET Nodes]
  /\ expt_resp \in [Nodes -> Int]

HolderOK ==
  /\ token_holder \in [Nodes -> Nodes \cup {Unknown}]
  /\ has_token \in [Nodes -> BOOLEAN]
  /\ is_inCS \in [Nodes -> BOOLEAN]
  /\ hung \in [Nodes -> BOOLEAN]
  /\ token_list = [n \in Nodes |-> token_list[n]]
  /\ \A n \in Nodes : ListOK(token_list[n])

IInv == NetHolds(Envelope, AnyMessage) /\ CountersOK /\ HolderOK

LEMMA IInvImplies == IInv => TypeOK
<1>. SUFFICES ASSUME IInv PROVE TypeOK
  OBVIOUS
<1>1. /\ outq \in [Nodes -> Seq([to : Nodes, msg : Message])]
      /\ mailbox \in [Nodes -> Seq(Message)]
  BY DEF IInv, NetHolds, Envelope, AnyMessage
<1>2. \A n \in Nodes : /\ DOMAIN token_list[n] \subseteq Pairs
                       /\ \A r \in DOMAIN token_list[n] : token_list[n][r] \in Nat
  BY DEF IInv, HolderOK, ListOK
<1>. QED
  BY <1>1, <1>2 DEF IInv, TypeOK, CountersOK, HolderOK

LEMMA InitIInv == Init => IInv
<1>. SUFFICES ASSUME Init PROVE IInv
  OBVIOUS
<1>1. NetHolds(Envelope, AnyMessage)
  BY EmptySeq DEF Init, NetInit, NetHolds, AnyMessage
<1>2. CountersOK
  BY DEF Init, CountersOK
<1>3. HolderOK
  BY EmptyList, TokenAssumption DEF Init, FirstHolder, HolderOK
<1>. QED
  BY <1>1, <1>2, <1>3 DEF IInv

\* What a handler knows of the message at the head of its mailbox.
LEMMA HeadFacts ==
  ASSUME IInv, NEW n \in Nodes, NEW t, Receives(n, t)
  PROVE  /\ Head(mailbox[n]) \in Message
         /\ Head(mailbox[n]).type = t
         /\ Head(mailbox[n]).from \in Nodes
<1>1. Head(mailbox[n]) \in AnyMessage[n]
  BY HeadTailProperties DEF IInv, NetHolds, Receives
<1>. QED
  BY <1>1, MessageFacts DEF AnyMessage, Receives

\* The token goes to a node, and takes the list with it.
LEMMA GiveTokenOK ==
  ASSUME HolderOK, NEW n \in Nodes, NEW to \in Nodes, GiveToken(n, to),
         is_inCS' \in [Nodes -> BOOLEAN], UNCHANGED hung
  PROVE  HolderOK'
<1>1. /\ token_holder' = [token_holder EXCEPT ![n] = to]
      /\ has_token' = [has_token EXCEPT ![n] = FALSE]
      /\ token_list' = [token_list EXCEPT ![n] = <<>>]
  BY DEF GiveToken
<1>2. /\ token_list' = [m \in Nodes |-> token_list'[m]]
      /\ \A m \in Nodes : ListOK(token_list'[m])
  BY <1>1, EmptyList DEF HolderOK
<1>. QED
  BY <1>1, <1>2 DEF HolderOK

\* A request joins the list.
LEMMA CollectOK ==
  ASSUME HolderOK, NEW n \in Nodes, NEW r \in Pairs, NEW k \in Nat,
         token_list' = [token_list EXCEPT ![n] = Insert(@, r, k)],
         UNCHANGED <<token_holder, has_token, is_inCS, hung>>
  PROVE  HolderOK'
<1>1. ListOK(Insert(token_list[n], r, k))
  BY InsertOK DEF HolderOK
<1>2. /\ token_list' = [m \in Nodes |-> token_list'[m]]
      /\ \A m \in Nodes : ListOK(token_list'[m])
  BY <1>1 DEF HolderOK
<1>. QED
  BY <1>2 DEF HolderOK

LEMMA SendRequestIInv ==
  ASSUME IInv, NEW n \in Nodes, SendRequest(n)
  PROVE  IInv'
<1>1. seq[n] \in Nat /\ Len(Peers[n]) \in Int /\ token_holder[n] \in Nodes \cup {Unknown}
  BY PeersAssumption, LenProperties DEF IInv, CountersOK, HolderOK
<1>2. /\ num_req' = [num_req EXCEPT ![n] = @ + 1]
      /\ is_inCS' = [is_inCS EXCEPT ![n] = has_token[n]]
      /\ UNCHANGED <<tokenVars, hung>>
  BY DEF SendRequest
<1>3. HolderOK'
  BY <1>2 DEF IInv, HolderOK, tokenVars
<1>4. CASE UNCHANGED <<netVars, seq, answerVars>>
  BY <1>2, <1>3, <1>4 DEF IInv, NetHolds, CountersOK, netVars, answerVars
<1>5. CASE /\ Emit(n, Asked(n, Request(n, seq[n])))
           /\ seq' = [seq EXCEPT ![n] = @ + 1]
           /\ acked_node' = [acked_node EXCEPT ![n] = {}]
           /\ expt_resp' = [expt_resp EXCEPT ![n] = Len(Peers[n])]
  <2>1. Asked(n, Request(n, seq[n])) \in Seq(Envelope)
    BY <1>1, MadeMessages, SentTyped
  <2>2. NetHolds(Envelope, AnyMessage)'
    BY <1>5, <2>1, EmitHolds DEF IInv
  <2>3. CountersOK'
    BY <1>1, <1>2, <1>5 DEF IInv, CountersOK
  <2>. QED
    BY <1>3, <2>2, <2>3 DEF IInv
<1>. QED
  BY <1>4, <1>5 DEF SendRequest

LEMMA ReceiveRequestIInv ==
  ASSUME IInv, NEW n \in Nodes, ReceiveRequest(n)
  PROVE  IInv'
<1>. DEFINE head == Head(mailbox[n])
            m == IF seq[n] < head.seq THEN [head EXCEPT !.seq = @ + 1] ELSE head
            list == Insert(token_list[n], <<m.seq, m.from>>, m.seq)
<1>1. head \in Message /\ head.type = "REQUEST" /\ head.from \in Nodes /\ head.seq \in Nat
  BY HeadFacts, MessageFacts DEF ReceiveRequest
<1>2. m.from \in Nodes /\ m.seq \in Nat
  <2>1. head \in [type : {"REQUEST"}, from : Nodes, seq : Nat]
    BY <1>1 DEF Message
  <2>2. m \in [type : {"REQUEST"}, from : Nodes, seq : Nat]
    BY <2>1
  <2>. QED
    BY <2>2
<1>3. /\ seq' = [seq EXCEPT ![n] = IF @ < head.seq THEN m.seq ELSE @]
      /\ UNCHANGED <<num_req, is_inCS, answerVars, hung>>
  BY DEF ReceiveRequest
<1>4. CountersOK'
  BY <1>2, <1>3 DEF IInv, CountersOK, answerVars
<1>5. ListOK(list)
  BY <1>2, InsertOK DEF IInv, HolderOK, Pairs
<1>. HIDE DEF m
<1>6. CASE /\ token_list' = [token_list EXCEPT ![n] = list]
           /\ Consume(n, <<>>)
           /\ UNCHANGED <<token_holder, has_token>>
  <2>1. NetHolds(Envelope, AnyMessage)'
    BY <1>6, SentTyped, ConsumeHolds DEF IInv
  <2>2. <<m.seq, m.from>> \in Pairs
    BY <1>2 DEF Pairs
  <2>3. HolderOK'
    BY <1>2, <1>3, <1>6, <2>2, CollectOK DEF IInv
  <2>. QED
    BY <1>4, <2>1, <2>3 DEF IInv
<1>7. CASE GiveToken(n, m.from) /\ Consume(n, Handover(n, m.from, list))
  <2>1. NetHolds(Envelope, AnyMessage)'
    BY <1>2, <1>5, <1>7, HandoverTyped, ConsumeHolds DEF IInv
  <2>2. HolderOK'
    BY <1>2, <1>3, <1>7, GiveTokenOK DEF IInv, HolderOK
  <2>. QED
    BY <1>4, <2>1, <2>2 DEF IInv
<1>8. CASE /\ Consume(n, IF token_holder[n] = Unknown THEN To(m.from, Signal("ACK", n))
                         ELSE To(token_holder[n], Relay(n, m)))
           /\ UNCHANGED tokenVars
  <2>1. To(m.from, Signal("ACK", n)) \in Seq(Envelope)
    BY <1>2, MadeMessages, SentTyped DEF Signals
  <2>2. token_holder[n] # Unknown => To(token_holder[n], Relay(n, m)) \in Seq(Envelope)
    BY <1>2, MadeMessages, SentTyped DEF IInv, HolderOK
  <2>3. NetHolds(Envelope, AnyMessage)'
    BY <1>8, <2>1, <2>2, ConsumeHolds DEF IInv
  <2>4. HolderOK'
    BY <1>3, <1>8 DEF IInv, HolderOK, tokenVars
  <2>. QED
    BY <1>4, <2>3, <2>4 DEF IInv
<1>. QED
  BY <1>6, <1>7, <1>8 DEF ReceiveRequest, m

LEMMA ReceiveRelayIInv ==
  ASSUME IInv, NEW n \in Nodes, ReceiveRelay(n)
  PROVE  IInv'
<1>. DEFINE m == Head(mailbox[n])
<1>1. m \in Message /\ m.from \in Nodes /\ m.seq \in Nat /\ m.relay \in Nodes
  BY HeadFacts, MessageFacts DEF ReceiveRelay
<1>2. /\ seq' = [seq EXCEPT ![n] = IF @ < m.seq THEN m.seq ELSE @]
      /\ UNCHANGED <<num_req, is_inCS, answerVars, hung>>
  BY DEF ReceiveRelay
<1>3. CountersOK'
  BY <1>1, <1>2 DEF IInv, CountersOK, answerVars
<1>4. CASE /\ token_list' = [token_list EXCEPT ![n] = Insert(@, <<m.seq, m.from>>, m.relay)]
           /\ Consume(n, <<>>)
           /\ UNCHANGED <<token_holder, has_token>>
  <2>1. NetHolds(Envelope, AnyMessage)'
    BY <1>4, SentTyped, ConsumeHolds DEF IInv
  <2>2. <<m.seq, m.from>> \in Pairs /\ m.relay \in Nat
    BY <1>1, NodesAssumption DEF Pairs
  <2>3. HolderOK'
    BY <1>2, <1>4, <2>2, CollectOK DEF IInv
  <2>. QED
    BY <1>3, <2>1, <2>3 DEF IInv
<1>5. CASE GiveToken(n, m.relay) /\ Consume(n, Handover(n, m.relay, token_list[n]))
  <2>1. NetHolds(Envelope, AnyMessage)'
    BY <1>1, <1>5, HandoverTyped, ConsumeHolds DEF IInv, HolderOK
  <2>2. HolderOK'
    BY <1>1, <1>2, <1>5, GiveTokenOK DEF IInv, HolderOK
  <2>. QED
    BY <1>3, <2>1, <2>2 DEF IInv
<1>. QED
  BY <1>4, <1>5 DEF ReceiveRelay

LEMMA FinishCSIInv ==
  ASSUME IInv, NEW n \in Nodes, FinishCS(n)
  PROVE  IInv'
<1>. DEFINE list == token_list[n]
            first == Begin(DOMAIN list)[2]
<1>1. /\ is_inCS' = [is_inCS EXCEPT ![n] = FALSE]
      /\ UNCHANGED <<num_req, seq, answerVars, hung>>
  BY DEF FinishCS
<1>2. CountersOK' /\ is_inCS' \in [Nodes -> BOOLEAN]
  BY <1>1 DEF IInv, CountersOK, HolderOK, answerVars
<1>3. CASE DOMAIN list # {} /\ GiveToken(n, first) /\ Emit(n, Handover(n, first, list))
  <2>1. ListOK(list) /\ first \in Nodes
    BY <1>3, ListEnds DEF IInv, HolderOK
  <2>2. NetHolds(Envelope, AnyMessage)'
    BY <1>3, <2>1, HandoverTyped, EmitHolds DEF IInv
  <2>3. HolderOK'
    BY <1>1, <1>2, <1>3, <2>1, GiveTokenOK DEF IInv
  <2>. QED
    BY <1>2, <2>2, <2>3 DEF IInv
<1>4. CASE UNCHANGED <<netVars, tokenVars>>
  BY <1>1, <1>2, <1>4 DEF IInv, NetHolds, HolderOK, netVars, tokenVars
<1>. QED
  BY <1>3, <1>4 DEF FinishCS

LEMMA ReceiveTokenIInv ==
  ASSUME IInv, NEW n \in Nodes, ReceiveToken(n)
  PROVE  IInv'
<1>. DEFINE m == Head(mailbox[n])
<1>1. m \in Message /\ m.from \in Nodes
  BY HeadFacts DEF ReceiveToken
<1>2. CountersOK' /\ UNCHANGED hung
  BY DEF IInv, CountersOK, ReceiveToken, answerVars
<1>3. CASE /\ GiveToken(n, m.from)
           /\ Consume(n, To(m.from, Token(n, m.from, token_list[n])))
           /\ UNCHANGED is_inCS
  <2>1. To(m.from, Token(n, m.from, token_list[n])) \in Seq(Envelope)
    BY <1>1, TokenMade, SentTyped DEF IInv, HolderOK
  <2>2. NetHolds(Envelope, AnyMessage)'
    BY <1>3, <2>1, ConsumeHolds DEF IInv
  <2>3. HolderOK'
    BY <1>1, <1>2, <1>3, GiveTokenOK DEF IInv, HolderOK
  <2>. QED
    BY <1>2, <2>2, <2>3 DEF IInv
<1>4. CASE /\ has_token' = [has_token EXCEPT ![n] = TRUE]
           /\ token_holder' = [token_holder EXCEPT ![n] = n]
           /\ is_inCS' = [is_inCS EXCEPT ![n] = @ \/ m.req_list # {}]
           /\ Consume(n, Receipts(n))
           /\ UNCHANGED token_list
  <2>1. NetHolds(Envelope, AnyMessage)'
    BY <1>4, ReceiptsTyped, ConsumeHolds DEF IInv
  <2>2. HolderOK'
    BY <1>2, <1>4 DEF IInv, HolderOK
  <2>. QED
    BY <1>2, <2>1, <2>2 DEF IInv
<1>. QED
  BY <1>3, <1>4 DEF ReceiveToken

\* The handlers that send nothing.
LEMMA QuietHandlerIInv ==
  ASSUME IInv, NEW n \in Nodes,
         ReceiveTokenHangs(n) \/ ReceiveAck(n) \/ ReceiveReceive(n) \/ ReceiveRelease(n)
  PROVE  IInv'
<1>1. Head(mailbox[n]).from \in Nodes
  BY HeadFacts DEF ReceiveTokenHangs, ReceiveAck, ReceiveReceive, ReceiveRelease
<1>2. Consume(n, <<>>)
  BY DEF ReceiveTokenHangs, ReceiveAck, ReceiveReceive, ReceiveRelease
<1>3. NetHolds(Envelope, AnyMessage)'
  BY <1>2, SentTyped, ConsumeHolds DEF IInv
<1>4. Released(n) \in Nodes \cup {Unknown}
  BY DEF Released
<1>5. CountersOK'
  <2>1. CASE ReceiveAck(n)
    <3>1. acked_node[n] \cup {Head(mailbox[n]).from} \in SUBSET Nodes /\ expt_resp[n] - 1 \in Int
      BY <1>1 DEF IInv, CountersOK
    <3>2. /\ acked_node' = [acked_node EXCEPT ![n] = @ \cup {Head(mailbox[n]).from}]
          /\ expt_resp' = [expt_resp EXCEPT ![n] = @ - 1]
          /\ UNCHANGED <<num_req, seq>>
      BY <2>1 DEF ReceiveAck
    <3>. QED
      BY <3>1, <3>2 DEF IInv, CountersOK
  <2>2. CASE ReceiveTokenHangs(n) \/ ReceiveReceive(n) \/ ReceiveRelease(n)
    <3>1. UNCHANGED <<num_req, seq, answerVars>>
      BY <2>2 DEF ReceiveTokenHangs, ReceiveReceive, ReceiveRelease
    <3>. QED
      BY <3>1 DEF IInv, CountersOK, answerVars
  <2>. QED
    BY <2>1, <2>2
<1>6. HolderOK'
  BY <1>1, <1>4 DEF IInv, HolderOK, tokenVars, ReceiveTokenHangs, ReceiveAck, ReceiveReceive,
                    ReceiveRelease
<1>. QED
  BY <1>3, <1>5, <1>6 DEF IInv

LEMMA SwitchIInv ==
  ASSUME IInv, NEW n \in Nodes, Switch(n)
  PROVE  IInv'
<1>1. \A e \in Envelope : e.to \in Nodes => e.msg \in AnyMessage[e.to]
  BY DEF Envelope, AnyMessage
<1>2. NetHolds(Envelope, AnyMessage)'
  BY <1>1, SwitchHolds DEF IInv, Switch
<1>. QED
  BY <1>2 DEF IInv, Switch, nodeVars, tokenVars, answerVars, CountersOK, HolderOK

LEMMA StepIInv == IInv /\ [Next]_vars => IInv'
<1>. SUFFICES ASSUME IInv, [Next]_vars PROVE IInv'
  OBVIOUS
<1>1. CASE UNCHANGED vars
  BY <1>1 DEF vars, netVars, nodeVars, tokenVars, answerVars, IInv, NetHolds, CountersOK,
              HolderOK
<1>2. ASSUME NEW n \in Nodes, NodeStep(n) PROVE IInv'
  BY <1>2, SendRequestIInv, ReceiveRequestIInv, ReceiveRelayIInv, ReceiveTokenIInv,
     QuietHandlerIInv, FinishCSIInv DEF NodeStep, Handle
<1>. QED
  BY <1>1, <1>2, SwitchIInv DEF Next

LEMMA Invariance == Spec => []IInv
BY InitIInv, StepIInv, PTL DEF Spec

\* Every variable keeps its type; no message goes to Unknown, although a node may
\* know of no holder.
THEOREM TypeCorrect == Spec => []TypeOK
BY Invariance, IInvImplies, PTL

-----------------------------------------------------------------------------
(* The token is never lost.  A node that has it keeps it or sends it in    *)
(* the same step, and what is sent stays on its way until it is handled.   *)

Somewhere(n) ==
  has_token[n] \/ hung[n] \/ TokensIn(mailbox[n]) # {} \/ TokensOut(outq[n]) # {}

LEMMA OutConcat ==
  ASSUME NEW s \in Seq(Envelope), NEW t \in Seq(Envelope),
         TokensOut(s) # {} \/ TokensOut(t) # {}
  PROVE  TokensOut(s \o t) # {}
<1>1. CASE TokensOut(s) # {}
  <2>1. PICK i \in 1..Len(s) : s[i].msg.type = "TOKEN"
    BY <1>1, LenProperties DEF TokensOut
  <2>2. i \in DOMAIN (s \o t) /\ (s \o t)[i] = s[i]
    BY <2>1, ConcatProperties, LenProperties
  <2>. QED
    BY <2>1, <2>2 DEF TokensOut
<1>2. CASE TokensOut(t) # {}
  <2>1. PICK i \in 1..Len(t) : t[i].msg.type = "TOKEN"
    BY <1>2, LenProperties DEF TokensOut
  <2>2. Len(s) + i \in DOMAIN (s \o t) /\ (s \o t)[Len(s) + i] = t[i]
    BY <2>1, ConcatProperties, LenProperties
  <2>. QED
    BY <2>1, <2>2 DEF TokensOut
<1>. QED
  BY <1>1, <1>2

LEMMA TokenSent ==
  ASSUME NEW n \in Nodes, NEW to \in Nodes, NEW list, ListOK(list)
  PROVE  /\ TokensOut(To(to, Token(n, to, list))) # {}
         /\ TokensOut(Handover(n, to, list)) # {}
<1>. DEFINE e == [to |-> to, msg |-> Token(n, to, list)]
<1>1. To(to, Token(n, to, list)) = <<e>> /\ e.msg.type = "TOKEN"
  BY TokenMade DEF To
<1>. HIDE DEF e
<1>2. TokensOut(To(to, Token(n, to, list))) # {}
  <2>1. 1 \in DOMAIN <<e>> /\ <<e>>[1] = e
    OBVIOUS
  <2>. QED
    BY <1>1, <2>1 DEF TokensOut
<1>3. To(to, Token(n, to, list)) \in Seq(Envelope)
  BY TokenMade, SentTyped
<1>4. ToPeers(n, Signal("RELEASE", n)) \in Seq(Envelope)
  BY MadeMessages, SentTyped DEF Signals
<1>. QED
  BY <1>2, <1>3, <1>4, OutConcat DEF Handover

LEMMA InTail ==
  ASSUME NEW s \in Seq(Message), s # <<>>, Head(s).type # "TOKEN", TokensIn(s) # {}
  PROVE  TokensIn(Tail(s)) # {}
<1>1. PICK i \in 1..Len(s) : s[i].type = "TOKEN"
  BY LenProperties DEF TokensIn
<1>2. i # 1
  BY <1>1
<1>3. i - 1 \in DOMAIN Tail(s) /\ Tail(s)[i - 1] = s[i]
  BY <1>1, <1>2, HeadTailProperties, LenProperties
<1>. QED
  BY <1>1, <1>3 DEF TokensIn

LEMMA OutTail ==
  ASSUME NEW s \in Seq(Envelope), s # <<>>, Head(s).msg.type # "TOKEN", TokensOut(s) # {}
  PROVE  TokensOut(Tail(s)) # {}
<1>1. PICK i \in 1..Len(s) : s[i].msg.type = "TOKEN"
  BY LenProperties DEF TokensOut
<1>2. i # 1
  BY <1>1
<1>3. i - 1 \in DOMAIN Tail(s) /\ Tail(s)[i - 1] = s[i]
  BY <1>1, <1>2, HeadTailProperties, LenProperties
<1>. QED
  BY <1>1, <1>3 DEF TokensOut

LEMMA InAppend ==
  ASSUME NEW s \in Seq(Message), NEW m \in Message, TokensIn(s) # {} \/ m.type = "TOKEN"
  PROVE  TokensIn(Append(s, m)) # {}
<1>1. CASE TokensIn(s) # {}
  <2>1. PICK i \in 1..Len(s) : s[i].type = "TOKEN"
    BY <1>1, LenProperties DEF TokensIn
  <2>2. i \in DOMAIN Append(s, m) /\ Append(s, m)[i] = s[i]
    BY <2>1, AppendProperties, LenProperties
  <2>. QED
    BY <2>1, <2>2 DEF TokensIn
<1>2. CASE m.type = "TOKEN"
  <2>1. Len(s) + 1 \in DOMAIN Append(s, m) /\ Append(s, m)[Len(s) + 1] = m
    BY AppendProperties, LenProperties
  <2>. QED
    BY <1>2, <2>1 DEF TokensIn
<1>. QED
  BY <1>1, <1>2

\* The queues hold what they may hold.
LEMMA QueueTypes ==
  ASSUME IInv, NEW n \in Nodes
  PROVE  /\ outq[n] \in Seq(Envelope)
         /\ mailbox[n] \in Seq(Message)
BY DEF IInv, NetHolds, AnyMessage

\* A step of n touches nothing of another node.
Local(n) ==
  \A k \in Nodes \ {n} :
    /\ has_token'[k] = has_token[k] /\ hung'[k] = hung[k]
    /\ mailbox'[k] = mailbox[k] /\ outq'[k] = outq[k]

\* n keeps the token or sends it on, or did not have it.
LEMMA NodeKeeps ==
  ASSUME IInv, NEW n \in Nodes, NEW k \in Nodes, Somewhere(k), Local(n),
         \/ Somewhere(n)'
         \/ /\ has_token'[n] = has_token[n] /\ hung'[n] = hung[n]
            /\ TokensOut(outq[n]) # {} => TokensOut(outq'[n]) # {}
            /\ TokensIn(mailbox[n]) # {} => TokensIn(mailbox'[n]) # {}
  PROVE  \E j \in Nodes : Somewhere(j)'
<1>1. CASE k # n
  BY <1>1 DEF Local, Somewhere
<1>2. CASE k = n
  BY <1>2 DEF Somewhere
<1>. QED
  BY <1>1, <1>2

\* What n has sent before stays on its way when n reads or sends.
LEMMA SendingKeeps ==
  ASSUME IInv, NEW n \in Nodes, NEW s \in Seq(Envelope), Consume(n, s) \/ Emit(n, s)
  PROVE  /\ TokensOut(outq[n]) # {} \/ TokensOut(s) # {} => TokensOut(outq'[n]) # {}
         /\ \A k \in Nodes \ {n} : mailbox'[k] = mailbox[k] /\ outq'[k] = outq[k]
<1>1. outq'[n] = outq[n] \o s
  BY DEF IInv, NetHolds, Consume, Emit
<1>2. outq[n] \in Seq(Envelope)
  BY QueueTypes
<1>. QED
  BY <1>1, <1>2, OutConcat DEF IInv, NetHolds, Consume, Emit

\* A message that is not a TOKEN is read.
LEMMA ReadingKeeps ==
  ASSUME IInv, NEW n \in Nodes, NEW s, Consume(n, s), Head(mailbox[n]).type # "TOKEN",
         TokensIn(mailbox[n]) # {}
  PROVE  TokensIn(mailbox'[n]) # {}
<1>1. mailbox'[n] = Tail(mailbox[n]) /\ mailbox[n] # <<>>
  BY DEF IInv, NetHolds, Consume
<1>. QED
  BY <1>1, QueueTypes, InTail

\* A handler of another message than TOKEN that does not touch has_token.
LEMMA OrdinaryKeeps ==
  ASSUME IInv, NEW n \in Nodes, NEW k \in Nodes, Somewhere(k), NEW s \in Seq(Envelope),
         Consume(n, s), Head(mailbox[n]).type # "TOKEN", UNCHANGED <<has_token, hung>>
  PROVE  \E j \in Nodes : Somewhere(j)'
<1>1. Local(n)
  BY SendingKeeps DEF Local
<1>. QED
  BY <1>1, SendingKeeps, ReadingKeeps, NodeKeeps

\* A step that sends the token, whatever it does to has_token.
LEMMA HandoverKeeps ==
  ASSUME IInv, NEW n \in Nodes, NEW s \in Seq(Envelope), Consume(n, s) \/ Emit(n, s),
         TokensOut(s) # {}
  PROVE  \E j \in Nodes : Somewhere(j)'
BY SendingKeeps DEF Somewhere

LEMMA SendRequestKeeps ==
  ASSUME IInv, NEW n \in Nodes, NEW k \in Nodes, Somewhere(k), SendRequest(n)
  PROVE  \E j \in Nodes : Somewhere(j)'
<1>1. UNCHANGED <<has_token, hung>>
  BY DEF SendRequest, tokenVars
<1>2. CASE UNCHANGED netVars
  BY <1>1, <1>2 DEF Somewhere, netVars
<1>3. CASE Emit(n, Asked(n, Request(n, seq[n])))
  <2>1. Asked(n, Request(n, seq[n])) \in Seq(Envelope)
    BY MadeMessages, SentTyped DEF IInv, CountersOK, HolderOK
  <2>2. mailbox' = mailbox
    BY <1>3 DEF Emit
  <2>3. Local(n)
    BY <1>1, <1>3, <2>1, SendingKeeps DEF Local
  <2>. QED
    BY <1>1, <1>3, <2>1, <2>2, <2>3, SendingKeeps, NodeKeeps
<1>. QED
  BY <1>2, <1>3 DEF SendRequest

LEMMA ReceiveRequestKeeps ==
  ASSUME IInv, NEW n \in Nodes, NEW k \in Nodes, Somewhere(k), ReceiveRequest(n)
  PROVE  \E j \in Nodes : Somewhere(j)'
<1>. DEFINE head == Head(mailbox[n])
            m == IF seq[n] < head.seq THEN [head EXCEPT !.seq = @ + 1] ELSE head
            list == Insert(token_list[n], <<m.seq, m.from>>, m.seq)
<1>1. head \in Message /\ head.type = "REQUEST" /\ head.from \in Nodes /\ head.seq \in Nat
  BY HeadFacts, MessageFacts DEF ReceiveRequest
<1>2. m.from \in Nodes /\ m.seq \in Nat
  <2>1. head \in [type : {"REQUEST"}, from : Nodes, seq : Nat]
    BY <1>1 DEF Message
  <2>2. m \in [type : {"REQUEST"}, from : Nodes, seq : Nat]
    BY <2>1
  <2>. QED
    BY <2>2
<1>3. ListOK(list)
  BY <1>2, InsertOK DEF IInv, HolderOK, Pairs
<1>4. UNCHANGED hung
  BY DEF ReceiveRequest
<1>. HIDE DEF m
<1>5. CASE Consume(n, <<>>) /\ UNCHANGED has_token
  BY <1>1, <1>4, <1>5, SentTyped, OrdinaryKeeps
<1>6. CASE Consume(n, Handover(n, m.from, list))
  BY <1>2, <1>3, <1>6, HandoverTyped, TokenSent, HandoverKeeps
<1>7. CASE /\ Consume(n, IF token_holder[n] = Unknown THEN To(m.from, Signal("ACK", n))
                         ELSE To(token_holder[n], Relay(n, m)))
           /\ UNCHANGED tokenVars
  <2>1. To(m.from, Signal("ACK", n)) \in Seq(Envelope)
    BY <1>2, MadeMessages, SentTyped DEF Signals
  <2>2. token_holder[n] # Unknown => To(token_holder[n], Relay(n, m)) \in Seq(Envelope)
    BY <1>2, MadeMessages, SentTyped DEF IInv, HolderOK
  <2>3. UNCHANGED has_token
    BY <1>7 DEF tokenVars
  <2>. QED
    BY <1>1, <1>4, <1>7, <2>1, <2>2, <2>3, OrdinaryKeeps
<1>. QED
  BY <1>5, <1>6, <1>7 DEF ReceiveRequest, m

LEMMA ReceiveRelayKeeps ==
  ASSUME IInv, NEW n \in Nodes, NEW k \in Nodes, Somewhere(k), ReceiveRelay(n)
  PROVE  \E j \in Nodes : Somewhere(j)'
<1>. DEFINE m == Head(mailbox[n])
<1>1. m.type = "RELAY" /\ m.relay \in Nodes /\ ListOK(token_list[n])
  BY HeadFacts, MessageFacts DEF ReceiveRelay, IInv, HolderOK
<1>2. UNCHANGED hung
  BY DEF ReceiveRelay
<1>3. CASE Consume(n, <<>>) /\ UNCHANGED has_token
  BY <1>1, <1>2, <1>3, SentTyped, OrdinaryKeeps
<1>4. CASE Consume(n, Handover(n, m.relay, token_list[n]))
  BY <1>1, <1>4, HandoverTyped, TokenSent, HandoverKeeps
<1>. QED
  BY <1>3, <1>4 DEF ReceiveRelay

LEMMA FinishCSKeeps ==
  ASSUME IInv, NEW n \in Nodes, NEW k \in Nodes, Somewhere(k), FinishCS(n)
  PROVE  \E j \in Nodes : Somewhere(j)'
<1>. DEFINE list == token_list[n]
            first == Begin(DOMAIN list)[2]
<1>1. CASE DOMAIN list # {} /\ Emit(n, Handover(n, first, list))
  <2>1. ListOK(list) /\ first \in Nodes
    BY <1>1, ListEnds DEF IInv, HolderOK
  <2>. QED
    BY <1>1, <2>1, HandoverTyped, TokenSent, HandoverKeeps
<1>2. CASE UNCHANGED <<netVars, tokenVars>>
  BY <1>2 DEF Somewhere, netVars, tokenVars, FinishCS
<1>. QED
  BY <1>1, <1>2 DEF FinishCS

LEMMA ReceiveTokenKeeps ==
  ASSUME IInv, NEW n \in Nodes, NEW k \in Nodes, Somewhere(k),
         ReceiveToken(n) \/ ReceiveTokenHangs(n)
  PROVE  \E j \in Nodes : Somewhere(j)'
<1>. DEFINE m == Head(mailbox[n])
<1>1. m.from \in Nodes /\ ListOK(token_list[n])
  <2>1. Receives(n, "TOKEN")
    BY DEF ReceiveToken, ReceiveTokenHangs
  <2>. QED
    BY <2>1, HeadFacts DEF IInv, HolderOK
<1>2. CASE Consume(n, To(m.from, Token(n, m.from, token_list[n])))
  <2>1. To(m.from, Token(n, m.from, token_list[n])) \in Seq(Envelope)
    BY <1>1, TokenMade, SentTyped
  <2>2. TokensOut(To(m.from, Token(n, m.from, token_list[n]))) # {}
    BY <1>1, TokenSent
  <2>. QED
    BY <1>2, <2>1, <2>2, HandoverKeeps
<1>3. CASE has_token' = [has_token EXCEPT ![n] = TRUE]
  BY <1>3 DEF Somewhere, IInv, HolderOK
<1>4. CASE ReceiveTokenHangs(n)
  BY <1>4 DEF Somewhere, IInv, HolderOK, ReceiveTokenHangs
<1>. QED
  BY <1>2, <1>3, <1>4 DEF ReceiveToken

LEMMA NewsKeeps ==
  ASSUME IInv, NEW n \in Nodes, NEW k \in Nodes, Somewhere(k),
         ReceiveAck(n) \/ ReceiveReceive(n) \/ ReceiveRelease(n)
  PROVE  \E j \in Nodes : Somewhere(j)'
<1>1. /\ Consume(n, <<>>) /\ UNCHANGED <<has_token, hung>>
      /\ Head(mailbox[n]).type # "TOKEN"
  BY DEF ReceiveAck, ReceiveReceive, ReceiveRelease, Receives, tokenVars
<1>. QED
  BY <1>1, SentTyped, OrdinaryKeeps

\* The switch of n takes the token from outq[n] to the mailbox of its addressee.
LEMMA SwitchKeeps ==
  ASSUME IInv, NEW n \in Nodes, NEW k \in Nodes, Somewhere(k), NetStatus[n] # 3, Switch(n)
  PROVE  \E j \in Nodes : Somewhere(j)'
<1>. DEFINE e == Head(outq[n])
<1>1. /\ outq[n] # <<>>
      /\ Deliver(e)
      /\ outq' = [outq EXCEPT ![n] = Tail(@)]
      /\ UNCHANGED <<has_token, hung>>
  BY DEF Switch, SwitchStep, Forward, Drop, nodeVars, tokenVars
<1>2. outq[n] \in Seq(Envelope) /\ e \in Envelope
  BY <1>1, QueueTypes, HeadTailProperties
<1>3. e.to \in Nodes /\ e.msg \in Message
  BY <1>2 DEF Envelope
<1>4. mailbox' = [mailbox EXCEPT ![e.to] = Append(@, e.msg)]
  BY <1>1, <1>3 DEF Deliver
<1>5. /\ mailbox'[e.to] = Append(mailbox[e.to], e.msg)
      /\ \A j \in Nodes \ {e.to} : mailbox'[j] = mailbox[j]
  BY <1>3, <1>4 DEF IInv, NetHolds
<1>6. \A j \in Nodes : TokensIn(mailbox[j]) # {} => TokensIn(mailbox'[j]) # {}
  BY <1>3, <1>5, QueueTypes, InAppend
<1>7. CASE e.msg.type = "TOKEN"
  <2>1. TokensIn(mailbox'[e.to]) # {}
    BY <1>3, <1>5, <1>7, QueueTypes, InAppend
  <2>. QED
    BY <1>3, <2>1 DEF Somewhere
<1>8. CASE e.msg.type # "TOKEN"
  <2>1. outq'[n] = Tail(outq[n]) /\ \A j \in Nodes \ {n} : outq'[j] = outq[j]
    BY <1>1 DEF IInv, NetHolds
  <2>2. TokensOut(outq[n]) # {} => TokensOut(outq'[n]) # {}
    BY <1>1, <1>2, <1>8, <2>1, OutTail
  <2>3. CASE k = n
    BY <1>1, <1>6, <2>2, <2>3 DEF Somewhere
  <2>4. CASE k # n
    BY <1>1, <1>6, <2>1, <2>4 DEF Somewhere
  <2>. QED
    BY <2>3, <2>4
<1>. QED
  BY <1>7, <1>8

LEMMA StepKeeps == IInv /\ TokenSurvives /\ [Next]_vars => TokenSurvives'
<1>. SUFFICES ASSUME IInv, TokenSurvives, [Next]_vars, \A n \in Nodes : NetStatus[n] # 3
              PROVE  \E j \in Nodes : Somewhere(j)'
  BY DEF TokenSurvives, Somewhere
<1>1. PICK k \in Nodes : Somewhere(k)
  BY DEF TokenSurvives, Somewhere
<1>2. CASE UNCHANGED vars
  BY <1>1, <1>2 DEF Somewhere, vars, netVars, nodeVars, tokenVars
<1>3. ASSUME NEW n \in Nodes, NodeStep(n) PROVE \E j \in Nodes : Somewhere(j)'
  BY <1>1, <1>3, SendRequestKeeps, ReceiveRequestKeeps, ReceiveRelayKeeps, FinishCSKeeps,
     ReceiveTokenKeeps, NewsKeeps DEF NodeStep, Handle
<1>. QED
  BY <1>1, <1>2, <1>3, SwitchKeeps DEF Next

LEMMA InitKeeps == Init => TokenSurvives
BY TokenAssumption DEF Init, TokenSurvives

\* No step of any node loses the token: as long as the network loses no message,
\* the token is held, or on its way, or was swallowed by a parser that hangs.
THEOREM TokenNeverLost == Spec => []TokenSurvives
BY Invariance, InitKeeps, StepKeeps, PTL DEF Spec

-----------------------------------------------------------------------------
(* LAKNode uses the network as SwitchNet describes it.                     *)

LEMMA OutTyped == IInv => outq \in [Nodes -> Seq(Envelope)]
BY DEF IInv, NetHolds

LEMMA HandoverIsSeq ==
  ASSUME NEW n \in Nodes, NEW to, NEW list
  PROVE  IsSeq(Handover(n, to, list))
BY ToIsSeq, ToPeersIsSeq, ConcatIsSeq DEF Handover

LEMMA ReceiptsIsSeq ==
  ASSUME NEW n \in Nodes
  PROVE  IsSeq(Receipts(n))
<1>1. Receipts(n) \in Seq(Envelope)
  BY ReceiptsTyped
<1>. QED
  BY <1>1 DEF IsSeq

\* A handler takes one message and sends a burst.
LEMMA HandlerSends ==
  ASSUME IInv, NEW k \in Nodes, Handle(k)
  PROVE  \E s : IsSeq(s) /\ Consume(k, s)
<1>1. CASE ReceiveRequest(k)
  <2>. DEFINE head == Head(mailbox[k])
              m == IF seq[k] < head.seq THEN [head EXCEPT !.seq = @ + 1] ELSE head
              list == Insert(token_list[k], <<m.seq, m.from>>, m.seq)
  <2>1. \/ Consume(k, <<>>)
        \/ Consume(k, Handover(k, m.from, list))
        \/ Consume(k, To(m.from, Signal("ACK", k)))
        \/ Consume(k, To(token_holder[k], Relay(k, m)))
    BY <1>1 DEF ReceiveRequest
  <2>. HIDE DEF m, list
  <2>. QED
    BY <2>1, NothingIsSeq, ToIsSeq, HandoverIsSeq
<1>2. CASE ReceiveRelay(k)
  BY <1>2, NothingIsSeq, HandoverIsSeq DEF ReceiveRelay
<1>3. CASE ReceiveToken(k)
  BY <1>3, ToIsSeq, ReceiptsIsSeq DEF ReceiveToken
<1>4. CASE ReceiveTokenHangs(k) \/ ReceiveAck(k) \/ ReceiveReceive(k) \/ ReceiveRelease(k)
  BY <1>4, NothingIsSeq DEF ReceiveTokenHangs, ReceiveAck, ReceiveReceive, ReceiveRelease
<1>. QED
  BY <1>1, <1>2, <1>3, <1>4 DEF Handle

LEMMA HandlerIsNet ==
  ASSUME IInv, NEW n \in Nodes, Handle(n)
  PROVE  NetNext
<1>1. PICK s : IsSeq(s) /\ Consume(n, s)
  BY HandlerSends
<1>. QED
  BY <1>1, OutTyped, ConsumeIsNet

LEMMA OwnStepIsNet ==
  ASSUME IInv, NEW n \in Nodes, SendRequest(n) \/ FinishCS(n)
  PROVE  NetNext \/ UNCHANGED netVars
<1>1. CASE UNCHANGED netVars
  BY <1>1
<1>2. CASE ~UNCHANGED netVars
  <2>1. PICK s : IsSeq(s) /\ Emit(n, s)
    <3>1. CASE SendRequest(n)
      BY <3>1, <1>2, ToIsSeq, ToPeersIsSeq DEF SendRequest, Asked
    <3>2. CASE FinishCS(n)
      BY <3>2, <1>2, HandoverIsSeq DEF FinishCS
    <3>. QED
      BY <3>1, <3>2
  <2>. QED
    BY <2>1, OutTyped, EmitIsNet
<1>. QED
  BY <1>1, <1>2

LEMMA StepIsNet == IInv /\ [Next]_vars => [NetNext]_netVars
<1>. SUFFICES ASSUME IInv, [Next]_vars PROVE NetNext \/ UNCHANGED netVars
  OBVIOUS
<1>1. CASE UNCHANGED vars
  BY <1>1 DEF vars
<1>2. ASSUME NEW n \in Nodes, NodeStep(n) PROVE NetNext \/ UNCHANGED netVars
  BY <1>2, HandlerIsNet, OwnStepIsNet DEF NodeStep
<1>3. ASSUME NEW n \in Nodes, Switch(n) PROVE NetNext
  BY <1>3 DEF Switch, NetNext
<1>. QED
  BY <1>1, <1>2, <1>3 DEF Next

\* The token algorithm runs on the network that Transport implements, as Maekawa's does.
THEOREM UsesNet == Spec => NetSpec
<1>1. Init => NetInit
  BY DEF Init
<1>. QED
  BY <1>1, StepIsNet, Invariance, PTL DEF Spec, NetSpec

-----------------------------------------------------------------------------
(* Two neighbours.  When only the first holder and one node of its quorum  *)
(* ask, each of them as often as it likes but not before its last request  *)
(* is over, then whoever asks knows the holder, and no request is relayed. *)
(* They compete all the same: a request may chase the token, or come       *)
(* during the other's section and be collected.                            *)

CONSTANT Partner     \* the second of the two; the first is node 1

Pair == {1, Partner}
Other(n) == IF n = 1 THEN Partner ELSE 1

Neighbours ==
  /\ Partner \in PeerSet(1) /\ 1 \in PeerSet(Partner)
  /\ Spaced
  /\ \A n \in Nodes \ Pair : Schedule[n] = 0
  /\ \A n \in Nodes : NetStatus[n] # 3

\* The TOKEN that answers the request numbered s of n.
Gift(n, s) ==
  [type |-> "TOKEN", from |-> Other(n), req_list |-> {<<s, n>>}, tail |-> s]

\* What may be on its way to n, one of the two.
Words(n) ==
  {Signal("RECEIVE", Other(n)), Signal("RELEASE", Other(n))}
    \cup {Gift(n, s) : s \in Nat} \cup {Request(Other(n), s) : s \in Nat}

\* The envelopes of a sequence for n, and their order: a REQUEST is the last, and
\* what the sender had to say before it gave the token away is ahead of it.
Msgs(n, s) == {s[i].msg : i \in {j \in 1..Len(s) : s[j].to = n}}
Follows(x, y) ==
  x.type = "RECEIVE" \/ (x.type \in {"TOKEN", "RELEASE"} /\ y.type \in {"RELEASE", "REQUEST"})
Ordered(n, s) ==
  \A i, j \in 1..Len(s) :
    i < j /\ s[i].to = n /\ s[j].to = n => Follows(s[i].msg, s[j].msg)

\* The line to n: what has arrived, and behind it what the other has sent.
Arrived(n, box) == [i \in 1..Len(box) |-> [to |-> n, msg |-> box[i]]]
Line(n) == Arrived(n, mailbox[n]) \o outq[Other(n)]
Coming(n) == Msgs(n, Line(n))

LinesOK == \A n \in Pair : Coming(n) \subseteq Words(n) /\ Ordered(n, Line(n))

\* All the others hear news only, and have nothing to say.
News == {"RECEIVE", "RELEASE"}
OthersOK ==
  /\ \A k \in Nodes : \A i \in 1..Len(outq[k]) :
       /\ k \in Pair /\ outq[k][i].to # k
       /\ outq[k][i].to \notin Pair => outq[k][i].msg.type \in News
  /\ \A p \in Nodes \ Pair :
       /\ \A i \in 1..Len(mailbox[p]) : mailbox[p][i].type \in News
       /\ ~has_token[p] /\ ~is_inCS[p] /\ DOMAIN token_list[p] = {}

\* h has the token, and both know it.  It may have collected the other's request.
Holds(h) ==
  /\ has_token[h] /\ ~has_token[Other(h)] /\ ~is_inCS[Other(h)]
  /\ token_holder[h] = h /\ token_holder[Other(h)] = h
  /\ token_list[Other(h)] = <<>>
  /\ \/ token_list[h] = <<>>
     \/ /\ is_inCS[h] /\ Coming(h) = {}
        /\ \E s \in Nat : token_list[h] = Insert(<<>>, <<s, Other(h)>>, s)
  /\ \A m \in Coming(h) : m.type \in {"RELEASE", "REQUEST"}
  /\ \A m \in Coming(Other(h)) : m.type = "RECEIVE"

\* Nobody has the token; the other takes n for the holder.
Between(n) ==
  /\ \A k \in Pair : ~has_token[k] /\ ~is_inCS[k] /\ token_list[k] = <<>>
  /\ token_holder[Other(n)] = n
  /\ Coming(Other(n)) = {}

\* The token is on its way to n.
Passing(n) == Between(n) /\ \E m \in Coming(n) : m.type = "TOKEN"

\* The parser of n has swallowed the token.
Swallowed(n) ==
  Between(n) /\ hung[n] /\ \A m \in Coming(n) : m.type \in {"RELEASE", "REQUEST"}

PhaseOK == \E n \in Pair : Holds(n) \/ Passing(n) \/ Swallowed(n)

TurnInv == LinesOK /\ OthersOK /\ PhaseOK

-----------------------------------------------------------------------------
(* The line.                                                               *)

LEMMA ConcatParts ==
  ASSUME NEW n, NEW s \in Seq(Envelope), NEW t \in Seq(Envelope)
  PROVE  /\ Msgs(n, s \o t) = Msgs(n, s) \cup Msgs(n, t)
         /\ Ordered(n, s \o t) <=>
              /\ Ordered(n, s) /\ Ordered(n, t)
              /\ \A x \in Msgs(n, s), y \in Msgs(n, t) : Follows(x, y)
<1>. DEFINE u == s \o t
            a == Len(s)
            b == Len(t)
<1>1. /\ a \in Nat /\ b \in Nat /\ Len(u) = a + b
      /\ \A i \in 1..a : u[i] = s[i] /\ i \in 1..Len(u)
      /\ \A i \in 1..b : u[a + i] = t[i] /\ a + i \in 1..Len(u)
  BY ConcatProperties, LenProperties
<1>. HIDE DEF u, a, b
<1>2. \A i \in 1..Len(u) : i \in 1..a \/ \E k \in 1..b : i = a + k
  <2>. TAKE i \in 1..Len(u)
  <2>1. CASE i > a
    <3>1. i - a \in 1..b /\ i = a + (i - a)
      BY <1>1, <2>1
    <3>. QED
      BY <3>1
  <2>. QED
    BY <1>1, <2>1
<1>3. Msgs(n, u) = Msgs(n, s) \cup Msgs(n, t)
  <2>1. \A i \in 1..Len(u) : u[i].to = n => u[i].msg \in Msgs(n, s) \cup Msgs(n, t)
    <3>. TAKE i \in 1..Len(u)
    <3>1. CASE i \in 1..a
      BY <1>1, <3>1 DEF Msgs, a
    <3>2. ASSUME NEW k \in 1..b, i = a + k PROVE u[i].to = n => u[i].msg \in Msgs(n, t)
      BY <1>1, <3>2 DEF Msgs, b
    <3>. QED
      BY <1>2, <3>1, <3>2
  <2>2. \A i \in 1..a : s[i].to = n => s[i].msg \in Msgs(n, u)
    BY <1>1 DEF Msgs
  <2>3. \A i \in 1..b : t[i].to = n => t[i].msg \in Msgs(n, u)
    <3>. SUFFICES ASSUME NEW i \in 1..b, t[i].to = n PROVE t[i].msg \in Msgs(n, u)
      OBVIOUS
    <3>1. u[a + i] = t[i] /\ a + i \in 1..Len(u)
      BY <1>1
    <3>. QED
      BY <3>1 DEF Msgs
  <2>. QED
    BY <2>1, <2>2, <2>3 DEF Msgs, a, b
<1>4. ASSUME Ordered(n, u)
      PROVE  /\ Ordered(n, s) /\ Ordered(n, t)
             /\ \A x \in Msgs(n, s), y \in Msgs(n, t) : Follows(x, y)
  <2>1. \A i, j \in 1..a :
          i < j /\ s[i].to = n /\ s[j].to = n => Follows(s[i].msg, s[j].msg)
    BY <1>1, <1>4 DEF Ordered
  <2>2. ASSUME NEW i \in 1..b, NEW j \in 1..b, i < j, t[i].to = n, t[j].to = n
        PROVE  Follows(t[i].msg, t[j].msg)
    <3>1. u[a + i] = t[i] /\ u[a + j] = t[j] /\ a + i \in 1..Len(u) /\ a + j \in 1..Len(u)
      BY <1>1
    <3>2. a + i < a + j
      BY <1>1, <2>2
    <3>. QED
      BY <1>4, <2>2, <3>1, <3>2 DEF Ordered
  <2>3. ASSUME NEW i \in 1..a, NEW j \in 1..b, s[i].to = n, t[j].to = n
        PROVE  Follows(s[i].msg, t[j].msg)
    <3>1. u[i] = s[i] /\ u[a + j] = t[j] /\ i \in 1..Len(u) /\ a + j \in 1..Len(u)
      BY <1>1
    <3>2. i < a + j
      BY <1>1
    <3>. QED
      BY <1>4, <2>3, <3>1, <3>2 DEF Ordered
  <2>. QED
    BY <2>1, <2>2, <2>3 DEF Ordered, Msgs, a, b
<1>5. ASSUME Ordered(n, s), Ordered(n, t),
             \A x \in Msgs(n, s), y \in Msgs(n, t) : Follows(x, y)
      PROVE  Ordered(n, u)
  <2>. SUFFICES ASSUME NEW i \in 1..Len(u), NEW j \in 1..Len(u),
                       i < j, u[i].to = n, u[j].to = n
                PROVE  Follows(u[i].msg, u[j].msg)
    BY DEF Ordered
  <2>1. CASE i \in 1..a /\ j \in 1..a
    BY <1>1, <1>5, <2>1 DEF Ordered, a
  <2>2. ASSUME NEW k \in 1..b, j = a + k, i \in 1..a
        PROVE  Follows(u[i].msg, u[j].msg)
    <3>1. u[i] = s[i] /\ u[j] = t[k]
      BY <1>1, <2>2
    <3>2. s[i].msg \in Msgs(n, s) /\ t[k].msg \in Msgs(n, t)
      BY <2>2, <3>1 DEF Msgs, a, b
    <3>. QED
      BY <1>5, <3>1, <3>2
  <2>3. ASSUME NEW k \in 1..b, i = a + k, NEW l \in 1..b, j = a + l
        PROVE  Follows(u[i].msg, u[j].msg)
    <3>1. u[i] = t[k] /\ u[j] = t[l] /\ k < l
      BY <1>1, <2>3
    <3>. QED
      BY <1>5, <3>1 DEF Ordered, b
  <2>4. ~(i \notin 1..a /\ j \in 1..a)
    BY <1>1
  <2>. QED
    BY <1>2, <2>1, <2>2, <2>3, <2>4
<1>. QED
  BY <1>3, <1>4, <1>5 DEF u

LEMMA OneMessage ==
  ASSUME NEW n, NEW e \in Envelope
  PROVE  /\ <<e>> \in Seq(Envelope)
         /\ Msgs(n, <<e>>) = IF e.to = n THEN {e.msg} ELSE {}
         /\ Ordered(n, <<e>>)
<1>1. <<e>> \in Seq(Envelope) /\ Len(<<e>>) = 1 /\ <<e>>[1] = e
  OBVIOUS
<1>2. \A i \in 1..Len(<<e>>) : i = 1
  BY <1>1
<1>3. \A i, j \in 1..Len(<<e>>) : ~(i < j)
  BY <1>1
<1>. QED
  BY <1>1, <1>2, <1>3 DEF Msgs, Ordered

LEMMA NoMessage ==
  ASSUME NEW n
  PROVE  Msgs(n, <<>>) = {} /\ Ordered(n, <<>>) /\ <<>> \in Seq(Envelope)
<1>1. Len(<<>>) = 0 /\ <<>> \in Seq(Envelope)
  OBVIOUS
<1>. QED
  BY <1>1 DEF Msgs, Ordered

\* A sequence is its head and its tail.
LEMMA HeadAndTail ==
  ASSUME NEW s \in Seq(Envelope), s # <<>>
  PROVE  s = <<Head(s)>> \o Tail(s) /\ Head(s) \in Envelope /\ Tail(s) \in Seq(Envelope)
<1>1. /\ Head(s) \in Envelope /\ Tail(s) \in Seq(Envelope) /\ Len(Tail(s)) = Len(s) - 1
      /\ \A i \in 1..Len(Tail(s)) : Tail(s)[i] = s[i + 1]
      /\ Len(s) \in Nat
  BY HeadTailProperties, LenProperties
<1>2. <<Head(s)>> \in Seq(Envelope) /\ Len(<<Head(s)>>) = 1 /\ <<Head(s)>>[1] = s[1]
  BY <1>1
<1>3. /\ <<Head(s)>> \o Tail(s) \in Seq(Envelope)
      /\ Len(<<Head(s)>> \o Tail(s)) = Len(s)
      /\ (<<Head(s)>> \o Tail(s))[1] = s[1]
      /\ \A i \in 1..Len(Tail(s)) : (<<Head(s)>> \o Tail(s))[1 + i] = Tail(s)[i]
  BY <1>1, <1>2, ConcatProperties
<1>4. ASSUME NEW i \in 1..Len(s) PROVE (<<Head(s)>> \o Tail(s))[i] = s[i]
  <2>1. CASE i # 1
    <3>1. i - 1 \in 1..Len(Tail(s)) /\ i = 1 + (i - 1) /\ i = (i - 1) + 1
      BY <1>1, <2>1
    <3>. QED
      BY <1>1, <1>3, <3>1
  <2>. QED
    BY <1>3, <2>1
<1>. QED
  BY <1>1, <1>3, <1>4, SeqEqual

\* What has arrived is a sequence of envelopes.
LEMMA ArrivedIs ==
  ASSUME NEW n \in Nodes, NEW box \in Seq(Message)
  PROVE  /\ Arrived(n, box) \in Seq(Envelope) /\ Len(Arrived(n, box)) = Len(box)
         /\ \A i \in 1..Len(box) : Arrived(n, box)[i] = [to |-> n, msg |-> box[i]]
<1>1. Len(box) \in Nat /\ \A i \in 1..Len(box) : [to |-> n, msg |-> box[i]] \in Envelope
  BY LenProperties, ElementOfSeq DEF Envelope
<1>. QED
  BY <1>1, IsASeq DEF Arrived

LEMMA ArrivedHead ==
  ASSUME NEW n \in Nodes, NEW box \in Seq(Message), box # <<>>
  PROVE  /\ Arrived(n, box) = <<[to |-> n, msg |-> Head(box)]>> \o Arrived(n, Tail(box))
         /\ [to |-> n, msg |-> Head(box)] \in Envelope /\ Tail(box) \in Seq(Message)
<1>. DEFINE e == [to |-> n, msg |-> Head(box)]
            r == Arrived(n, Tail(box))
<1>1. /\ Head(box) \in Message /\ Tail(box) \in Seq(Message) /\ Len(Tail(box)) = Len(box) - 1
      /\ \A i \in 1..Len(Tail(box)) : Tail(box)[i] = box[i + 1]
      /\ Len(box) \in Nat /\ Head(box) = box[1]
  BY HeadTailProperties, LenProperties
<1>2. e \in Envelope
  BY <1>1 DEF Envelope
<1>3. /\ r \in Seq(Envelope) /\ Len(r) = Len(Tail(box))
      /\ \A i \in 1..Len(Tail(box)) : r[i] = [to |-> n, msg |-> Tail(box)[i]]
  BY <1>1, ArrivedIs
<1>4. <<e>> \in Seq(Envelope) /\ Len(<<e>>) = 1 /\ <<e>>[1] = e
  BY <1>2
<1>. HIDE DEF e, r
<1>5. /\ <<e>> \o r \in Seq(Envelope) /\ Len(<<e>> \o r) = Len(box)
      /\ (<<e>> \o r)[1] = e /\ \A i \in 1..Len(r) : (<<e>> \o r)[1 + i] = r[i]
  <2>1. /\ <<e>> \o r \in Seq(Envelope) /\ Len(<<e>> \o r) = 1 + Len(r)
        /\ \A i \in 1..(1 + Len(r)) :
             (<<e>> \o r)[i] = IF i <= 1 THEN <<e>>[i] ELSE r[i - 1]
    BY <1>3, <1>4, ConcatProperties
  <2>2. Len(r) \in Nat
    BY <1>1, <1>3
  <2>3. \A i \in 1..Len(r) : 1 + i \in 1..(1 + Len(r)) /\ ~(1 + i <= 1) /\ (1 + i) - 1 = i
    BY <2>2
  <2>4. 1 \in 1..(1 + Len(r)) /\ 1 + Len(r) = Len(box)
    BY <1>1, <1>3, <2>2
  <2>. QED
    BY <1>4, <2>1, <2>3, <2>4
<1>6. ASSUME NEW i \in 1..Len(box) PROVE (<<e>> \o r)[i] = [to |-> n, msg |-> box[i]]
  <2>1. CASE i = 1
    BY <1>1, <1>5, <2>1 DEF e
  <2>2. CASE i # 1
    <3>1. i - 1 \in 1..Len(Tail(box)) /\ i = 1 + (i - 1) /\ i = (i - 1) + 1
      BY <1>1, <2>2
    <3>2. r[i - 1] = [to |-> n, msg |-> Tail(box)[i - 1]] /\ Tail(box)[i - 1] = box[i]
      BY <1>1, <1>3, <3>1
    <3>. QED
      BY <1>3, <1>5, <3>1, <3>2
  <2>. QED
    BY <2>1, <2>2
<1>7. /\ Arrived(n, box) \in Seq(Envelope) /\ Len(Arrived(n, box)) = Len(box)
      /\ \A i \in 1..Len(box) : Arrived(n, box)[i] = [to |-> n, msg |-> box[i]]
  BY ArrivedIs
<1>8. Arrived(n, box) = <<e>> \o r
  BY <1>5, <1>6, <1>7, SeqEqual
<1>. QED
  BY <1>1, <1>2, <1>8 DEF e, r

LEMMA ArrivedAppend ==
  ASSUME NEW n \in Nodes, NEW box \in Seq(Message), NEW m \in Message
  PROVE  Arrived(n, Append(box, m)) = Arrived(n, box) \o <<[to |-> n, msg |-> m]>>
<1>. DEFINE e == [to |-> n, msg |-> m]
            a == Arrived(n, box)
            c == Append(box, m)
<1>1. /\ c \in Seq(Message) /\ Len(c) = Len(box) + 1 /\ Len(box) \in Nat
      /\ c[Len(box) + 1] = m /\ \A i \in 1..Len(box) : c[i] = box[i]
  BY AppendProperties, LenProperties
<1>2. /\ a \in Seq(Envelope) /\ Len(a) = Len(box)
      /\ \A i \in 1..Len(box) : a[i] = [to |-> n, msg |-> box[i]]
  BY ArrivedIs
<1>3. e \in Envelope /\ <<e>> \in Seq(Envelope) /\ Len(<<e>>) = 1 /\ <<e>>[1] = e
  BY DEF Envelope
<1>4. /\ Arrived(n, c) \in Seq(Envelope) /\ Len(Arrived(n, c)) = Len(c)
      /\ \A i \in 1..Len(c) : Arrived(n, c)[i] = [to |-> n, msg |-> c[i]]
  BY <1>1, ArrivedIs
<1>. HIDE DEF e, a, c
<1>5. /\ a \o <<e>> \in Seq(Envelope) /\ Len(a \o <<e>>) = Len(box) + 1
      /\ (a \o <<e>>)[Len(box) + 1] = e /\ \A i \in 1..Len(box) : (a \o <<e>>)[i] = a[i]
  <2>1. /\ a \o <<e>> \in Seq(Envelope) /\ Len(a \o <<e>>) = Len(box) + 1
        /\ \A i \in 1..(Len(box) + 1) :
             (a \o <<e>>)[i] = IF i <= Len(box) THEN a[i] ELSE <<e>>[i - Len(box)]
    BY <1>2, <1>3, ConcatProperties
  <2>2. \A i \in 1..Len(box) : i \in 1..(Len(box) + 1) /\ i <= Len(box)
    BY <1>1
  <2>3. /\ Len(box) + 1 \in 1..(Len(box) + 1) /\ ~(Len(box) + 1 <= Len(box))
        /\ (Len(box) + 1) - Len(box) = 1
    BY <1>1
  <2>. QED
    BY <1>3, <2>1, <2>2, <2>3
<1>6. ASSUME NEW i \in 1..Len(c) PROVE (a \o <<e>>)[i] = Arrived(n, c)[i]
  <2>1. CASE i = Len(box) + 1
    BY <1>1, <1>4, <1>5, <2>1 DEF e
  <2>2. CASE i # Len(box) + 1
    <3>1. i \in 1..Len(box)
      BY <1>1, <2>2
    <3>. QED
      BY <1>1, <1>2, <1>4, <1>5, <3>1
  <2>. QED
    BY <2>1, <2>2
<1>7. Arrived(n, c) = a \o <<e>>
  BY <1>1, <1>4, <1>5, <1>6, SeqEqual
<1>. QED
  BY <1>7 DEF e, a, c

-----------------------------------------------------------------------------
(* Facts about the two and their lines.                                    *)

LEMMA PairFacts ==
  ASSUME Neighbours
  PROVE  /\ Pair \subseteq Nodes
         /\ \A n \in Pair : /\ Other(n) \in Pair /\ Other(n) # n /\ Other(Other(n)) = n
                            /\ Pair = {n, Other(n)} /\ Other(n) \in PeerSet(n)
<1>1. 1 \in Nodes
  BY TokenAssumption
<1>2. Partner \in Nodes /\ Partner # 1
  BY <1>1, PeerSetFacts DEF Neighbours
<1>. QED
  BY <1>1, <1>2 DEF Neighbours, Pair, Other

\* The queues are functions of the nodes, and so is what the nodes hold.
LEMMA Typed ==
  ASSUME IInv
  PROVE  /\ outq = [k \in Nodes |-> outq[k]] /\ mailbox = [k \in Nodes |-> mailbox[k]]
         /\ outq \in [Nodes -> Seq(Envelope)]
         /\ has_token \in [Nodes -> BOOLEAN] /\ is_inCS \in [Nodes -> BOOLEAN]
         /\ hung \in [Nodes -> BOOLEAN]
         /\ token_holder \in [Nodes -> Nodes \cup {Unknown}]
         /\ token_list = [k \in Nodes |-> token_list[k]]
         /\ seq \in [Nodes -> Nat]
<1>1. outq \in [Nodes -> Seq(Envelope)]
  BY DEF IInv, NetHolds
<1>. QED
  BY <1>1 DEF IInv, NetHolds, HolderOK, CountersOK

LEMMA LineTyped ==
  ASSUME Neighbours, IInv, NEW n \in Pair
  PROVE  /\ n \in Nodes /\ Other(n) \in Nodes
         /\ Arrived(n, mailbox[n]) \in Seq(Envelope) /\ outq[Other(n)] \in Seq(Envelope)
         /\ mailbox[n] \in Seq(Message)
BY PairFacts, QueueTypes, ArrivedIs

\* The same facts about sequences of envelopes, for all of them at once.
LEMMA Joined ==
  \A s, t, u \in Seq(Envelope) : (s \o t) \o u = s \o (t \o u) /\ s \o t \in Seq(Envelope)
<1>. TAKE s, t, u \in Seq(Envelope)
<1>1. (s \o t) \o u = s \o (t \o u)
  BY ConcatAssociative
<1>2. s \o t \in Seq(Envelope)
  BY ConcatProperties
<1>. QED
  BY <1>1, <1>2

LEMMA PartsOf ==
  ASSUME NEW n
  PROVE  \A s, t \in Seq(Envelope) :
           /\ Msgs(n, s \o t) = Msgs(n, s) \cup Msgs(n, t)
           /\ Ordered(n, s \o t) <=>
                /\ Ordered(n, s) /\ Ordered(n, t)
                /\ \A x \in Msgs(n, s), y \in Msgs(n, t) : Follows(x, y)
<1>. TAKE s, t \in Seq(Envelope)
<1>. QED
  BY ConcatParts

\* What is on the line has arrived, or is with the other's switch.
LEMMA ComingFrom ==
  ASSUME Neighbours, IInv, NEW n \in Pair
  PROVE  /\ \A i \in 1..Len(mailbox[n]) : mailbox[n][i] \in Coming(n)
         /\ \A j \in 1..Len(outq[Other(n)]) :
              outq[Other(n)][j].to = n => outq[Other(n)][j].msg \in Coming(n)
         /\ \A m \in Coming(n) :
              \/ \E i \in 1..Len(mailbox[n]) : m = mailbox[n][i]
              \/ \E j \in 1..Len(outq[Other(n)]) :
                   outq[Other(n)][j].to = n /\ m = outq[Other(n)][j].msg
<1>. DEFINE a == Arrived(n, mailbox[n])
            q == outq[Other(n)]
<1>1. Coming(n) = Msgs(n, a) \cup Msgs(n, q)
  BY LineTyped, PartsOf DEF Coming, Line
<1>2. /\ Len(a) = Len(mailbox[n])
      /\ \A i \in 1..Len(mailbox[n]) : a[i].to = n /\ a[i].msg = mailbox[n][i]
  <2>1. /\ Len(a) = Len(mailbox[n])
        /\ \A i \in 1..Len(mailbox[n]) : a[i] = [to |-> n, msg |-> mailbox[n][i]]
    BY LineTyped, ArrivedIs
  <2>. HIDE DEF a
  <2>2. ASSUME NEW i \in 1..Len(mailbox[n]) PROVE a[i].to = n /\ a[i].msg = mailbox[n][i]
    <3>1. a[i] = [to |-> n, msg |-> mailbox[n][i]]
      BY <2>1
    <3>. QED
      BY <3>1
  <2>. QED
    BY <2>1, <2>2
<1>. HIDE DEF a, q
<1>3. /\ \A i \in 1..Len(mailbox[n]) : mailbox[n][i] \in Msgs(n, a)
      /\ \A m \in Msgs(n, a) : \E i \in 1..Len(mailbox[n]) : m = mailbox[n][i]
  <2>1. ASSUME NEW i \in 1..Len(mailbox[n]) PROVE mailbox[n][i] \in Msgs(n, a)
    <3>1. i \in {j \in 1..Len(a) : a[j].to = n} /\ mailbox[n][i] = a[i].msg
      BY <1>2
    <3>. QED
      BY <3>1 DEF Msgs
  <2>2. ASSUME NEW m \in Msgs(n, a) PROVE \E i \in 1..Len(mailbox[n]) : m = mailbox[n][i]
    <3>1. PICK i \in 1..Len(a) : m = a[i].msg
      BY DEF Msgs
    <3>. QED
      BY <1>2, <3>1
  <2>. QED
    BY <2>1, <2>2
<1>4. /\ \A j \in 1..Len(q) : q[j].to = n => q[j].msg \in Msgs(n, q)
      /\ \A m \in Msgs(n, q) : \E j \in 1..Len(q) : q[j].to = n /\ m = q[j].msg
  BY DEF Msgs
<1>. QED
  BY <1>1, <1>3, <1>4 DEF q

\* A node of the pair sends: the line to the other grows.
LEMMA LineSent ==
  ASSUME Neighbours, IInv, NEW k \in Pair, NEW s \in Seq(Envelope),
         Consume(k, s) \/ Emit(k, s)
  PROVE  LET o == Other(k) IN
         /\ Coming(o)' = Coming(o) \cup Msgs(o, s)
         /\ Ordered(o, Line(o))' <=>
              /\ Ordered(o, Line(o)) /\ Ordered(o, s)
              /\ \A x \in Coming(o), y \in Msgs(o, s) : Follows(x, y)
<1>. DEFINE o == Other(k)
            a == Arrived(o, mailbox[o])
<1>1. k \in Nodes /\ o \in Pair /\ o \in Nodes /\ o # k /\ Other(o) = k
  BY PairFacts
<1>2. outq'[k] = outq[k] \o s /\ mailbox'[o] = mailbox[o]
  BY <1>1, Typed DEF Consume, Emit
<1>3. a \in Seq(Envelope) /\ outq[k] \in Seq(Envelope)
  BY <1>1, LineTyped
<1>4. Line(o)' = a \o (outq[k] \o s) /\ Line(o) = a \o outq[k]
  BY <1>1, <1>2 DEF Line
<1>5. a \o (outq[k] \o s) = (a \o outq[k]) \o s
  BY <1>3, Joined, ZenonT(60)
<1>6. a \o outq[k] \in Seq(Envelope)
  BY <1>3, Joined
<1>. HIDE DEF a
<1>7. Line(o)' = Line(o) \o s /\ Line(o) \in Seq(Envelope)
  BY <1>4, <1>5, <1>6
<1>8. Coming(o)' = Msgs(o, Line(o)') /\ Ordered(o, Line(o))' <=> Ordered(o, Line(o)')
  BY DEF Coming
<1>9. /\ Msgs(o, Line(o) \o s) = Msgs(o, Line(o)) \cup Msgs(o, s)
      /\ Ordered(o, Line(o) \o s) <=>
           /\ Ordered(o, Line(o)) /\ Ordered(o, s)
           /\ \A x \in Msgs(o, Line(o)), y \in Msgs(o, s) : Follows(x, y)
  BY <1>7, PartsOf
<1>. QED
  BY <1>7, <1>8, <1>9 DEF Coming

\* It reads: the line to it is shortened.
LEMMA LineRead ==
  ASSUME Neighbours, IInv, NEW k \in Pair, NEW s \in Seq(Envelope), Consume(k, s)
  PROVE  /\ Coming(k) = {Head(mailbox[k])} \cup Coming(k)'
         /\ Ordered(k, Line(k)) => /\ Ordered(k, Line(k))'
                                   /\ \A y \in Coming(k)' : Follows(Head(mailbox[k]), y)
<1>. DEFINE o == Other(k)
            e == [to |-> k, msg |-> Head(mailbox[k])]
            t == Arrived(k, Tail(mailbox[k]))
<1>1. k \in Nodes /\ o \in Nodes /\ o # k
  BY PairFacts
<1>2. mailbox[k] # <<>> /\ mailbox'[k] = Tail(mailbox[k]) /\ outq'[o] = outq[o]
  BY <1>1, Typed DEF Consume
<1>3. Arrived(k, mailbox[k]) = <<e>> \o t /\ e \in Envelope /\ Tail(mailbox[k]) \in Seq(Message)
  BY <1>2, LineTyped, ArrivedHead
<1>4. t \in Seq(Envelope) /\ outq[o] \in Seq(Envelope) /\ <<e>> \in Seq(Envelope)
  BY <1>1, <1>3, LineTyped, ArrivedIs, OneMessage
<1>5. Line(k)' = t \o outq[o] /\ Line(k) = (<<e>> \o t) \o outq[o]
  BY <1>2, <1>3 DEF Line
<1>6. e.to = k /\ e.msg = Head(mailbox[k])
  OBVIOUS
<1>. HIDE DEF e, t
<1>7. (<<e>> \o t) \o outq[o] = <<e>> \o (t \o outq[o]) /\ t \o outq[o] \in Seq(Envelope)
  BY <1>4, Joined
<1>8. Line(k) = <<e>> \o Line(k)' /\ Line(k)' \in Seq(Envelope)
  BY <1>5, <1>7
<1>9. Coming(k)' = Msgs(k, Line(k)') /\ (Ordered(k, Line(k))' <=> Ordered(k, Line(k)'))
  BY DEF Coming
<1>10. /\ Msgs(k, Line(k)) = Msgs(k, <<e>>) \cup Msgs(k, Line(k)')
       /\ Ordered(k, Line(k)) <=>
            /\ Ordered(k, <<e>>) /\ Ordered(k, Line(k)')
            /\ \A x \in Msgs(k, <<e>>), y \in Msgs(k, Line(k)') : Follows(x, y)
  <2>1. PICK h \in Seq(Envelope) : h = <<e>>
    BY <1>4
  <2>2. PICK l \in Seq(Envelope) : l = Line(k)'
    BY <1>8
  <2>3. /\ Msgs(k, h \o l) = Msgs(k, h) \cup Msgs(k, l)
        /\ Ordered(k, h \o l) <=>
             /\ Ordered(k, h) /\ Ordered(k, l)
             /\ \A x \in Msgs(k, h), y \in Msgs(k, l) : Follows(x, y)
    BY PartsOf
  <2>. QED
    BY <1>8, <2>1, <2>2, <2>3
<1>11. Msgs(k, <<e>>) = {Head(mailbox[k])}
  BY <1>3, <1>6, OneMessage
<1>. QED
  BY <1>9, <1>10, <1>11 DEF Coming

\* The line to k does not change when k sends, when others read, and when nothing is
\* sent or read.
LEMMA LineKept ==
  ASSUME Neighbours, NEW k \in Pair,
         mailbox'[k] = mailbox[k], outq'[Other(k)] = outq[Other(k)]
  PROVE  Coming(k)' = Coming(k) /\ (Ordered(k, Line(k))' <=> Ordered(k, Line(k)))
<1>1. Line(k)' = Line(k)
  BY DEF Line
<1>. QED
  BY <1>1 DEF Coming, Ordered

\* A switch moves a message along the line, or takes a message for someone else out
\* of its way.
LEMMA LineForwarded ==
  ASSUME Neighbours, IInv, NEW n \in Pair, Forward(Other(n)), Head(outq[Other(n)]).to # Other(n)
  PROVE  Coming(n)' = Coming(n) /\ (Ordered(n, Line(n)) => Ordered(n, Line(n))')
<1>. DEFINE o == Other(n)
            e == Head(outq[o])
            t == Tail(outq[o])
            a == Arrived(n, mailbox[n])
<1>1. n \in Nodes /\ o \in Nodes /\ o # n
  BY PairFacts
<1>2. outq[o] # <<>> /\ outq'[o] = t /\ Deliver(e)
  BY <1>1, Typed DEF Forward
<1>3. outq[o] = <<e>> \o t /\ e \in Envelope /\ t \in Seq(Envelope)
  BY <1>2, LineTyped, HeadAndTail
<1>4. a \in Seq(Envelope) /\ mailbox[n] \in Seq(Message) /\ <<e>> \in Seq(Envelope)
  BY <1>3, LineTyped, OneMessage
<1>5. e.to \in Nodes /\ e.msg \in Message /\ e = [to |-> e.to, msg |-> e.msg]
  BY <1>3 DEF Envelope
<1>6. Line(n) = a \o (<<e>> \o t)
  BY <1>3 DEF Line
<1>7. Line(n)' = Arrived(n, mailbox'[n]) \o t
  BY <1>2 DEF Line
<1>8. mailbox'[n] = IF e.to = n THEN Append(mailbox[n], e.msg) ELSE mailbox[n]
  BY <1>1, <1>2, <1>5, Typed DEF Deliver
<1>9. Coming(n)' = Msgs(n, Line(n)') /\ (Ordered(n, Line(n))' <=> Ordered(n, Line(n)'))
  BY DEF Coming
<1>10. CASE e.to = n
  <2>1. Arrived(n, mailbox'[n]) = a \o <<e>>
    BY <1>1, <1>4, <1>5, <1>8, <1>10, ArrivedAppend
  <2>. HIDE DEF a, e, t
  <2>2. (a \o <<e>>) \o t = a \o (<<e>> \o t)
    BY <1>3, <1>4, Joined
  <2>3. Line(n)' = Line(n)
    BY <1>6, <1>7, <2>1, <2>2
  <2>. QED
    BY <1>9, <2>3 DEF Coming
<1>11. CASE e.to # n
  <2>1. Line(n)' = a \o t
    BY <1>7, <1>8, <1>11
  <2>. HIDE DEF a, e, t
  <2>2. <<e>> \o t \in Seq(Envelope)
    BY <1>3, <1>4, Joined
  <2>3. Msgs(n, <<e>> \o t) = Msgs(n, t) /\ (Ordered(n, <<e>> \o t) <=> Ordered(n, t))
    <3>1. Msgs(n, <<e>>) = {} /\ Ordered(n, <<e>>)
      BY <1>3, <1>11, OneMessage
    <3>2. PICK h \in Seq(Envelope) : h = <<e>>
      BY <1>4
    <3>3. /\ Msgs(n, h \o t) = Msgs(n, h) \cup Msgs(n, t)
          /\ Ordered(n, h \o t) <=>
               /\ Ordered(n, h) /\ Ordered(n, t)
               /\ \A x \in Msgs(n, h), y \in Msgs(n, t) : Follows(x, y)
      BY <1>3, PartsOf
    <3>. QED
      BY <3>1, <3>2, <3>3
  <2>4. PICK q \in Seq(Envelope) : q = <<e>> \o t
    BY <2>2
  <2>5. /\ Msgs(n, a \o q) = Msgs(n, a) \cup Msgs(n, q)
        /\ Ordered(n, a \o q) => /\ Ordered(n, a) /\ Ordered(n, q)
                                 /\ \A x \in Msgs(n, a), y \in Msgs(n, q) : Follows(x, y)
    BY <1>4, PartsOf
  <2>6. /\ Msgs(n, a \o t) = Msgs(n, a) \cup Msgs(n, t)
        /\ /\ Ordered(n, a) /\ Ordered(n, t)
           /\ \A x \in Msgs(n, a), y \in Msgs(n, t) : Follows(x, y)
           => Ordered(n, a \o t)
    BY <1>3, <1>4, PartsOf
  <2>7. /\ Msgs(n, a \o (<<e>> \o t)) = Msgs(n, a \o t)
        /\ Ordered(n, a \o (<<e>> \o t)) => Ordered(n, a \o t)
    BY <2>3, <2>4, <2>5, <2>6
  <2>. QED
    BY <1>6, <1>9, <2>1, <2>7 DEF Coming
<1>. QED
  BY <1>10, <1>11

-----------------------------------------------------------------------------
(* What the two say, and to whom.                                          *)

\* Nothing goes to the sender itself, and others get news only.
Polite(k, s) ==
  \A i \in 1..Len(s) : s[i].to # k /\ (s[i].to \notin Pair => s[i].msg.type \in News)

LEMMA SaysNews ==
  ASSUME Neighbours, NEW k \in Pair, NEW s \in Seq(Envelope), NEW t \in News,
         \A i \in 1..Len(s) : s[i].msg = Signal(t, k) /\ s[i].to \in PeerSet(k)
  PROVE  /\ Polite(k, s) /\ Ordered(Other(k), s)
         /\ Msgs(Other(k), s) \subseteq {Signal(t, k)}
<1>1. k \in Nodes /\ k \notin PeerSet(k) /\ Signal(t, k).type = t
  BY PairFacts, PeerSetFacts DEF Signal
<1>2. Follows(Signal(t, k), Signal(t, k))
  BY <1>1 DEF Follows, News
<1>. QED
  BY <1>1, <1>2 DEF Polite, Ordered, Msgs

LEMMA PeersHear ==
  ASSUME NEW n \in Nodes, NEW t \in News
  PROVE  LET s == ToPeers(n, Signal(t, n)) IN
         /\ s \in Seq(Envelope)
         /\ \A i \in 1..Len(s) : s[i].msg = Signal(t, n) /\ s[i].to \in PeerSet(n)
<1>. DEFINE k == Len(Peers[n])
            e(i) == [to |-> Peers[n][i], msg |-> Signal(t, n)]
<1>1. k \in Nat /\ \A i \in 1..k : Peers[n][i] \in PeerSet(n)
  BY PeersAssumption, LenProperties, PeerSetFacts
<1>2. ToPeers(n, Signal(t, n)) \in Seq(Envelope)
  BY MadeMessages, SentTyped DEF Signals, News
<1>3. Len(ToPeers(n, Signal(t, n))) = k
  BY <1>1 DEF ToPeers
<1>4. \A i \in 1..k : ToPeers(n, Signal(t, n))[i] = e(i)
  BY DEF ToPeers
<1>5. \A i : e(i).msg = Signal(t, n) /\ e(i).to = Peers[n][i]
  OBVIOUS
<1>. HIDE DEF e, k
<1>. QED
  BY <1>1, <1>2, <1>3, <1>4, <1>5

LEMMA ReceiptsSay ==
  ASSUME Neighbours, NEW n \in Pair
  PROVE  /\ Receipts(n) \in Seq(Envelope)
         /\ Polite(n, Receipts(n)) /\ Ordered(Other(n), Receipts(n))
         /\ Msgs(Other(n), Receipts(n)) \subseteq {Signal("RECEIVE", n)}
<1>. DEFINE k == Len(Peers[n])
            e(i) == [to |-> Peers[n][((i - 1) % k) + 1], msg |-> Signal("RECEIVE", n)]
<1>0. n \in Nodes
  BY PairFacts
<1>1. k \in Nat /\ \A i \in 1..k : Peers[n][i] \in PeerSet(n)
  BY <1>0, PeersAssumption, LenProperties, PeerSetFacts
<1>2. k * k \in Nat
  BY <1>1
<1>3. ASSUME NEW i \in 1..(k * k)
      PROVE  e(i).msg = Signal("RECEIVE", n) /\ e(i).to \in PeerSet(n)
  <2>1. k # 0
    BY <1>1, <1>3
  <2>2. ((i - 1) % k) + 1 \in 1..k
    <3>1. i - 1 \in Nat
      BY <1>2, <1>3
    <3>. QED
      BY <1>1, <2>1, <3>1, Remainder
  <2>. QED
    BY <1>1, <2>2
<1>4. Receipts(n) = [i \in 1..(k * k) |-> e(i)]
  BY DEF Receipts
<1>5. Receipts(n) \in Seq(Envelope)
  BY <1>0, ReceiptsTyped
<1>. HIDE DEF e, k
<1>6. Len(Receipts(n)) = k * k /\ \A i \in 1..(k * k) : Receipts(n)[i] = e(i)
  BY <1>2, <1>4
<1>7. \A i \in 1..Len(Receipts(n)) :
        Receipts(n)[i].msg = Signal("RECEIVE", n) /\ Receipts(n)[i].to \in PeerSet(n)
  BY <1>3, <1>6
<1>8. "RECEIVE" \in News
  BY DEF News
<1>. QED
  BY <1>5, <1>7, <1>8, SaysNews

\* The list that holds one request.
One(s, n) == Insert(<<>>, <<s, n>>, s)

LEMMA OneIs ==
  ASSUME NEW s \in Nat, NEW n \in Nodes
  PROVE  /\ ListOK(One(s, n)) /\ DOMAIN One(s, n) = {<<s, n>>} /\ One(s, n)[<<s, n>>] = s
         /\ Begin({<<s, n>>})[2] = n /\ Final({<<s, n>>}) = <<s, n>>
<1>1. DOMAIN <<>> = {} /\ <<s, n>> \in Pairs
  BY DEF Pairs
<1>2. ListOK(One(s, n))
  BY <1>1, EmptyList, InsertOK DEF One
<1>3. One(s, n) = [x \in {<<s, n>>} |-> s]
  <2>1. One(s, n) = [x \in {} \cup {<<s, n>>} |-> IF x = <<s, n>> THEN s ELSE <<>>[x]]
    BY <1>1 DEF One, Insert
  <2>. QED
    BY <2>1
<1>4. Begin({<<s, n>>}) = <<s, n>> /\ Final({<<s, n>>}) = <<s, n>>
  BY DEF Begin, Final
<1>. QED
  BY <1>2, <1>3, <1>4

LEMMA HandoverSays ==
  ASSUME Neighbours, NEW k \in Pair, NEW s \in Nat
  PROVE  LET o == Other(k)
             h == Handover(k, o, One(s, o))
         IN  /\ h \in Seq(Envelope) /\ Polite(k, h) /\ Ordered(o, h)
             /\ Msgs(o, h) \subseteq {Gift(o, s), Signal("RELEASE", k)}
             /\ Gift(o, s) \in Msgs(o, h)
<1>. DEFINE o == Other(k)
            e == [to |-> o, msg |-> Gift(o, s)]
            r == ToPeers(k, Signal("RELEASE", k))
<1>1. k \in Nodes /\ o \in Nodes /\ o \in Pair /\ o # k /\ Other(o) = k
  BY PairFacts
<1>2. Token(k, o, One(s, o)) = Gift(o, s)
  <2>. DEFINE l == One(s, o)
  <2>1. DOMAIN l = {<<s, o>>} /\ l[<<s, o>>] = s /\ Final({<<s, o>>}) = <<s, o>>
    BY <1>1, OneIs
  <2>. HIDE DEF l
  <2>2. {<<l[x], x[2]>> : x \in DOMAIN l} = {<<s, o>>}
    BY <2>1
  <2>3. DOMAIN l # {} /\ l[Final(DOMAIN l)] = s
    BY <2>1
  <2>4. Token(k, o, l) = [type |-> "TOKEN", from |-> k, req_list |-> {<<s, o>>}, tail |-> s]
    BY <2>2, <2>3 DEF Token
  <2>. QED
    BY <1>1, <2>4 DEF Gift, l
<1>3. Handover(k, o, One(s, o)) = <<e>> \o r
  <2>1. Handover(k, o, One(s, o)) = To(o, Token(k, o, One(s, o))) \o r
    BY DEF Handover
  <2>2. To(o, Gift(o, s)) = <<e>>
    BY DEF To
  <2>. HIDE DEF e, r
  <2>. QED
    BY <1>2, <2>1, <2>2
<1>4. e \in Envelope /\ e.to = o /\ e.msg = Gift(o, s) /\ Gift(o, s).type = "TOKEN"
  <2>1. ListOK(One(s, o))
    BY <1>1, OneIs
  <2>2. Token(k, o, One(s, o)) \in Message /\ Token(k, o, One(s, o)).type = "TOKEN"
    BY <1>1, <2>1, TokenMade
  <2>3. Gift(o, s) \in Message /\ Gift(o, s).type = "TOKEN"
    BY <1>2, <2>2
  <2>. QED
    BY <1>1, <2>3 DEF Envelope
<1>5. /\ r \in Seq(Envelope)
      /\ \A i \in 1..Len(r) : r[i].msg = Signal("RELEASE", k) /\ r[i].to \in PeerSet(k)
  BY <1>1, PeersHear DEF News
<1>6. Polite(k, r) /\ Ordered(o, r) /\ Msgs(o, r) \subseteq {Signal("RELEASE", k)}
  BY <1>5, SaysNews DEF News
<1>. HIDE DEF e, r
<1>7. PICK h \in Seq(Envelope) : h = <<e>>
  BY <1>4, OneMessage
<1>8. Len(h) = 1 /\ h[1] = e /\ Msgs(o, h) = {Gift(o, s)} /\ Ordered(o, h)
  BY <1>4, <1>7, OneMessage
<1>9. /\ Msgs(o, h \o r) = Msgs(o, h) \cup Msgs(o, r)
      /\ /\ Ordered(o, h) /\ Ordered(o, r)
         /\ \A x \in Msgs(o, h), y \in Msgs(o, r) : Follows(x, y)
         => Ordered(o, h \o r)
  BY <1>5, PartsOf
<1>10. \A x \in Msgs(o, h), y \in Msgs(o, r) : Follows(x, y)
  BY <1>4, <1>6, <1>8 DEF Follows, Signal
<1>11. Polite(k, h \o r)
  <2>1. /\ Len(h \o r) = 1 + Len(r) /\ Len(r) \in Nat
        /\ \A i \in 1..(1 + Len(r)) : (h \o r)[i] = IF i <= 1 THEN h[i] ELSE r[i - 1]
    <3>1. /\ Len(h \o r) = Len(h) + Len(r)
          /\ \A i \in 1..(Len(h) + Len(r)) :
               (h \o r)[i] = IF i <= Len(h) THEN h[i] ELSE r[i - Len(h)]
      BY <1>5, <1>7, ConcatProperties
    <3>2. Len(r) \in Nat
      BY <1>5, LenProperties
    <3>. QED
      BY <1>8, <3>1, <3>2
  <2>. SUFFICES ASSUME NEW i \in 1..(1 + Len(r))
                PROVE  /\ (h \o r)[i].to # k
                       /\ (h \o r)[i].to \notin Pair => (h \o r)[i].msg.type \in News
    BY <2>1 DEF Polite
  <2>2. CASE i = 1
    BY <1>1, <1>4, <1>8, <2>1, <2>2
  <2>3. CASE i # 1
    <3>1. i - 1 \in 1..Len(r) /\ ~(i <= 1)
      BY <2>1, <2>3
    <3>2. (h \o r)[i] = r[i - 1]
      BY <2>1, <3>1
    <3>. QED
      BY <1>6, <3>1, <3>2 DEF Polite
  <2>. QED
    BY <2>2, <2>3
<1>12. h \o r \in Seq(Envelope)
  BY <1>5, Joined
<1>. QED
  BY <1>3, <1>6, <1>7, <1>8, <1>9, <1>10, <1>11, <1>12

LEMMA RequestSays ==
  ASSUME Neighbours, NEW k \in Pair, NEW s \in Nat
  PROVE  LET o == Other(k)
             t == To(o, Request(k, s))
         IN  /\ t \in Seq(Envelope) /\ Polite(k, t) /\ Ordered(o, t)
             /\ Msgs(o, t) = {Request(k, s)}
<1>. DEFINE o == Other(k)
            e == [to |-> o, msg |-> Request(k, s)]
<1>1. k \in Nodes /\ o \in Nodes /\ o \in Pair /\ o # k
  BY PairFacts
<1>2. e \in Envelope /\ e.to = o /\ e.msg = Request(k, s)
  BY <1>1, MadeMessages DEF Envelope
<1>3. To(o, Request(k, s)) = <<e>>
  BY DEF To
<1>. HIDE DEF e
<1>4. /\ <<e>> \in Seq(Envelope) /\ Msgs(o, <<e>>) = {Request(k, s)} /\ Ordered(o, <<e>>)
  BY <1>2, OneMessage
<1>5. \A i \in 1..Len(<<e>>) : <<e>>[i] = e
  OBVIOUS
<1>6. Polite(k, <<e>>)
  BY <1>1, <1>2, <1>5 DEF Polite
<1>. QED
  BY <1>3, <1>4, <1>6


-----------------------------------------------------------------------------
(* The network in a step.                                                  *)

\* One of the two reads or sends.
LEMMA PairSends ==
  ASSUME Neighbours, IInv, LinesOK, NEW k \in Pair, NEW s \in Seq(Envelope),
         Consume(k, s) \/ Emit(k, s),
         Ordered(Other(k), s), Msgs(Other(k), s) \subseteq Words(Other(k)),
         \A x \in Coming(Other(k)), y \in Msgs(Other(k), s) : Follows(x, y)
  PROVE  /\ LinesOK'
         /\ Coming(Other(k))' = Coming(Other(k)) \cup Msgs(Other(k), s)
         /\ Emit(k, s) => Coming(k)' = Coming(k)
         /\ Consume(k, s) => /\ Coming(k) = {Head(mailbox[k])} \cup Coming(k)'
                             /\ \A y \in Coming(k)' : Follows(Head(mailbox[k]), y)
<1>. DEFINE o == Other(k)
<1>1. k \in Nodes /\ o \in Pair /\ o \in Nodes /\ o # k /\ Pair = {k, o}
  BY PairFacts
<1>2. /\ Coming(k) \subseteq Words(k) /\ Ordered(k, Line(k))
      /\ Coming(o) \subseteq Words(o) /\ Ordered(o, Line(o))
  BY <1>1 DEF LinesOK
<1>3. Coming(o)' = Coming(o) \cup Msgs(o, s) /\ Ordered(o, Line(o))'
  BY <1>2, LineSent
<1>4. ASSUME Emit(k, s) PROVE Coming(k)' = Coming(k) /\ Ordered(k, Line(k))'
  <2>1. mailbox'[k] = mailbox[k] /\ outq'[Other(k)] = outq[Other(k)]
    BY <1>1, <1>4, Typed DEF Emit
  <2>. QED
    BY <1>2, <2>1, LineKept
<1>5. ASSUME Consume(k, s)
      PROVE  /\ Coming(k) = {Head(mailbox[k])} \cup Coming(k)'
             /\ Ordered(k, Line(k))' /\ \A y \in Coming(k)' : Follows(Head(mailbox[k]), y)
  BY <1>2, <1>5, LineRead
<1>6. Coming(k)' \subseteq Coming(k) /\ Ordered(k, Line(k))'
  BY <1>4, <1>5
<1>7. ASSUME NEW n \in Pair PROVE Coming(n)' \subseteq Words(n) /\ Ordered(n, Line(n))'
  <2>1. CASE n = k
    BY <1>2, <1>6, <2>1
  <2>2. CASE n = o
    BY <1>2, <1>3, <2>2
  <2>. QED
    BY <1>1, <2>1, <2>2
<1>8. LinesOK'
  BY <1>7 DEF LinesOK, Words, Pair
<1>. QED
  BY <1>3, <1>4, <1>5, <1>8

\* It touches nobody else.
Own(k) ==
  \A p \in Nodes \ {k} :
    /\ has_token'[p] = has_token[p] /\ is_inCS'[p] = is_inCS[p] /\ hung'[p] = hung[p]
    /\ token_list'[p] = token_list[p] /\ token_holder'[p] = token_holder[p]

LEMMA NodeStepOwn ==
  ASSUME IInv, NEW k \in Nodes, NodeStep(k)
  PROVE  Own(k)
<1>1. CASE SendRequest(k)
  BY <1>1, Typed DEF SendRequest, tokenVars, Own
<1>2. CASE ReceiveRequest(k)
  <2>1. UNCHANGED <<is_inCS, hung>>
    BY <1>2 DEF ReceiveRequest
  <2>2. \/ UNCHANGED tokenVars
        \/ \E to : GiveToken(k, to)
        \/ UNCHANGED <<token_holder, has_token>> /\ \E l : token_list' = [token_list EXCEPT ![k] = l]
    BY <1>2 DEF ReceiveRequest
  <2>. QED
    BY <2>1, <2>2, Typed DEF tokenVars, GiveToken, Own
<1>3. CASE ReceiveRelay(k)
  <2>1. UNCHANGED <<is_inCS, hung>>
    BY <1>3 DEF ReceiveRelay
  <2>2. \/ \E to : GiveToken(k, to)
        \/ UNCHANGED <<token_holder, has_token>> /\ \E l : token_list' = [token_list EXCEPT ![k] = l]
    BY <1>3 DEF ReceiveRelay
  <2>. QED
    BY <2>1, <2>2, Typed DEF GiveToken, Own
<1>4. CASE ReceiveToken(k)
  BY <1>4, Typed DEF ReceiveToken, GiveToken, Own
<1>5. CASE ReceiveTokenHangs(k)
  BY <1>5, Typed DEF ReceiveTokenHangs, tokenVars, Own
<1>6. CASE ReceiveAck(k) \/ ReceiveReceive(k) \/ ReceiveRelease(k)
  BY <1>6, Typed DEF ReceiveAck, ReceiveReceive, ReceiveRelease, tokenVars, Own
<1>7. CASE FinishCS(k)
  BY <1>7, Typed DEF FinishCS, GiveToken, tokenVars, Own
<1>. QED
  BY <1>1, <1>2, <1>3, <1>4, <1>5, <1>6, <1>7 DEF NodeStep, Handle

\* The others hear nothing but news in a step of one of the two.
LEMMA OthersSend ==
  ASSUME Neighbours, IInv, OthersOK, NEW k \in Pair, NEW s \in Seq(Envelope),
         Consume(k, s) \/ Emit(k, s), Polite(k, s), Own(k)
  PROVE  OthersOK'
<1>1. k \in Nodes
  BY PairFacts
<1>2. /\ outq'[k] = outq[k] \o s /\ \A p \in Nodes \ {k} : outq'[p] = outq[p]
      /\ \A p \in Nodes \ {k} : mailbox'[p] = mailbox[p]
  BY <1>1, Typed DEF Consume, Emit
<1>3. /\ Len(outq[k] \o s) = Len(outq[k]) + Len(s)
      /\ \A i \in 1..(Len(outq[k]) + Len(s)) :
           (outq[k] \o s)[i] = IF i <= Len(outq[k]) THEN outq[k][i] ELSE s[i - Len(outq[k])]
      /\ Len(outq[k]) \in Nat /\ Len(s) \in Nat
  <2>1. outq[k] \in Seq(Envelope)
    BY <1>1, QueueTypes
  <2>. QED
    BY <2>1, ConcatProperties, LenProperties
<1>4. ASSUME NEW p \in Nodes, NEW i \in 1..Len(outq'[p])
      PROVE  /\ p \in Pair /\ outq'[p][i].to # p
             /\ outq'[p][i].to \notin Pair => outq'[p][i].msg.type \in News
  <2>1. CASE p # k
    BY <1>2, <1>4, <2>1 DEF OthersOK
  <2>2. CASE p = k /\ i <= Len(outq[k])
    <3>1. i \in 1..Len(outq[k]) /\ outq'[k][i] = outq[k][i]
      BY <1>2, <1>3, <1>4, <2>2
    <3>. QED
      BY <1>1, <2>2, <3>1 DEF OthersOK
  <2>3. CASE p = k /\ ~(i <= Len(outq[k]))
    <3>1. i - Len(outq[k]) \in 1..Len(s) /\ outq'[k][i] = s[i - Len(outq[k])]
      BY <1>2, <1>3, <1>4, <2>3
    <3>. QED
      BY <2>3, <3>1 DEF Polite
  <2>. QED
    BY <2>1, <2>2, <2>3
<1>5. ASSUME NEW p \in Nodes \ Pair
      PROVE  /\ \A i \in 1..Len(mailbox'[p]) : mailbox'[p][i].type \in News
             /\ ~has_token'[p] /\ ~is_inCS'[p] /\ DOMAIN token_list'[p] = {}
  BY <1>2, <1>5 DEF OthersOK, Own
<1>. QED
  BY <1>4, <1>5 DEF OthersOK, Pair

\* A step of another node: it reads a piece of news.
LEMMA OtherReads ==
  ASSUME Neighbours, IInv, LinesOK, OthersOK, NEW k \in Nodes \ Pair, NodeStep(k)
  PROVE  /\ LinesOK' /\ OthersOK'
         /\ \A n \in Pair : Coming(n)' = Coming(n)
<1>1. ~SendRequest(k) /\ ~FinishCS(k)
  <2>1. Schedule[k] = 0 /\ num_req[k] \in Nat /\ ~is_inCS[k]
    BY DEF Neighbours, OthersOK, IInv, CountersOK
  <2>. QED
    BY <2>1 DEF SendRequest, FinishCS
<1>2. ASSUME NEW t, Receives(k, t) PROVE t \in News
  <2>1. mailbox[k] \in Seq(Message) /\ mailbox[k] # <<>>
    BY <1>2, QueueTypes DEF Receives
  <2>2. Head(mailbox[k]) = mailbox[k][1] /\ 1 \in 1..Len(mailbox[k])
    BY <2>1, LenProperties
  <2>. QED
    BY <1>2, <2>2 DEF OthersOK, Receives
<1>3. ReceiveReceive(k) \/ ReceiveRelease(k)
  <2>1. \A t : Receives(k, t) => t = "RECEIVE" \/ t = "RELEASE"
    BY <1>2 DEF News
  <2>. QED
    BY <1>1, <2>1 DEF NodeStep, Handle, ReceiveRequest, ReceiveRelay, ReceiveToken,
       ReceiveTokenHangs, ReceiveAck
<1>4. Consume(k, <<>>) /\ UNCHANGED <<has_token, is_inCS, token_list>>
  BY <1>3 DEF ReceiveReceive, ReceiveRelease
<1>5. /\ mailbox[k] # <<>> /\ mailbox'[k] = Tail(mailbox[k])
      /\ \A p \in Nodes \ {k} : mailbox'[p] = mailbox[p]
      /\ \A p \in Nodes : outq'[p] = outq[p]
  <2>1. outq[k] \o <<>> = outq[k]
    BY QueueTypes, ConcatEmptySeq
  <2>. QED
    BY <1>4, <2>1, Typed DEF Consume
<1>6. \A n \in Pair : n \in Nodes \ {k} /\ Other(n) \in Nodes /\ Other(n) \in Pair
  BY PairFacts
<1>7. \A n \in Pair : Coming(n)' = Coming(n) /\ (Ordered(n, Line(n))' <=> Ordered(n, Line(n)))
  BY <1>5, <1>6, LineKept
<1>8. LinesOK'
  BY <1>7 DEF LinesOK, Words, Pair
<1>9. ASSUME NEW i \in 1..Len(mailbox'[k]) PROVE mailbox'[k][i].type \in News
  <2>1. mailbox[k] \in Seq(Message)
    BY QueueTypes
  <2>2. i + 1 \in 1..Len(mailbox[k]) /\ mailbox'[k][i] = mailbox[k][i + 1]
    BY <1>5, <1>9, <2>1, HeadTailProperties, LenProperties
  <2>. QED
    BY <2>2 DEF OthersOK
<1>10. ASSUME NEW p \in Nodes \ Pair, NEW i \in 1..Len(mailbox'[p])
       PROVE  mailbox'[p][i].type \in News
  <2>1. CASE p = k
    BY <1>9, <1>10, <2>1
  <2>2. CASE p # k
    BY <1>5, <1>10, <2>2 DEF OthersOK
  <2>. QED
    BY <2>1, <2>2
<1>11. OthersOK'
  BY <1>4, <1>5, <1>10 DEF OthersOK, Pair
<1>. QED
  BY <1>7, <1>8, <1>11

\* A switch moves messages along the lines, and none of them beyond.
LEMMA SwitchMoves ==
  ASSUME Neighbours, IInv, LinesOK, OthersOK, NEW k \in Nodes, Switch(k)
  PROVE  /\ LinesOK' /\ OthersOK'
         /\ \A n \in Pair : Coming(n)' = Coming(n)
<1>. DEFINE e == Head(outq[k])
<1>1. Forward(k) /\ UNCHANGED nodeVars
  BY DEF Switch, SwitchStep, Drop, Neighbours
<1>2. /\ outq[k] # <<>> /\ outq[k] \in Seq(Envelope) /\ Deliver(e)
      /\ outq'[k] = Tail(outq[k]) /\ \A p \in Nodes \ {k} : outq'[p] = outq[p]
  BY <1>1, QueueTypes, Typed DEF Forward
<1>3. e = outq[k][1] /\ 1 \in 1..Len(outq[k]) /\ e \in Envelope
  BY <1>2, LenProperties, HeadTailProperties
<1>4. k \in Pair /\ e.to # k /\ (e.to \notin Pair => e.msg.type \in News)
  BY <1>3 DEF OthersOK
<1>5. e.to \in Nodes /\ e.msg \in Message
  BY <1>3 DEF Envelope
<1>6. /\ mailbox'[e.to] = Append(mailbox[e.to], e.msg)
      /\ \A p \in Nodes \ {e.to} : mailbox'[p] = mailbox[p]
  BY <1>2, <1>5, Typed DEF Deliver
<1>. DEFINE o == Other(k)
<1>7. o \in Pair /\ Other(o) = k /\ o \in Nodes /\ o # k /\ Pair = {k, o}
  BY <1>4, PairFacts
<1>8. Coming(o)' = Coming(o) /\ (Ordered(o, Line(o)) => Ordered(o, Line(o))')
  BY <1>1, <1>4, <1>7, LineForwarded
<1>9. Coming(k)' = Coming(k) /\ (Ordered(k, Line(k))' <=> Ordered(k, Line(k)))
  BY <1>2, <1>4, <1>6, <1>7, LineKept
<1>10. \A n \in Pair : Coming(n)' = Coming(n) /\ (Ordered(n, Line(n)) => Ordered(n, Line(n))')
  BY <1>7, <1>8, <1>9
<1>11. LinesOK'
  BY <1>10 DEF LinesOK, Words, Pair
<1>. HIDE DEF e, o
<1>12. ASSUME NEW p \in Nodes, NEW i \in 1..Len(outq'[p])
       PROVE  /\ p \in Pair /\ outq'[p][i].to # p
              /\ outq'[p][i].to \notin Pair => outq'[p][i].msg.type \in News
  <2>1. CASE p # k
    BY <1>2, <1>12, <2>1 DEF OthersOK
  <2>2. CASE p = k
    <3>1. i + 1 \in 1..Len(outq[k]) /\ outq'[k][i] = outq[k][i + 1]
      <4>1. /\ Tail(outq[k]) \in Seq(Envelope) /\ Len(Tail(outq[k])) = Len(outq[k]) - 1
            /\ \A j \in 1..Len(Tail(outq[k])) : Tail(outq[k])[j] = outq[k][j + 1]
            /\ Len(outq[k]) \in Nat
        BY <1>2, HeadTailProperties, LenProperties
      <4>2. i \in 1..(Len(outq[k]) - 1) /\ outq'[k] = Tail(outq[k])
        BY <1>2, <1>12, <2>2, <4>1
      <4>. QED
        BY <4>1, <4>2
    <3>. QED
      BY <2>2, <3>1 DEF OthersOK
  <2>. QED
    BY <2>1, <2>2
<1>13. ASSUME NEW p \in Nodes \ Pair, NEW i \in 1..Len(mailbox'[p])
       PROVE  mailbox'[p][i].type \in News
  <2>1. CASE p # e.to
    BY <1>6, <1>13, <2>1 DEF OthersOK
  <2>2. CASE p = e.to
    <3>1. mailbox[p] \in Seq(Message)
      BY QueueTypes
    <3>2. /\ Len(mailbox'[p]) = Len(mailbox[p]) + 1 /\ Len(mailbox[p]) \in Nat
          /\ mailbox'[p][Len(mailbox[p]) + 1] = e.msg
          /\ \A j \in 1..Len(mailbox[p]) : mailbox'[p][j] = mailbox[p][j]
      BY <1>5, <1>6, <2>2, <3>1, AppendProperties, LenProperties
    <3>3. i \in 1..Len(mailbox[p]) \/ i = Len(mailbox[p]) + 1
      BY <1>13, <3>2
    <3>. QED
      BY <1>4, <1>13, <2>2, <3>2, <3>3 DEF OthersOK
  <2>. QED
    BY <2>1, <2>2
<1>14. OthersOK'
  BY <1>1, <1>12, <1>13 DEF OthersOK, Pair, nodeVars, tokenVars
<1>. QED
  BY <1>10, <1>11, <1>14

\* What the last request of one of the two has to be over for.
LEMMA NotPending ==
  ASSUME Neighbours, IInv, LinesOK, NEW k \in Pair, ~Pending(k)
  PROVE  /\ \A m \in Coming(Other(k)) : m.type # "REQUEST"
         /\ \A m \in Coming(k) : m.type # "TOKEN"
         /\ \A r \in DOMAIN token_list[Other(k)] : r[2] # k
<1>. DEFINE o == Other(k)
<1>1. k \in Nodes /\ o \in Pair /\ o \in Nodes /\ Other(o) = k
  BY PairFacts
<1>2. \A p \in Nodes :
        /\ \A i \in DOMAIN outq[p] :
             ~Asks(k, outq[p][i].msg) /\ ~(outq[p][i].to = k /\ outq[p][i].msg.type = "TOKEN")
        /\ \A i \in DOMAIN mailbox[p] :
             ~Asks(k, mailbox[p][i]) /\ ~(p = k /\ mailbox[p][i].type = "TOKEN")
        /\ \A r \in DOMAIN token_list[p] : r[2] # k
  BY DEF Pending
<1>3. \A p \in Nodes : DOMAIN outq[p] = 1..Len(outq[p]) /\ DOMAIN mailbox[p] = 1..Len(mailbox[p])
  BY QueueTypes, LenProperties
<1>4. ASSUME NEW m \in Coming(o), m.type = "REQUEST" PROVE FALSE
  <2>1. m \in Words(o)
    BY <1>1 DEF LinesOK
  <2>2. m.from = k
    BY <1>1, <1>4, <2>1 DEF Words, Gift, Signal, Request
  <2>3. Asks(k, m)
    BY <1>4, <2>2 DEF Asks
  <2>. QED
    BY <1>1, <1>2, <1>3, <2>3, ComingFrom
<1>5. ASSUME NEW m \in Coming(k), m.type = "TOKEN" PROVE FALSE
  BY <1>1, <1>2, <1>3, <1>5, ComingFrom
<1>. QED
  BY <1>1, <1>2, <1>4, <1>5

-----------------------------------------------------------------------------
(* The token goes back and forth between the two.                          *)

LEMMA WordFacts ==
  ASSUME NEW n, NEW m \in Words(n)
  PROVE  /\ m.from = Other(n)
         /\ m.type \in {"RECEIVE", "RELEASE", "REQUEST", "TOKEN"}
         /\ m.type = "REQUEST" => m.seq \in Nat /\ m = Request(Other(n), m.seq)
         /\ m.type = "TOKEN" => \E s \in Nat : m = Gift(n, s)
<1>1. CASE m \in {Signal("RECEIVE", Other(n)), Signal("RELEASE", Other(n))}
  BY <1>1 DEF Signal
<1>2. CASE \E s \in Nat : m = Gift(n, s)
  BY <1>2 DEF Gift
<1>3. ASSUME NEW s \in Nat, m = Request(Other(n), s)
      PROVE  m.from = Other(n) /\ m.type = "REQUEST" /\ m.seq = s
  BY <1>3 DEF Request
<1>. QED
  BY <1>1, <1>2, <1>3 DEF Words

LEMMA HeadWord ==
  ASSUME Neighbours, IInv, LinesOK, NEW k \in Pair, mailbox[k] # <<>>
  PROVE  Head(mailbox[k]) \in Coming(k) /\ Head(mailbox[k]) \in Words(k)
<1>1. mailbox[k] \in Seq(Message)
  BY LineTyped
<1>2. Head(mailbox[k]) = mailbox[k][1] /\ 1 \in 1..Len(mailbox[k])
  BY <1>1, LenProperties
<1>3. Head(mailbox[k]) \in Coming(k)
  BY <1>2, ComingFrom
<1>. QED
  BY <1>3 DEF LinesOK

\* What is read is ahead of all that is on its way.
LEMMA HeadFirst ==
  ASSUME Neighbours, IInv, LinesOK, NEW k \in Pair, mailbox[k] # <<>>
  PROVE  \A x \in Coming(k) : x = Head(mailbox[k]) \/ Follows(Head(mailbox[k]), x)
<1>. DEFINE a == Arrived(k, mailbox[k])
            q == outq[Other(k)]
            l == Line(k)
<1>1. k \in Nodes /\ a \in Seq(Envelope) /\ q \in Seq(Envelope) /\ mailbox[k] \in Seq(Message)
  BY LineTyped
<1>2. /\ Len(a) = Len(mailbox[k])
      /\ \A i \in 1..Len(mailbox[k]) : a[i] = [to |-> k, msg |-> mailbox[k][i]]
  BY <1>1, ArrivedIs
<1>3. Head(mailbox[k]) = mailbox[k][1] /\ 1 \in 1..Len(mailbox[k])
  BY <1>1, LenProperties
<1>4. l = a \o q
  BY DEF Line
<1>. HIDE DEF a, q, l
<1>5. /\ Len(l) = Len(a) + Len(q) /\ Len(a) \in Nat /\ Len(q) \in Nat
      /\ \A i \in 1..(Len(a) + Len(q)) : l[i] = IF i <= Len(a) THEN a[i] ELSE q[i - Len(a)]
  BY <1>1, <1>4, ConcatProperties, LenProperties
<1>6. a[1] = [to |-> k, msg |-> Head(mailbox[k])]
  BY <1>2, <1>3
<1>7. 1 \in 1..Len(l) /\ l[1] = a[1]
  BY <1>2, <1>3, <1>5
<1>8. l[1].to = k /\ l[1].msg = Head(mailbox[k])
  BY <1>6, <1>7
<1>9. Ordered(k, l)
  BY DEF LinesOK, l
<1>10. ASSUME NEW x \in Msgs(k, l) PROVE x = l[1].msg \/ Follows(l[1].msg, x)
  <2>1. PICK j \in 1..Len(l) : l[j].to = k /\ x = l[j].msg
    BY DEF Msgs
  <2>2. CASE j = 1
    BY <2>1, <2>2
  <2>3. CASE j # 1
    <3>1. 1 < j
      BY <1>5, <2>3
    <3>. QED
      BY <1>7, <1>8, <1>9, <2>1, <3>1 DEF Ordered
  <2>. QED
    BY <2>2, <2>3
<1>. QED
  BY <1>8, <1>10 DEF Coming, l

\* What a step of one of the two needs for the lines and the others.
LEMMA Sends ==
  ASSUME Neighbours, IInv, LinesOK, OthersOK, NEW k \in Pair, NodeStep(k),
         NEW s \in Seq(Envelope), Consume(k, s) \/ Emit(k, s), Polite(k, s),
         Ordered(Other(k), s), Msgs(Other(k), s) \subseteq Words(Other(k)),
         \A x \in Coming(Other(k)), y \in Msgs(Other(k), s) : Follows(x, y)
  PROVE  /\ LinesOK' /\ OthersOK'
         /\ Coming(Other(k))' = Coming(Other(k)) \cup Msgs(Other(k), s)
         /\ Emit(k, s) => Coming(k)' = Coming(k)
         /\ Consume(k, s) => /\ Coming(k) = {Head(mailbox[k])} \cup Coming(k)'
                             /\ \A y \in Coming(k)' : Follows(Head(mailbox[k]), y)
<1>1. k \in Nodes
  BY PairFacts
<1>2. Own(k)
  BY <1>1, NodeStepOwn
<1>. QED
  BY <1>2, PairSends, OthersSend

\* A message is read, and nothing is said.
LEMMA Silent ==
  ASSUME Neighbours, IInv, LinesOK, OthersOK, NEW k \in Pair, NodeStep(k), Consume(k, <<>>)
  PROVE  /\ LinesOK' /\ OthersOK'
         /\ Coming(Other(k))' = Coming(Other(k))
         /\ Coming(k) = {Head(mailbox[k])} \cup Coming(k)'
         /\ \A y \in Coming(k)' : Follows(Head(mailbox[k]), y)
<1>1. PICK s \in Seq(Envelope) : s = <<>>
  BY SentTyped, PairFacts
<1>2. Len(s) = 0
  BY <1>1
<1>3. Polite(k, s) /\ Ordered(Other(k), s) /\ Msgs(Other(k), s) = {}
  BY <1>2 DEF Polite, Ordered, Msgs
<1>4. Consume(k, s)
  BY <1>1
<1>5. /\ Msgs(Other(k), s) \subseteq Words(Other(k))
      /\ \A x \in Coming(Other(k)), y \in Msgs(Other(k), s) : Follows(x, y)
  BY <1>3
<1>6. /\ LinesOK' /\ OthersOK'
      /\ Coming(Other(k))' = Coming(Other(k)) \cup Msgs(Other(k), s)
      /\ Coming(k) = {Head(mailbox[k])} \cup Coming(k)'
      /\ \A y \in Coming(k)' : Follows(Head(mailbox[k]), y)
  BY <1>3, <1>4, <1>5, Sends
<1>. QED
  BY <1>3, <1>6

\* Nothing happens to the network.
LEMMA Quietly ==
  ASSUME LinesOK, OthersOK, UNCHANGED netVars, Neighbours, NEW k \in Pair, Own(k)
  PROVE  LinesOK' /\ OthersOK' /\ \A n \in Pair : Coming(n)' = Coming(n)
<1>1. \A n \in Pair : Line(n)' = Line(n)
  BY DEF Line, netVars
<1>2. \A n \in Pair : Coming(n)' = Coming(n) /\ (Ordered(n, Line(n))' <=> Ordered(n, Line(n)))
  BY <1>1 DEF Coming, Ordered
<1>3. LinesOK'
  BY <1>2 DEF LinesOK, Words, Pair
<1>4. OthersOK'
  BY DEF OthersOK, Own, netVars, Pair
<1>. QED
  BY <1>2, <1>3, <1>4

LEMMA HoldsNext ==
  ASSUME NEW h \in Pair, has_token'[h], ~has_token'[Other(h)], ~is_inCS'[Other(h)],
         token_holder'[h] = h, token_holder'[Other(h)] = h, token_list'[Other(h)] = <<>>,
         \/ token_list'[h] = <<>>
         \/ /\ is_inCS'[h] /\ Coming(h)' = {}
            /\ \E s \in Nat : token_list'[h] = One(s, Other(h)),
         \A m \in Coming(h)' : m.type \in {"RELEASE", "REQUEST"},
         \A m \in Coming(Other(h))' : m.type = "RECEIVE"
  PROVE  Holds(h)' /\ PhaseOK'
<1>1. Holds(h)'
  BY DEF Holds, One, Other
<1>. QED
  BY <1>1 DEF PhaseOK, Pair

LEMMA BetweenNext ==
  ASSUME NEW n \in Pair,
         \A k \in Pair : ~has_token'[k] /\ ~is_inCS'[k] /\ token_list'[k] = <<>>,
         token_holder'[Other(n)] = n, Coming(Other(n))' = {},
         \/ \E m \in Coming(n)' : m.type = "TOKEN"
         \/ hung'[n] /\ \A m \in Coming(n)' : m.type \in {"RELEASE", "REQUEST"}
  PROVE  PhaseOK'
<1>1. Between(n)'
  BY DEF Between, Other, Pair
<1>2. (Passing(n) \/ Swallowed(n))'
  BY <1>1 DEF Passing, Swallowed
<1>. QED
  BY <1>2 DEF PhaseOK, Pair

\* The holder may come (back) to its section; the other asks the holder, and its
\* request goes behind all that the two have said.
LEMMA HoldsSendRequest ==
  ASSUME Neighbours, IInv, LinesOK, OthersOK, NEW h \in Pair, Holds(h),
         NEW k \in Pair, SendRequest(k)
  PROVE  TurnInv'
<1>. DEFINE o == Other(h)
<1>1. h \in Nodes /\ o \in Pair /\ o \in Nodes /\ o # h /\ Other(o) = h /\ Pair = {h, o}
      /\ h \in PeerSet(o)
  BY PairFacts
<1>2. Own(k) /\ NodeStep(k)
  BY <1>1, NodeStepOwn DEF NodeStep
<1>3. is_inCS' = [is_inCS EXCEPT ![k] = has_token[k]] /\ UNCHANGED <<token_holder, has_token, token_list>>
  BY DEF SendRequest, tokenVars
<1>4. CASE k = h
  <2>1. UNCHANGED netVars
    BY <1>4 DEF SendRequest, Holds
  <2>2. LinesOK' /\ OthersOK' /\ \A n \in Pair : Coming(n)' = Coming(n)
    BY <1>2, <2>1, Quietly
  <2>3. is_inCS'[h] /\ ~is_inCS'[o]
    BY <1>1, <1>3, <1>4, Typed DEF Holds
  <2>4. PhaseOK'
    BY <1>1, <1>3, <2>2, <2>3, HoldsNext DEF Holds, One
  <2>. QED
    BY <2>2, <2>4 DEF TurnInv
<1>5. CASE k = o
  <2>. DEFINE t == To(h, Request(o, seq[o]))
  <2>1. Emit(o, t)
    <3>1. Emit(o, Asked(o, Request(o, seq[o])))
      BY <1>1, <1>5 DEF SendRequest, Holds
    <3>2. token_holder[o] = h /\ h \in Quorum(o)
      BY <1>1 DEF Holds, Quorum
    <3>. QED
      BY <3>1, <3>2 DEF Asked
  <2>2. seq[o] \in Nat
    BY <1>1, Typed
  <2>3. /\ t \in Seq(Envelope) /\ Polite(o, t) /\ Ordered(h, t)
        /\ Msgs(h, t) = {Request(o, seq[o])}
    BY <1>1, <2>2, RequestSays
  <2>4. ~Pending(o)
    BY <1>5 DEF SendRequest, Neighbours
  <2>5. /\ \A m \in Coming(h) : m.type # "REQUEST"
        /\ \A r \in DOMAIN token_list[h] : r[2] # o
    BY <1>1, <2>4, NotPending
  <2>6. token_list[h] = <<>>
    <3>1. ASSUME NEW s \in Nat, token_list[h] = Insert(<<>>, <<s, o>>, s) PROVE FALSE
      <4>1. token_list[h] = One(s, o)
        BY <3>1 DEF One
      <4>2. <<s, o>> \in DOMAIN token_list[h]
        BY <1>1, <4>1, OneIs
      <4>. QED
        BY <2>5, <4>2
    <3>. QED
      BY <3>1 DEF Holds
  <2>7. Request(o, seq[o]).type = "REQUEST"
    BY DEF Request
  <2>8. \A x \in Coming(h), y \in Msgs(h, t) : Follows(x, y)
    BY <2>3, <2>5, <2>7 DEF Follows, Holds
  <2>9. Msgs(h, t) \subseteq Words(h)
    BY <1>1, <2>2, <2>3 DEF Words
  <2>. HIDE DEF t
  <2>10. /\ LinesOK' /\ OthersOK' /\ Coming(o)' = Coming(o)
         /\ Coming(h)' = Coming(h) \cup {Request(o, seq[o])}
    BY <1>1, <1>2, <1>5, <2>1, <2>3, <2>8, <2>9, Sends
  <2>11. ~is_inCS'[o]
    BY <1>1, <1>3, <1>5, Typed DEF Holds
  <2>12. PhaseOK'
    BY <1>1, <1>3, <2>6, <2>7, <2>10, <2>11, HoldsNext DEF Holds
  <2>. QED
    BY <2>10, <2>12 DEF TurnInv
<1>. QED
  BY <1>1, <1>4, <1>5

\* The holder reads that the other has given the token to it, or that the other wants
\* it: it collects that request in its section, and gives the token at any other
\* time.
LEMMA HoldsReceiveRequest ==
  ASSUME Neighbours, IInv, LinesOK, OthersOK, NEW h \in Pair, Holds(h), ReceiveRequest(h)
  PROVE  TurnInv'
<1>. DEFINE o == Other(h)
            head == Head(mailbox[h])
            m == IF seq[h] < head.seq THEN [head EXCEPT !.seq = @ + 1] ELSE head
            list == Insert(token_list[h], <<m.seq, m.from>>, m.seq)
<1>1. h \in Nodes /\ o \in Pair /\ o \in Nodes /\ o # h /\ Other(o) = h /\ Pair = {h, o}
  BY PairFacts
<1>2. Own(h) /\ NodeStep(h)
  BY <1>1, NodeStepOwn DEF NodeStep, Handle
<1>3. head \in Coming(h) /\ head \in Words(h) /\ head.type = "REQUEST"
  BY HeadWord DEF ReceiveRequest, Receives
<1>4. m.from = o /\ m.seq \in Nat
  <2>1. head.seq \in Nat /\ head = Request(o, head.seq)
    BY <1>3, WordFacts
  <2>2. PICK s \in Nat : head = Request(o, s)
    BY <2>1
  <2>3. head = [type |-> "REQUEST", from |-> o, seq |-> s]
    BY <2>2 DEF Request
  <2>4. m = head \/ m = [type |-> "REQUEST", from |-> o, seq |-> s + 1]
    BY <2>3
  <2>. HIDE DEF head, m
  <2>. QED
    BY <2>3, <2>4
<1>5. token_list[h] = <<>>
  BY <1>3 DEF Holds
<1>6. PICK s \in Nat : s = m.seq
  BY <1>4
<1>7. list = One(s, o)
  BY <1>4, <1>5, <1>6 DEF One
<1>8. UNCHANGED is_inCS
  BY DEF ReceiveRequest
<1>. HIDE DEF m, list
<1>9. CASE /\ Collects(h)
           /\ token_list' = [token_list EXCEPT ![h] = list]
           /\ Consume(h, <<>>)
           /\ UNCHANGED <<token_holder, has_token>>
  <2>1. /\ LinesOK' /\ OthersOK' /\ Coming(o)' = Coming(o)
        /\ \A y \in Coming(h)' : Follows(head, y)
    BY <1>2, <1>9, Silent
  <2>2. Coming(h)' = {}
    BY <1>3, <2>1 DEF Follows
  <2>3. token_list'[h] = One(s, o) /\ token_list'[o] = <<>> /\ is_inCS'[h]
    BY <1>1, <1>2, <1>7, <1>8, <1>9, Typed DEF Holds, Own, Collects
  <2>4. PhaseOK'
    BY <1>1, <1>8, <1>9, <2>1, <2>2, <2>3, HoldsNext DEF Holds
  <2>. QED
    BY <2>1, <2>4 DEF TurnInv
<1>10. CASE /\ ~Collects(h)
            /\ GiveToken(h, m.from)
            /\ Consume(h, Handover(h, m.from, list))
  <2>1. PICK t \in Seq(Envelope) : t = Handover(h, o, One(s, o))
    BY HandoverSays
  <2>2. /\ Polite(h, t) /\ Ordered(o, t)
        /\ Msgs(o, t) \subseteq {Gift(o, s), Signal("RELEASE", h)}
        /\ Gift(o, s) \in Msgs(o, t)
    BY <2>1, HandoverSays
  <2>3. Consume(h, t)
    BY <1>4, <1>7, <1>10, <2>1
  <2>4. Msgs(o, t) \subseteq Words(o)
    BY <1>1, <2>2 DEF Words
  <2>5. \A x \in Coming(o), y \in Msgs(o, t) : Follows(x, y)
    BY DEF Holds, Follows
  <2>6. /\ LinesOK' /\ OthersOK' /\ Coming(o)' = Coming(o) \cup Msgs(o, t)
        /\ \A y \in Coming(h)' : Follows(head, y)
    BY <1>2, <2>2, <2>3, <2>4, <2>5, Sends
  <2>7. Coming(h)' = {}
    BY <1>3, <2>6 DEF Follows
  <2>8. /\ token_holder'[h] = o /\ ~has_token'[h] /\ token_list'[h] = <<>>
        /\ ~is_inCS'[h]
    BY <1>1, <1>4, <1>8, <1>10, Typed DEF GiveToken, Collects
  <2>9. ~has_token'[o] /\ ~is_inCS'[o] /\ token_list'[o] = <<>>
    BY <1>1, <1>2 DEF Own, Holds
  <2>10. Gift(o, s) \in Coming(o)' /\ Gift(o, s).type = "TOKEN"
    BY <2>2, <2>6 DEF Gift
  <2>11. \A k \in Pair : ~has_token'[k] /\ ~is_inCS'[k] /\ token_list'[k] = <<>>
    BY <1>1, <2>8, <2>9
  <2>12. PhaseOK'
    BY <1>1, <2>7, <2>8, <2>10, <2>11, BetweenNext
  <2>. QED
    BY <2>6, <2>12 DEF TurnInv
<1>. QED
  BY <1>9, <1>10 DEF ReceiveRequest, Holds, m, list

\* What the holder may read, and what the other may.
LEMMA HoldsHandle ==
  ASSUME Neighbours, IInv, LinesOK, OthersOK, NEW h \in Pair, Holds(h),
         NEW k \in Pair, Handle(k)
  PROVE  TurnInv'
<1>. DEFINE o == Other(h)
            head == Head(mailbox[k])
<1>1. h \in Nodes /\ o \in Pair /\ o \in Nodes /\ o # h /\ Other(o) = h /\ Pair = {h, o}
  BY PairFacts
<1>2. Own(k) /\ NodeStep(k)
  BY <1>1, NodeStepOwn DEF NodeStep
<1>3. mailbox[k] # <<>>
  BY DEF Handle, ReceiveRequest, ReceiveRelay, ReceiveToken, ReceiveTokenHangs, ReceiveAck,
     ReceiveReceive, ReceiveRelease, Receives
<1>4. head \in Coming(k) /\ head \in Words(k) /\ head.from = Other(k)
  BY <1>3, HeadWord, WordFacts
<1>5. CASE k = h
  <2>1. head.type \in {"RELEASE", "REQUEST"}
    BY <1>4, <1>5 DEF Holds
  <2>2. ReceiveRequest(h) \/ ReceiveRelease(h)
    BY <1>5, <2>1 DEF Handle, ReceiveRelay, ReceiveToken, ReceiveTokenHangs, ReceiveAck,
       ReceiveReceive, Receives
  <2>3. CASE ReceiveRelease(h)
    <3>1. /\ LinesOK' /\ OthersOK' /\ Coming(o)' = Coming(o)
          /\ Coming(h) = {head} \cup Coming(h)'
      BY <1>2, <1>5, <2>3, Silent DEF ReceiveRelease
    <3>2. /\ token_holder' = [token_holder EXCEPT ![h] = Released(h)]
          /\ UNCHANGED <<has_token, token_list, is_inCS>>
      BY <2>3 DEF ReceiveRelease
    <3>3. token_holder'[h] = h /\ token_holder'[o] = h
      BY <1>1, <3>2, Typed DEF Holds, Released
    <3>4. token_list[h] = <<>>
      BY <1>4, <1>5 DEF Holds
    <3>5. PhaseOK'
      BY <1>1, <3>1, <3>2, <3>3, <3>4, HoldsNext DEF Holds
    <3>. QED
      BY <3>1, <3>5 DEF TurnInv
  <2>. QED
    BY <2>2, <2>3, HoldsReceiveRequest
<1>6. CASE k = o
  <2>1. head.type = "RECEIVE" /\ head.from = h
    BY <1>1, <1>4, <1>6 DEF Holds
  <2>2. ReceiveReceive(o)
    BY <1>6, <2>1 DEF Handle, ReceiveRelay, ReceiveToken, ReceiveTokenHangs, ReceiveAck,
       ReceiveRequest, ReceiveRelease, Receives
  <2>3. /\ LinesOK' /\ OthersOK' /\ Coming(h)' = Coming(h)
        /\ Coming(o) = {head} \cup Coming(o)'
    BY <1>1, <1>2, <1>6, <2>2, Silent DEF ReceiveReceive
  <2>4. /\ token_holder' = [token_holder EXCEPT ![o] = head.from]
        /\ UNCHANGED <<has_token, token_list, is_inCS>>
    BY <1>6, <2>2 DEF ReceiveReceive
  <2>5. token_holder'[h] = h /\ token_holder'[o] = h
    BY <1>1, <2>1, <2>4, Typed DEF Holds
  <2>6. PhaseOK'
    BY <1>1, <2>3, <2>4, <2>5, HoldsNext DEF Holds, One
  <2>. QED
    BY <2>3, <2>6 DEF TurnInv
<1>. QED
  BY <1>1, <1>5, <1>6

\* The section ends, and the token goes to the other if it has asked meanwhile.
LEMMA HoldsFinishCS ==
  ASSUME Neighbours, IInv, LinesOK, OthersOK, NEW h \in Pair, Holds(h),
         NEW k \in Pair, FinishCS(k)
  PROVE  TurnInv'
<1>. DEFINE o == Other(h)
<1>1. h \in Nodes /\ o \in Pair /\ o \in Nodes /\ o # h /\ Other(o) = h /\ Pair = {h, o}
  BY PairFacts
<1>2. k = h
  BY <1>1 DEF FinishCS, Holds
<1>3. Own(h) /\ NodeStep(h)
  BY <1>1, <1>2, NodeStepOwn DEF NodeStep
<1>4. is_inCS' = [is_inCS EXCEPT ![h] = FALSE]
  BY <1>2 DEF FinishCS
<1>5. ~is_inCS'[h] /\ ~is_inCS'[o]
  BY <1>1, <1>4, Typed DEF Holds
<1>6. CASE token_list[h] = <<>>
  <2>1. UNCHANGED <<netVars, tokenVars>>
    BY <1>2, <1>6 DEF FinishCS
  <2>2. LinesOK' /\ OthersOK' /\ \A n \in Pair : Coming(n)' = Coming(n)
    BY <1>3, <2>1, Quietly
  <2>3. PhaseOK'
    BY <1>1, <1>5, <1>6, <2>1, <2>2, HoldsNext DEF Holds, tokenVars
  <2>. QED
    BY <2>2, <2>3 DEF TurnInv
<1>7. ASSUME NEW s \in Nat, token_list[h] = One(s, o), Coming(h) = {}
      PROVE  TurnInv'
  <2>1. DOMAIN token_list[h] = {<<s, o>>} /\ Begin(DOMAIN token_list[h])[2] = o
    <3>. DEFINE l == One(s, o)
    <3>1. DOMAIN l = {<<s, o>>} /\ Begin({<<s, o>>})[2] = o
      BY <1>1, OneIs
    <3>2. token_list[h] = l
      BY <1>7
    <3>. HIDE DEF l
    <3>. QED
      BY <3>1, <3>2
  <2>2. GiveToken(h, o) /\ Emit(h, Handover(h, o, One(s, o)))
    BY <1>2, <1>7, <2>1 DEF FinishCS
  <2>3. PICK t \in Seq(Envelope) : t = Handover(h, o, One(s, o))
    BY HandoverSays
  <2>4. /\ Polite(h, t) /\ Ordered(o, t)
        /\ Msgs(o, t) \subseteq {Gift(o, s), Signal("RELEASE", h)}
        /\ Gift(o, s) \in Msgs(o, t)
    BY <2>3, HandoverSays
  <2>5. Msgs(o, t) \subseteq Words(o)
    BY <1>1, <2>4 DEF Words
  <2>6. \A x \in Coming(o), y \in Msgs(o, t) : Follows(x, y)
    BY DEF Holds, Follows
  <2>7. Emit(h, t)
    BY <2>2, <2>3
  <2>8. /\ LinesOK' /\ OthersOK' /\ Coming(o)' = Coming(o) \cup Msgs(o, t)
        /\ Coming(h)' = {}
    BY <1>3, <1>7, <2>4, <2>5, <2>6, <2>7, Sends
  <2>9. token_holder'[h] = o /\ ~has_token'[h] /\ token_list'[h] = <<>>
    BY <1>1, <2>2, Typed DEF GiveToken
  <2>10. ~has_token'[o] /\ token_list'[o] = <<>>
    BY <1>1, <1>3 DEF Own, Holds
  <2>11. Gift(o, s) \in Coming(o)' /\ Gift(o, s).type = "TOKEN"
    BY <2>4, <2>8 DEF Gift
  <2>12. \A p \in Pair : ~has_token'[p] /\ ~is_inCS'[p] /\ token_list'[p] = <<>>
    BY <1>1, <1>5, <2>9, <2>10
  <2>13. PhaseOK'
    BY <1>1, <2>8, <2>9, <2>11, <2>12, BetweenNext
  <2>. QED
    BY <2>8, <2>13 DEF TurnInv
<1>. QED
  BY <1>6, <1>7 DEF Holds, One

\* Between the holders: one of the two takes the other, n, for the holder, and may
\* ask it.
LEMMA BetweenSendRequest ==
  ASSUME Neighbours, IInv, LinesOK, OthersOK, NEW n \in Pair, Passing(n) \/ Swallowed(n),
         NEW k \in Pair, SendRequest(k)
  PROVE  TurnInv'
<1>. DEFINE o == Other(n)
            t == To(n, Request(o, seq[o]))
<1>0. Between(n)
  BY DEF Passing, Swallowed
<1>1. n \in Nodes /\ o \in Pair /\ o \in Nodes /\ o # n /\ Other(o) = n /\ Pair = {n, o}
      /\ n \in PeerSet(o)
  BY PairFacts
<1>2. k = o
  <2>1. CASE k = n /\ Passing(n)
    <3>1. PICK m \in Coming(n) : m.type = "TOKEN"
      BY <2>1 DEF Passing
    <3>2. ~Pending(n)
      BY <2>1 DEF SendRequest, Neighbours
    <3>. QED
      BY <3>1, <3>2, NotPending
  <2>2. CASE k = n /\ Swallowed(n)
    BY <2>2 DEF SendRequest, Swallowed
  <2>. QED
    BY <1>1, <2>1, <2>2
<1>3. Own(o) /\ NodeStep(o)
  BY <1>1, <1>2, NodeStepOwn DEF NodeStep
<1>4. /\ is_inCS' = [is_inCS EXCEPT ![o] = has_token[o]]
      /\ UNCHANGED <<token_holder, has_token, token_list, hung>>
  BY <1>2 DEF SendRequest, tokenVars
<1>5. Emit(o, t)
  <2>1. Emit(o, Asked(o, Request(o, seq[o])))
    BY <1>0, <1>1, <1>2 DEF SendRequest, Between
  <2>2. token_holder[o] = n /\ n \in Quorum(o)
    BY <1>0, <1>1 DEF Between, Quorum
  <2>. QED
    BY <2>1, <2>2 DEF Asked
<1>6. seq[o] \in Nat
  BY <1>1, Typed
<1>7. /\ t \in Seq(Envelope) /\ Polite(o, t) /\ Ordered(n, t)
      /\ Msgs(n, t) = {Request(o, seq[o])}
  BY <1>1, <1>6, RequestSays
<1>8. \A m \in Coming(n) : m.type # "REQUEST"
  <2>1. ~Pending(o)
    BY <1>2 DEF SendRequest, Neighbours
  <2>. QED
    BY <1>1, <2>1, NotPending
<1>9. Request(o, seq[o]).type = "REQUEST"
  BY DEF Request
<1>10. \A x \in Coming(n), y \in Msgs(n, t) : Follows(x, y)
  <2>1. \A x \in Coming(n) : x.type \in {"RECEIVE", "RELEASE", "REQUEST", "TOKEN"}
    BY WordFacts DEF LinesOK
  <2>. QED
    BY <1>7, <1>8, <1>9, <2>1 DEF Follows
<1>11. Msgs(n, t) \subseteq Words(n)
  BY <1>1, <1>6, <1>7 DEF Words
<1>. HIDE DEF t
<1>12. /\ LinesOK' /\ OthersOK' /\ Coming(o)' = Coming(o)
       /\ Coming(n)' = Coming(n) \cup {Request(o, seq[o])}
  BY <1>1, <1>3, <1>5, <1>7, <1>10, <1>11, Sends
<1>13. \A p \in Pair : ~has_token'[p] /\ ~is_inCS'[p] /\ token_list'[p] = <<>>
  BY <1>0, <1>1, <1>4, Typed DEF Between
<1>14. token_holder'[o] = n /\ Coming(o)' = {}
  BY <1>0, <1>4, <1>12 DEF Between
<1>15. CASE Passing(n)
  <2>1. \E m \in Coming(n)' : m.type = "TOKEN"
    BY <1>12, <1>15 DEF Passing
  <2>2. PhaseOK'
    BY <1>1, <1>13, <1>14, <2>1, BetweenNext
  <2>. QED
    BY <1>12, <2>2 DEF TurnInv
<1>16. CASE Swallowed(n)
  <2>1. hung'[n] /\ \A m \in Coming(n)' : m.type \in {"RELEASE", "REQUEST"}
    BY <1>4, <1>9, <1>12, <1>16 DEF Swallowed
  <2>2. PhaseOK'
    BY <1>1, <1>13, <1>14, <2>1, BetweenNext
  <2>. QED
    BY <1>12, <2>2 DEF TurnInv
<1>. QED
  BY <1>15, <1>16

\* The token is read: the one it was for enters its section, unless its parser fails.
LEMMA PassingReceiveToken ==
  ASSUME Neighbours, IInv, LinesOK, OthersOK, NEW n \in Pair, Passing(n),
         ReceiveToken(n) \/ ReceiveTokenHangs(n)
  PROVE  TurnInv'
<1>. DEFINE o == Other(n)
            head == Head(mailbox[n])
<1>1. n \in Nodes /\ o \in Pair /\ o \in Nodes /\ o # n /\ Other(o) = n /\ Pair = {n, o}
  BY PairFacts
<1>2. Own(n) /\ NodeStep(n)
  BY <1>1, NodeStepOwn DEF NodeStep, Handle
<1>3. head \in Words(n) /\ head.type = "TOKEN"
  BY HeadWord DEF ReceiveToken, ReceiveTokenHangs, Receives
<1>4. PICK s \in Nat : head = Gift(n, s)
  BY <1>3, WordFacts
<1>5. Between(n)
  BY DEF Passing
<1>6. \A y : Follows(head, y) => y.type \in {"RELEASE", "REQUEST"}
  BY <1>3 DEF Follows
<1>7. CASE ReceiveToken(n)
  <2>1. head.req_list = {<<s, n>>}
    BY <1>4 DEF Gift
  <2>2. head.req_list # {} /\ Begin(head.req_list)[2] = n
    <3>1. Begin({<<s, n>>})[2] = n
      BY <1>1, OneIs
    <3>. HIDE DEF head
    <3>. QED
      BY <2>1, <3>1
  <2>3. /\ has_token' = [has_token EXCEPT ![n] = TRUE]
        /\ token_holder' = [token_holder EXCEPT ![n] = n]
        /\ Consume(n, Receipts(n))
        /\ UNCHANGED token_list
    BY <1>7, <2>2 DEF ReceiveToken
  <2>4. PICK t \in Seq(Envelope) : t = Receipts(n)
    BY ReceiptsSay
  <2>5. /\ Polite(n, t) /\ Ordered(o, t) /\ Msgs(o, t) \subseteq {Signal("RECEIVE", n)}
    BY <2>4, ReceiptsSay
  <2>6. Msgs(o, t) \subseteq Words(o)
    BY <1>1, <2>5 DEF Words
  <2>7. \A x \in Coming(o), y \in Msgs(o, t) : Follows(x, y)
    BY <1>5 DEF Between
  <2>8. Consume(n, t)
    BY <2>3, <2>4
  <2>9. /\ LinesOK' /\ OthersOK' /\ Coming(o)' = Coming(o) \cup Msgs(o, t)
        /\ \A y \in Coming(n)' : Follows(head, y)
    BY <1>2, <2>5, <2>6, <2>7, <2>8, Sends
  <2>10. \A m \in Coming(o)' : m.type = "RECEIVE"
    BY <1>5, <2>5, <2>9 DEF Between, Signal
  <2>11. /\ has_token'[n] /\ ~has_token'[o] /\ ~is_inCS'[o]
         /\ token_list'[n] = <<>> /\ token_list'[o] = <<>>
         /\ token_holder'[n] = n /\ token_holder'[o] = n
    BY <1>1, <1>2, <1>5, <2>3, Typed DEF Between, Own
  <2>12. PhaseOK'
    BY <1>6, <2>9, <2>10, <2>11, HoldsNext
  <2>. QED
    BY <2>9, <2>12 DEF TurnInv
<1>8. CASE ReceiveTokenHangs(n)
  <2>1. /\ LinesOK' /\ OthersOK' /\ Coming(o)' = Coming(o)
        /\ \A y \in Coming(n)' : Follows(head, y)
    BY <1>2, <1>8, Silent DEF ReceiveTokenHangs
  <2>2. hung'[n] /\ UNCHANGED <<has_token, token_holder, token_list, is_inCS>>
    BY <1>1, <1>8, Typed DEF ReceiveTokenHangs, tokenVars
  <2>3. \A p \in Pair : ~has_token'[p] /\ ~is_inCS'[p] /\ token_list'[p] = <<>>
    BY <1>5, <2>2 DEF Between
  <2>4. PhaseOK'
    BY <1>5, <1>6, <2>1, <2>2, <2>3, BetweenNext DEF Between
  <2>. QED
    BY <2>1, <2>4 DEF TurnInv
<1>. QED
  BY <1>7, <1>8

LEMMA BetweenHandle ==
  ASSUME Neighbours, IInv, LinesOK, OthersOK, NEW n \in Pair, Passing(n) \/ Swallowed(n),
         NEW k \in Pair, Handle(k)
  PROVE  TurnInv'
<1>. DEFINE o == Other(n)
            head == Head(mailbox[k])
<1>1. n \in Nodes /\ o \in Pair /\ o \in Nodes /\ o # n /\ Other(o) = n /\ Pair = {n, o}
  BY PairFacts
<1>2. Own(k) /\ NodeStep(k)
  BY <1>1, NodeStepOwn DEF NodeStep
<1>3. mailbox[k] # <<>> /\ ~hung[k]
  BY DEF Handle, ReceiveRequest, ReceiveRelay, ReceiveToken, ReceiveTokenHangs, ReceiveAck,
     ReceiveReceive, ReceiveRelease, Receives
<1>4. head \in Coming(k) /\ head \in Words(k)
  BY <1>3, HeadWord
<1>5. Between(n)
  BY DEF Passing, Swallowed
<1>6. k = n /\ Passing(n)
  BY <1>1, <1>3, <1>4, <1>5 DEF Between, Swallowed
<1>7. head.type \in {"RECEIVE", "RELEASE", "REQUEST", "TOKEN"}
  BY <1>4, WordFacts
<1>9. head.type \notin {"RELEASE", "REQUEST"}
  <2>1. \A x \in Coming(n) : x = head \/ Follows(head, x)
    BY <1>3, <1>6, HeadFirst
  <2>2. PICK m \in Coming(n) : m.type = "TOKEN"
    BY <1>6 DEF Passing
  <2>. QED
    BY <2>1, <2>2 DEF Follows
<1>10. CASE head.type = "TOKEN"
  <2>1. ReceiveToken(n) \/ ReceiveTokenHangs(n)
    BY <1>6, <1>10 DEF Handle, ReceiveRequest, ReceiveRelay, ReceiveAck,
       ReceiveReceive, ReceiveRelease, Receives
  <2>. QED
    BY <1>6, <2>1, PassingReceiveToken
<1>11. CASE head.type = "RECEIVE"
  <2>1. ReceiveReceive(n)
    BY <1>6, <1>11 DEF Handle, ReceiveRequest, ReceiveRelay, ReceiveAck,
       ReceiveToken, ReceiveTokenHangs, ReceiveRelease, Receives
  <2>2. /\ LinesOK' /\ OthersOK' /\ Coming(o)' = Coming(o)
        /\ Coming(n) = {head} \cup Coming(n)'
    BY <1>2, <1>6, <2>1, Silent DEF ReceiveReceive
  <2>3. /\ UNCHANGED <<has_token, token_list, is_inCS>>
        /\ token_holder' = [token_holder EXCEPT ![n] = head.from]
    BY <1>6, <2>1 DEF ReceiveReceive
  <2>4. token_holder'[o] = n
    BY <1>1, <1>5, <2>3, Typed DEF Between
  <2>5. \E m \in Coming(n)' : m.type = "TOKEN"
    BY <1>6, <1>11, <2>2 DEF Passing
  <2>6. \A p \in Pair : ~has_token'[p] /\ ~is_inCS'[p] /\ token_list'[p] = <<>>
    BY <1>5, <2>3 DEF Between
  <2>7. PhaseOK'
    BY <1>5, <2>2, <2>4, <2>5, <2>6, BetweenNext DEF Between
  <2>. QED
    BY <2>2, <2>7 DEF TurnInv
<1>. QED
  BY <1>7, <1>9, <1>10, <1>11

LEMMA BetweenFinishCS ==
  ASSUME NEW n \in Pair, Passing(n) \/ Swallowed(n), NEW k \in Pair, FinishCS(k)
  PROVE  FALSE
BY DEF FinishCS, Passing, Swallowed, Between

-----------------------------------------------------------------------------
(* The invariant of the two, and what follows from it.                     *)

LEMMA InitTurn == Neighbours /\ Init => TurnInv
<1>. SUFFICES ASSUME Neighbours, Init PROVE TurnInv
  OBVIOUS
<1>1. /\ Pair \subseteq Nodes
      /\ \A n \in Pair : /\ Other(n) \in Pair /\ Other(n) # n /\ Other(Other(n)) = n
                         /\ Pair = {n, Other(n)} /\ Other(n) \in PeerSet(n)
  BY PairFacts
<1>2. \A n \in Nodes : outq[n] = <<>> /\ mailbox[n] = <<>>
  BY DEF Init, NetInit
<1>3. Len(<<>>) = 0 /\ DOMAIN <<>> = {}
  OBVIOUS
<1>4. ASSUME NEW n \in Pair PROVE Len(Line(n)) = 0
  <2>1. n \in Nodes /\ Other(n) \in Nodes
    BY <1>1
  <2>2. mailbox[n] \in Seq(Message) /\ mailbox[n] = <<>> /\ outq[Other(n)] = <<>>
    <3>1. mailbox[n] = <<>> /\ outq[Other(n)] = <<>>
      BY <1>2, <2>1
    <3>2. <<>> \in Seq(Message)
      BY EmptySeq
    <3>. QED
      BY <3>1, <3>2
  <2>3. Arrived(n, mailbox[n]) \in Seq(Envelope) /\ Len(Arrived(n, mailbox[n])) = 0
    BY <1>3, <2>1, <2>2, ArrivedIs
  <2>4. <<>> \in Seq(Envelope)
    BY NoMessage
  <2>. QED
    BY <1>3, <2>2, <2>3, <2>4, ConcatProperties DEF Line
<1>5. \A n \in Pair : Coming(n) = {} /\ Ordered(n, Line(n))
  BY <1>4 DEF Coming, Msgs, Ordered
<1>6. LinesOK
  BY <1>5 DEF LinesOK
<1>7. OthersOK
  <2>1. \A k \in Nodes : \A i \in 1..Len(outq[k]) : FALSE
    BY <1>2, <1>3
  <2>2. \A p \in Nodes : \A i \in 1..Len(mailbox[p]) : FALSE
    BY <1>2, <1>3
  <2>3. 1 \in Pair
    BY DEF Pair
  <2>4. \A p \in Nodes \ Pair : ~has_token[p] /\ ~is_inCS[p] /\ DOMAIN token_list[p] = {}
    BY <1>3, <2>3 DEF Init
  <2>. QED
    BY <2>1, <2>2, <2>4 DEF OthersOK
<1>8. 1 \in Pair /\ Other(1) = Partner /\ Partner \in Pair /\ Partner # 1 /\ Partner \in Nodes
  BY <1>1 DEF Pair, Other
<1>9. Holds(1)
  <2>1. token_holder[1] = 1 /\ token_holder[Partner] = 1
    BY <1>8, TokenAssumption DEF Init, FirstHolder, Quorum, Neighbours
  <2>2. has_token[1] /\ ~has_token[Partner] /\ ~is_inCS[Partner]
    BY <1>8, TokenAssumption DEF Init
  <2>3. token_list[1] = <<>> /\ token_list[Partner] = <<>>
    BY <1>8, TokenAssumption DEF Init
  <2>4. Coming(1) = {} /\ Coming(Partner) = {}
    BY <1>5, <1>8
  <2>. QED
    BY <1>8, <2>1, <2>2, <2>3, <2>4 DEF Holds
<1>. QED
  BY <1>6, <1>7, <1>8, <1>9 DEF TurnInv, PhaseOK

\* A step that changes neither the lines nor what the two hold.
LEMMA PhaseKept ==
  ASSUME Neighbours, PhaseOK, \A n \in Pair : Coming(n)' = Coming(n),
         \A n \in Pair :
           /\ has_token'[n] = has_token[n] /\ is_inCS'[n] = is_inCS[n] /\ hung'[n] = hung[n]
           /\ token_list'[n] = token_list[n] /\ token_holder'[n] = token_holder[n]
  PROVE  PhaseOK'
<1>1. PICK n \in Pair : Holds(n) \/ Passing(n) \/ Swallowed(n)
  BY DEF PhaseOK
<1>2. Other(n) \in Pair
  BY PairFacts
<1>3. CASE Holds(n)
  BY <1>2, <1>3, HoldsNext DEF Holds, One
<1>4. CASE Passing(n)
  BY <1>2, <1>4, BetweenNext DEF Passing, Between
<1>5. CASE Swallowed(n)
  BY <1>2, <1>5, BetweenNext DEF Swallowed, Between
<1>. QED
  BY <1>1, <1>3, <1>4, <1>5

LEMMA StepTurn == Neighbours /\ IInv /\ TurnInv /\ [Next]_vars => TurnInv'
<1>. SUFFICES ASSUME Neighbours, IInv, LinesOK, OthersOK, PhaseOK, [Next]_vars PROVE TurnInv'
  BY DEF TurnInv
<1>1. Pair \subseteq Nodes
  BY PairFacts
<1>2. CASE UNCHANGED vars
  <2>1. /\ LinesOK' /\ OthersOK' /\ \A n \in Pair : Coming(n)' = Coming(n)
    <3>1. UNCHANGED netVars /\ Own(1) /\ 1 \in Pair
      BY <1>2 DEF vars, nodeVars, tokenVars, Own, Pair
    <3>. QED
      BY <3>1, Quietly
  <2>2. PhaseOK'
    BY <1>2, <2>1, PhaseKept DEF vars, nodeVars, tokenVars
  <2>. QED
    BY <2>1, <2>2 DEF TurnInv
<1>3. ASSUME NEW k \in Nodes, Switch(k) PROVE TurnInv'
  <2>1. LinesOK' /\ OthersOK' /\ \A n \in Pair : Coming(n)' = Coming(n)
    BY <1>3, SwitchMoves
  <2>2. PhaseOK'
    BY <1>3, <2>1, PhaseKept DEF Switch, nodeVars, tokenVars
  <2>. QED
    BY <2>1, <2>2 DEF TurnInv
<1>4. ASSUME NEW k \in Nodes \ Pair, NodeStep(k) PROVE TurnInv'
  <2>1. LinesOK' /\ OthersOK' /\ \A n \in Pair : Coming(n)' = Coming(n)
    BY <1>4, OtherReads
  <2>2. Own(k)
    BY <1>4, NodeStepOwn
  <2>3. PhaseOK'
    BY <1>1, <2>1, <2>2, PhaseKept DEF Own
  <2>. QED
    BY <2>1, <2>3 DEF TurnInv
<1>5. ASSUME NEW k \in Pair, NodeStep(k) PROVE TurnInv'
  <2>1. PICK n \in Pair : Holds(n) \/ Passing(n) \/ Swallowed(n)
    BY DEF PhaseOK
  <2>2. CASE Holds(n)
    BY <1>5, <2>2, HoldsSendRequest, HoldsHandle, HoldsFinishCS DEF NodeStep
  <2>3. CASE Passing(n) \/ Swallowed(n)
    BY <1>5, <2>3, BetweenSendRequest, BetweenHandle, BetweenFinishCS DEF NodeStep
  <2>. QED
    BY <2>1, <2>2, <2>3
<1>. QED
  BY <1>2, <1>3, <1>4, <1>5 DEF Next

\* A line has one TOKEN at most.
LEMMA OneGift ==
  ASSUME Neighbours, IInv, LinesOK, NEW n \in Pair
  PROVE  LET q == outq[Other(n)] IN
         /\ \A i, j \in TokensIn(mailbox[n]) : i = j
         /\ \A i, j \in TokensOut(q) : q[i].to = n /\ q[j].to = n => i = j
         /\ \A i \in TokensIn(mailbox[n]), j \in TokensOut(q) : q[j].to # n
<1>. DEFINE a == Arrived(n, mailbox[n])
            q == outq[Other(n)]
            l == Line(n)
<1>1. n \in Nodes /\ a \in Seq(Envelope) /\ q \in Seq(Envelope) /\ mailbox[n] \in Seq(Message)
  BY LineTyped
<1>2. /\ Len(a) = Len(mailbox[n])
      /\ \A i \in 1..Len(mailbox[n]) : a[i] = [to |-> n, msg |-> mailbox[n][i]]
  BY <1>1, ArrivedIs
<1>3. l = a \o q
  BY DEF Line
<1>4. DOMAIN mailbox[n] = 1..Len(mailbox[n]) /\ DOMAIN q = 1..Len(q)
  BY <1>1, LenProperties
<1>5. TokensIn(mailbox[n]) = {i \in DOMAIN mailbox[n] : mailbox[n][i].type = "TOKEN"}
  BY DEF TokensIn
<1>6. TokensOut(q) = {i \in DOMAIN q : q[i].msg.type = "TOKEN"}
  BY DEF TokensOut
<1>7. Ordered(n, l)
  BY DEF LinesOK
<1>. HIDE DEF a, q, l
<1>8. /\ Len(l) = Len(a) + Len(q) /\ Len(a) \in Nat /\ Len(q) \in Nat
      /\ \A i \in 1..(Len(a) + Len(q)) : l[i] = IF i <= Len(a) THEN a[i] ELSE q[i - Len(a)]
  BY <1>1, <1>3, ConcatProperties, LenProperties
<1>9. \A x, y : x.type = "TOKEN" /\ y.type = "TOKEN" => ~Follows(x, y)
  BY DEF Follows
<1>10. ASSUME NEW i \in 1..Len(l), NEW j \in 1..Len(l), l[i].to = n, l[j].to = n,
              l[i].msg.type = "TOKEN", l[j].msg.type = "TOKEN"
       PROVE  i = j
  <2>1. ~(i < j) /\ ~(j < i)
    BY <1>7, <1>9, <1>10 DEF Ordered
  <2>. QED
    BY <1>8, <2>1
<1>11. ASSUME NEW i \in TokensIn(mailbox[n])
       PROVE  i \in 1..Len(l) /\ i <= Len(a) /\ l[i].to = n /\ l[i].msg.type = "TOKEN"
  <2>1. i \in 1..Len(a) /\ mailbox[n][i].type = "TOKEN"
    BY <1>2, <1>4, <1>5
  <2>2. i \in 1..Len(l) /\ i <= Len(a) /\ l[i] = a[i]
    BY <1>8, <2>1
  <2>3. a[i] = [to |-> n, msg |-> mailbox[n][i]]
    BY <1>2, <2>1
  <2>4. a[i].to = n /\ a[i].msg = mailbox[n][i]
    BY <2>3
  <2>. QED
    BY <2>1, <2>2, <2>4
<1>12. ASSUME NEW j \in TokensOut(q), q[j].to = n
       PROVE  /\ j \in Nat /\ j > 0 /\ Len(a) + j \in 1..Len(l)
              /\ l[Len(a) + j].to = n /\ l[Len(a) + j].msg.type = "TOKEN"
  <2>1. j \in 1..Len(q) /\ q[j].msg.type = "TOKEN"
    BY <1>4, <1>6
  <2>2. Len(a) + j \in 1..Len(l) /\ ~(Len(a) + j <= Len(a)) /\ (Len(a) + j) - Len(a) = j
    BY <1>8, <2>1
  <2>3. l[Len(a) + j] = q[j]
    BY <1>8, <2>2
  <2>. QED
    BY <1>12, <2>1, <2>2, <2>3
<1>13. \A i, j \in TokensIn(mailbox[n]) : i = j
  BY <1>10, <1>11
<1>14. ASSUME NEW i \in TokensOut(q), NEW j \in TokensOut(q), q[i].to = n, q[j].to = n
       PROVE  i = j
  <2>1. Len(a) + i = Len(a) + j
    BY <1>10, <1>12, <1>14
  <2>2. i \in Nat /\ j \in Nat
    BY <1>12, <1>14
  <2>. QED
    BY <1>8, <2>1, <2>2
<1>15. ASSUME NEW i \in TokensIn(mailbox[n]), NEW j \in TokensOut(q), q[j].to = n
       PROVE  FALSE
  <2>1. i = Len(a) + j
    BY <1>10, <1>11, <1>12, <1>15
  <2>2. j \in Nat /\ j > 0 /\ i <= Len(a)
    BY <1>11, <1>12, <1>15
  <2>. QED
    BY <1>8, <2>1, <2>2
<1>. QED
  BY <1>13, <1>14, <1>15 DEF q

\* Where a token is.
LEMMA TokenPlace ==
  ASSUME NEW x \in Tokens
  PROVE  \/ \E k \in Nodes : has_token[k] /\ x = <<"held", k, 0>>
         \/ \E k \in Nodes : \E i \in TokensIn(mailbox[k]) : x = <<"mailbox", k, i>>
         \/ \E k \in Nodes : \E i \in TokensOut(outq[k]) : x = <<"outq", k, i>>
<1>1. \/ x \in {<<"held", n, 0>> : n \in {m \in Nodes : has_token[m]}}
      \/ x \in UNION {{<<"mailbox", n, i>> : i \in TokensIn(mailbox[n])} : n \in Nodes}
      \/ x \in UNION {{<<"outq", n, i>> : i \in TokensOut(outq[n])} : n \in Nodes}
  BY Zenon DEF Tokens
<1>2. CASE x \in {<<"held", n, 0>> : n \in {m \in Nodes : has_token[m]}}
  BY <1>2
<1>3. CASE x \in UNION {{<<"mailbox", n, i>> : i \in TokensIn(mailbox[n])} : n \in Nodes}
  <2>1. PICK k \in Nodes : x \in {<<"mailbox", k, i>> : i \in TokensIn(mailbox[k])}
    BY <1>3
  <2>. QED
    BY <2>1
<1>4. CASE x \in UNION {{<<"outq", n, i>> : i \in TokensOut(outq[n])} : n \in Nodes}
  <2>1. PICK k \in Nodes : x \in {<<"outq", k, i>> : i \in TokensOut(outq[k])}
    BY <1>4
  <2>. QED
    BY <2>1
<1>. QED
  BY <1>1, <1>2, <1>3, <1>4

LEMMA TurnOneToken == Neighbours /\ IInv /\ TurnInv => OneToken
<1>. SUFFICES ASSUME Neighbours, IInv, LinesOK, OthersOK, PhaseOK PROVE OneToken
  BY DEF TurnInv
<1>1. PICK n \in Pair : Holds(n) \/ Passing(n) \/ Swallowed(n)
  BY DEF PhaseOK
<1>. DEFINE o == Other(n)
<1>2. n \in Nodes /\ o \in Nodes /\ o # n /\ o \in Pair /\ Other(o) = n /\ Pair = {n, o}
  BY PairFacts
<1>3. \A k \in Nodes : has_token[k] => k \in Pair
  BY DEF OthersOK
<1>4. \A k \in Nodes : DOMAIN outq[k] = 1..Len(outq[k]) /\ DOMAIN mailbox[k] = 1..Len(mailbox[k])
  BY QueueTypes, LenProperties
<1>5. ASSUME NEW k \in Nodes, NEW i \in TokensIn(mailbox[k])
      PROVE  k \in Pair /\ \E m \in Coming(k) : m.type = "TOKEN"
  <2>1. i \in 1..Len(mailbox[k]) /\ mailbox[k][i].type = "TOKEN"
    BY <1>4 DEF TokensIn
  <2>2. k \in Pair
    BY <2>1 DEF OthersOK, News
  <2>. QED
    BY <2>1, <2>2, ComingFrom
<1>6. ASSUME NEW k \in Nodes, NEW i \in TokensOut(outq[k])
      PROVE  /\ k \in Pair /\ outq[k][i].to = Other(k)
             /\ \E m \in Coming(Other(k)) : m.type = "TOKEN"
  <2>1. i \in 1..Len(outq[k]) /\ outq[k][i].msg.type = "TOKEN"
    BY <1>4 DEF TokensOut
  <2>2. k \in Pair /\ outq[k][i].to # k /\ outq[k][i].to \in Pair
    BY <2>1 DEF OthersOK, News
  <2>3. Other(k) \in Pair /\ Other(Other(k)) = k /\ outq[k][i].to = Other(k)
    BY <2>2, PairFacts
  <2>4. outq[k][i].msg \in Coming(Other(k))
    BY <2>1, <2>3, ComingFrom
  <2>. QED
    BY <2>1, <2>2, <2>3, <2>4
<1>7. CASE Holds(n)
  <2>1. \A k \in Pair : \A m \in Coming(k) : m.type # "TOKEN"
    BY <1>2, <1>7 DEF Holds
  <2>2. \A k \in Nodes : TokensIn(mailbox[k]) = {} /\ TokensOut(outq[k]) = {}
    <3>1. ASSUME NEW k \in Nodes, NEW i \in TokensIn(mailbox[k]) PROVE FALSE
      BY <1>5, <2>1, <3>1
    <3>2. ASSUME NEW k \in Nodes, NEW i \in TokensOut(outq[k]) PROVE FALSE
      <4>1. Other(k) \in Pair
        BY <1>6, PairFacts
      <4>. QED
        BY <1>6, <2>1, <4>1
    <3>. QED
      BY <3>1, <3>2
  <2>3. \A k \in Nodes : has_token[k] => k = n
    BY <1>2, <1>3, <1>7 DEF Holds
  <2>4. \A x \in Tokens : x = <<"held", n, 0>>
    BY <2>2, <2>3, TokenPlace
  <2>. QED
    BY <2>4 DEF OneToken
<1>8. CASE Swallowed(n)
  <2>1. \A k \in Pair : \A m \in Coming(k) : m.type # "TOKEN"
    BY <1>2, <1>8 DEF Swallowed, Between
  <2>2. \A k \in Nodes : ~has_token[k]
    BY <1>3, <1>8 DEF Swallowed, Between
  <2>3. ASSUME NEW x \in Tokens PROVE FALSE
    <3>1. ASSUME NEW k \in Nodes, NEW i \in TokensIn(mailbox[k]) PROVE FALSE
      BY <1>5, <2>1, <3>1
    <3>2. ASSUME NEW k \in Nodes, NEW i \in TokensOut(outq[k]) PROVE FALSE
      <4>1. Other(k) \in Pair
        BY <1>6, PairFacts
      <4>. QED
        BY <1>6, <2>1, <4>1
    <3>. QED
      BY <2>2, <3>1, <3>2, TokenPlace
  <2>. QED
    BY <2>3 DEF OneToken
<1>9. CASE Passing(n)
  <2>1. \A k \in Nodes : ~has_token[k]
    BY <1>3, <1>9 DEF Passing, Between
  <2>2. \A m \in Coming(o) : FALSE
    BY <1>9 DEF Passing, Between
  <2>3. \A k \in Nodes : \A i \in TokensIn(mailbox[k]) : k = n
    BY <1>2, <1>5, <2>2
  <2>4. \A k \in Nodes : \A i \in TokensOut(outq[k]) : k = o /\ outq[k][i].to = n
    <3>1. ASSUME NEW k \in Nodes, NEW i \in TokensOut(outq[k])
          PROVE  k = o /\ outq[k][i].to = n
      <4>1. k # n
        BY <1>6, <2>2
      <4>. QED
        BY <1>2, <1>6, <4>1
    <3>. QED
      BY <3>1
  <2>5. \A x \in Tokens :
          \/ \E i \in TokensIn(mailbox[n]) : x = <<"mailbox", n, i>>
          \/ \E i \in TokensOut(outq[o]) : outq[o][i].to = n /\ x = <<"outq", o, i>>
    <3>1. ASSUME NEW x \in Tokens
          PROVE  \/ \E i \in TokensIn(mailbox[n]) : x = <<"mailbox", n, i>>
                 \/ \E i \in TokensOut(outq[o]) : outq[o][i].to = n /\ x = <<"outq", o, i>>
      <4>1. \/ \E k \in Nodes : \E i \in TokensIn(mailbox[k]) : x = <<"mailbox", k, i>>
            \/ \E k \in Nodes : \E i \in TokensOut(outq[k]) : x = <<"outq", k, i>>
        BY <2>1, TokenPlace
      <4>. QED
        BY <2>3, <2>4, <4>1
    <3>. QED
      BY <3>1
  <2>6. /\ \A i, j \in TokensIn(mailbox[n]) : i = j
        /\ \A i, j \in TokensOut(outq[o]) : outq[o][i].to = n /\ outq[o][j].to = n => i = j
        /\ \A i \in TokensIn(mailbox[n]), j \in TokensOut(outq[o]) : outq[o][j].to # n
    BY OneGift
  <2>. QED
    BY <2>5, <2>6 DEF OneToken
<1>. QED
  BY <1>1, <1>7, <1>8, <1>9

LEMMA TurnSafe == Neighbours /\ TurnInv => Mutex /\ SectionHasToken
<1>. SUFFICES ASSUME Neighbours, OthersOK, PhaseOK PROVE Mutex /\ SectionHasToken
  BY DEF TurnInv
<1>1. PICK n \in Pair : Holds(n) \/ Passing(n) \/ Swallowed(n)
  BY DEF PhaseOK
<1>2. Pair = {n, Other(n)}
  BY PairFacts
<1>3. \A k \in Nodes : is_inCS[k] => k = n /\ has_token[k]
  BY <1>1, <1>2 DEF Holds, Passing, Swallowed, Between, OthersOK
<1>. QED
  BY <1>3 DEF Mutex, SectionHasToken

TurnIInv == Neighbours /\ IInv /\ TurnInv

LEMMA TurnInvariance == Neighbours /\ Spec => []TurnIInv
<1>1. Neighbours /\ Init => TurnIInv
  BY InitIInv, InitTurn DEF TurnIInv
<1>2. TurnIInv /\ [Next]_vars => TurnIInv'
  BY StepIInv, StepTurn DEF TurnIInv, Neighbours
<1>. QED
  BY <1>1, <1>2, PTL DEF Spec

\* Two neighbours who compete share one token, though the request of one may chase
\* the token or be collected in the other's section: as each of them knows the
\* holder whenever it asks, no request of theirs is relayed, and nothing makes a
\* second token, for any quorums and any number of requests.
THEOREM OneTokenForTwo == Neighbours /\ Spec => []OneToken
<1>1. TurnIInv => OneToken
  BY TurnOneToken DEF TurnIInv
<1>. QED
  BY <1>1, TurnInvariance, PTL

\* Two neighbours who compete are never in the critical section together, whenever
\* their schedules fire.
THEOREM MutexForTwo == Neighbours /\ Spec => []Mutex
<1>1. TurnIInv => Mutex
  BY TurnSafe DEF TurnIInv
<1>. QED
  BY <1>1, TurnInvariance, PTL

\* Whoever of the two is in the section has the token: a request that reaches it
\* there is collected, and does not take the token away before finishCS.
THEOREM TokenInSection == Neighbours /\ Spec => []SectionHasToken
<1>1. TurnIInv => SectionHasToken
  BY TurnSafe DEF TurnIInv
<1>. QED
  BY <1>1, TurnInvariance, PTL

-----------------------------------------------------------------------------
(* Requests that are collected.                                            *)

\* As long as a node in the section has the token, nobody keeps a request outside
\* it: the handovers and the end of the section empty the list.
THEOREM NoneLeftBehind == Spec /\ []SectionHasToken => []CollectedInSection
<1>1. Init => CollectedInSection
  <2>1. DOMAIN <<>> = {}
    OBVIOUS
  <2>. QED
    BY <2>1 DEF Init, CollectedInSection
<1>2. IInv /\ SectionHasToken /\ CollectedInSection /\ [Next]_vars => CollectedInSection'
  <2>. SUFFICES ASSUME IInv, SectionHasToken, CollectedInSection, [Next]_vars
                PROVE  CollectedInSection'
    OBVIOUS
  <2>. DEFINE Good(n) == DOMAIN token_list'[n] # {} => is_inCS'[n]
  <2>1. CASE UNCHANGED vars
    BY <2>1 DEF CollectedInSection, vars, nodeVars, tokenVars
  <2>2. ASSUME NEW n \in Nodes, NodeStep(n) PROVE CollectedInSection'
    <3>1. /\ \A k \in Nodes \ {n} : token_list'[k] = token_list[k] /\ is_inCS'[k] = is_inCS[k]
          /\ \/ token_list'[n] = <<>>
             \/ token_list'[n] = token_list[n] /\ (is_inCS'[n] = is_inCS[n] \/ is_inCS'[n])
             \/ is_inCS[n] /\ is_inCS'[n] = is_inCS[n]
             \/ token_list'[n] = token_list[n] /\ is_inCS'[n] = has_token[n]
             \/ DOMAIN token_list'[n] = {}
      <4>0. /\ token_list = [k \in Nodes |-> token_list[k]] /\ is_inCS \in [Nodes -> BOOLEAN]
        BY DEF IInv, HolderOK
      <4>1. CASE SendRequest(n)
        BY <4>0, <4>1 DEF SendRequest, tokenVars
      <4>2. CASE ReceiveRequest(n)
        <5>1. UNCHANGED is_inCS
          BY <4>2 DEF ReceiveRequest
        <5>2. /\ \A k \in Nodes \ {n} : token_list'[k] = token_list[k]
              /\ token_list'[n] = token_list[n] \/ token_list'[n] = <<>> \/ is_inCS[n]
          BY <4>0, <4>2 DEF ReceiveRequest, GiveToken, Collects, tokenVars
        <5>. QED
          BY <5>1, <5>2
      <4>3. CASE ReceiveRelay(n)
        BY <4>0, <4>3 DEF ReceiveRelay, GiveToken, Collects
      <4>4. CASE ReceiveToken(n)
        BY <4>0, <4>4 DEF ReceiveToken, GiveToken
      <4>5. CASE ReceiveTokenHangs(n) \/ ReceiveAck(n) \/ ReceiveReceive(n) \/ ReceiveRelease(n)
        BY <4>5 DEF ReceiveTokenHangs, ReceiveAck, ReceiveReceive, ReceiveRelease, tokenVars
      <4>6. CASE FinishCS(n)
        BY <4>0, <4>6 DEF FinishCS, GiveToken, tokenVars
      <4>. QED
        BY <2>2, <4>1, <4>2, <4>3, <4>4, <4>5, <4>6 DEF NodeStep, Handle
    <3>2. DOMAIN <<>> = {}
      OBVIOUS
    <3>3. /\ DOMAIN token_list[n] # {} => is_inCS[n] /\ has_token[n]
          /\ is_inCS[n] \in BOOLEAN
      BY DEF CollectedInSection, SectionHasToken, IInv, HolderOK
    <3>4. Good(n)
      BY <3>1, <3>2, <3>3
    <3>. QED
      BY <3>1, <3>4 DEF CollectedInSection
  <2>3. ASSUME NEW n \in Nodes, Switch(n) PROVE CollectedInSection'
    BY <2>3 DEF Switch, nodeVars, tokenVars, CollectedInSection
  <2>. QED
    BY <2>1, <2>2, <2>3 DEF Next
<1>. QED
  BY <1>1, <1>2, Invariance, PTL DEF Spec

=============================================================================
