--------------------------- MODULE MAKNode_proofs ---------------------------
(***************************************************************************)
(* Theorems about MAKNode for every set of nodes, every quorum, every      *)
(* schedule and every quality of the network; and, for two competitors     *)
(* with common arbiters, that the algorithm keeps mutual exclusion, which  *)
(* it does not keep for everyone.                                          *)
(***************************************************************************)
EXTENDS MAKNode, Shared_proofs

-----------------------------------------------------------------------------
(* The queue.                                                              *)

LEMMA RequestsFacts ==
  /\ Requests \subseteq Nat \X Nat
  /\ \A r \in Requests : /\ r[2] \in Nodes /\ r[1] \in 1..Schedule[r[2]]
                         /\ r = <<r[1], r[2]>>
  /\ \A n \in Nodes : \A k \in 1..Schedule[n] : <<k, n>> \in Requests
BY NodesAssumption, ScheduleAssumption DEF Requests
NotRequest == {"LOCK", "FAIL", "INQUIRE", "RELINQUISH", "RELEASE"}

LEMMA MessageFacts ==
  /\ \A m \in Message : /\ m.from \in Nodes
                        /\ m.type \in NotRequest \cup {"REQUEST"}
                        /\ m.type = "REQUEST" => <<m.seq, m.from>> \in Requests
  /\ \A r \in Requests : Request(r) \in Message /\ Request(r).type = "REQUEST"
  /\ \A n \in Nodes : \A t \in NotRequest : Reply(t, n) \in Message
<1>1. ASSUME NEW r \in Requests
      PROVE  /\ Request(r) \in Message
             /\ Request(r).from \in Nodes /\ Request(r).type = "REQUEST"
             /\ <<Request(r).seq, Request(r).from>> \in Requests
  BY RequestsFacts DEF Request, Message
<1>2. ASSUME NEW n \in Nodes, NEW t \in NotRequest
      PROVE  Reply(t, n) \in Message
  BY DEF Reply, Message, NotRequest
<1>3. ASSUME NEW m \in [type : NotRequest, from : Nodes]
      PROVE  m.from \in Nodes /\ m.type \in NotRequest /\ m.type # "REQUEST"
  BY DEF NotRequest
<1>4. \A m \in Message : (\E r \in Requests : m = Request(r)) \/ m \in [type : NotRequest, from : Nodes]
  BY DEF Message, NotRequest
<1>. QED
  BY <1>1, <1>2, <1>3, <1>4

\* A handler's answer makes a sequence of envelopes.
LEMMA ReplyTyped ==
  ASSUME NEW t \in Nodes \cup {0}, NEW n \in Nodes, NEW c \in NotRequest
  PROVE  To(t, Reply(c, n)) \in Seq([to : Nodes \cup {0}, msg : Message])
BY MessageFacts, ToHolds

LEMMA BroadcastTyped ==
  ASSUME NEW n \in Nodes, NEW m \in Message
  PROVE  ToPeers(n, m) \in Seq([to : Nodes \cup {0}, msg : Message])
BY PeerSetFacts, ToPeersHolds

LEMMA QueueFacts ==
  ASSUME NEW q, q \subseteq Requests
  PROVE  /\ q # {} => Begin(q) \in q /\ Begin(q)[2] \in Nodes
         /\ NextHolder(q) \in q \cup {NoLock}
         /\ q # {} => NextHolder(q) = Begin(q)
         /\ \A m : Without(q, m) \subseteq q
<1>1. ASSUME NEW p, p \subseteq q, p # {}
      PROVE  Begin(p) \in p
  BY <1>1, RequestsFacts, BeginInQueue
<1>2. \A m : Without(q, m) \subseteq q
  BY DEF Without
<1>. QED
  BY <1>1, <1>2, RequestsFacts DEF NextHolder

\* response_map after an answer is a map from nodes to answers.
LEMMA RecordedFacts ==
  ASSUME NEW n \in Nodes, response_map \in [Nodes -> Answers],
         NEW m \in Message, m.type \in {"LOCK", "FAIL"}
  PROVE  /\ Recorded(n, m) \in Answers
         /\ DOMAIN Recorded(n, m) = Answered(n) \cup {m.from}
<1>1. PICK S \in SUBSET Nodes : response_map[n] \in [S -> {"LOCK", "FAIL"}]
  BY DEF Answers
<1>2. Recorded(n, m) \in [S \cup {m.from} -> {"LOCK", "FAIL"}]
  BY <1>1 DEF Recorded, Answered
<1>3. S \cup {m.from} \in SUBSET Nodes
  BY MessageFacts
<1>. QED
  BY <1>2, <1>3 DEF Answers, Recorded

-----------------------------------------------------------------------------
(* The type invariant and the lock invariant.  They are proved together:   *)
(* an INQUIRE goes to the node of locked_for, and that is a node only      *)
(* because a lock that is given away has a holder.                         *)

Envelope == [to : Nodes \cup {0}, msg : Message]
AnyMessage == [t \in Nodes |-> Message]

ArbiterOK ==
  /\ is_locked \in [Nodes -> BOOLEAN]
  /\ locked_for \in [Nodes -> Requests \cup {NoLock, Stray}]
  /\ waiting_queue \in [Nodes -> SUBSET Requests]

RequesterOK ==
  /\ is_inCS \in [Nodes -> BOOLEAN]
  /\ response_map \in [Nodes -> Answers]
  /\ inquiry_list \in [Nodes -> Seq(Nodes)]

SeqOK ==
  /\ seq \in [Nodes -> Nat]
  /\ \A n \in Nodes : seq[n] \in 1..(Schedule[n] + 1)

IInv ==
  /\ NetHolds(Envelope, AnyMessage)
  /\ SeqOK /\ ArbiterOK /\ RequesterOK /\ hung \in [Nodes -> BOOLEAN]
  /\ LockInv

LEMMA IInvImplies == IInv => TypeOK /\ LockInv
<1>1. ASSUME NetHolds(Envelope, AnyMessage)
      PROVE  /\ outq \in [Nodes -> Seq([to : Nodes \cup {0}, msg : Message])]
             /\ mailbox \in [Nodes -> Seq(Message)]
  BY <1>1 DEF NetHolds, Envelope, AnyMessage
<1>. QED
  BY <1>1 DEF IInv, TypeOK, SeqOK, ArbiterOK, RequesterOK

LEMMA NoAnswers == <<>> \in Answers
<1>1. <<>> \in [{} -> {"LOCK", "FAIL"}]
  OBVIOUS
<1>. QED
  BY <1>1 DEF Answers

LEMMA InitIInv == Init => IInv
<1>. SUFFICES ASSUME Init PROVE IInv
  OBVIOUS
<1>1. NetHolds(Envelope, AnyMessage)
  BY EmptySeq DEF Init, NetInit, NetHolds, AnyMessage
<1>2. SeqOK /\ hung \in [Nodes -> BOOLEAN]
  BY ScheduleAssumption DEF Init, SeqOK
<1>3. ArbiterOK /\ LockInv
  BY DEF Init, ArbiterOK, LockInv, NoIdleLock, HolderQueued, FreeHasNoHolder
<1>4. RequesterOK
  BY NoAnswers, EmptySeq DEF Init, RequesterOK
<1>. QED
  BY <1>1, <1>2, <1>3, <1>4 DEF IInv


\* What a handler knows of the message at the head of its mailbox.
LEMMA HeadFacts ==
  ASSUME IInv, NEW n \in Nodes, NEW t, Receives(n, t)
  PROVE  /\ ~hung[n]
         /\ Head(mailbox[n]) \in Message
         /\ Head(mailbox[n]).type = t
         /\ Head(mailbox[n]).from \in Nodes
         /\ t = "REQUEST" => <<Head(mailbox[n]).seq, Head(mailbox[n]).from>> \in Requests
<1>1. Head(mailbox[n]) \in AnyMessage[n]
  BY HeadTailProperties DEF IInv, NetHolds, Receives
<1>. QED
  BY <1>1, MessageFacts DEF AnyMessage, Receives

LEMMA SendRequestIInv ==
  ASSUME IInv, NEW n \in Nodes, SendRequest(n)
  PROVE  IInv'
<1>. DEFINE r == <<seq[n], n>>
<1>1. r \in Requests
  BY RequestsFacts DEF IInv, SeqOK, SendRequest
<1>2. NetHolds(Envelope, AnyMessage)'
  <2>1. ToPeers(n, Request(r)) \in Seq(Envelope)
    BY <1>1, MessageFacts, BroadcastTyped DEF Envelope
  <2>. QED
    BY <2>1, EmitHolds DEF IInv, SendRequest, OwnRequest
<1>3. SeqOK'
  <2>1. seq' = [seq EXCEPT ![n] = @ + 1] /\ seq[n] <= Schedule[n]
    BY DEF SendRequest
  <2>2. seq \in [Nodes -> Nat] /\ \A m \in Nodes : seq[m] \in 1..(Schedule[m] + 1)
    BY DEF IInv, SeqOK
  <2>3. \A m \in Nodes : Schedule[m] \in Nat
    BY ScheduleAssumption
  <2>4. \A m \in Nodes : seq'[m] = IF m = n THEN seq[n] + 1 ELSE seq[m]
    BY <2>1, <2>2
  <2>5. seq' \in [Nodes -> Nat]
    BY <2>1, <2>2
  <2>6. seq[n] + 1 \in 1..(Schedule[n] + 1)
    BY <2>1, <2>2, <2>3
  <2>. QED
    BY <2>2, <2>4, <2>5, <2>6 DEF SeqOK
<1>4. ArbiterOK'
  BY <1>1 DEF IInv, ArbiterOK, SendRequest, OwnRequest
<1>5. RequesterOK' /\ (hung \in [Nodes -> BOOLEAN])'
  BY DEF IInv, RequesterOK, SendRequest, requesterVars
<1>6. LockInv'
  <2>1. /\ waiting_queue' = [waiting_queue EXCEPT ![n] = @ \cup {r}]
        /\ locked_for' = [locked_for EXCEPT ![n] = r]
        /\ is_locked' = [is_locked EXCEPT ![n] = TRUE]
        /\ UNCHANGED hung
    BY DEF SendRequest, OwnRequest
  <2>. QED
    BY <2>1 DEF IInv, ArbiterOK, LockInv, NoIdleLock, HolderQueued, FreeHasNoHolder
<1>. QED
  BY <1>2, <1>3, <1>4, <1>5, <1>6 DEF IInv

LEMMA ReceiveRequestIInv ==
  ASSUME IInv, NEW n \in Nodes, ReceiveRequest(n)
  PROVE  IInv'
<1>. DEFINE msg == Head(mailbox[n])
            r == <<msg.seq, msg.from>>
            wq == waiting_queue[n] \cup {r}
            grant == ~is_locked[n] \/ (Begin(wq) = r /\ locked_for[n][2] = n)
            holder == locked_for[n][2]
<1>1. r \in Requests /\ msg.from \in Nodes /\ ~hung[n]
  BY HeadFacts DEF ReceiveRequest
<1>2. is_locked[n] => locked_for[n] \in Requests \cup {Stray}
  BY DEF IInv, ArbiterOK, LockInv, HolderQueued
<1>3. is_locked[n] => holder \in Nodes \cup {0}
  BY <1>2, RequestsFacts DEF Stray
<1>4. PICK s \in Seq(Envelope) : Consume(n, s)
  <2>1. CASE grant /\ Consume(n, To(msg.from, Reply("LOCK", n)))
    BY <2>1, <1>1, ReplyTyped DEF Envelope, NotRequest
  <2>2. CASE ~grant /\ Consume(n, To(holder, Reply("INQUIRE", n)))
    BY <2>2, <1>3, ReplyTyped DEF Envelope, NotRequest
  <2>3. CASE Consume(n, To(msg.from, Reply("FAIL", n)))
    BY <2>3, <1>1, ReplyTyped DEF Envelope, NotRequest
  <2>. QED
    BY <2>1, <2>2, <2>3 DEF ReceiveRequest
<1>5. NetHolds(Envelope, AnyMessage)'
  BY <1>4, ConsumeHolds DEF IInv
<1>6. /\ waiting_queue' = [waiting_queue EXCEPT ![n] = wq]
      /\ is_locked' = [is_locked EXCEPT ![n] = TRUE]
      /\ locked_for' = [locked_for EXCEPT ![n] = IF grant THEN r ELSE @]
      /\ UNCHANGED hung
  BY DEF ReceiveRequest
<1>7. ArbiterOK'
  BY <1>1, <1>6 DEF IInv, ArbiterOK
<1>8. SeqOK' /\ RequesterOK' /\ (hung \in [Nodes -> BOOLEAN])'
  BY DEF IInv, SeqOK, RequesterOK, ReceiveRequest, requesterVars
<1>9. LockInv'
  BY <1>6 DEF IInv, ArbiterOK, LockInv, NoIdleLock, HolderQueued, FreeHasNoHolder
<1>. QED
  BY <1>5, <1>7, <1>8, <1>9, ReceiveRequest(n) DEF IInv

LEMMA ReceiveRelinquishIInv ==
  ASSUME IInv, NEW n \in Nodes, ReceiveRelinquish(n)
  PROVE  IInv'
<1>. DEFINE q == waiting_queue[n]
            first == IF q = {} THEN Stray ELSE Begin(q)
<1>1. q \subseteq Requests
  BY DEF IInv, ArbiterOK
<1>2. first \in q \cup {Stray} /\ first[2] \in Nodes \cup {0}
  BY <1>1, QueueFacts DEF Stray
<1>3. /\ locked_for' = [locked_for EXCEPT ![n] = first]
      /\ is_locked' = [is_locked EXCEPT ![n] = TRUE]
      /\ UNCHANGED waiting_queue
      /\ Consume(n, To(first[2], Reply("LOCK", n)))
  BY DEF ReceiveRelinquish
<1>4. NetHolds(Envelope, AnyMessage)'
  <2>1. To(first[2], Reply("LOCK", n)) \in Seq(Envelope)
    BY <1>2, ReplyTyped DEF Envelope, NotRequest
  <2>. QED
    BY <1>3, <2>1, ConsumeHolds DEF IInv
<1>5. ArbiterOK'
  BY <1>1, <1>2, <1>3 DEF IInv, ArbiterOK
<1>6. SeqOK' /\ RequesterOK' /\ UNCHANGED hung
  BY DEF IInv, SeqOK, RequesterOK, ReceiveRelinquish, requesterVars
<1>7. LockInv'
  BY <1>2, <1>3, <1>6 DEF IInv, ArbiterOK, LockInv, NoIdleLock, HolderQueued, FreeHasNoHolder
<1>. QED
  BY <1>4, <1>5, <1>6, <1>7 DEF IInv

LEMMA ReceiveReleaseIInv ==
  ASSUME IInv, NEW n \in Nodes, ReceiveRelease(n)
  PROVE  IInv'
<1>. DEFINE wq == Without(waiting_queue[n], Head(mailbox[n]).from)
<1>1. /\ wq \subseteq Requests /\ wq \subseteq waiting_queue[n]
      /\ NextHolder(wq) \in wq \cup {NoLock}
      /\ wq # {} => NextHolder(wq) \in wq /\ Begin(wq)[2] \in Nodes
      /\ wq = {} => NextHolder(wq) = NoLock
  <2>1. waiting_queue[n] \subseteq Requests
    BY DEF IInv, ArbiterOK
  <2>2. wq \subseteq waiting_queue[n]
    BY <2>1, QueueFacts
  <2>. QED
    BY <2>1, <2>2, QueueFacts DEF NextHolder
<1>2. /\ waiting_queue' = [waiting_queue EXCEPT ![n] = wq]
      /\ is_locked' = [is_locked EXCEPT ![n] = @ /\ wq # {}]
      /\ locked_for' = [locked_for EXCEPT ![n] = NextHolder(wq)]
      /\ Consume(n, IF wq = {} \/ Begin(wq)[2] = n
                    THEN <<>> ELSE To(Begin(wq)[2], Reply("LOCK", n)))
  BY DEF ReceiveRelease
<1>3. NetHolds(Envelope, AnyMessage)'
  <2>1. CASE Consume(n, <<>>)
    BY <2>1, EmptySeq, ConsumeHolds DEF IInv
  <2>2. CASE wq # {} /\ Consume(n, To(Begin(wq)[2], Reply("LOCK", n)))
    <3>1. To(Begin(wq)[2], Reply("LOCK", n)) \in Seq(Envelope)
      BY <2>2, <1>1, ReplyTyped DEF Envelope, NotRequest
    <3>. QED
      BY <2>2, <3>1, ConsumeHolds DEF IInv
  <2>. QED
    BY <1>2, <2>1, <2>2
<1>4. ArbiterOK'
  BY <1>1, <1>2 DEF IInv, ArbiterOK
<1>5. SeqOK' /\ RequesterOK' /\ UNCHANGED hung
  BY DEF IInv, SeqOK, RequesterOK, ReceiveRelease, requesterVars
<1>6. ~hung[n]
  BY HeadFacts DEF ReceiveRelease
<1>7. LockInv'
  BY <1>1, <1>2, <1>5, <1>6 DEF IInv, ArbiterOK, LockInv, NoIdleLock, HolderQueued,
                                FreeHasNoHolder
<1>. QED
  BY <1>3, <1>4, <1>5, <1>7 DEF IInv


LEMMA ReceiveLockedIInv ==
  ASSUME IInv, NEW n \in Nodes, ReceiveLocked(n)
  PROVE  IInv'
<1>. DEFINE rm == Recorded(n, Head(mailbox[n]))
<1>1. rm \in Answers
  BY HeadFacts, RecordedFacts DEF IInv, RequesterOK, ReceiveLocked
<1>2. NetHolds(Envelope, AnyMessage)'
  BY EmptySeq, ConsumeHolds DEF IInv, ReceiveLocked
<1>3. /\ response_map' = [response_map EXCEPT ![n] = rm]
      /\ is_inCS' = [is_inCS EXCEPT ![n] = @ \/ Enters(n, rm)]
      /\ UNCHANGED <<seq, arbiterVars, inquiry_list, hung>>
  BY DEF ReceiveLocked
<1>4. Enters(n, rm) \in BOOLEAN
  BY DEF Enters
<1>5. RequesterOK'
  BY <1>1, <1>3, <1>4 DEF IInv, RequesterOK
<1>6. SeqOK' /\ ArbiterOK' /\ LockInv' /\ (hung \in [Nodes -> BOOLEAN])'
  BY <1>3 DEF IInv, SeqOK, ArbiterOK, LockInv, NoIdleLock, HolderQueued, FreeHasNoHolder,
              arbiterVars
<1>. QED
  BY <1>2, <1>5, <1>6 DEF IInv

LEMMA ReceiveFailedIInv ==
  ASSUME IInv, NEW n \in Nodes, ReceiveFailed(n)
  PROVE  IInv'
<1>. DEFINE rm == Recorded(n, Head(mailbox[n]))
<1>1. rm \in Answers
  BY HeadFacts, RecordedFacts DEF IInv, RequesterOK, ReceiveFailed
<1>2. Relinquishes(n) \in Seq(Envelope)
  <2>1. Len(inquiry_list[n]) \in Nat
    BY LenProperties DEF IInv, RequesterOK
  <2>2. \A i \in 1..Len(inquiry_list[n]) : inquiry_list[n][i] \in Nodes
    BY ElementOfSeq DEF IInv, RequesterOK
  <2>3. Reply("RELINQUISH", n) \in Message
    BY MessageFacts DEF NotRequest
  <2>4. \A i \in 1..Len(inquiry_list[n]) :
          [to |-> inquiry_list[n][i], msg |-> Reply("RELINQUISH", n)] \in Envelope
    BY <2>2, <2>3 DEF Envelope
  <2>. QED
    BY <2>1, <2>4, IsASeq DEF Relinquishes
<1>3. NetHolds(Envelope, AnyMessage)'
  BY <1>2, ConsumeHolds DEF IInv, ReceiveFailed
<1>4. /\ response_map' = [response_map EXCEPT ![n] = rm]
      /\ inquiry_list' = [inquiry_list EXCEPT ![n] = <<>>]
      /\ UNCHANGED <<seq, arbiterVars, is_inCS, hung>>
  BY DEF ReceiveFailed
<1>5. RequesterOK'
  BY <1>1, <1>4, EmptySeq DEF IInv, RequesterOK
<1>6. SeqOK' /\ ArbiterOK' /\ LockInv' /\ (hung \in [Nodes -> BOOLEAN])'
  BY <1>4 DEF IInv, SeqOK, ArbiterOK, LockInv, NoIdleLock, HolderQueued, FreeHasNoHolder,
              arbiterVars
<1>. QED
  BY <1>3, <1>5, <1>6 DEF IInv

\* InsertAt keeps a sequence over the nodes one.
LEMMA InsertTyped ==
  ASSUME NEW s \in Seq(Nodes), NEW i \in 1..(Len(s) + 1), NEW x \in Nodes
  PROVE  InsertAt(s, i, x) \in Seq(Nodes)
<1>1. SubSeq(s, 1, i-1) \in Seq(Nodes) /\ SubSeq(s, i, Len(s)) \in Seq(Nodes)
  BY LenProperties, ElementOfSeq, SubSeqProperties
<1>2. <<x>> \in Seq(Nodes)
  OBVIOUS
<1>. QED
  BY <1>1, <1>2, ConcatProperties DEF InsertAt

LEMMA ReceiveInquiryIInv ==
  ASSUME IInv, NEW n \in Nodes, ReceiveInquiry(n)
  PROVE  IInv'
<1>. DEFINE from == Head(mailbox[n]).from
<1>1. from \in Nodes
  BY HeadFacts DEF ReceiveInquiry
<1>2. PICK s \in Seq(Envelope) : Consume(n, s)
  <2>1. To(from, Reply("RELINQUISH", n)) \in Seq(Envelope) /\ <<>> \in Seq(Envelope)
    BY <1>1, ReplyTyped, EmptySeq DEF Envelope, NotRequest
  <2>. QED
    BY <2>1 DEF ReceiveInquiry
<1>3. NetHolds(Envelope, AnyMessage)'
  BY <1>2, ConsumeHolds DEF IInv
<1>4. inquiry_list' \in [Nodes -> Seq(Nodes)]
  <2>1. inquiry_list \in [Nodes -> Seq(Nodes)]
    BY DEF IInv, RequesterOK
  <2>2. \/ UNCHANGED inquiry_list
        \/ \E i \in 1..(Len(inquiry_list[n]) + 1) :
             inquiry_list' = [inquiry_list EXCEPT ![n] = InsertAt(@, i, from)]
    BY DEF ReceiveInquiry
  <2>3. inquiry_list[n] \in Seq(Nodes)
    BY <2>1
  <2>4. ASSUME NEW i \in 1..(Len(inquiry_list[n]) + 1)
        PROVE  InsertAt(inquiry_list[n], i, from) \in Seq(Nodes)
    BY <1>1, <2>3, InsertTyped
  <2>. QED
    BY <2>1, <2>2, <2>4
<1>5. UNCHANGED <<seq, arbiterVars, is_inCS, response_map, hung>>
  BY DEF ReceiveInquiry
<1>6. SeqOK' /\ ArbiterOK' /\ LockInv' /\ (hung \in [Nodes -> BOOLEAN])' /\ RequesterOK'
  BY <1>4, <1>5 DEF IInv, SeqOK, ArbiterOK, RequesterOK, LockInv, NoIdleLock, HolderQueued,
                    FreeHasNoHolder, arbiterVars
<1>. QED
  BY <1>3, <1>6 DEF IInv

LEMMA FinishCSIInv ==
  ASSUME IInv, NEW n \in Nodes, FinishCS(n)
  PROVE  IInv'
<1>. DEFINE wq == waiting_queue[n] \ {Begin(waiting_queue[n])}
            released == ToPeers(n, Reply("RELEASE", n))
<1>1. /\ wq \subseteq Requests
      /\ wq # {} => Begin(wq) \in wq /\ Begin(wq)[2] \in Nodes /\ NextHolder(wq) \in wq
      /\ wq = {} => NextHolder(wq) = NoLock
  BY QueueFacts DEF IInv, ArbiterOK, NextHolder
<1>2. PICK s \in Seq(Envelope) : Emit(n, s)
  <2>1. released \in Seq(Envelope)
    BY MessageFacts, BroadcastTyped DEF Envelope, NotRequest
  <2>2. ASSUME wq # {}
        PROVE  /\ released \o ToPeers(n, Request(Begin(wq))) \in Seq(Envelope)
               /\ released \o To(Begin(wq)[2], Reply("LOCK", n)) \in Seq(Envelope)
    <3>1. ToPeers(n, Request(Begin(wq))) \in Seq(Envelope)
      BY <1>1, <2>2, MessageFacts, BroadcastTyped DEF Envelope
    <3>2. To(Begin(wq)[2], Reply("LOCK", n)) \in Seq(Envelope)
      BY <1>1, <2>2, ReplyTyped DEF Envelope, NotRequest
    <3>. QED
      BY <2>1, <3>1, <3>2, ConcatProperties
  <2>. QED
    BY <2>1, <2>2 DEF FinishCS
<1>3. NetHolds(Envelope, AnyMessage)'
  BY <1>2, EmitHolds DEF IInv
<1>4. /\ waiting_queue' = [waiting_queue EXCEPT ![n] = wq]
      /\ is_locked' = [is_locked EXCEPT ![n] = wq # {}]
      /\ locked_for' = [locked_for EXCEPT ![n] = NextHolder(wq)]
      /\ UNCHANGED <<seq, hung>>
  BY DEF FinishCS
<1>5. /\ response_map' = [response_map EXCEPT ![n] = <<>>]
      /\ inquiry_list' = [inquiry_list EXCEPT ![n] = <<>>]
      /\ is_inCS' = [is_inCS EXCEPT ![n] = FALSE]
  BY DEF FinishCS
<1>6. ArbiterOK' /\ LockInv'
  BY <1>1, <1>4 DEF IInv, ArbiterOK, LockInv, NoIdleLock, HolderQueued, FreeHasNoHolder
<1>7. RequesterOK'
  BY <1>5, NoAnswers, EmptySeq DEF IInv, RequesterOK
<1>8. SeqOK' /\ (hung \in [Nodes -> BOOLEAN])'
  BY <1>4 DEF IInv, SeqOK
<1>. QED
  BY <1>3, <1>6, <1>7, <1>8 DEF IInv

LEMMA FinishCSHangsIInv ==
  ASSUME IInv, NEW n \in Nodes, FinishCSHangs(n)
  PROVE  IInv'
<1>1. NetHolds(Envelope, AnyMessage)' /\ SeqOK'
  BY DEF IInv, NetHolds, SeqOK, FinishCSHangs, netVars
<1>2. ArbiterOK' /\ LockInv'
  BY DEF IInv, ArbiterOK, LockInv, NoIdleLock, HolderQueued, FreeHasNoHolder, FinishCSHangs
<1>3. RequesterOK' /\ (hung \in [Nodes -> BOOLEAN])'
  BY NoAnswers, EmptySeq DEF IInv, RequesterOK, FinishCSHangs
<1>. QED
  BY <1>1, <1>2, <1>3 DEF IInv

LEMMA SwitchIInv ==
  ASSUME IInv, NEW n \in Nodes, Switch(n)
  PROVE  IInv'
<1>1. \A e \in Envelope : e.to \in Nodes => e.msg \in AnyMessage[e.to]
  BY DEF Envelope, AnyMessage
<1>2. NetHolds(Envelope, AnyMessage)'
  BY <1>1, SwitchHolds DEF IInv, Switch
<1>. QED
  BY <1>2 DEF IInv, Switch, nodeVars, arbiterVars, requesterVars, SeqOK, ArbiterOK,
              RequesterOK, LockInv, NoIdleLock, HolderQueued, FreeHasNoHolder

LEMMA StepIInv == IInv /\ [Next]_vars => IInv'
<1>. SUFFICES ASSUME IInv, [Next]_vars PROVE IInv'
  OBVIOUS
<1>1. CASE UNCHANGED vars
  BY <1>1 DEF vars, netVars, nodeVars, arbiterVars, requesterVars, IInv, NetHolds, SeqOK,
              ArbiterOK, RequesterOK, LockInv, NoIdleLock, HolderQueued, FreeHasNoHolder
<1>2. ASSUME NEW n \in Nodes, NodeStep(n) PROVE IInv'
  BY <1>2, SendRequestIInv, ReceiveRequestIInv, ReceiveRelinquishIInv, ReceiveReleaseIInv,
     ReceiveLockedIInv, ReceiveFailedIInv, ReceiveInquiryIInv, FinishCSIInv,
     FinishCSHangsIInv DEF NodeStep, Handle, Finish
<1>. QED
  BY <1>1, <1>2, SwitchIInv DEF Next

LEMMA Invariance == Spec => []IInv
BY InitIInv, StepIInv, PTL DEF Spec

\* Every variable keeps its type, every request its number within the schedule.
THEOREM TypeCorrect == Spec => []TypeOK
BY Invariance, IInvImplies, PTL

\* Nobody waits at a free lock, a lock that is given away is held by a request of
\* the queue, and is_locked and locked_for agree, also when the network loses
\* messages and schedules overlap.
THEOREM LockConsistent == Spec => []LockInv
BY Invariance, IInvImplies, PTL


-----------------------------------------------------------------------------
(* Who may answer whom.  A REQUEST reaches t only from a node that has t   *)
(* in its quorum, and with a number the sender has used; a LOCK or a FAIL  *)
(* reaches t only from t's own quorum, because it answers a request that   *)
(* is or was in the sender's queue.  The sets depend on the numbers sq     *)
(* used so far, which only grow.                                           *)

MayGet(t, sq) ==
  {m \in Message : /\ m.type = "REQUEST" => m.seq < sq[m.from] /\ t \in PeerSet(m.from)
                   /\ m.type \in {"LOCK", "FAIL"} => m.from \in PeerSet(t) \cup {t}}

Sound(sq) == {e \in Envelope : e.to \in Nodes => e.msg \in MayGet(e.to, sq)}

Boxes(sq) == [t \in Nodes |-> MayGet(t, sq)]

JInv == NetHolds(Sound(seq), Boxes(seq)) /\ QueueIssued /\ AnswersFromQuorum

\* The reply c of n to t makes a sound envelope.
LEMMA ReplySound ==
  ASSUME NEW n \in Nodes, NEW t \in Nodes \cup {0}, NEW c \in NotRequest, NEW sq,
         c \in {"LOCK", "FAIL"} /\ t \in Nodes => n \in PeerSet(t) \cup {t}
  PROVE  /\ [to |-> t, msg |-> Reply(c, n)] \in Sound(sq)
         /\ To(t, Reply(c, n)) \in Seq(Sound(sq))
<1>1. Reply(c, n) \in Message /\ Reply(c, n).type = c /\ Reply(c, n).from = n
  BY MessageFacts DEF Reply
<1>2. t \in Nodes => Reply(c, n) \in MayGet(t, sq)
  BY <1>1 DEF MayGet, NotRequest
<1>3. [to |-> t, msg |-> Reply(c, n)] \in Sound(sq)
  BY <1>1, <1>2 DEF Sound, Envelope
<1>. QED
  BY <1>3, ToHolds

\* A request of n with a number it has used may go to the peers of n.
LEMMA RequestSound ==
  ASSUME NEW n \in Nodes, NEW r \in Requests, NEW sq, r[2] = n, r[1] < sq[n]
  PROVE  ToPeers(n, Request(r)) \in Seq(Sound(sq))
<1>1. /\ Request(r) \in Message /\ Request(r).type = "REQUEST"
      /\ Request(r).from = n /\ Request(r).seq = r[1]
  BY MessageFacts DEF Request
<1>2. \A t \in PeerSet(n) : t \in Nodes /\ Request(r) \in MayGet(t, sq)
  BY <1>1, PeerSetFacts DEF MayGet
<1>3. \A t \in PeerSet(n) : [to |-> t, msg |-> Request(r)] \in Sound(sq)
  BY <1>1, <1>2 DEF Sound, Envelope
<1>. QED
  BY <1>3, ToPeersHolds

LEMMA ReleaseSound ==
  ASSUME NEW n \in Nodes, NEW sq
  PROVE  ToPeers(n, Reply("RELEASE", n)) \in Seq(Sound(sq))
<1>1. \A t \in PeerSet(n) : [to |-> t, msg |-> Reply("RELEASE", n)] \in Sound(sq)
  BY PeerSetFacts, ReplySound DEF NotRequest
<1>. QED
  BY <1>1, ToPeersHolds

\* What was sound stays sound while the numbers grow.
LEMMA SoundGrows ==
  ASSUME IInv, NEW sq \in [Nodes -> Nat], \A m \in Nodes : seq[m] <= sq[m],
         NetHolds(Sound(seq), Boxes(seq))
  PROVE  NetHolds(Sound(sq), Boxes(sq))
<1>1. \A t \in Nodes : MayGet(t, seq) \subseteq MayGet(t, sq)
  <2>. SUFFICES ASSUME NEW t \in Nodes, NEW m \in MayGet(t, seq)
                PROVE  m \in MayGet(t, sq)
    OBVIOUS
  <2>1. m \in Message /\ m.from \in Nodes
    BY MessageFacts DEF MayGet
  <2>2. m.type = "REQUEST" => m.seq \in Nat
    BY <2>1, MessageFacts, RequestsFacts
  <2>3. seq[m.from] \in Nat /\ sq[m.from] \in Nat /\ seq[m.from] <= sq[m.from]
    BY <2>1 DEF IInv, SeqOK
  <2>4. m.type = "REQUEST" => m.seq < sq[m.from]
    BY <2>2, <2>3 DEF MayGet
  <2>. QED
    BY <2>4 DEF MayGet
<1>2. Sound(seq) \subseteq Sound(sq)
  BY <1>1 DEF Sound
<1>3. outq \in [Nodes -> Seq(Sound(sq))]
  <2>1. \A n \in Nodes : outq[n] \in Seq(Sound(sq))
    BY <1>2, SeqMonotonic DEF NetHolds
  <2>. QED
    BY <2>1 DEF NetHolds
<1>4. \A t \in Nodes : mailbox[t] \in Seq(Boxes(sq)[t])
  BY <1>1, SeqMonotonic DEF NetHolds, Boxes
<1>. QED
  BY <1>3, <1>4 DEF NetHolds

\* The request at the head of the mailbox, and the answer there.
LEMMA SoundHead ==
  ASSUME IInv, JInv, NEW n \in Nodes, NEW c, Receives(n, c)
  PROVE  /\ c = "REQUEST" => /\ Head(mailbox[n]).seq < seq[Head(mailbox[n]).from]
                             /\ n \in PeerSet(Head(mailbox[n]).from)
         /\ c \in {"LOCK", "FAIL"} => Head(mailbox[n]).from \in PeerSet(n) \cup {n}
<1>1. Head(mailbox[n]) \in Boxes(seq)[n]
  BY HeadTailProperties DEF JInv, NetHolds, Receives
<1>. QED
  BY <1>1 DEF Boxes, MayGet, Receives

\* The requests of a queue may be answered.
LEMMA SoundQueue ==
  ASSUME IInv, JInv, NEW n \in Nodes
  PROVE  /\ waiting_queue[n] \subseteq Requests
         /\ \A r \in waiting_queue[n] : /\ r[2] \in Nodes
                                        /\ r[1] < seq[r[2]]
                                        /\ n \in PeerSet(r[2]) \cup {r[2]}
<1>1. waiting_queue[n] \subseteq Requests
  BY DEF IInv, ArbiterOK
<1>. QED
  BY <1>1, RequestsFacts DEF JInv, QueueIssued


\* Sending sound envelopes, with or without reading a message, keeps the network
\* sound when no number changes.
LEMMA SoundNet ==
  ASSUME JInv, NEW n \in Nodes, UNCHANGED seq,
         \E s \in Seq(Sound(seq)) : Consume(n, s) \/ Emit(n, s)
  PROVE  NetHolds(Sound(seq), Boxes(seq))'
<1>1. PICK E, Box : E = Sound(seq) /\ Box = Boxes(seq)
  OBVIOUS
<1>2. NetHolds(E, Box)'
  BY <1>1, ConsumeHolds, EmitHolds DEF JInv
<1>3. Sound(seq)' = E /\ Boxes(seq)' = Box
  BY <1>1 DEF Sound, Boxes, MayGet, Envelope, PeerSet, Message
<1>. QED
  BY <1>2, <1>3 DEF NetHolds

LEMMA SendRequestJInv ==
  ASSUME IInv, JInv, NEW n \in Nodes, SendRequest(n)
  PROVE  JInv'
<1>. DEFINE r == <<seq[n], n>>
<1>1. PICK sq : sq = seq'
  OBVIOUS
<1>2. /\ seq \in [Nodes -> Nat] /\ seq' = [seq EXCEPT ![n] = @ + 1]
      /\ r \in Requests /\ seq[n] \in Nat
  BY RequestsFacts DEF IInv, SeqOK, SendRequest
<1>3. sq \in [Nodes -> Nat] /\ (\A m \in Nodes : seq[m] <= sq[m]) /\ seq[n] < sq[n]
  BY <1>1, <1>2
<1>4. NetHolds(Sound(seq), Boxes(seq))'
  <2>1. PICK E, Box : E = Sound(sq) /\ Box = Boxes(sq)
    OBVIOUS
  <2>2. NetHolds(E, Box)
    BY <1>3, <2>1, SoundGrows DEF JInv
  <2>3. ToPeers(n, Request(r)) \in Seq(E)
    BY <1>2, <1>3, <2>1, RequestSound
  <2>4. NetHolds(E, Box)'
    BY <2>2, <2>3, EmitHolds DEF SendRequest, OwnRequest
  <2>5. Sound(seq)' = E /\ Boxes(seq)' = Box
    BY <1>1, <2>1 DEF Sound, Boxes, MayGet, Envelope, PeerSet, Message
  <2>. QED
    BY <2>4, <2>5 DEF NetHolds
<1>5. QueueIssued'
  <2>1. waiting_queue' = [waiting_queue EXCEPT ![n] = @ \cup {r}]
    BY DEF SendRequest, OwnRequest
  <2>2. waiting_queue \in [Nodes -> SUBSET Requests]
    BY DEF IInv, ArbiterOK
  <2>3. ASSUME NEW k \in Nodes, NEW x \in waiting_queue'[k]
        PROVE  x[1] < seq'[x[2]] /\ k \in PeerSet(x[2]) \cup {x[2]}
    <3>1. CASE x \in waiting_queue[k]
      <4>1. x \in Requests /\ x[1] < seq[x[2]] /\ k \in PeerSet(x[2]) \cup {x[2]}
        BY <3>1, SoundQueue
      <4>2. x[1] \in Nat /\ x[2] \in Nodes
        BY <4>1, RequestsFacts
      <4>. QED
        BY <1>1, <1>2, <1>3, <4>1, <4>2
    <3>2. CASE x = r /\ k = n
      BY <1>1, <1>3, <3>2
    <3>. QED
      BY <2>1, <2>2, <3>1, <3>2
  <2>. QED
    BY <2>3 DEF QueueIssued, PeerSet
<1>6. AnswersFromQuorum'
  BY DEF JInv, AnswersFromQuorum, Answered, PeerSet, SendRequest, requesterVars
<1>. QED
  BY <1>4, <1>5, <1>6 DEF JInv

LEMMA ReceiveRequestJInv ==
  ASSUME IInv, JInv, NEW n \in Nodes, ReceiveRequest(n)
  PROVE  JInv'
<1>. DEFINE msg == Head(mailbox[n])
            r == <<msg.seq, msg.from>>
            wq == waiting_queue[n] \cup {r}
            holder == locked_for[n][2]
<1>1. /\ msg.from \in Nodes /\ r \in Requests
      /\ msg.seq < seq[msg.from] /\ n \in PeerSet(msg.from)
  BY HeadFacts, SoundHead DEF ReceiveRequest
<1>2. is_locked[n] => holder \in Nodes \cup {0}
  <2>1. is_locked[n] => locked_for[n] \in Requests \cup {Stray}
    BY DEF IInv, ArbiterOK, LockInv, HolderQueued
  <2>. QED
    BY <2>1, RequestsFacts DEF Stray
<1>3. NetHolds(Sound(seq), Boxes(seq))'
  <2>1. /\ To(msg.from, Reply("LOCK", n)) \in Seq(Sound(seq))
        /\ To(msg.from, Reply("FAIL", n)) \in Seq(Sound(seq))
        /\ is_locked[n] => To(holder, Reply("INQUIRE", n)) \in Seq(Sound(seq))
    BY <1>1, <1>2, ReplySound DEF NotRequest
  <2>2. \E s \in Seq(Sound(seq)) : Consume(n, s)
    BY <2>1 DEF ReceiveRequest
  <2>. QED
    BY <2>2, SoundNet DEF ReceiveRequest
<1>4. QueueIssued'
  <2>1. waiting_queue' = [waiting_queue EXCEPT ![n] = wq] /\ UNCHANGED seq
    BY DEF ReceiveRequest
  <2>2. waiting_queue \in [Nodes -> SUBSET Requests]
    BY DEF IInv, ArbiterOK
  <2>. QED
    BY <1>1, <2>1, <2>2 DEF JInv, QueueIssued, PeerSet
<1>5. AnswersFromQuorum'
  BY DEF JInv, AnswersFromQuorum, Answered, PeerSet, ReceiveRequest, requesterVars
<1>. QED
  BY <1>3, <1>4, <1>5 DEF JInv

LEMMA ReceiveRelinquishJInv ==
  ASSUME IInv, JInv, NEW n \in Nodes, ReceiveRelinquish(n)
  PROVE  JInv'
<1>. DEFINE q == waiting_queue[n]
            first == IF q = {} THEN Stray ELSE Begin(q)
<1>1. NetHolds(Sound(seq), Boxes(seq))'
  <2>1. q # {} => first \in q
    BY SoundQueue, QueueFacts
  <2>2. first[2] \in Nodes \cup {0} /\ (first[2] \in Nodes => n \in PeerSet(first[2]) \cup {first[2]})
    BY <2>1, SoundQueue, NodesAssumption DEF Stray
  <2>3. To(first[2], Reply("LOCK", n)) \in Seq(Sound(seq))
    BY <2>2, ReplySound DEF NotRequest
  <2>. QED
    BY <2>3, SoundNet DEF ReceiveRelinquish
<1>2. QueueIssued' /\ AnswersFromQuorum'
  BY DEF JInv, QueueIssued, AnswersFromQuorum, Answered, PeerSet, ReceiveRelinquish, requesterVars
<1>. QED
  BY <1>1, <1>2 DEF JInv

LEMMA ReceiveReleaseJInv ==
  ASSUME IInv, JInv, NEW n \in Nodes, ReceiveRelease(n)
  PROVE  JInv'
<1>. DEFINE wq == Without(waiting_queue[n], Head(mailbox[n]).from)
<1>1. wq \subseteq waiting_queue[n] /\ (wq # {} => Begin(wq) \in wq)
  <2>1. wq \subseteq waiting_queue[n] /\ waiting_queue[n] \subseteq Requests
    BY SoundQueue, QueueFacts
  <2>. QED
    BY <2>1, QueueFacts
<1>2. NetHolds(Sound(seq), Boxes(seq))'
  <2>1. wq # {} => To(Begin(wq)[2], Reply("LOCK", n)) \in Seq(Sound(seq))
    BY <1>1, SoundQueue, ReplySound DEF NotRequest
  <2>2. \E s \in Seq(Sound(seq)) : Consume(n, s)
    BY <2>1, EmptySeq DEF ReceiveRelease
  <2>. QED
    BY <2>2, SoundNet DEF ReceiveRelease
<1>3. QueueIssued'
  <2>1. waiting_queue' = [waiting_queue EXCEPT ![n] = wq] /\ UNCHANGED seq
    BY DEF ReceiveRelease
  <2>2. waiting_queue \in [Nodes -> SUBSET Requests]
    BY DEF IInv, ArbiterOK
  <2>. QED
    BY <1>1, <2>1, <2>2 DEF JInv, QueueIssued, PeerSet
<1>4. AnswersFromQuorum'
  BY DEF JInv, AnswersFromQuorum, Answered, PeerSet, ReceiveRelease, requesterVars
<1>. QED
  BY <1>2, <1>3, <1>4 DEF JInv

\* The two handlers that record an answer.
LEMMA RecordJInv ==
  ASSUME IInv, JInv, NEW n \in Nodes, NEW c \in {"LOCK", "FAIL"}, Receives(n, c),
         response_map' = [response_map EXCEPT ![n] = Recorded(n, Head(mailbox[n]))]
  PROVE  AnswersFromQuorum'
<1>1. Answered(n)' = Answered(n) \cup {Head(mailbox[n]).from}
  BY HeadFacts, RecordedFacts, ZenonT(60) DEF Answered, IInv, RequesterOK
<1>2. Head(mailbox[n]).from \in PeerSet(n) \cup {n}
  BY SoundHead
<1>3. \A k \in Nodes \ {n} : Answered(k)' = Answered(k)
  BY DEF Answered, IInv, RequesterOK
<1>. QED
  BY <1>1, <1>2, <1>3 DEF JInv, AnswersFromQuorum, PeerSet

LEMMA ReceiveLockedJInv ==
  ASSUME IInv, JInv, NEW n \in Nodes, ReceiveLocked(n)
  PROVE  JInv'
<1>1. NetHolds(Sound(seq), Boxes(seq))'
  BY EmptySeq, SoundNet DEF ReceiveLocked
<1>2. QueueIssued' /\ AnswersFromQuorum'
  BY RecordJInv DEF JInv, QueueIssued, PeerSet, ReceiveLocked, arbiterVars
<1>. QED
  BY <1>1, <1>2 DEF JInv

LEMMA RelinquishesSound ==
  ASSUME IInv, NEW n \in Nodes
  PROVE  Relinquishes(n) \in Seq(Sound(seq))
<1>1. inquiry_list[n] \in Seq(Nodes)
  BY DEF IInv, RequesterOK
<1>2. Len(inquiry_list[n]) \in Nat /\ \A i \in 1..Len(inquiry_list[n]) : inquiry_list[n][i] \in Nodes
  BY <1>1, LenProperties, ElementOfSeq
<1>3. \A i \in 1..Len(inquiry_list[n]) :
        [to |-> inquiry_list[n][i], msg |-> Reply("RELINQUISH", n)] \in Sound(seq)
  BY <1>2, ReplySound DEF NotRequest
<1>. QED
  BY <1>2, <1>3, IsASeq DEF Relinquishes

LEMMA ReceiveFailedJInv ==
  ASSUME IInv, JInv, NEW n \in Nodes, ReceiveFailed(n)
  PROVE  JInv'
<1>1. NetHolds(Sound(seq), Boxes(seq))'
  BY RelinquishesSound, SoundNet DEF ReceiveFailed
<1>2. QueueIssued' /\ AnswersFromQuorum'
  BY RecordJInv DEF JInv, QueueIssued, PeerSet, ReceiveFailed, arbiterVars
<1>. QED
  BY <1>1, <1>2 DEF JInv

LEMMA ReceiveInquiryJInv ==
  ASSUME IInv, JInv, NEW n \in Nodes, ReceiveInquiry(n)
  PROVE  JInv'
<1>. DEFINE from == Head(mailbox[n]).from
<1>1. \E s \in Seq(Sound(seq)) : Consume(n, s)
  <2>1. from \in Nodes
    BY HeadFacts DEF ReceiveInquiry
  <2>2. To(from, Reply("RELINQUISH", n)) \in Seq(Sound(seq)) /\ <<>> \in Seq(Sound(seq))
    BY <2>1, ReplySound, EmptySeq DEF NotRequest
  <2>. QED
    BY <2>2 DEF ReceiveInquiry
<1>2. NetHolds(Sound(seq), Boxes(seq))'
  BY <1>1, SoundNet DEF ReceiveInquiry
<1>3. QueueIssued' /\ AnswersFromQuorum'
  BY DEF JInv, QueueIssued, AnswersFromQuorum, Answered, PeerSet, ReceiveInquiry, arbiterVars
<1>. QED
  BY <1>2, <1>3 DEF JInv

LEMMA FinishCSJInv ==
  ASSUME IInv, JInv, NEW n \in Nodes, FinishCS(n)
  PROVE  JInv'
<1>. DEFINE wq == waiting_queue[n] \ {Begin(waiting_queue[n])}
            released == ToPeers(n, Reply("RELEASE", n))
<1>1. wq \subseteq waiting_queue[n] /\ (wq # {} => Begin(wq) \in wq)
  BY SoundQueue, QueueFacts
<1>2. \E s \in Seq(Sound(seq)) : Emit(n, s)
  <2>1. released \in Seq(Sound(seq))
    BY ReleaseSound
  <2>2. wq # {} /\ Begin(wq)[2] = n => ToPeers(n, Request(Begin(wq))) \in Seq(Sound(seq))
    BY <1>1, SoundQueue, RequestSound
  <2>3. wq # {} => To(Begin(wq)[2], Reply("LOCK", n)) \in Seq(Sound(seq))
    BY <1>1, SoundQueue, ReplySound DEF NotRequest
  <2>4. \A s \in Seq(Sound(seq)) : released \o s \in Seq(Sound(seq))
    BY <2>1, ConcatProperties
  <2>. QED
    BY <2>1, <2>2, <2>3, <2>4 DEF FinishCS
<1>3. NetHolds(Sound(seq), Boxes(seq))'
  BY <1>2, SoundNet DEF FinishCS
<1>4. QueueIssued'
  <2>1. waiting_queue' = [waiting_queue EXCEPT ![n] = wq] /\ UNCHANGED seq
    BY DEF FinishCS
  <2>2. waiting_queue \in [Nodes -> SUBSET Requests]
    BY DEF IInv, ArbiterOK
  <2>. QED
    BY <1>1, <2>1, <2>2 DEF JInv, QueueIssued, PeerSet
<1>5. AnswersFromQuorum'
  <2>1. response_map' = [response_map EXCEPT ![n] = <<>>] /\ response_map \in [Nodes -> Answers]
    BY DEF FinishCS, IInv, RequesterOK
  <2>. QED
    BY <2>1 DEF JInv, AnswersFromQuorum, Answered, PeerSet
<1>. QED
  BY <1>3, <1>4, <1>5 DEF JInv

LEMMA FinishCSHangsJInv ==
  ASSUME IInv, JInv, NEW n \in Nodes, FinishCSHangs(n)
  PROVE  JInv'
<1>1. /\ response_map' = [response_map EXCEPT ![n] = <<>>] /\ response_map \in [Nodes -> Answers]
      /\ UNCHANGED <<outq, mailbox, seq, waiting_queue>>
  BY DEF FinishCSHangs, netVars, IInv, RequesterOK
<1>2. NetHolds(Sound(seq), Boxes(seq))'
  BY <1>1 DEF JInv, NetHolds, Sound, Boxes, MayGet, Envelope, PeerSet, Message
<1>3. QueueIssued' /\ AnswersFromQuorum'
  BY <1>1 DEF JInv, QueueIssued, AnswersFromQuorum, Answered, PeerSet
<1>. QED
  BY <1>2, <1>3 DEF JInv

LEMMA SwitchJInv ==
  ASSUME JInv, NEW n \in Nodes, Switch(n)
  PROVE  JInv'
<1>1. PICK E, Box : E = Sound(seq) /\ Box = Boxes(seq)
  OBVIOUS
<1>2. \A e \in E : e.to \in Nodes => e.msg \in Box[e.to]
  BY <1>1 DEF Sound, Boxes
<1>3. NetHolds(E, Box)'
  BY <1>1, <1>2, SwitchHolds DEF JInv, Switch
<1>4. UNCHANGED <<seq, waiting_queue, response_map>>
  BY DEF Switch, nodeVars, arbiterVars, requesterVars
<1>5. Sound(seq)' = E /\ Boxes(seq)' = Box
  BY <1>1, <1>4 DEF Sound, Boxes, MayGet, Envelope, PeerSet, Message
<1>6. NetHolds(Sound(seq), Boxes(seq))'
  BY <1>3, <1>5 DEF NetHolds
<1>7. QueueIssued' /\ AnswersFromQuorum'
  BY <1>4 DEF JInv, QueueIssued, AnswersFromQuorum, Answered, PeerSet
<1>. QED
  BY <1>6, <1>7 DEF JInv

LEMMA InitJInv == Init => JInv
<1>. SUFFICES ASSUME Init PROVE JInv
  OBVIOUS
<1>1. NetHolds(Sound(seq), Boxes(seq))
  BY EmptySeq DEF Init, NetInit, NetHolds, Boxes
<1>2. QueueIssued /\ AnswersFromQuorum
  BY DEF Init, QueueIssued, AnswersFromQuorum, Answered
<1>. QED
  BY <1>1, <1>2 DEF JInv

LEMMA StepJInv == IInv /\ JInv /\ [Next]_vars => JInv'
<1>. SUFFICES ASSUME IInv, JInv, [Next]_vars PROVE JInv'
  OBVIOUS
<1>1. CASE UNCHANGED vars
  BY <1>1 DEF vars, netVars, nodeVars, arbiterVars, requesterVars, JInv, NetHolds, Sound, Boxes,
              MayGet, Envelope, PeerSet, Message, QueueIssued, AnswersFromQuorum, Answered
<1>2. ASSUME NEW n \in Nodes, NodeStep(n) PROVE JInv'
  BY <1>2, SendRequestJInv, ReceiveRequestJInv, ReceiveRelinquishJInv, ReceiveReleaseJInv,
     ReceiveLockedJInv, ReceiveFailedJInv, ReceiveInquiryJInv, FinishCSJInv,
     FinishCSHangsJInv DEF NodeStep, Handle, Finish
<1>. QED
  BY <1>1, <1>2, SwitchJInv DEF Next

LEMMA QuorumInvariance == Spec => [](IInv /\ JInv)
<1>1. Init => IInv /\ JInv
  BY InitIInv, InitJInv
<1>2. IInv /\ JInv /\ [Next]_vars => (IInv /\ JInv)'
  BY StepIInv, StepJInv
<1>. QED
  BY <1>1, <1>2, PTL DEF Spec

\* A queue holds only requests that were sent, by nodes with this node in their
\* quorum.
THEOREM QueuesIssued == Spec => []QueueIssued
BY QuorumInvariance, PTL DEF JInv

\* Only members of a node's quorum are counted in its response_map.
THEOREM AnswersOfQuorum == Spec => []AnswersFromQuorum
BY QuorumInvariance, PTL DEF JInv


-----------------------------------------------------------------------------
(* Entering the critical section.  The handler counts the answers; that    *)
(* the count stands for the members of the quorum is AnswersFromQuorum.    *)

LEMMA PeerCount ==
  ASSUME NEW n \in Nodes, NEW D \in SUBSET PeerSet(n), Cardinality(D) = Len(Peers[n])
  PROVE  D = PeerSet(n)
<1>. DEFINE S == 1..Len(Peers[n])
<1>1. Len(Peers[n]) \in Nat /\ Peers[n] \in [S -> Nodes]
  BY PeersAssumption, LenProperties
<1>2. IsFiniteSet(S) /\ Cardinality(S) = Len(Peers[n])
  <2>1. PICK k \in Nat : k = Len(Peers[n])
    BY <1>1
  <2>2. IsFiniteSet(1..k) /\ Cardinality(1..k) = IF 1 > k THEN 0 ELSE k - 1 + 1
    BY FS_Interval
  <2>. QED
    BY <2>1, <2>2
<1>3. Peers[n] \in Surjection(S, PeerSet(n))
  BY <1>1 DEF Surjection, PeerSet
<1>4. IsFiniteSet(PeerSet(n)) /\ Cardinality(PeerSet(n)) <= Len(Peers[n])
  BY <1>2, <1>3, FS_Surjection
<1>5. Cardinality(D) <= Cardinality(PeerSet(n))
  BY <1>4, FS_Subset
<1>6. Cardinality(PeerSet(n)) \in Nat
  BY <1>4, FS_CardinalityType
<1>7. Cardinality(PeerSet(n)) = Cardinality(D)
  BY <1>1, <1>4, <1>5, <1>6
<1>. QED
  BY <1>4, <1>7, FS_Subset

\* A step into the critical section.
EntryStep ==
  \A n \in Nodes : ~is_inCS[n] /\ is_inCS'[n] /\ n \notin Answered(n)' =>
    \A p \in PeerSet(n) : p \in Answered(n)' /\ response_map'[n][p] = "LOCK"

LEMMA StepEntry == IInv /\ JInv /\ JInv' /\ [Next]_vars => EntryStep
<1>. SUFFICES ASSUME IInv, JInv, JInv', [Next]_vars,
                     NEW n \in Nodes, ~is_inCS[n], is_inCS'[n], n \notin Answered(n)',
                     NEW p \in PeerSet(n)
              PROVE  p \in Answered(n)' /\ response_map'[n][p] = "LOCK"
  BY DEF EntryStep
<1>1. is_inCS \in [Nodes -> BOOLEAN]
  BY DEF IInv, RequesterOK
<1>2. ReceiveLocked(n)
  <2>1. CASE UNCHANGED is_inCS
    BY <2>1
  <2>2. ASSUME NEW m \in Nodes, ReceiveLocked(m) PROVE m = n
    BY <1>1, <2>2 DEF ReceiveLocked
  <2>3. ASSUME NEW m \in Nodes, FinishCS(m) PROVE FALSE
    BY <1>1, <2>3 DEF FinishCS
  <2>4. ASSUME NEW m \in Nodes,
               \/ SendRequest(m) \/ ReceiveRequest(m) \/ ReceiveRelinquish(m)
               \/ ReceiveRelease(m) \/ ReceiveFailed(m) \/ ReceiveInquiry(m)
               \/ FinishCSHangs(m) \/ Switch(m)
        PROVE  UNCHANGED is_inCS
    BY <2>4 DEF SendRequest, ReceiveRequest, ReceiveRelinquish, ReceiveRelease, ReceiveFailed,
                ReceiveInquiry, FinishCSHangs, Switch, requesterVars, nodeVars
  <2>5. CASE UNCHANGED vars
    BY <2>1, <2>5 DEF vars, nodeVars, requesterVars
  <2>. QED
    BY <2>1, <2>2, <2>3, <2>4, <2>5 DEF Next, NodeStep, Handle, Finish
<1>. DEFINE rm == Recorded(n, Head(mailbox[n]))
<1>3. /\ response_map' = [response_map EXCEPT ![n] = rm]
      /\ is_inCS' = [is_inCS EXCEPT ![n] = @ \/ Enters(n, rm)]
      /\ rm \in Answers
  BY <1>2, HeadFacts, RecordedFacts DEF ReceiveLocked, IInv, RequesterOK
<1>4. response_map'[n] = rm /\ Answered(n)' = DOMAIN rm
  BY <1>3 DEF Answered, IInv, RequesterOK
<1>5. Enters(n, rm)
  <2>1. is_inCS'[n] = (is_inCS[n] \/ Enters(n, rm))
    BY <1>1, <1>3
  <2>. QED
    BY <2>1
<1>6. DOMAIN rm \subseteq PeerSet(n)
  BY <1>4 DEF JInv, AnswersFromQuorum, PeerSet
<1>7. DOMAIN rm = PeerSet(n)
  BY <1>5, <1>6, PeerCount DEF Enters
<1>8. rm[p] \in {"LOCK", "FAIL"} /\ rm[p] # "FAIL"
  BY <1>3, <1>5, <1>7 DEF Answers, Enters, NoFail
<1>. QED
  BY <1>4, <1>7, <1>8

\* A node enters the critical section only with a LOCK of each other member of
\* its quorum on record, or with an answer of its own counted.
THEOREM EntryAfterAnswers == Spec => EntryAnswered
<1>1. IInv /\ JInv /\ (IInv /\ JInv)' /\ [Next]_vars => [EntryStep]_vars
  BY StepEntry
<1>. QED
  BY <1>1, QuorumInvariance, PTL DEF Spec, EntryAnswered, EntryStep

-----------------------------------------------------------------------------
(* MAKNode uses the network as SwitchNet describes it: every handler takes *)
(* one message at most and sends one burst.                                *)

LEMMA OutTyped == IInv => outq \in [Nodes -> Seq(Envelope)]
BY DEF IInv, NetHolds

LEMMA ArbiterIsNet ==
  ASSUME IInv, NEW n \in Nodes,
         ReceiveRequest(n) \/ ReceiveRelinquish(n) \/ ReceiveRelease(n)
  PROVE  NetNext
<1>1. PICK s : IsSeq(s) /\ Consume(n, s)
  <2>1. CASE ReceiveRequest(n)
    BY <2>1, ToIsSeq DEF ReceiveRequest
  <2>2. CASE ReceiveRelinquish(n)
    BY <2>2, ToIsSeq DEF ReceiveRelinquish
  <2>3. CASE ReceiveRelease(n)
    <3>. DEFINE wq == Without(waiting_queue[n], Head(mailbox[n]).from)
    <3>1. Consume(n, IF wq = {} \/ Begin(wq)[2] = n
                     THEN <<>> ELSE To(Begin(wq)[2], Reply("LOCK", n)))
      BY <2>3 DEF ReceiveRelease
    <3>. QED
      BY <3>1, NothingIsSeq, ToIsSeq
  <2>. QED
    BY <2>1, <2>2, <2>3
<1>. QED
  BY <1>1, OutTyped, ConsumeIsNet

LEMMA RequesterIsNet ==
  ASSUME IInv, NEW n \in Nodes,
         ReceiveLocked(n) \/ ReceiveFailed(n) \/ ReceiveInquiry(n)
  PROVE  NetNext
<1>1. PICK s : IsSeq(s) /\ Consume(n, s)
  <2>1. CASE ReceiveLocked(n)
    BY <2>1, NothingIsSeq DEF ReceiveLocked
  <2>2. CASE ReceiveFailed(n)
    <3>1. Len(inquiry_list[n]) \in Nat
      BY LenProperties DEF IInv, RequesterOK
    <3>2. IsSeq(Relinquishes(n))
      BY <3>1, ListIsSeq DEF Relinquishes
    <3>. QED
      BY <2>2, <3>2 DEF ReceiveFailed
  <2>3. CASE ReceiveInquiry(n)
    BY <2>3, NothingIsSeq, ToIsSeq DEF ReceiveInquiry
  <2>. QED
    BY <2>1, <2>2, <2>3
<1>. QED
  BY <1>1, OutTyped, ConsumeIsNet

LEMMA OwnStepIsNet ==
  ASSUME IInv, NEW n \in Nodes, SendRequest(n) \/ FinishCS(n)
  PROVE  NetNext
<1>1. PICK s : IsSeq(s) /\ Emit(n, s)
  <2>1. CASE SendRequest(n)
    BY <2>1, ToPeersIsSeq DEF SendRequest
  <2>2. CASE FinishCS(n)
    BY <2>2, ToIsSeq, ToPeersIsSeq, ConcatIsSeq DEF FinishCS
  <2>. QED
    BY <2>1, <2>2
<1>. QED
  BY <1>1, OutTyped, EmitIsNet

LEMMA StepIsNet == IInv /\ [Next]_vars => [NetNext]_netVars
<1>. SUFFICES ASSUME IInv, [Next]_vars PROVE NetNext \/ UNCHANGED netVars
  OBVIOUS
<1>1. CASE UNCHANGED vars
  BY <1>1 DEF vars
<1>2. ASSUME NEW n \in Nodes, NodeStep(n) PROVE NetNext \/ UNCHANGED netVars
  <2>1. CASE FinishCSHangs(n)
    BY <2>1 DEF FinishCSHangs
  <2>2. CASE SendRequest(n) \/ Handle(n) \/ FinishCS(n)
    BY <2>2, ArbiterIsNet, RequesterIsNet, OwnStepIsNet DEF Handle
  <2>. QED
    BY <1>2, <2>1, <2>2 DEF NodeStep, Finish
<1>3. ASSUME NEW n \in Nodes, Switch(n) PROVE NetNext
  BY <1>3 DEF Switch, NetNext
<1>. QED
  BY <1>1, <1>2, <1>3 DEF Next

\* Maekawa's algorithm runs on the network that Transport implements: its run loops and
\* the switch processes do nothing to outq and mailbox but what SwitchNet allows.
THEOREM UsesNet == Spec => NetSpec
<1>1. Init => NetInit
  BY DEF Init
<1>. QED
  BY <1>1, StepIsNet, Invariance, PTL DEF Spec, NetSpec

-----------------------------------------------------------------------------
(* Mutual exclusion, for two competitors: First and Second each ask once,  *)
(* neither is in the quorum of the other, and at least one node is in both *)
(* quorums.  The quorums may have any size and share any number of nodes,  *)
(* and the network may lose messages.                                      *)

CONSTANTS
  First, Second     \* the competitors: operator< puts First's request first

Rivals == {First, Second}

Common == PeerSet(First) \cap PeerSet(Second)

Apart ==
  /\ First \in Nodes /\ Second \in Nodes /\ First < Second
  /\ \A n \in Nodes : Schedule[n] <= IF n \in Rivals THEN 1 ELSE 0
  /\ First \notin PeerSet(Second) /\ Second \notin PeerSet(First)
  /\ Common # {}

\* The one request of the competitor x.
Ask(x) == <<1, x>>

-----------------------------------------------------------------------------
(* The messages under way, counted: the order in which they arrive does    *)
(* not matter to mutual exclusion.                                         *)

Kinds == NotRequest \cup {"REQUEST"}

Msg(p, t) == IF t = "REQUEST" THEN Request(Ask(p)) ELSE Reply(t, p)

\* How many messages of kind t are on their way from p to x.
Way == [p \in Nodes |-> [x \in Nodes |-> [t \in Kinds |->
          Num(mailbox[x], Msg(p, t)) + Num(outq[p], [to |-> x, msg |-> Msg(p, t)])]]]

\* How often p is on Second's inquiry_list.
Listed == [p \in Nodes |-> Num(inquiry_list[Second], p)]

\* The answer of p that x has on record.
Got == [x \in Nodes |-> [p \in Nodes |->
          IF p \in Answered(x) THEN response_map[x][p] ELSE "none"]]

\* A node's own send queue holds only its own messages.
Own(n) == {e \in Envelope : e.msg.from = n}
OutOwn == \A n \in Nodes : outq[n] \in Seq(Own(n))

Bit(b) == IF b THEN 1 ELSE 0

\* A message of kind k that p sent x is gone, and one of kind c from q to y is new.
Replaces(p, x, k, q, y, c) ==
  \A u, v \in Nodes : \A t \in Kinds :
    Way'[u][v][t] = Way[u][v][t] - Bit(u = p /\ v = x /\ t = k) + Bit(u = q /\ v = y /\ t = c)
Loses(p, x, k) ==
  \A u, v \in Nodes : \A t \in Kinds :
    Way'[u][v][t] = Way[u][v][t] - Bit(u = p /\ v = x /\ t = k)
\* A message of kind k from x to each of its peers is new.
Spreads(x, k) ==
  \A u, v \in Nodes : \A t \in Kinds :
    Way'[u][v][t] = Way[u][v][t] + Bit(u = x /\ v \in PeerSet(x) /\ t = k)

LEMMA MsgFacts ==
  \A p, q \in Nodes : \A t, c \in Kinds :
    /\ Msg(p, t).type = t /\ Msg(p, t).from = p
    /\ Msg(p, t) = Msg(q, c) <=> p = q /\ t = c
<1>1. ASSUME NEW p \in Nodes, NEW t \in Kinds
      PROVE  Msg(p, t).type = t /\ Msg(p, t).from = p
  BY DEF Msg, Request, Reply, Ask, Kinds
<1>. QED
  BY <1>1

LEMMA ApartFacts ==
  ASSUME Apart
  PROVE  /\ First \in Nodes /\ Second \in Nodes /\ First # Second
         /\ \A x \in Rivals : \A y \in Rivals : x \notin PeerSet(y)
         /\ \A x \in Rivals : PeerSet(x) \subseteq Nodes
         /\ Requests \subseteq {Ask(First), Ask(Second)}
         /\ Ask(First) # Ask(Second) /\ Ask(First) # NoLock /\ Ask(Second) # NoLock
         /\ Ask(First) # Stray /\ Ask(Second) # Stray /\ NoLock # Stray
         /\ \A x : Ask(x)[1] = 1 /\ Ask(x)[2] = x
<1>1. First \in Nat /\ Second \in Nat /\ First # Second
  BY NodesAssumption DEF Apart
<1>2. ASSUME NEW r \in Requests
      PROVE  r = Ask(First) \/ r = Ask(Second)
  <2>1. r[2] \in Nodes /\ r[1] \in 1..Schedule[r[2]] /\ r = <<r[1], r[2]>>
    BY RequestsFacts
  <2>2. Schedule[r[2]] \in Nat /\ Schedule[r[2]] <= IF r[2] \in Rivals THEN 1 ELSE 0
    BY <2>1, ScheduleAssumption DEF Apart
  <2>3. r[1] = 1 /\ r[2] \in Rivals
    BY <2>1, <2>2
  <2>. QED
    BY <2>1, <2>3 DEF Rivals, Ask
<1>3. \A x : Ask(x) # NoLock /\ Ask(x) # Stray
  BY DEF Ask, NoLock, Stray
<1>4. NoLock # Stray
  BY DEF NoLock, Stray
<1>5. Ask(First) # Ask(Second)
  BY <1>1 DEF Ask
<1>. QED
  BY <1>1, <1>2, <1>3, <1>4, <1>5, PeerSetFacts DEF Apart, Rivals, Ask

\* The first request of a queue is First's, if it is there.
LEMMA PairQueue ==
  ASSUME Apart, NEW q, q \subseteq {Ask(First), Ask(Second)}
  PROVE  /\ q # {} => Begin(q) = IF Ask(First) \in q THEN Ask(First) ELSE Ask(Second)
         /\ Without(q, First) = q \ {Ask(First)}
         /\ Without(q, Second) = q \ {Ask(Second)}
<1>0. First \in Nat /\ Second \in Nat /\ First < Second /\ Ask(First) # Ask(Second)
  BY NodesAssumption, ApartFacts DEF Apart
<1>1. Before(Ask(First), Ask(Second)) /\ ~Before(Ask(Second), Ask(First))
  BY <1>0 DEF Before, Ask
<1>2. ASSUME NEW p, p \subseteq {Ask(First), Ask(Second)}, p # {}
      PROVE  Begin(p) = IF Ask(First) \in p THEN Ask(First) ELSE Ask(Second)
  <2>1. CASE Ask(First) \in p
    <3>1. \A s \in p : s = Ask(First) \/ Before(Ask(First), s)
      BY <1>1, <1>2
    <3>2. ASSUME NEW r \in p, \A s \in p : s = r \/ Before(r, s)
          PROVE  r = Ask(First)
      BY <1>0, <1>1, <1>2, <2>1, <3>2
    <3>. QED
      BY <2>1, <3>1, <3>2 DEF Begin
  <2>2. CASE Ask(First) \notin p
    <3>1. p = {Ask(Second)}
      BY <1>2, <2>2
    <3>. QED
      BY <2>2, <3>1 DEF Begin
  <2>. QED
    BY <2>1, <2>2
<1>3. ASSUME NEW x \in Rivals PROVE Without(q, x) = q \ {Ask(x)}
  <2>1. \A r \in q : r[2] = x <=> r = Ask(x)
    BY <1>0, ApartFacts DEF Rivals
  <2>2. {r \in q : r[2] = x} = IF Ask(x) \in q THEN {Ask(x)} ELSE {}
    BY <2>1
  <2>3. Ask(x) \in q => Begin({Ask(x)}) = Ask(x)
    BY DEF Begin
  <2>. QED
    BY <2>2, <2>3 DEF Without
<1>. QED
  BY <1>2, <1>3 DEF Rivals

\* The counts are numbers.
LEMMA WayNat ==
  ASSUME Apart, IInv
  PROVE  /\ \A u, v \in Nodes : \A t \in Kinds : Way[u][v][t] \in Nat
         /\ \A p \in Nodes : Listed[p] \in Nat
<1>1. ASSUME NEW u \in Nodes, NEW v \in Nodes, NEW t \in Kinds
      PROVE  Way[u][v][t] \in Nat
  <2>1. IsSeq(mailbox[v]) /\ IsSeq(outq[u])
    BY DEF IInv, NetHolds, IsSeq
  <2>2. /\ Num(mailbox[v], Msg(u, t)) \in Nat
        /\ Num(outq[u], [to |-> v, msg |-> Msg(u, t)]) \in Nat
    BY <2>1, PlacesFinite
  <2>. QED
    BY <2>2 DEF Way
<1>2. ASSUME NEW p \in Nodes PROVE Listed[p] \in Nat
  <2>1. IsSeq(inquiry_list[Second])
    BY ApartFacts DEF IInv, RequesterOK, IsSeq
  <2>. QED
    BY <2>1, PlacesFinite DEF Listed
<1>. QED
  BY <1>1, <1>2

\* The message at the head of a mailbox is one of those counted.
LEMMA HeadCounted ==
  ASSUME Apart, IInv, NEW n \in Nodes, NEW k, Receives(n, k)
  PROVE  LET p == Head(mailbox[n]).from
         IN  /\ p \in Nodes /\ k \in Kinds /\ Head(mailbox[n]) = Msg(p, k)
             /\ Way[p][n][k] >= 1
             /\ k = "REQUEST" => p \in Rivals /\ <<Head(mailbox[n]).seq, p>> = Ask(p)
<1>. DEFINE m == Head(mailbox[n])
            p == m.from
<1>1. m \in Message /\ m.type = k /\ p \in Nodes /\ k \in Kinds
  BY HeadFacts, MessageFacts DEF Kinds
<1>2. k = "REQUEST" => p \in Rivals /\ <<m.seq, p>> = Ask(p)
  <2>1. k = "REQUEST" => <<m.seq, p>> \in Requests
    BY <1>1, MessageFacts
  <2>2. k = "REQUEST" => <<m.seq, p>> = Ask(First) \/ <<m.seq, p>> = Ask(Second)
    BY <2>1, ApartFacts
  <2>. QED
    BY <2>2 DEF Ask, Rivals
<1>3. m = Msg(p, k)
  <2>1. CASE k = "REQUEST"
    <3>1. PICK r \in Requests : m = Request(r)
      BY <1>1, <2>1 DEF Message
    <3>2. r = <<m.seq, m.from>>
      BY <3>1, RequestsFacts DEF Request
    <3>. QED
      BY <2>1, <3>1, <3>2, <1>2 DEF Msg
  <2>2. CASE k # "REQUEST"
    <3>1. (\E r \in Requests : m = Request(r)) \/ m \in [type : NotRequest, from : Nodes]
      BY <1>1 DEF Message, NotRequest
    <3>2. m \in [type : NotRequest, from : Nodes]
      BY <1>1, <2>2, <3>1, MessageFacts
    <3>. QED
      BY <1>1, <2>2, <3>2 DEF Msg, Reply
  <2>. QED
    BY <2>1, <2>2
<1>4. Num(mailbox[n], m) >= 1
  <2>1. mailbox[n] \in Seq(Message) /\ mailbox[n] # <<>>
    BY DEF IInv, NetHolds, AnyMessage, Receives
  <2>2. /\ Num(mailbox[n], m) = Num(Tail(mailbox[n]), m) + 1
        /\ Num(Tail(mailbox[n]), m) \in Nat
    BY <2>1, NumTail
  <2>. QED
    BY <2>2
<1>5. Num(outq[p], [to |-> n, msg |-> Msg(p, k)]) \in Nat
  BY <1>1, PlacesFinite DEF IInv, NetHolds, IsSeq
<1>6. Num(mailbox[n], Msg(p, k)) \in Nat
  BY PlacesFinite DEF IInv, NetHolds, IsSeq
<1>7. Way[p][n][k] >= 1
  <2>1. Way[p][n][k] = Num(mailbox[n], Msg(p, k)) + Num(outq[p], [to |-> n, msg |-> Msg(p, k)])
    BY <1>1 DEF Way
  <2>2. Num(mailbox[n], Msg(p, k)) >= 1
    BY <1>3, <1>4
  <2>. QED
    BY <2>1, <2>2, <1>5, <1>6
<1>. QED
  BY <1>1, <1>2, <1>3, <1>7

\* A node takes the message k of p out of its mailbox and sends s.
LEMMA WayConsume ==
  ASSUME IInv, IInv', NEW n \in Nodes, NEW s, IsSeq(s), Consume(n, s),
         NEW p \in Nodes, NEW k \in Kinds, Head(mailbox[n]) = Msg(p, k)
  PROVE  \A u, v \in Nodes : \A t \in Kinds :
           Way'[u][v][t] = Way[u][v][t] - Bit(u = p /\ v = n /\ t = k)
                             + IF u = n THEN Num(s, [to |-> v, msg |-> Msg(n, t)]) ELSE 0
<1>. SUFFICES ASSUME NEW u \in Nodes, NEW v \in Nodes, NEW t \in Kinds
     PROVE  Way'[u][v][t] = Way[u][v][t] - Bit(u = p /\ v = n /\ t = k)
                             + IF u = n THEN Num(s, [to |-> v, msg |-> Msg(n, t)]) ELSE 0
  OBVIOUS
<1>. DEFINE m == Msg(u, t)
            e == [to |-> v, msg |-> m]
<1>1. /\ Way[u][v][t] = Num(mailbox[v], m) + Num(outq[u], e)
      /\ Way'[u][v][t] = Num(mailbox'[v], m) + Num(outq'[u], e)
  BY DEF Way
<1>2. /\ mailbox \in [Nodes -> {mailbox[x] : x \in Nodes}] /\ outq \in [Nodes -> Seq(Envelope)]
      /\ mailbox[n] \in Seq(Message) /\ mailbox[n] # <<>>
      /\ mailbox' = [mailbox EXCEPT ![n] = Tail(@)]
      /\ outq' = [outq EXCEPT ![n] = @ \o s]
  BY DEF IInv, NetHolds, AnyMessage, Consume
<1>3. /\ Num(mailbox[v], m) \in Nat /\ Num(mailbox'[v], m) \in Nat
      /\ Num(outq[u], e) \in Nat /\ Num(outq'[u], e) \in Nat /\ Num(s, e) \in Nat
  BY PlacesFinite DEF IInv, NetHolds, IsSeq
<1>4. Num(mailbox'[v], m) = Num(mailbox[v], m) - Bit(u = p /\ v = n /\ t = k)
  <2>1. CASE v = n
    <3>1. Num(mailbox[n], m) = Num(Tail(mailbox[n]), m) + IF Head(mailbox[n]) = m THEN 1 ELSE 0
      BY <1>2, NumTail
    <3>2. Head(mailbox[n]) = m <=> u = p /\ t = k
      BY MsgFacts
    <3>3. mailbox'[v] = Tail(mailbox[n])
      BY <1>2, <2>1
    <3>. QED
      BY <1>3, <2>1, <3>1, <3>2, <3>3 DEF Bit
  <2>2. CASE v # n
    <3>1. mailbox'[v] = mailbox[v]
      BY <1>2, <2>2
    <3>. QED
      BY <1>3, <2>2, <3>1 DEF Bit
  <2>. QED
    BY <2>1, <2>2
<1>5. Num(outq'[u], e) = Num(outq[u], e) + IF u = n THEN Num(s, e) ELSE 0
  <2>1. CASE u = n
    <3>1. outq'[u] = outq[u] \o s /\ IsSeq(outq[u])
      BY <1>2, <2>1 DEF IsSeq
    <3>2. Num(outq[u] \o s, e) = Num(outq[u], e) + Num(s, e)
      BY <3>1, NumConcat
    <3>. QED
      BY <2>1, <3>1, <3>2
  <2>2. CASE u # n
    <3>1. outq'[u] = outq[u]
      BY <1>2, <2>2
    <3>. QED
      BY <1>3, <2>2, <3>1
  <2>. QED
    BY <2>1, <2>2
<1>6. Bit(u = p /\ v = n /\ t = k) \in {0, 1}
  BY DEF Bit
<1>. QED
  BY <1>1, <1>3, <1>4, <1>5, <1>6

\* A node sends s of its own accord.
LEMMA WayEmit ==
  ASSUME IInv, IInv', NEW n \in Nodes, NEW s, IsSeq(s), Emit(n, s)
  PROVE  \A u, v \in Nodes : \A t \in Kinds :
           Way'[u][v][t] = Way[u][v][t]
                             + IF u = n THEN Num(s, [to |-> v, msg |-> Msg(n, t)]) ELSE 0
<1>. SUFFICES ASSUME NEW u \in Nodes, NEW v \in Nodes, NEW t \in Kinds
     PROVE  Way'[u][v][t] = Way[u][v][t]
                             + IF u = n THEN Num(s, [to |-> v, msg |-> Msg(n, t)]) ELSE 0
  OBVIOUS
<1>. DEFINE m == Msg(u, t)
            e == [to |-> v, msg |-> m]
<1>1. /\ Way[u][v][t] = Num(mailbox[v], m) + Num(outq[u], e)
      /\ Way'[u][v][t] = Num(mailbox[v], m) + Num(outq'[u], e)
  BY DEF Way, Emit
<1>2. outq \in [Nodes -> Seq(Envelope)] /\ outq' = [outq EXCEPT ![n] = @ \o s]
  BY DEF IInv, NetHolds, Emit
<1>3. /\ Num(mailbox[v], m) \in Nat /\ Num(outq[u], e) \in Nat
      /\ Num(outq'[u], e) \in Nat /\ Num(s, e) \in Nat
  BY PlacesFinite DEF IInv, NetHolds, IsSeq
<1>5. Num(outq'[u], e) = Num(outq[u], e) + IF u = n THEN Num(s, e) ELSE 0
  <2>1. CASE u = n
    <3>1. outq'[u] = outq[u] \o s /\ IsSeq(outq[u])
      BY <1>2, <2>1 DEF IsSeq
    <3>2. Num(outq[u] \o s, e) = Num(outq[u], e) + Num(s, e)
      BY <3>1, NumConcat
    <3>. QED
      BY <2>1, <3>1, <3>2
  <2>2. CASE u # n
    <3>1. outq'[u] = outq[u]
      BY <1>2, <2>2
    <3>. QED
      BY <1>3, <2>2, <3>1
  <2>. QED
    BY <2>1, <2>2
<1>. QED
  BY <1>1, <1>3, <1>5

\* A switch process only ever lowers a count: forwarding moves a message on, and
\* dropping it, or forwarding it to a node that is not there, loses it.
LEMMA WaySwitch ==
  ASSUME IInv, OutOwn, NEW n \in Nodes, SwitchStep(n)
  PROVE  /\ OutOwn'
         /\ \A u, v \in Nodes : \A t \in Kinds : Way'[u][v][t] <= Way[u][v][t]
<1>. DEFINE h == Head(outq[n])
<1>1. /\ outq \in [Nodes -> Seq(Envelope)] /\ outq[n] \in Seq(Own(n)) /\ outq[n] # <<>>
      /\ outq' = [outq EXCEPT ![n] = Tail(@)]
      /\ mailbox = [t \in Nodes |-> mailbox[t]]
  BY DEF IInv, NetHolds, OutOwn, SwitchStep, Forward, Drop
<1>2. h \in Own(n) /\ Tail(outq[n]) \in Seq(Own(n)) /\ h \in Envelope
  BY <1>1, HeadTailProperties DEF Own
<1>3. OutOwn'
  BY <1>1, <1>2 DEF OutOwn, Own, Envelope, Message
<1>4. ASSUME NEW u \in Nodes, NEW v \in Nodes, NEW t \in Kinds
      PROVE  Way'[u][v][t] <= Way[u][v][t]
  <2>. DEFINE m == Msg(u, t)
              e == [to |-> v, msg |-> m]
  <2>1. /\ Way[u][v][t] = Num(mailbox[v], m) + Num(outq[u], e)
        /\ Way'[u][v][t] = Num(mailbox'[v], m) + Num(outq'[u], e)
    BY DEF Way
  <2>2. /\ mailbox[v] \in Seq(Message)
        /\ Num(mailbox[v], m) \in Nat /\ Num(outq[u], e) \in Nat
    BY PlacesFinite DEF IInv, NetHolds, AnyMessage, IsSeq
  <2>3. Num(outq'[u], e) = Num(outq[u], e) - Bit(u = n /\ h = e) /\ Num(outq'[u], e) \in Nat
    <3>1. CASE u = n
      <4>1. /\ Num(outq[n], e) = Num(Tail(outq[n]), e) + IF h = e THEN 1 ELSE 0
            /\ Num(Tail(outq[n]), e) \in Nat
        BY <1>1, NumTail
      <4>2. outq'[u] = Tail(outq[n])
        BY <1>1, <3>1
      <4>. QED
        BY <2>2, <3>1, <4>1, <4>2 DEF Bit
    <3>2. CASE u # n
      <4>1. outq'[u] = outq[u]
        BY <1>1, <3>2
      <4>. QED
        BY <2>2, <3>2, <4>1 DEF Bit
    <3>. QED
      BY <3>1, <3>2
  <2>4. CASE Forward(n) /\ h.to = v
    <3>1. mailbox'[v] = Append(mailbox[v], h.msg) /\ h.msg \in Message
      BY <1>1, <1>2, <2>4 DEF Forward, Deliver, Envelope
    <3>2. Num(mailbox'[v], m) = Num(mailbox[v], m) + IF h.msg = m THEN 1 ELSE 0
      BY <2>2, <3>1, NumAppend
    <3>3. h.msg = m => u = n /\ h = e
      <4>1. m.from = u /\ h.msg.from = n
        BY <1>2, MsgFacts DEF Own
      <4>2. h = [to |-> h.to, msg |-> h.msg]
        BY <1>2 DEF Envelope
      <4>. QED
        BY <2>4, <4>1, <4>2
    <3>4. (IF h.msg = m THEN 1 ELSE 0) <= Bit(u = n /\ h = e) /\ Bit(u = n /\ h = e) \in {0, 1}
      BY <3>3 DEF Bit
    <3>. QED
      BY <2>1, <2>2, <2>3, <3>2, <3>4
  <2>5. CASE ~(Forward(n) /\ h.to = v)
    <3>1. mailbox'[v] = mailbox[v]
      BY <1>1, <2>5 DEF SwitchStep, Forward, Deliver, Drop
    <3>2. Bit(u = n /\ h = e) \in {0, 1}
      BY DEF Bit
    <3>. QED
      BY <2>1, <2>2, <2>3, <3>1, <3>2
  <2>. QED
    BY <2>4, <2>5
<1>. QED
  BY <1>3, <1>4

\* What a handler sends is the node's own.
LEMMA OwnKept ==
  ASSUME IInv, OutOwn, NEW n \in Nodes, NEW s \in Seq(Own(n)), Consume(n, s) \/ Emit(n, s)
  PROVE  OutOwn'
<1>1. outq[n] \o s \in Seq(Own(n))
  BY ConcatProperties DEF OutOwn
<1>2. outq' = [outq EXCEPT ![n] = @ \o s] /\ outq \in [Nodes -> Seq(Envelope)]
  BY DEF Consume, Emit, IInv, NetHolds
<1>3. \A k \in Nodes : outq'[k] \in Seq(Own(k))
  BY <1>1, <1>2 DEF OutOwn
<1>. QED
  BY <1>3 DEF OutOwn, Own, Envelope, Message

\* The sequences a handler may send: no message, one, or one to every peer.
LEMMA OwnReplies ==
  ASSUME NEW n \in Nodes, NEW c \in NotRequest
  PROVE  /\ <<>> \in Seq(Own(n))
         /\ \A t \in Nodes : To(t, Reply(c, n)) \in Seq(Own(n))
         /\ ToPeers(n, Reply(c, n)) \in Seq(Own(n))
         /\ \A r \in Requests : r[2] = n => ToPeers(n, Request(r)) \in Seq(Own(n))
<1>1. \A t \in Nodes : [to |-> t, msg |-> Reply(c, n)] \in Own(n)
  BY MessageFacts DEF Own, Envelope, Reply
<1>2. \A r \in Requests : r[2] = n => \A t \in Nodes : [to |-> t, msg |-> Request(r)] \in Own(n)
  BY MessageFacts DEF Own, Envelope, Request
<1>3. PeerSet(n) \subseteq Nodes
  BY PeerSetFacts
<1>4. \A t \in Nodes : To(t, Reply(c, n)) \in Seq(Own(n))
  BY <1>1, ToHolds
<1>5. ToPeers(n, Reply(c, n)) \in Seq(Own(n))
  BY <1>1, <1>3, ToPeersHolds
<1>6. ASSUME NEW r \in Requests, r[2] = n PROVE ToPeers(n, Request(r)) \in Seq(Own(n))
  BY <1>2, <1>3, <1>6, ToPeersHolds
<1>. QED
  BY <1>4, <1>5, <1>6, EmptySeq

\* A handler that answers message k of p with the reply c to y.
LEMMA AnswerReplaces ==
  ASSUME IInv, IInv', NEW n \in Nodes, NEW p \in Nodes, NEW k \in Kinds, NEW y \in Nodes,
         NEW c \in NotRequest, Head(mailbox[n]) = Msg(p, k), Consume(n, To(y, Reply(c, n)))
  PROVE  Replaces(p, n, k, n, y, c)
<1>. SUFFICES ASSUME NEW u \in Nodes, NEW v \in Nodes, NEW t \in Kinds
     PROVE  Way'[u][v][t] = Way[u][v][t] - Bit(u = p /\ v = n /\ t = k)
                              + Bit(u = n /\ v = y /\ t = c)
  BY DEF Replaces
<1>. DEFINE e == [to |-> v, msg |-> Msg(n, t)]
<1>1. Reply(c, n) = Msg(n, c) /\ c \in Kinds
  BY DEF Msg, NotRequest, Kinds
<1>2. Num(To(y, Reply(c, n)), e) = IF e = [to |-> y, msg |-> Reply(c, n)] THEN 1 ELSE 0
  BY NumTo
<1>3. e = [to |-> y, msg |-> Reply(c, n)] <=> v = y /\ t = c
  <2>1. e.to = v /\ e.msg = Msg(n, t)
    OBVIOUS
  <2>2. [to |-> y, msg |-> Reply(c, n)].to = y /\ [to |-> y, msg |-> Reply(c, n)].msg = Msg(n, c)
    BY <1>1
  <2>3. Msg(n, t) = Msg(n, c) <=> t = c
    BY <1>1, MsgFacts
  <2>. QED
    BY <1>1, <2>1, <2>2, <2>3
<1>4. (IF u = n THEN Num(To(y, Reply(c, n)), e) ELSE 0) = Bit(u = n /\ v = y /\ t = c)
  BY <1>2, <1>3 DEF Bit
<1>5. Way'[u][v][t] = Way[u][v][t] - Bit(u = p /\ v = n /\ t = k)
                        + IF u = n THEN Num(To(y, Reply(c, n)), e) ELSE 0
  BY WayConsume, ToIsSeq
<1>. QED
  BY <1>4, <1>5

\* A handler that answers nothing.
LEMMA SilenceLoses ==
  ASSUME Apart, IInv, IInv', NEW n \in Nodes, NEW p \in Nodes, NEW k \in Kinds,
         Head(mailbox[n]) = Msg(p, k), Consume(n, <<>>)
  PROVE  Loses(p, n, k)
<1>. SUFFICES ASSUME NEW u \in Nodes, NEW v \in Nodes, NEW t \in Kinds
     PROVE  Way'[u][v][t] = Way[u][v][t] - Bit(u = p /\ v = n /\ t = k)
  BY DEF Loses
<1>1. Way'[u][v][t] = Way[u][v][t] - Bit(u = p /\ v = n /\ t = k)
                        + IF u = n THEN Num(<<>>, [to |-> v, msg |-> Msg(n, t)]) ELSE 0
  BY WayConsume, NothingIsSeq
<1>2. Num(<<>>, [to |-> v, msg |-> Msg(n, t)]) = 0
  BY NumNothing
<1>3. Way[u][v][t] \in Nat /\ Bit(u = p /\ v = n /\ t = k) \in {0, 1}
  BY WayNat DEF Bit
<1>. QED
  BY <1>1, <1>2, <1>3

\* A node tells all its peers the same.
LEMMA BroadcastSpreads ==
  ASSUME IInv, IInv', NEW n \in Nodes, NEW k \in Kinds, Emit(n, ToPeers(n, Msg(n, k)))
  PROVE  Spreads(n, k)
<1>. SUFFICES ASSUME NEW u \in Nodes, NEW v \in Nodes, NEW t \in Kinds
     PROVE  Way'[u][v][t] = Way[u][v][t] + Bit(u = n /\ v \in PeerSet(n) /\ t = k)
  BY DEF Spreads
<1>1. Way'[u][v][t] = Way[u][v][t] + IF u = n
        THEN Num(ToPeers(n, Msg(n, k)), [to |-> v, msg |-> Msg(n, t)]) ELSE 0
  BY WayEmit, ToPeersIsSeq
<1>2. Num(ToPeers(n, Msg(n, k)), [to |-> v, msg |-> Msg(n, t)])
        = IF Msg(n, t) = Msg(n, k) /\ v \in PeerSet(n) THEN 1 ELSE 0
  BY NumToPeers
<1>3. Msg(n, t) = Msg(n, k) <=> t = k
  BY MsgFacts
<1>. QED
  BY <1>1, <1>2, <1>3 DEF Bit

-----------------------------------------------------------------------------
(* The invariant.  Done(x): x has asked and its critical section is over.  *)

Done(x) == seq[x] = 2 /\ waiting_queue[x] = {}

\* A FAIL is on record at Second; First never gets one.
AnyFail == \E q \in Nodes : Got[Second][q] = "FAIL"

\* The INQUIREs of p to Second and what becomes of them.
Probes(p) == Way[p][Second]["INQUIRE"] + Listed[p] + Way[Second][p]["RELINQUISH"]

\* Only the competitors enter the section, nobody hangs, no lock is astray.
Calm ==
  /\ \A n \in Nodes : hung[n] = FALSE
  /\ \A n \in Nodes : is_inCS[n] => n \in Rivals /\ waiting_queue[n] # {}
  /\ \A n \in Nodes : locked_for[n] # Stray
  /\ \A n \in Nodes \ {Second} : inquiry_list[n] = <<>>

\* Who sends what to whom: only Second is ever told FAIL or asked to give a lock
\* back, by a node that both have in their quorum.
Route(u, v, t) ==
  CASE t \in {"REQUEST", "RELEASE"} -> u \in Rivals /\ v \in PeerSet(u)
    [] t = "RELINQUISH"             -> u = Second /\ v \in Common
    [] t = "LOCK"                   -> v \in Rivals /\ u \in PeerSet(v)
    [] OTHER                        -> v = Second /\ u \in Common
Routes == \A u, v \in Nodes : \A t \in Kinds : Way[u][v][t] > 0 => Route(u, v, t)

Records ==
  \A p \in Nodes :
    /\ Listed[p] > 0 => p \in Common
    /\ \A x \in Nodes : /\ Got[x][p] # "none" => x \in Rivals /\ p \in PeerSet(x)
                        /\ Got[x][p] = "FAIL" => x = Second /\ p \in Common

\* p has answered x nothing yet.
Untouched(x, p) ==
  /\ Got[x][p] = "none" /\ Way[p][x]["LOCK"] = 0
  /\ x = Second => /\ Way[p][x]["FAIL"] = 0 /\ Way[p][x]["INQUIRE"] = 0
                   /\ Listed[p] = 0 /\ Way[x][p]["RELINQUISH"] = 0

\* Each competitor's request and release pass once, and in turn.
Passing(x, p) ==
  /\ Way[x][p]["REQUEST"] <= 1 /\ Way[x][p]["RELEASE"] <= 1
  /\ seq[x] = 1 => Untouched(x, p) /\ Way[x][p]["REQUEST"] = 0 /\ Way[x][p]["RELEASE"] = 0
  /\ Way[x][p]["REQUEST"] > 0 =>
       Untouched(x, p) /\ ~is_inCS[x] /\ Ask(x) \notin waiting_queue[p] /\ waiting_queue[x] # {}
  /\ Way[x][p]["RELEASE"] > 0 => Done(x)
Passes(p) == \A x \in Rivals : Passing(x, p)

\* A competitor in the section has a LOCK of every peer on record, unless it is
\* Second and First's section is over: then some LOCKs have been given back.
Section(p) ==
  \A x \in Rivals : is_inCS[x] /\ p \in PeerSet(x) =>
    Got[x][p] # "none" /\ (x = First \/ ~Done(First) => Got[x][p] = "LOCK")

\* First's LOCKs are never taken back: they stand for the lock itself.
FirstHolds(p) ==
  ~Done(First) =>
    /\ Way[p][First]["LOCK"] > 0 \/ Got[First][p] = "LOCK" =>
         locked_for[p] = Ask(First) /\ Ask(First) \in waiting_queue[p]
    /\ Way[p][First]["LOCK"] <= 1
    /\ Got[First][p] = "LOCK" => Way[p][First]["LOCK"] = 0

\* Second's LOCKs stand for the lock as long as no FAIL is on record.
SecondHolds(p) ==
  ~Done(First) /\ ~Done(Second) =>
    /\ Way[p][Second]["LOCK"] > 0 \/ Got[Second][p] = "LOCK" =>
         AnyFail \/ (locked_for[p] = Ask(Second) /\ Ask(Second) \in waiting_queue[p])
    /\ Way[p][Second]["LOCK"] <= 1
    /\ Got[Second][p] = "LOCK" => Way[p][Second]["LOCK"] = 0

\* One INQUIRE at a time, and only while Second holds the lock that First waits for.
Probing(p) ==
  ~Done(First) /\ ~Done(Second) =>
    /\ Probes(p) <= 1
    /\ Probes(p) > 0 => /\ locked_for[p] = Ask(Second)
                        /\ Ask(First) \in waiting_queue[p] /\ Ask(Second) \in waiting_queue[p]
    /\ Way[Second][p]["RELINQUISH"] > 0 => AnyFail

\* A FAIL keeps Second out until First is done.
SecondFails(p) ==
  ~Done(First) =>
    /\ Way[p][Second]["FAIL"] <= 1
    /\ Way[p][Second]["FAIL"] > 0 => Got[Second][p] = "none"
    /\ Way[p][Second]["FAIL"] > 0 \/ Got[Second][p] = "FAIL" =>
         /\ ~Done(Second) /\ Ask(First) \in waiting_queue[p]
         /\ Way[p][Second]["LOCK"] = 0 /\ Probes(p) = 0

\* Second is done before First.
SecondOver(p) ==
  Done(Second) /\ ~Done(First) =>
    /\ Got[Second][p] = "none" /\ Way[p][Second]["LOCK"] = 0
    /\ Way[p][Second]["FAIL"] = 0 /\ Way[Second][p]["RELINQUISH"] = 0
    /\ Way[Second][p]["RELEASE"] > 0 => locked_for[p] = Ask(Second)
    /\ locked_for[p] = Ask(First) => Ask(Second) \notin waiting_queue[p]

\* Second is done and no FAIL reaches it any more.
Clear ==
  /\ Done(Second)
  /\ \A q \in Nodes : Way[q][Second]["FAIL"] = 0 /\ Got[Second][q] # "FAIL"

\* First is done: nothing is given back any more.
FirstOver(p) ==
  Done(First) =>
    /\ Way[Second][p]["RELINQUISH"] = 0
    /\ Way[p][Second]["INQUIRE"] > 0 \/ Listed[p] > 0 => Clear

Local(p) ==
  /\ Passes(p) /\ Section(p) /\ FirstHolds(p) /\ SecondHolds(p) /\ Probing(p)
  /\ SecondFails(p) /\ SecondOver(p) /\ FirstOver(p)

\* First is done: some common peer q will never again give First an answer, and
\* gives Second one at most, so that neither enters a second time.
Settled(q) ==
  /\ Way[q][First]["LOCK"] = 0 /\ Got[First][q] = "none" /\ Way[First][q]["REQUEST"] = 0
  /\ \/ /\ ~Done(Second) /\ ~is_inCS[Second] /\ Ask(First) \in waiting_queue[q]
        /\ Way[q][Second]["LOCK"] = 0 /\ Got[Second][q] # "LOCK"
     \/ /\ ~Done(Second) /\ Ask(First) \notin waiting_queue[q] /\ Way[First][q]["RELEASE"] = 0
        /\ Way[q][Second]["LOCK"] <= 1
        /\ Got[Second][q] = "LOCK" \/ is_inCS[Second] => Way[q][Second]["LOCK"] = 0
     \/ /\ Done(Second) /\ Got[Second][q] # "LOCK" /\ Way[q][Second]["LOCK"] = 0
        /\ \/ Ask(Second) \notin waiting_queue[q] /\ Way[Second][q]["RELEASE"] = 0
           \/ Ask(First) \notin waiting_queue[q] /\ Way[First][q]["RELEASE"] = 0
Settles == Done(First) => \E q \in Common : Settled(q)

Duel == Calm /\ Routes /\ Records /\ (\A p \in Nodes : Local(p)) /\ Settles

PInv == Apart /\ IInv /\ JInv /\ OutOwn /\ Duel

-----------------------------------------------------------------------------
(* The queues and locks of a state in which nobody hangs.                  *)

Plain ==
  /\ First \in Nodes /\ Second \in Nodes /\ First # Second
  /\ Ask(First) # Ask(Second) /\ Ask(First) # NoLock /\ Ask(Second) # NoLock
  /\ \A x \in Rivals : Ask(x)[2] = x
  /\ \A x, y \in Rivals : x \notin PeerSet(y)
  /\ \A x \in Rivals : PeerSet(x) \subseteq Nodes
  /\ seq \in [Nodes -> Nat] /\ waiting_queue \in [Nodes -> SUBSET Requests]
  /\ is_inCS \in [Nodes -> BOOLEAN] /\ locked_for \in [Nodes -> Requests \cup {NoLock, Stray}]
  /\ \A n \in Nodes : n \notin Rivals => seq[n] = 1 /\ Schedule[n] = 0
  /\ \A x \in Rivals : seq[x] = 1 \/ seq[x] = 2
  /\ \A x \in Rivals : seq[x] <= Schedule[x] => seq[x] = 1
  /\ \A n \in Nodes : waiting_queue[n] \subseteq {Ask(First), Ask(Second)}
  /\ \A n \in Nodes : \A x \in Rivals :
       Ask(x) \in waiting_queue[n] => seq[x] = 2 /\ n \in PeerSet(x) \cup {x}
  /\ \A x \in Rivals : waiting_queue[x] # {} => waiting_queue[x] = {Ask(x)} /\ seq[x] = 2
  /\ \A n \in Nodes : IF waiting_queue[n] = {}
                      THEN ~is_locked[n] /\ locked_for[n] = NoLock
                      ELSE is_locked[n] /\ locked_for[n] \in waiting_queue[n]

LEMMA PlainState ==
  ASSUME Apart, IInv, JInv, Calm
  PROVE  Plain
<1>1. /\ First \in Nodes /\ Second \in Nodes /\ First # Second
      /\ Ask(First) # Ask(Second) /\ Ask(First) # NoLock /\ Ask(Second) # NoLock
      /\ \A x \in Rivals : Ask(x)[2] = x
      /\ \A x, y \in Rivals : x \notin PeerSet(y)
      /\ \A x \in Rivals : PeerSet(x) \subseteq Nodes
  BY ApartFacts
<1>2. /\ seq \in [Nodes -> Nat] /\ waiting_queue \in [Nodes -> SUBSET Requests]
      /\ is_inCS \in [Nodes -> BOOLEAN] /\ locked_for \in [Nodes -> Requests \cup {NoLock, Stray}]
      /\ is_locked \in [Nodes -> BOOLEAN]
      /\ \A n \in Nodes : seq[n] \in 1..(Schedule[n] + 1)
  BY DEF IInv, SeqOK, ArbiterOK, RequesterOK
<1>3. \A n \in Nodes : Schedule[n] \in Nat /\ Schedule[n] <= IF n \in Rivals THEN 1 ELSE 0
  BY ScheduleAssumption DEF Apart
<1>4. /\ \A n \in Nodes : n \notin Rivals => seq[n] = 1 /\ Schedule[n] = 0
      /\ \A x \in Rivals : seq[x] = 1 \/ seq[x] = 2
      /\ \A x \in Rivals : seq[x] <= Schedule[x] => seq[x] = 1
  <2>1. ASSUME NEW n \in Nodes, n \notin Rivals PROVE seq[n] = 1 /\ Schedule[n] = 0
    <3>1. Schedule[n] = 0 /\ seq[n] \in 1..1
      BY <1>2, <1>3, <2>1
    <3>. QED
      BY <3>1
  <2>2. ASSUME NEW x \in Rivals
        PROVE  (seq[x] = 1 \/ seq[x] = 2) /\ (seq[x] <= Schedule[x] => seq[x] = 1)
    <3>1. x \in Nodes /\ Schedule[x] \in {0, 1} /\ seq[x] \in 1..(Schedule[x] + 1)
      BY <1>1, <1>2, <1>3 DEF Rivals
    <3>. QED
      BY <3>1
  <2>. QED
    BY <2>1, <2>2
<1>5. \A n \in Nodes : waiting_queue[n] \subseteq {Ask(First), Ask(Second)}
  BY <1>2, ApartFacts
<1>6. ASSUME NEW n \in Nodes, NEW x \in Rivals, Ask(x) \in waiting_queue[n]
      PROVE  seq[x] = 2 /\ n \in PeerSet(x) \cup {x}
  <2>1. Ask(x)[1] < seq[Ask(x)[2]] /\ n \in PeerSet(Ask(x)[2]) \cup {Ask(x)[2]}
    BY <1>6, SoundQueue
  <2>2. Ask(x)[1] = 1 /\ Ask(x)[2] = x
    BY ApartFacts
  <2>3. seq[x] = 1 \/ seq[x] = 2
    BY <1>4
  <2>. QED
    BY <2>1, <2>2, <2>3
<1>7. ASSUME NEW x \in Rivals, waiting_queue[x] # {}
      PROVE  waiting_queue[x] = {Ask(x)} /\ seq[x] = 2
  <2>1. x \in Nodes
    BY <1>1 DEF Rivals
  <2>2. \A y \in Rivals : Ask(y) \in waiting_queue[x] => y = x
    BY <1>1, <1>6, <2>1
  <2>3. waiting_queue[x] \subseteq {Ask(First), Ask(Second)}
    BY <1>5, <2>1
  <2>4. waiting_queue[x] = {Ask(x)}
    BY <1>7, <2>2, <2>3 DEF Rivals
  <2>. QED
    BY <2>1, <2>4, <1>6
<1>8. ASSUME NEW n \in Nodes
      PROVE  IF waiting_queue[n] = {}
             THEN ~is_locked[n] /\ locked_for[n] = NoLock
             ELSE is_locked[n] /\ locked_for[n] \in waiting_queue[n]
  <2>1. hung[n] = FALSE /\ locked_for[n] # Stray
    BY DEF Calm
  <2>. QED
    BY <2>1, <1>2 DEF IInv, LockInv, NoIdleLock, HolderQueued, FreeHasNoHolder
<1>. QED
  BY <1>1, <1>2, <1>4, <1>5, <1>6, <1>7, <1>8 DEF Plain

\* Response_map and Got.
LEMMA GotFacts ==
  ASSUME IInv, NEW x \in Nodes, NEW p \in Nodes
  PROVE  /\ Got[x][p] \in {"none", "LOCK", "FAIL"}
         /\ Got[x][p] # "none" <=> p \in Answered(x)
         /\ p \in Answered(x) => Got[x][p] = response_map[x][p]
         /\ Answered(x) \subseteq Nodes
<1>1. PICK S \in SUBSET Nodes : response_map[x] \in [S -> {"LOCK", "FAIL"}]
  BY DEF IInv, RequesterOK, Answers
<1>2. Answered(x) = S /\ \A y \in S : response_map[x][y] \in {"LOCK", "FAIL"}
  BY <1>1 DEF Answered
<1>. QED
  BY <1>2 DEF Got

\* The answer of p is recorded at n: the other entries stay.
LEMMA GotRecorded ==
  ASSUME IInv, NEW n \in Nodes, NEW m \in Message, m.type \in {"LOCK", "FAIL"},
         response_map' = [response_map EXCEPT ![n] = Recorded(n, m)]
  PROVE  \A x, p \in Nodes :
           Got'[x][p] = IF x = n /\ p = m.from THEN m.type ELSE Got[x][p]
<1>. SUFFICES ASSUME NEW x \in Nodes, NEW p \in Nodes
     PROVE  Got'[x][p] = IF x = n /\ p = m.from THEN m.type ELSE Got[x][p]
  OBVIOUS
<1>1. /\ Got'[x][p] = IF p \in DOMAIN (response_map'[x]) THEN response_map'[x][p] ELSE "none"
      /\ Got[x][p] = IF p \in DOMAIN response_map[x] THEN response_map[x][p] ELSE "none"
  BY DEF Got, Answered
<1>2. response_map'[x] = IF x = n THEN Recorded(n, m) ELSE response_map[x]
  BY DEF IInv, RequesterOK
<1>3. CASE x = n
  <2>1. DOMAIN Recorded(n, m) = DOMAIN response_map[n] \cup {m.from}
    BY DEF Recorded, Answered
  <2>2. p \in DOMAIN Recorded(n, m) =>
          Recorded(n, m)[p] = IF p = m.from THEN m.type ELSE response_map[n][p]
    BY DEF Recorded, Answered
  <2>. QED
    BY <1>1, <1>2, <1>3, <2>1, <2>2
<1>4. CASE x # n
  BY <1>1, <1>2, <1>4
<1>. QED
  BY <1>3, <1>4

\* While response_map or inquiry_list stays, so do Got and Listed.
LEMMA GotStays == UNCHANGED response_map => Got' = Got
BY DEF Got, Answered

LEMMA ListedStays == UNCHANGED inquiry_list => Listed' = Listed
BY DEF Listed

-----------------------------------------------------------------------------
(* What each handler does, in terms of the counts.                         *)

LEMMA RivalFacts ==
  ASSUME PInv
  PROVE  /\ Plain
         /\ \A u, v \in Nodes : \A t \in Kinds : Way[u][v][t] \in Nat
         /\ \A p \in Nodes : Listed[p] \in Nat
         /\ \A x, p \in Nodes : Got[x][p] \in {"none", "LOCK", "FAIL"}
BY PlainState, WayNat, GotFacts DEF PInv, Duel

\* A competitor asks its peers.
SendView(x) ==
  /\ x \in Rivals /\ seq[x] = 1 /\ seq' = [seq EXCEPT ![x] = 2]
  /\ waiting_queue' = [waiting_queue EXCEPT ![x] = {Ask(x)}]
  /\ locked_for' = [locked_for EXCEPT ![x] = Ask(x)]
  /\ UNCHANGED <<is_inCS, hung, inquiry_list>> /\ Got' = Got /\ Listed' = Listed
  /\ Spreads(x, "REQUEST") /\ OutOwn'

LEMMA SendViewed ==
  ASSUME PInv, IInv', NEW n \in Nodes, SendRequest(n)
  PROVE  SendView(n)
<1>1. Plain
  BY RivalFacts
<1>2. n \in Rivals /\ seq[n] = 1
  <2>1. seq[n] <= Schedule[n]
    BY DEF SendRequest
  <2>. QED
    BY <1>1, <2>1 DEF Plain
<1>3. waiting_queue[n] = {}
  BY <1>1, <1>2 DEF Plain
<1>4. OwnRequest(n) = Ask(n) /\ Ask(n) \in Requests /\ Request(Ask(n)) = Msg(n, "REQUEST")
  <2>1. seq[n] <= Schedule[n] /\ Schedule[n] \in Nat
    BY ScheduleAssumption DEF SendRequest
  <2>. QED
    BY <1>2, <2>1, RequestsFacts DEF OwnRequest, Ask, Msg
<1>5. /\ seq' = [seq EXCEPT ![n] = 2]
      /\ waiting_queue' = [waiting_queue EXCEPT ![n] = {Ask(n)}]
      /\ locked_for' = [locked_for EXCEPT ![n] = Ask(n)]
      /\ UNCHANGED <<is_inCS, response_map, inquiry_list, hung>>
      /\ Emit(n, ToPeers(n, Msg(n, "REQUEST")))
  BY <1>2, <1>3, <1>4 DEF SendRequest, requesterVars
<1>6. Spreads(n, "REQUEST")
  BY <1>5, BroadcastSpreads DEF PInv, Kinds
<1>7. OutOwn'
  <2>1. ToPeers(n, Request(Ask(n))) \in Seq(Own(n))
    BY <1>4, OwnReplies, ApartFacts DEF PInv, NotRequest
  <2>. QED
    BY <1>4, <1>5, <2>1, OwnKept DEF PInv
<1>. QED
  BY <1>2, <1>5, <1>6, <1>7, GotStays, ListedStays DEF SendView

\* A request arrives: the lock is free and given, or Second has it and is asked for
\* it, or First has it and Second is refused.
RequestView(n, x) ==
  /\ x \in Rivals /\ Way[x][n]["REQUEST"] >= 1 /\ OutOwn'
  /\ waiting_queue' = [waiting_queue EXCEPT ![n] = @ \cup {Ask(x)}]
  /\ UNCHANGED <<seq, is_inCS, hung, inquiry_list>> /\ Got' = Got /\ Listed' = Listed
  /\ \/ /\ waiting_queue[n] = {}
        /\ locked_for' = [locked_for EXCEPT ![n] = Ask(x)]
        /\ Replaces(x, n, "REQUEST", n, x, "LOCK")
     \/ /\ x = First /\ waiting_queue[n] = {Ask(Second)} /\ UNCHANGED locked_for
        /\ Replaces(First, n, "REQUEST", n, Second, "INQUIRE")
     \/ /\ x = Second /\ waiting_queue[n] = {Ask(First)} /\ UNCHANGED locked_for
        /\ Replaces(Second, n, "REQUEST", n, Second, "FAIL")

LEMMA RequestViewed ==
  ASSUME PInv, IInv', NEW n \in Nodes, ReceiveRequest(n)
  PROVE  RequestView(n, Head(mailbox[n]).from)
<1>. DEFINE msg == Head(mailbox[n])
            x == msg.from
            r == <<msg.seq, msg.from>>
            wq == waiting_queue[n] \cup {r}
            grant == ~is_locked[n] \/ (Begin(wq) = r /\ locked_for[n][2] = n)
            inquire == ~grant /\ Begin(wq) = r
<1>1. Plain
  BY RivalFacts
<1>2. x \in Nodes /\ x \in Rivals /\ r = Ask(x) /\ msg = Msg(x, "REQUEST") /\ Way[x][n]["REQUEST"] >= 1
  BY HeadCounted DEF PInv, ReceiveRequest
<1>3. n \in PeerSet(x) /\ Ask(x) \notin waiting_queue[n]
  <2>1. Way[x][n]["REQUEST"] > 0
    BY <1>2, RivalFacts DEF Kinds
  <2>. QED
    BY <1>2, <2>1 DEF PInv, Duel, Local, Routes, Route, Passes, Passing, Kinds, NotRequest
<1>4. n \notin Rivals
  BY <1>1, <1>2, <1>3 DEF Plain
<1>5. /\ waiting_queue' = [waiting_queue EXCEPT ![n] = @ \cup {Ask(x)}]
      /\ locked_for' = [locked_for EXCEPT ![n] = IF grant THEN Ask(x) ELSE @]
      /\ UNCHANGED <<seq, is_inCS, response_map, inquiry_list, hung>>
      /\ \/ grant /\ Consume(n, To(x, Reply("LOCK", n)))
         \/ inquire /\ Consume(n, To(locked_for[n][2], Reply("INQUIRE", n)))
         \/ ~grant /\ ~inquire /\ Consume(n, To(x, Reply("FAIL", n)))
  BY <1>2 DEF ReceiveRequest, requesterVars
<1>6. locked_for[n] = Ask(First) \/ locked_for[n] = Ask(Second) \/ ~is_locked[n]
  BY <1>1 DEF Plain
<1>7. is_locked[n] => locked_for[n][2] \in Rivals /\ locked_for[n][2] # n
  BY <1>1, <1>4, <1>6 DEF Plain, Rivals
<1>8. grant <=> waiting_queue[n] = {}
  BY <1>1, <1>7 DEF Plain
<1>9. wq \subseteq {Ask(First), Ask(Second)} /\ wq # {}
  <2>1. waiting_queue[n] \subseteq {Ask(First), Ask(Second)}
    BY <1>1 DEF Plain
  <2>. QED
    BY <1>2, <2>1 DEF Rivals
<1>10. Begin(wq) = IF Ask(First) \in wq THEN Ask(First) ELSE Ask(Second)
  BY <1>9, PairQueue DEF PInv
<1>11. UNCHANGED <<seq, is_inCS, hung, inquiry_list>> /\ Got' = Got /\ Listed' = Listed
  BY <1>5, GotStays, ListedStays
<1>12. CASE waiting_queue[n] = {}
  <2>1. grant /\ Consume(n, To(x, Reply("LOCK", n)))
    BY <1>5, <1>8, <1>12
  <2>2. Replaces(x, n, "REQUEST", n, x, "LOCK")
    BY <1>2, <2>1, AnswerReplaces DEF PInv, Kinds, NotRequest
  <2>3. OutOwn'
    BY <1>2, <2>1, OwnReplies, OwnKept DEF PInv, NotRequest
  <2>. QED
    BY <1>2, <1>5, <1>11, <1>12, <2>1, <2>2, <2>3 DEF RequestView
<1>13. CASE waiting_queue[n] # {} /\ x = First
  <2>1. waiting_queue[n] = {Ask(Second)} /\ locked_for[n] = Ask(Second) /\ locked_for[n][2] = Second
    BY <1>1, <1>2, <1>3, <1>13 DEF Plain, Rivals
  <2>2. ~grant /\ inquire
    BY <1>1, <1>2, <1>8, <1>10, <1>13, <2>1 DEF Plain
  <2>3. Consume(n, To(Second, Reply("INQUIRE", n)))
    BY <1>5, <2>1, <2>2
  <2>4. Replaces(First, n, "REQUEST", n, Second, "INQUIRE")
    BY <1>1, <1>2, <1>13, <2>3, AnswerReplaces DEF PInv, Kinds, NotRequest, Plain
  <2>5. OutOwn'
    BY <1>1, <2>3, OwnReplies, OwnKept DEF PInv, NotRequest, Plain
  <2>6. locked_for' = locked_for
    BY <1>1, <1>5, <2>2 DEF Plain
  <2>. QED
    BY <1>2, <1>5, <1>11, <1>13, <2>1, <2>4, <2>5, <2>6 DEF RequestView
<1>14. CASE waiting_queue[n] # {} /\ x = Second
  <2>1. waiting_queue[n] = {Ask(First)}
    BY <1>1, <1>2, <1>3, <1>14 DEF Plain, Rivals
  <2>2. ~grant /\ ~inquire
    BY <1>1, <1>2, <1>8, <1>10, <1>14, <2>1 DEF Plain
  <2>3. Consume(n, To(x, Reply("FAIL", n)))
    BY <1>5, <2>2
  <2>4. Replaces(Second, n, "REQUEST", n, Second, "FAIL")
    BY <1>2, <1>14, <2>3, AnswerReplaces DEF PInv, Kinds, NotRequest
  <2>5. OutOwn'
    BY <1>2, <2>3, OwnReplies, OwnKept DEF PInv, NotRequest
  <2>6. locked_for' = locked_for
    BY <1>1, <1>5, <2>2 DEF Plain
  <2>. QED
    BY <1>2, <1>5, <1>11, <1>14, <2>1, <2>4, <2>5, <2>6 DEF RequestView
<1>. QED
  BY <1>2, <1>12, <1>13, <1>14 DEF Rivals

\* A release arrives: the lock goes to the other competitor if it waits here.
ReleaseView(n, x, y) ==
  /\ Rivals = {x, y} /\ x # y /\ Way[x][n]["RELEASE"] >= 1 /\ OutOwn'
  /\ waiting_queue' = [waiting_queue EXCEPT ![n] = @ \ {Ask(x)}]
  /\ UNCHANGED <<seq, is_inCS, hung, inquiry_list>> /\ Got' = Got /\ Listed' = Listed
  /\ \/ /\ Ask(y) \in waiting_queue[n]
        /\ locked_for' = [locked_for EXCEPT ![n] = Ask(y)]
        /\ Replaces(x, n, "RELEASE", n, y, "LOCK")
     \/ /\ Ask(y) \notin waiting_queue[n]
        /\ locked_for' = [locked_for EXCEPT ![n] = NoLock]
        /\ Loses(x, n, "RELEASE")

LEMMA ReleaseViewed ==
  ASSUME PInv, IInv', NEW n \in Nodes, ReceiveRelease(n)
  PROVE  \E x, y \in Rivals : ReleaseView(n, x, y) /\ n \notin Rivals
<1>. DEFINE x == Head(mailbox[n]).from
            wq == Without(waiting_queue[n], x)
<1>1. Plain
  BY RivalFacts
<1>2. x \in Nodes /\ Head(mailbox[n]) = Msg(x, "RELEASE") /\ Way[x][n]["RELEASE"] >= 1
  BY HeadCounted DEF PInv, ReceiveRelease
<1>3. x \in Rivals /\ n \in PeerSet(x)
  <2>1. Way[x][n]["RELEASE"] > 0
    BY <1>2, RivalFacts DEF Kinds, NotRequest
  <2>. QED
    BY <1>2, <2>1 DEF PInv, Duel, Routes, Route, Kinds, NotRequest
<1>4. n \notin Rivals
  BY <1>1, <1>3 DEF Plain
<1>5. PICK y \in Rivals : Rivals = {x, y} /\ x # y
  BY <1>1, <1>3 DEF Rivals, Plain
<1>6. waiting_queue[n] \subseteq {Ask(x), Ask(y)} /\ Ask(x) # Ask(y)
  BY <1>1, <1>5 DEF Plain, Rivals
<1>7. wq = waiting_queue[n] \ {Ask(x)}
  BY <1>1, <1>3, PairQueue DEF Plain, Rivals, PInv
<1>8. /\ waiting_queue' = [waiting_queue EXCEPT ![n] = wq]
      /\ locked_for' = [locked_for EXCEPT ![n] = NextHolder(wq)]
      /\ Consume(n, IF wq = {} \/ Begin(wq)[2] = n
                    THEN <<>> ELSE To(Begin(wq)[2], Reply("LOCK", n)))
      /\ UNCHANGED <<seq, is_inCS, hung, inquiry_list, response_map>>
  BY DEF ReceiveRelease, requesterVars
<1>9. UNCHANGED <<seq, is_inCS, hung, inquiry_list>> /\ Got' = Got /\ Listed' = Listed
  BY <1>8, GotStays, ListedStays
<1>10. CASE Ask(y) \in waiting_queue[n]
  <2>1. wq = {Ask(y)}
    BY <1>6, <1>7, <1>10
  <2>2. Begin(wq) = Ask(y) /\ NextHolder(wq) = Ask(y)
    BY <2>1 DEF Begin, NextHolder
  <2>3. Ask(y)[2] = y /\ y # n /\ y \in Nodes
    BY <1>1, <1>4, <1>5 DEF Plain, Rivals
  <2>4. Consume(n, To(y, Reply("LOCK", n)))
    BY <1>8, <2>1, <2>2, <2>3
  <2>5. Replaces(x, n, "RELEASE", n, y, "LOCK")
    BY <1>2, <2>3, <2>4, AnswerReplaces DEF PInv, Kinds, NotRequest
  <2>6. OutOwn'
    BY <2>3, <2>4, OwnReplies, OwnKept DEF PInv, NotRequest
  <2>7. ReleaseView(n, x, y)
    BY <1>2, <1>5, <1>7, <1>8, <1>9, <1>10, <2>2, <2>5, <2>6 DEF ReleaseView
  <2>. QED
    BY <1>3, <1>4, <2>7
<1>11. CASE Ask(y) \notin waiting_queue[n]
  <2>1. wq = {} /\ NextHolder(wq) = NoLock
    BY <1>6, <1>7, <1>11 DEF NextHolder
  <2>2. Consume(n, <<>>)
    BY <1>8, <2>1
  <2>3. Loses(x, n, "RELEASE")
    BY <1>2, <2>2, SilenceLoses DEF PInv, Kinds, NotRequest
  <2>4. OutOwn'
    BY <2>2, OwnReplies, OwnKept DEF PInv, NotRequest
  <2>5. ReleaseView(n, x, y)
    BY <1>2, <1>5, <1>7, <1>8, <1>9, <1>11, <2>1, <2>3, <2>4 DEF ReleaseView
  <2>. QED
    BY <1>3, <1>4, <2>5
<1>. QED
  BY <1>10, <1>11

\* Second gives the lock back to a node where First waits.
RelinquishView(n) ==
  /\ Way[Second][n]["RELINQUISH"] >= 1 /\ ~Done(First) /\ ~Done(Second) /\ n \in Common
  /\ locked_for[n] = Ask(Second) /\ waiting_queue[n] = {Ask(First), Ask(Second)}
  /\ locked_for' = [locked_for EXCEPT ![n] = Ask(First)]
  /\ UNCHANGED <<seq, waiting_queue, is_inCS, hung, inquiry_list>> /\ Got' = Got /\ Listed' = Listed
  /\ Replaces(Second, n, "RELINQUISH", n, First, "LOCK") /\ OutOwn'

\* What a RELINQUISH under way tells.
LEMMA RelinquishTells ==
  ASSUME PInv, NEW n \in Nodes, NEW p \in Nodes, Way[p][n]["RELINQUISH"] >= 1
  PROVE  /\ p = Second /\ n \in Common /\ ~Done(First) /\ ~Done(Second)
         /\ locked_for[n] = Ask(Second) /\ waiting_queue[n] = {Ask(First), Ask(Second)}
<1>1. Plain
  BY RivalFacts
<1>2. Way[p][n]["RELINQUISH"] > 0
  BY RivalFacts DEF Kinds, NotRequest
<1>3. p = Second /\ n \in Common
  BY <1>2 DEF PInv, Duel, Routes, Route, Kinds, NotRequest
<1>4. ~Done(First) /\ ~Done(Second)
  BY <1>2, <1>3 DEF PInv, Duel, Local, FirstOver, SecondOver, Common
<1>5. Probes(n) > 0
  BY <1>1, <1>2, <1>3, RivalFacts DEF Probes, Kinds, NotRequest, Plain
<1>6. /\ locked_for[n] = Ask(Second)
      /\ Ask(First) \in waiting_queue[n] /\ Ask(Second) \in waiting_queue[n]
  BY <1>4, <1>5 DEF PInv, Duel, Local, Probing
<1>. QED
  BY <1>1, <1>3, <1>4, <1>6 DEF Plain

LEMMA RelinquishViewed ==
  ASSUME PInv, IInv', NEW n \in Nodes, ReceiveRelinquish(n)
  PROVE  RelinquishView(n)
<1>. DEFINE p == Head(mailbox[n]).from
            first == IF waiting_queue[n] = {} THEN Stray ELSE Begin(waiting_queue[n])
<1>1. Plain
  BY RivalFacts
<1>2. p \in Nodes /\ Head(mailbox[n]) = Msg(p, "RELINQUISH") /\ Way[p][n]["RELINQUISH"] >= 1
  BY HeadCounted DEF PInv, ReceiveRelinquish
<1>3. /\ p = Second /\ n \in Common /\ ~Done(First) /\ ~Done(Second)
      /\ locked_for[n] = Ask(Second) /\ waiting_queue[n] = {Ask(First), Ask(Second)}
  BY <1>2, RelinquishTells
<1>4. first = Ask(First) /\ first[2] = First
  BY <1>1, <1>3, PairQueue DEF PInv, Plain, Rivals
<1>5. /\ locked_for' = [locked_for EXCEPT ![n] = Ask(First)]
      /\ Consume(n, To(First, Reply("LOCK", n)))
      /\ UNCHANGED <<seq, waiting_queue, is_inCS, response_map, inquiry_list, hung>>
  BY <1>4 DEF ReceiveRelinquish, requesterVars
<1>6. Replaces(Second, n, "RELINQUISH", n, First, "LOCK")
  BY <1>1, <1>2, <1>3, <1>5, AnswerReplaces DEF PInv, Kinds, NotRequest, Plain
<1>7. OutOwn'
  BY <1>1, <1>5, OwnReplies, OwnKept DEF PInv, NotRequest, Plain
<1>. QED
  BY <1>2, <1>3, <1>5, <1>6, <1>7, GotStays, ListedStays DEF RelinquishView

\* A LOCK is recorded; it lets x in when every peer's answer is one.
LockedView(x, p) ==
  /\ x \in Rivals /\ p \in PeerSet(x) /\ Way[p][x]["LOCK"] >= 1
  /\ \A u, v \in Nodes : Got'[u][v] = IF u = x /\ v = p THEN "LOCK" ELSE Got[u][v]
  /\ \A u \in Nodes : is_inCS'[u] =>
       is_inCS[u] \/ (u = x /\ \A q \in PeerSet(x) : Got'[x][q] = "LOCK")
  /\ \A u \in Nodes : is_inCS[u] => is_inCS'[u]
  /\ UNCHANGED <<seq, waiting_queue, locked_for, hung, inquiry_list>> /\ Listed' = Listed
  /\ Loses(p, x, "LOCK") /\ OutOwn'

LEMMA LockedViewed ==
  ASSUME PInv, IInv', NEW n \in Nodes, ReceiveLocked(n)
  PROVE  LockedView(n, Head(mailbox[n]).from)
<1>. DEFINE p == Head(mailbox[n]).from
            rm == Recorded(n, Head(mailbox[n]))
<1>1. Plain
  BY RivalFacts
<1>2. /\ p \in Nodes /\ Head(mailbox[n]) = Msg(p, "LOCK") /\ Way[p][n]["LOCK"] >= 1
      /\ Head(mailbox[n]) \in Message /\ Head(mailbox[n]).type = "LOCK"
  BY HeadCounted, HeadFacts DEF PInv, ReceiveLocked
<1>3. n \in Rivals /\ p \in PeerSet(n)
  <2>1. Way[p][n]["LOCK"] > 0
    BY <1>2, RivalFacts DEF Kinds, NotRequest
  <2>. QED
    BY <1>2, <2>1 DEF PInv, Duel, Routes, Route, Kinds, NotRequest
<1>4. /\ response_map' = [response_map EXCEPT ![n] = rm]
      /\ is_inCS' = [is_inCS EXCEPT ![n] = @ \/ Enters(n, rm)]
      /\ Consume(n, <<>>)
      /\ UNCHANGED <<seq, waiting_queue, locked_for, hung, inquiry_list>>
  BY DEF ReceiveLocked, arbiterVars
<1>5. \A u, v \in Nodes : Got'[u][v] = IF u = n /\ v = p THEN "LOCK" ELSE Got[u][v]
  <2>. DEFINE m == Head(mailbox[n])
  <2>1. m \in Message /\ m.type \in {"LOCK", "FAIL"} /\ m.type = "LOCK"
    BY <1>2
  <2>2. response_map' = [response_map EXCEPT ![n] = Recorded(n, m)]
    BY <1>4
  <2>. HIDE DEF m
  <2>3. \A u, v \in Nodes : Got'[u][v] = IF u = n /\ v = m.from THEN m.type ELSE Got[u][v]
    BY <2>1, <2>2, GotRecorded DEF PInv
  <2>. QED
    BY <2>1, <2>3 DEF m
<1>6. Loses(p, n, "LOCK")
  BY <1>2, <1>4, SilenceLoses DEF PInv, Kinds, NotRequest
<1>7. OutOwn'
  BY <1>4, OwnReplies, OwnKept DEF PInv, NotRequest
<1>8. ASSUME Enters(n, rm) PROVE \A q \in PeerSet(n) : Got'[n][q] = "LOCK"
  <2>1. rm \in Answers /\ DOMAIN rm = Answered(n) \cup {p}
    BY <1>2, RecordedFacts DEF PInv, IInv, RequesterOK
  <2>2. Answered(n) \subseteq PeerSet(n)
    <3>1. \A q \in Answered(n) : q \in Nodes /\ Got[n][q] # "none"
      BY GotFacts DEF PInv
    <3>. QED
      BY <3>1 DEF PInv, Duel, Records
  <2>3. DOMAIN rm = PeerSet(n)
    <3>1. DOMAIN rm \in SUBSET PeerSet(n) /\ Cardinality(DOMAIN rm) = Len(Peers[n])
      BY <1>3, <1>8, <2>1, <2>2 DEF Enters
    <3>. QED
      BY <3>1, PeerCount
  <2>4. \A q \in PeerSet(n) : rm[q] = "LOCK"
    BY <1>8, <2>1, <2>3 DEF Enters, NoFail, Answers
  <2>5. response_map'[n] = rm
    BY <1>4 DEF PInv, IInv, RequesterOK
  <2>6. \A q \in PeerSet(n) : q \in Nodes /\ q \in Answered(n)'
    BY <2>3, <2>5, PeerSetFacts DEF Answered
  <2>. QED
    BY <2>4, <2>5, <2>6 DEF Got
<1>9. \A u \in Nodes : /\ is_inCS'[u] => is_inCS[u] \/ (u = n /\ Enters(n, rm))
                       /\ is_inCS[u] => is_inCS'[u]
  <2>1. \A u \in Nodes : is_inCS'[u] = IF u = n THEN is_inCS[n] \/ Enters(n, rm) ELSE is_inCS[u]
    BY <1>1, <1>4 DEF Plain
  <2>. QED
    BY <2>1
<1>. QED
  BY <1>2, <1>3, <1>4, <1>5, <1>6, <1>7, <1>8, <1>9, ListedStays DEF LockedView

\* A FAIL is recorded, and the locks of the nodes on the list are given back.
FailedView(p) ==
  /\ p \in Common /\ Way[p][Second]["FAIL"] >= 1
  /\ \A u, v \in Nodes : Got'[u][v] = IF u = Second /\ v = p THEN "FAIL" ELSE Got[u][v]
  /\ \A u, v \in Nodes : \A t \in Kinds :
       Way'[u][v][t] = Way[u][v][t] - Bit(u = p /\ v = Second /\ t = "FAIL")
                         + IF u = Second /\ t = "RELINQUISH" THEN Listed[v] ELSE 0
  /\ \A v \in Nodes : Listed'[v] = 0
  /\ \A u \in Nodes \ {Second} : inquiry_list'[u] = inquiry_list[u]
  /\ UNCHANGED <<seq, waiting_queue, locked_for, hung, is_inCS>> /\ OutOwn'

\* One RELINQUISH for every entry of the list.
LEMMA RelinquishesCounted ==
  ASSUME Apart, IInv
  PROVE  /\ Relinquishes(Second) \in Seq(Own(Second))
         /\ \A v \in Nodes : \A t \in Kinds :
              Num(Relinquishes(Second), [to |-> v, msg |-> Msg(Second, t)])
                = IF t = "RELINQUISH" THEN Listed[v] ELSE 0
<1>. DEFINE L == inquiry_list[Second]
            s == Relinquishes(Second)
            R == Reply("RELINQUISH", Second)
<1>1. Second \in Nodes /\ L \in Seq(Nodes) /\ Len(L) \in Nat
  BY ApartFacts, LenProperties DEF IInv, RequesterOK
<1>2. /\ Len(s) = Len(L) /\ \A i \in 1..Len(L) : L[i] \in Nodes /\ s[i] = [to |-> L[i], msg |-> R]
      /\ s = [i \in 1..Len(L) |-> s[i]]
  BY <1>1, ElementOfSeq DEF Relinquishes
<1>3. R = Msg(Second, "RELINQUISH") /\ R \in Message /\ R.from = Second /\ "RELINQUISH" \in Kinds
  BY <1>1, MessageFacts, MsgFacts DEF Msg, NotRequest, Kinds
<1>4. s \in Seq(Own(Second))
  <2>1. \A y \in Nodes : [to |-> y, msg |-> R] \in Own(Second)
    BY <1>3 DEF Own, Envelope
  <2>2. \A i \in 1..Len(L) : s[i] \in Own(Second)
    BY <1>2, <2>1
  <2>. QED
    BY <1>1, <1>2, <2>2, IsASeq
<1>5. ASSUME NEW v \in Nodes, NEW t \in Kinds
      PROVE  Num(s, [to |-> v, msg |-> Msg(Second, t)]) = IF t = "RELINQUISH" THEN Listed[v] ELSE 0
  <2>. DEFINE e == [to |-> v, msg |-> Msg(Second, t)]
  <2>1. ASSUME NEW i \in 1..Len(L)
        PROVE  s[i] = e <=> L[i] = v /\ t = "RELINQUISH"
    <3>1. s[i] = [to |-> L[i], msg |-> R]
      BY <1>2
    <3>2. s[i].to = L[i] /\ s[i].msg = R /\ e.to = v /\ e.msg = Msg(Second, t)
      <4>1. [to |-> L[i], msg |-> R].to = L[i] /\ [to |-> L[i], msg |-> R].msg = R
        OBVIOUS
      <4>. QED
        BY <3>1, <4>1
    <3>3. R = Msg(Second, t) <=> t = "RELINQUISH"
      BY <1>1, <1>3, MsgFacts
    <3>. QED
      BY <3>1, <3>2, <3>3
  <2>2. CASE t = "RELINQUISH"
    <3>1. Places(s, e) = Places(L, v)
      BY <1>2, <2>1, <2>2 DEF Places
    <3>. QED
      BY <2>2, <3>1 DEF Num, Listed
  <2>3. CASE t # "RELINQUISH"
    <3>1. Places(s, e) = {}
      BY <1>2, <2>1, <2>3 DEF Places
    <3>. QED
      BY <2>3, <3>1, FS_EmptySet DEF Num
  <2>. QED
    BY <2>2, <2>3
<1>. QED
  BY <1>4, <1>5

LEMMA FailedViewed ==
  ASSUME PInv, IInv', NEW n \in Nodes, ReceiveFailed(n)
  PROVE  n = Second /\ FailedView(Head(mailbox[n]).from)
<1>. DEFINE p == Head(mailbox[n]).from
            m == Head(mailbox[n])
<1>1. Plain
  BY RivalFacts
<1>2. /\ p \in Nodes /\ m = Msg(p, "FAIL") /\ Way[p][n]["FAIL"] >= 1
      /\ m \in Message /\ m.type = "FAIL"
  BY HeadCounted, HeadFacts DEF PInv, ReceiveFailed
<1>3. n = Second /\ p \in Common
  <2>1. Way[p][n]["FAIL"] > 0
    BY <1>2, RivalFacts DEF Kinds, NotRequest
  <2>. QED
    BY <1>2, <2>1 DEF PInv, Duel, Routes, Route, Kinds, NotRequest
<1>4. /\ response_map' = [response_map EXCEPT ![n] = Recorded(n, m)]
      /\ Consume(n, Relinquishes(n))
      /\ inquiry_list' = [inquiry_list EXCEPT ![n] = <<>>]
      /\ UNCHANGED <<seq, waiting_queue, locked_for, hung, is_inCS>>
  BY DEF ReceiveFailed, arbiterVars
<1>5. \A u, v \in Nodes : Got'[u][v] = IF u = Second /\ v = p THEN "FAIL" ELSE Got[u][v]
  <2>1. m \in Message /\ m.type \in {"LOCK", "FAIL"} /\ m.type = "FAIL"
    BY <1>2
  <2>2. response_map' = [response_map EXCEPT ![n] = Recorded(n, m)]
    BY <1>4
  <2>. HIDE DEF m
  <2>3. \A u, v \in Nodes : Got'[u][v] = IF u = n /\ v = m.from THEN m.type ELSE Got[u][v]
    BY <2>1, <2>2, GotRecorded DEF PInv
  <2>. QED
    BY <1>3, <2>1, <2>3 DEF m
<1>6. /\ inquiry_list'[Second] = <<>>
      /\ \A u \in Nodes \ {Second} : inquiry_list'[u] = inquiry_list[u]
  BY <1>1, <1>3, <1>4 DEF PInv, IInv, RequesterOK, Plain
<1>7. \A v \in Nodes : Listed'[v] = 0
  BY <1>6, NumNothing DEF Listed
<1>8. ASSUME NEW u \in Nodes, NEW v \in Nodes, NEW t \in Kinds
      PROVE  Way'[u][v][t] = Way[u][v][t] - Bit(u = p /\ v = Second /\ t = "FAIL")
                         + IF u = Second /\ t = "RELINQUISH" THEN Listed[v] ELSE 0
  <2>1. IsSeq(Relinquishes(n)) /\ "FAIL" \in Kinds
    BY <1>3, RelinquishesCounted DEF PInv, IsSeq, Kinds, NotRequest
  <2>2. Way'[u][v][t] = Way[u][v][t] - Bit(u = p /\ v = n /\ t = "FAIL")
          + IF u = n THEN Num(Relinquishes(n), [to |-> v, msg |-> Msg(n, t)]) ELSE 0
    BY <1>2, <1>4, <2>1, WayConsume DEF PInv
  <2>3. Num(Relinquishes(n), [to |-> v, msg |-> Msg(n, t)])
          = IF t = "RELINQUISH" THEN Listed[v] ELSE 0
    BY <1>3, RelinquishesCounted DEF PInv
  <2>. QED
    BY <1>3, <2>2, <2>3
<1>9. OutOwn'
  BY <1>3, <1>4, RelinquishesCounted, OwnKept DEF PInv
<1>. QED
  BY <1>2, <1>3, <1>4, <1>5, <1>6, <1>7, <1>8, <1>9 DEF FailedView

\* An INQUIRE finds Second in the section, or with a FAIL on record, or it is kept.
InquiryView(p) ==
  /\ p \in Common /\ Way[p][Second]["INQUIRE"] >= 1 /\ OutOwn'
  /\ \A u \in Nodes \ {Second} : inquiry_list'[u] = inquiry_list[u]
  /\ UNCHANGED <<seq, waiting_queue, locked_for, hung, is_inCS>> /\ Got' = Got
  /\ \/ Loses(p, Second, "INQUIRE") /\ Listed' = Listed
     \/ /\ ~is_inCS[Second] /\ AnyFail /\ Listed' = Listed
        /\ Replaces(p, Second, "INQUIRE", Second, p, "RELINQUISH")
     \/ /\ Loses(p, Second, "INQUIRE")
        /\ \A v \in Nodes : Listed'[v] = Listed[v] + Bit(v = p)

\* Wherever the new entry lands in the list.
LEMMA NumInsert ==
  ASSUME NEW s \in Seq(Nodes), NEW i \in 1..(Len(s) + 1), NEW x \in Nodes, NEW e
  PROVE  Num(InsertAt(s, i, x), e) = Num(s, e) + IF x = e THEN 1 ELSE 0
<1>. DEFINE a == SubSeq(s, 1, i-1)
            b == SubSeq(s, i, Len(s))
<1>1. Len(s) \in Nat /\ i \in Nat /\ i - 1 \in 0..Len(s)
  BY LenProperties
<1>2. a \in Seq(Nodes) /\ b \in Seq(Nodes)
  BY <1>1, ElementOfSeq, SubSeqProperties
<1>3. a \o b = s
  <2>1. a \o SubSeq(s, (i-1) + 1, Len(s)) = SubSeq(s, 1, Len(s))
    <3>1. PICK k \in 0..Len(s) : k = i - 1
      BY <1>1
    <3>2. 1 \in 1..(Len(s) + 1) /\ k \in (1 - 1)..Len(s) /\ Len(s) \in k..Len(s)
      BY <1>1
    <3>3. SubSeq(s, 1, k) \o SubSeq(s, k + 1, Len(s)) = SubSeq(s, 1, Len(s))
      BY <3>2, ConcatAdjacentSubSeq
    <3>. QED
      BY <3>1, <3>3
  <2>2. (i-1) + 1 = i
    BY <1>1
  <2>. QED
    BY <2>1, <2>2, SubSeqFull
<1>4. IsSeq(a) /\ IsSeq(b) /\ IsSeq(<<x>>) /\ IsSeq(a \o <<x>>)
  BY <1>2, NumOne, ConcatIsSeq DEF IsSeq
<1>. HIDE DEF a, b
<1>5. Num((a \o <<x>>) \o b, e) = Num(a, e) + Num(<<x>>, e) + Num(b, e)
  BY <1>4, NumConcat
<1>6. Num(a \o b, e) = Num(a, e) + Num(b, e)
  BY <1>4, NumConcat
<1>7. Num(a, e) \in Nat /\ Num(b, e) \in Nat /\ Num(<<x>>, e) = IF x = e THEN 1 ELSE 0
  BY <1>4, PlacesFinite, NumOne
<1>8. InsertAt(s, i, x) = (a \o <<x>>) \o b
  BY DEF InsertAt, a, b
<1>. QED
  BY <1>3, <1>5, <1>6, <1>7, <1>8

LEMMA InquiryViewed ==
  ASSUME PInv, IInv', NEW n \in Nodes, ReceiveInquiry(n)
  PROVE  n = Second /\ InquiryView(Head(mailbox[n]).from)
<1>. DEFINE p == Head(mailbox[n]).from
<1>1. Plain
  BY RivalFacts
<1>2. /\ p \in Nodes /\ Head(mailbox[n]) = Msg(p, "INQUIRE") /\ Way[p][n]["INQUIRE"] >= 1
      /\ "INQUIRE" \in Kinds
  BY HeadCounted DEF PInv, ReceiveInquiry
<1>3. n = Second /\ p \in Common
  <2>1. Way[p][n]["INQUIRE"] > 0
    BY <1>2, RivalFacts DEF Kinds, NotRequest
  <2>. QED
    BY <1>2, <2>1 DEF PInv, Duel, Routes, Route, Kinds, NotRequest
<1>4. UNCHANGED <<seq, waiting_queue, locked_for, is_inCS, response_map, hung>> /\ Got' = Got
  BY GotStays DEF ReceiveInquiry, arbiterVars
<1>5. ASSUME Consume(n, <<>>) PROVE Loses(p, Second, "INQUIRE") /\ OutOwn'
  <2>1. Loses(p, n, "INQUIRE")
    BY <1>2, <1>5, SilenceLoses DEF PInv
  <2>2. OutOwn'
    BY <1>5, OwnReplies, OwnKept DEF PInv, NotRequest
  <2>. QED
    BY <1>3, <2>1, <2>2
<1>6. CASE Consume(n, <<>>) /\ UNCHANGED inquiry_list
  BY <1>2, <1>3, <1>4, <1>5, <1>6, ListedStays DEF InquiryView
<1>7. CASE /\ ~is_inCS[n] /\ ~NoFail(response_map[n])
           /\ Consume(n, To(p, Reply("RELINQUISH", n))) /\ UNCHANGED inquiry_list
  <2>1. Replaces(p, Second, "INQUIRE", Second, p, "RELINQUISH")
    BY <1>2, <1>3, <1>7, AnswerReplaces DEF PInv, NotRequest
  <2>2. OutOwn'
    BY <1>2, <1>7, OwnReplies, OwnKept DEF PInv, NotRequest
  <2>3. AnyFail
    <3>1. PICK q \in Answered(n) : response_map[n][q] = "FAIL"
      BY <1>7 DEF NoFail, Answered
    <3>2. q \in Nodes /\ Got[n][q] = "FAIL"
      BY <3>1, GotFacts DEF PInv
    <3>. QED
      BY <1>3, <3>2 DEF AnyFail
  <2>. QED
    BY <1>2, <1>3, <1>4, <1>7, <2>1, <2>2, <2>3, ListedStays DEF InquiryView
<1>8. CASE /\ Consume(n, <<>>)
           /\ \E i \in 1..(Len(inquiry_list[n]) + 1) :
                inquiry_list' = [inquiry_list EXCEPT ![n] = InsertAt(@, i, p)]
  <2>1. PICK i \in 1..(Len(inquiry_list[n]) + 1) :
          inquiry_list' = [inquiry_list EXCEPT ![n] = InsertAt(@, i, p)]
    BY <1>8
  <2>2. inquiry_list \in [Nodes -> Seq(Nodes)]
    BY DEF PInv, IInv, RequesterOK
  <2>3. /\ inquiry_list'[Second] = InsertAt(inquiry_list[Second], i, p)
        /\ \A u \in Nodes \ {Second} : inquiry_list'[u] = inquiry_list[u]
    BY <1>3, <2>1, <2>2
  <2>4. ASSUME NEW v \in Nodes PROVE Listed'[v] = Listed[v] + Bit(v = p)
    <3>1. inquiry_list[Second] \in Seq(Nodes) /\ i \in 1..(Len(inquiry_list[Second]) + 1)
      BY <1>3, <2>2
    <3>2. Num(InsertAt(inquiry_list[Second], i, p), v)
            = Num(inquiry_list[Second], v) + IF p = v THEN 1 ELSE 0
      BY <1>2, <3>1, NumInsert
    <3>. QED
      BY <2>3, <3>2 DEF Listed, Bit
  <2>. QED
    BY <1>2, <1>3, <1>4, <1>5, <1>8, <2>3, <2>4 DEF InquiryView
<1>9. \/ Consume(n, <<>>) /\ UNCHANGED inquiry_list
      \/ /\ ~is_inCS[n] /\ ~NoFail(response_map[n])
         /\ Consume(n, To(p, Reply("RELINQUISH", n))) /\ UNCHANGED inquiry_list
      \/ /\ Consume(n, <<>>)
         /\ \E i \in 1..(Len(inquiry_list[n]) + 1) :
              inquiry_list' = [inquiry_list EXCEPT ![n] = InsertAt(@, i, p)]
  BY DEF ReceiveInquiry
<1>. QED
  BY <1>6, <1>7, <1>8, <1>9

\* A competitor leaves its section for good.
FinishView(x) ==
  /\ x \in Rivals /\ is_inCS[x] /\ seq[x] = 2 /\ waiting_queue[x] = {Ask(x)}
  /\ waiting_queue' = [waiting_queue EXCEPT ![x] = {}]
  /\ locked_for' = [locked_for EXCEPT ![x] = NoLock]
  /\ is_inCS' = [is_inCS EXCEPT ![x] = FALSE]
  /\ \A u, v \in Nodes : Got'[u][v] = IF u = x THEN "none" ELSE Got[u][v]
  /\ \A v \in Nodes : Listed'[v] = IF x = Second THEN 0 ELSE Listed[v]
  /\ \A u \in Nodes \ {Second} : inquiry_list[u] = <<>> => inquiry_list'[u] = <<>>
  /\ UNCHANGED <<seq, hung>> /\ Spreads(x, "RELEASE") /\ OutOwn'

LEMMA FinishViewed ==
  ASSUME PInv, IInv', NEW n \in Nodes, FinishCS(n)
  PROVE  FinishView(n)
<1>. DEFINE wq == waiting_queue[n] \ {Begin(waiting_queue[n])}
<1>1. Plain
  BY RivalFacts
<1>2. n \in Rivals /\ is_inCS[n] /\ waiting_queue[n] = {Ask(n)} /\ seq[n] = 2
  <2>1. is_inCS[n] /\ n \in Rivals /\ waiting_queue[n] # {}
    BY DEF FinishCS, PInv, Duel, Calm
  <2>. QED
    BY <1>1, <2>1 DEF Plain
<1>3. wq = {} /\ NextHolder(wq) = NoLock
  <2>1. Begin({Ask(n)}) = Ask(n)
    BY DEF Begin
  <2>. QED
    BY <1>2, <2>1 DEF NextHolder
<1>4. Reply("RELEASE", n) = Msg(n, "RELEASE")
  BY DEF Msg
<1>5. /\ waiting_queue' = [waiting_queue EXCEPT ![n] = {}]
      /\ locked_for' = [locked_for EXCEPT ![n] = NoLock]
      /\ is_inCS' = [is_inCS EXCEPT ![n] = FALSE]
      /\ response_map' = [response_map EXCEPT ![n] = <<>>]
      /\ inquiry_list' = [inquiry_list EXCEPT ![n] = <<>>]
      /\ UNCHANGED <<seq, hung>>
  BY <1>3 DEF FinishCS
<1>6. Emit(n, ToPeers(n, Msg(n, "RELEASE")))
  <2>. HIDE DEF wq
  <2>1. \/ wq = {} /\ Emit(n, ToPeers(n, Reply("RELEASE", n)))
        \/ wq # {}
    BY DEF FinishCS, wq
  <2>. QED
    BY <1>3, <1>4, <2>1
<1>7. Spreads(n, "RELEASE")
  BY <1>6, BroadcastSpreads DEF PInv, Kinds, NotRequest
<1>8. OutOwn'
  BY <1>4, <1>6, OwnReplies, OwnKept DEF PInv, NotRequest
<1>9. ASSUME NEW u \in Nodes, NEW v \in Nodes
      PROVE  Got'[u][v] = IF u = n THEN "none" ELSE Got[u][v]
  <2>1. response_map'[u] = IF u = n THEN <<>> ELSE response_map[u]
    BY <1>5 DEF PInv, IInv, RequesterOK
  <2>2. DOMAIN <<>> = {}
    OBVIOUS
  <2>. QED
    BY <2>1, <2>2 DEF Got, Answered
<1>10. \A u \in Nodes : inquiry_list'[u] = IF u = n THEN <<>> ELSE inquiry_list[u]
  BY <1>5 DEF PInv, IInv, RequesterOK
<1>11. \A v \in Nodes : Listed'[v] = IF n = Second THEN 0 ELSE Listed[v]
  <2>1. inquiry_list'[Second] = IF Second = n THEN <<>> ELSE inquiry_list[Second]
    BY <1>1, <1>10 DEF Plain
  <2>. QED
    BY <2>1, NumNothing DEF Listed
<1>. QED
  BY <1>2, <1>5, <1>7, <1>8, <1>9, <1>10, <1>11 DEF FinishView

LEMMA NobodyHangs ==
  ASSUME PInv, NEW n \in Nodes
  PROVE  ~FinishCSHangs(n)
BY DEF FinishCSHangs, PInv, Duel, Calm

\* A switch process takes messages away from those under way, and nothing else.
SwitchView ==
  /\ \A u, v \in Nodes : \A t \in Kinds : Way'[u][v][t] \in Nat /\ Way'[u][v][t] <= Way[u][v][t]
  /\ UNCHANGED <<seq, waiting_queue, locked_for, hung, is_inCS, inquiry_list>>
  /\ Got' = Got /\ Listed' = Listed /\ OutOwn'

LEMMA SwitchViewed ==
  ASSUME PInv, IInv', NEW n \in Nodes, Switch(n)
  PROVE  SwitchView
<1>3. ASSUME NEW u \in Nodes, NEW v \in Nodes, NEW t \in Kinds
      PROVE  Way'[u][v][t] \in Nat
  <2>1. /\ Num(mailbox'[v], Msg(u, t)) \in Nat
        /\ Num(outq'[u], [to |-> v, msg |-> Msg(u, t)]) \in Nat
    BY PlacesFinite DEF IInv, NetHolds, IsSeq
  <2>. QED
    BY <2>1 DEF Way
<1>1. UNCHANGED <<seq, waiting_queue, locked_for, hung, is_inCS, inquiry_list, response_map>>
  BY DEF Switch, nodeVars, arbiterVars, requesterVars
<1>2. SwitchStep(n)
  BY DEF Switch
<1>. QED
  BY <1>1, <1>2, <1>3, WaySwitch, GotStays, ListedStays DEF SwitchView, PInv

-----------------------------------------------------------------------------
(* Every step keeps the invariant: node by node, since a step reaches the  *)
(* counts of few nodes.                                                    *)

Counted(z, p) ==
  /\ Way[z][p]["REQUEST"] \in Nat /\ Way[z][p]["RELEASE"] \in Nat
  /\ Way[z][p]["RELINQUISH"] \in Nat /\ Way[p][z]["LOCK"] \in Nat
  /\ Way[p][z]["FAIL"] \in Nat /\ Way[p][z]["INQUIRE"] \in Nat

LEMMA Numbers ==
  ASSUME PInv, NEW p \in Nodes
  PROVE  (\A z \in Rivals : Counted(z, p)) /\ Listed[p] \in Nat
BY RivalFacts DEF Counted, Kinds, NotRequest, Plain, Rivals

\* Between the competitor z and the node p only messages of the kinds S come or go.
Kept(z, p, S) ==
  /\ "REQUEST" \notin S => Way'[z][p]["REQUEST"] = Way[z][p]["REQUEST"]
  /\ "RELEASE" \notin S => Way'[z][p]["RELEASE"] = Way[z][p]["RELEASE"]
  /\ "RELINQUISH" \notin S => Way'[z][p]["RELINQUISH"] = Way[z][p]["RELINQUISH"]
  /\ "LOCK" \notin S => Way'[p][z]["LOCK"] = Way[p][z]["LOCK"]
  /\ "FAIL" \notin S => Way'[p][z]["FAIL"] = Way[p][z]["FAIL"]
  /\ "INQUIRE" \notin S => Way'[p][z]["INQUIRE"] = Way[p][z]["INQUIRE"]

LEMMA KeptBut ==
  ASSUME NEW p \in Nodes, NEW z \in Rivals, NEW S,
         \A t \in Kinds \ S : Way'[z][p][t] = Way[z][p][t] /\ Way'[p][z][t] = Way[p][z][t]
  PROVE  Kept(z, p, S)
BY DEF Kept, Kinds, NotRequest

\* Nothing changes at p or between p and a competitor.
Quiet(p) ==
  /\ \A x \in Rivals : Kept(x, p, {}) /\ Got'[x][p] = Got[x][p]
  /\ Listed'[p] = Listed[p] /\ locked_for'[p] = locked_for[p]
  /\ waiting_queue'[p] = waiting_queue[p]

\* The competitors are as far as they were.
Level ==
  /\ \A x \in Rivals : /\ seq'[x] = seq[x] /\ waiting_queue'[x] = waiting_queue[x]
                       /\ is_inCS'[x] = is_inCS[x]
  /\ AnyFail' <=> AnyFail

LEMMA LevelDone ==
  ASSUME Level
  PROVE  \A x \in Rivals : Done(x)' <=> Done(x)
BY DEF Level, Done

LEMMA QuietKeeps ==
  ASSUME PInv, NEW p \in Nodes, Quiet(p), Level, Clear => Clear'
  PROVE  Local(p)'
<1>1. First \in Rivals /\ Second \in Rivals
  BY DEF Rivals
<1>2. \A x \in Rivals : Done(x)' <=> Done(x)
  BY LevelDone
<1>3. /\ \A x \in Rivals :
           /\ Way'[x][p]["REQUEST"] = Way[x][p]["REQUEST"]
           /\ Way'[x][p]["RELEASE"] = Way[x][p]["RELEASE"]
           /\ Way'[x][p]["RELINQUISH"] = Way[x][p]["RELINQUISH"]
           /\ Way'[p][x]["LOCK"] = Way[p][x]["LOCK"]
           /\ Way'[p][x]["FAIL"] = Way[p][x]["FAIL"]
           /\ Way'[p][x]["INQUIRE"] = Way[p][x]["INQUIRE"]
      /\ Probes(p)' = Probes(p)
  BY <1>1 DEF Quiet, Kept, Probes
<1>4. Local(p)
  BY DEF PInv, Duel
<1>5. \A x \in Rivals : Untouched(x, p)' <=> Untouched(x, p)
  BY <1>1, <1>3 DEF Quiet, Untouched
<1>6. Passes(p)' /\ Section(p)'
  BY <1>1, <1>2, <1>3, <1>4, <1>5 DEF Quiet, Level, Local, Passes, Passing, Section
<1>7. FirstHolds(p)' /\ SecondHolds(p)'
  BY <1>1, <1>2, <1>3, <1>4 DEF Quiet, Level, Local, FirstHolds, SecondHolds
<1>8. Probing(p)' /\ SecondFails(p)'
  BY <1>1, <1>2, <1>3, <1>4 DEF Quiet, Level, Local, Probing, SecondFails
<1>9. SecondOver(p)' /\ FirstOver(p)'
  BY <1>1, <1>2, <1>3, <1>4 DEF Quiet, Level, Local, SecondOver, FirstOver
<1>. QED
  BY <1>6, <1>7, <1>8, <1>9 DEF Local

LEMMA ClearKept ==
  ASSUME PInv, NEW n \in Nodes, \A p \in Nodes \ {n} : Kept(Second, p, {}),
         Done(Second) => Way'[n][Second]["FAIL"] = Way[n][Second]["FAIL"],
         Done(Second)' <=> Done(Second),
         \A q \in Nodes : Got'[Second][q] = "FAIL" => Got[Second][q] = "FAIL"
  PROVE  Clear => Clear'
<1>1. ASSUME NEW q \in Nodes, Done(Second)
      PROVE  Way'[q][Second]["FAIL"] = Way[q][Second]["FAIL"]
  BY <1>1 DEF Kept
<1>. QED
  BY <1>1 DEF Clear

\* A new message on a legal route keeps Routes, and so does a message that is gone.
LEMMA RoutesReplaced ==
  ASSUME PInv, NEW p \in Nodes, NEW x \in Nodes, NEW k \in Kinds,
         NEW q \in Nodes, NEW y \in Nodes, NEW c \in Kinds,
         Replaces(p, x, k, q, y, c), Route(q, y, c)
  PROVE  Routes'
<1>. SUFFICES ASSUME NEW u \in Nodes, NEW v \in Nodes, NEW t \in Kinds, Way'[u][v][t] > 0
     PROVE  Route(u, v, t)
  BY DEF Routes, Route
<1>1. Way'[u][v][t] = Way[u][v][t] - Bit(u = p /\ v = x /\ t = k) + Bit(u = q /\ v = y /\ t = c)
  BY DEF Replaces
<1>2. CASE u = q /\ v = y /\ t = c
  BY <1>2
<1>3. CASE ~(u = q /\ v = y /\ t = c)
  <2>1. Way[u][v][t] \in Nat
    BY RivalFacts
  <2>2. Way[u][v][t] > 0
    BY <1>1, <1>3, <2>1 DEF Bit
  <2>. QED
    BY <2>2 DEF PInv, Duel, Routes
<1>. QED
  BY <1>2, <1>3

LEMMA RoutesLost ==
  ASSUME PInv, NEW p \in Nodes, NEW x \in Nodes, NEW k \in Kinds, Loses(p, x, k)
  PROVE  Routes'
<1>. SUFFICES ASSUME NEW u \in Nodes, NEW v \in Nodes, NEW t \in Kinds, Way'[u][v][t] > 0
     PROVE  Route(u, v, t)
  BY DEF Routes, Route
<1>1. Way'[u][v][t] = Way[u][v][t] - Bit(u = p /\ v = x /\ t = k)
  BY DEF Loses
<1>2. Way[u][v][t] \in Nat
  BY RivalFacts
<1>3. Way[u][v][t] > 0
  BY <1>1, <1>2 DEF Bit
<1>. QED
  BY <1>3 DEF PInv, Duel, Routes

\* Replaces and Loses leave every other count alone.
LEMMA ReplacesStays ==
  ASSUME PInv, NEW p \in Nodes, NEW x \in Nodes, NEW k \in Kinds,
         NEW q \in Nodes, NEW y \in Nodes, NEW c \in Kinds,
         Replaces(p, x, k, q, y, c), ~(p = q /\ x = y /\ k = c)
  PROVE  /\ \A u, v \in Nodes : \A t \in Kinds :
              ~(u = p /\ v = x /\ t = k) /\ ~(u = q /\ v = y /\ t = c) =>
                Way'[u][v][t] = Way[u][v][t]
         /\ Way'[p][x][k] = Way[p][x][k] - 1
         /\ Way'[q][y][c] = Way[q][y][c] + 1
<1>1. \A u, v \in Nodes : \A t \in Kinds : Way[u][v][t] \in Nat
  BY RivalFacts
<1>. QED
  BY <1>1 DEF Replaces, Bit

LEMMA LosesStays ==
  ASSUME PInv, NEW p \in Nodes, NEW x \in Nodes, NEW k \in Kinds, Loses(p, x, k)
  PROVE  /\ \A u, v \in Nodes : \A t \in Kinds :
              ~(u = p /\ v = x /\ t = k) => Way'[u][v][t] = Way[u][v][t]
         /\ Way'[p][x][k] = Way[p][x][k] - 1
<1>1. \A u, v \in Nodes : \A t \in Kinds : Way[u][v][t] \in Nat
  BY RivalFacts
<1>. QED
  BY <1>1 DEF Loses, Bit

\* n handles a message of the competitor x and answers the competitor y.
LEMMA AnswerKept ==
  ASSUME PInv, NEW n \in Nodes, n \notin Rivals, NEW x \in Rivals, NEW y \in Rivals,
         NEW k \in {"REQUEST", "RELEASE", "RELINQUISH"}, NEW c \in {"LOCK", "FAIL", "INQUIRE"},
         Replaces(x, n, k, n, y, c)
  PROVE  /\ \A z \in Rivals : \A S : (z = x => k \in S) /\ (z = y => c \in S) => Kept(z, n, S)
         /\ \A p \in Nodes \ {n} : \A z \in Rivals : Kept(z, p, {})
         /\ Way'[x][n][k] = Way[x][n][k] - 1
         /\ Way'[n][y][c] = Way[n][y][c] + 1
<1>1. /\ k \in Kinds /\ c \in Kinds /\ k # c
      /\ \A z \in Rivals : z \in Nodes /\ z # n
  BY ApartFacts DEF Kinds, NotRequest, Rivals, PInv
<1>2. /\ \A u, v \in Nodes : \A t \in Kinds :
           ~(u = x /\ v = n /\ t = k) /\ ~(u = n /\ v = y /\ t = c) => Way'[u][v][t] = Way[u][v][t]
      /\ Way'[x][n][k] = Way[x][n][k] - 1
      /\ Way'[n][y][c] = Way[n][y][c] + 1
  BY <1>1, ReplacesStays
<1>3. ASSUME NEW z \in Rivals, NEW S, z = x => k \in S, z = y => c \in S
      PROVE  Kept(z, n, S)
  BY <1>1, <1>2, <1>3, KeptBut
<1>4. ASSUME NEW z \in Rivals, NEW p \in Nodes \ {n}
      PROVE  Kept(z, p, {})
  BY <1>1, <1>2, KeptBut
<1>. QED
  BY <1>2, <1>3, <1>4

\* n handles a message of the competitor x in silence.
LEMMA SilenceKept ==
  ASSUME PInv, NEW n \in Nodes, n \notin Rivals, NEW x \in Rivals,
         NEW k \in {"REQUEST", "RELEASE", "RELINQUISH"}, Loses(x, n, k)
  PROVE  /\ \A z \in Rivals : \A S : (z = x => k \in S) => Kept(z, n, S)
         /\ \A p \in Nodes \ {n} : \A z \in Rivals : Kept(z, p, {})
         /\ Way'[x][n][k] = Way[x][n][k] - 1
<1>1. k \in Kinds /\ \A z \in Rivals : z \in Nodes /\ z # n
  BY ApartFacts DEF Kinds, NotRequest, Rivals, PInv
<1>2. /\ \A u, v \in Nodes : \A t \in Kinds :
           ~(u = x /\ v = n /\ t = k) => Way'[u][v][t] = Way[u][v][t]
      /\ Way'[x][n][k] = Way[x][n][k] - 1
  BY <1>1, LosesStays
<1>3. ASSUME NEW z \in Rivals, NEW S, z = x => k \in S
      PROVE  Kept(z, n, S)
  BY <1>1, <1>2, <1>3, KeptBut
<1>4. ASSUME NEW z \in Rivals, NEW p \in Nodes \ {n}
      PROVE  Kept(z, p, {})
  BY <1>1, <1>2, KeptBut
<1>. QED
  BY <1>2, <1>3, <1>4

\* The competitor x reads an answer of n.
LEMMA ReadKept ==
  ASSUME PInv, NEW n \in Nodes, n \notin Rivals, NEW x \in Rivals,
         NEW c \in {"LOCK", "FAIL", "INQUIRE"}, Loses(n, x, c)
  PROVE  /\ \A z \in Rivals : \A S : (z = x => c \in S) => Kept(z, n, S)
         /\ \A p \in Nodes \ {n} : \A z \in Rivals : Kept(z, p, {})
         /\ Way'[n][x][c] = Way[n][x][c] - 1
<1>1. c \in Kinds /\ \A z \in Rivals : z \in Nodes /\ z # n
  BY ApartFacts DEF Kinds, NotRequest, Rivals, PInv
<1>2. /\ \A u, v \in Nodes : \A t \in Kinds :
           ~(u = n /\ v = x /\ t = c) => Way'[u][v][t] = Way[u][v][t]
      /\ Way'[n][x][c] = Way[n][x][c] - 1
  BY <1>1, LosesStays
<1>3. ASSUME NEW z \in Rivals, NEW S, z = x => c \in S
      PROVE  Kept(z, n, S)
  BY <1>1, <1>2, <1>3, KeptBut
<1>4. ASSUME NEW z \in Rivals, NEW p \in Nodes \ {n}
      PROVE  Kept(z, p, {})
  BY <1>1, <1>2, KeptBut
<1>. QED
  BY <1>2, <1>3, <1>4

\* The fate of a Settled node when nothing near it and no competitor changes.
LEMMA SettlesKept ==
  ASSUME PInv, Level, \A q \in Common : Settled(q) /\ Done(First) => Settled(q)'
  PROVE  Settles'
<1>1. First \in Rivals /\ (Done(First)' <=> Done(First))
  BY LevelDone DEF Rivals
<1>2. ASSUME Done(First) PROVE \E q \in Common : Settled(q)'
  <2>1. PICK q \in Common : Settled(q)
    BY <1>2 DEF PInv, Duel, Settles
  <2>. QED
    BY <1>2, <2>1
<1>3. Settles' <=> (Done(First)' => \E q \in Common : Settled(q)')
  BY DEF Settles
<1>. QED
  BY <1>1, <1>2, <1>3

LEMMA QuietSettled ==
  ASSUME PInv, NEW q \in Nodes, Settled(q), Quiet(q), Level
  PROVE  Settled(q)'
<1>1. First \in Rivals /\ Second \in Rivals
  BY DEF Rivals
<1>2. \A x \in Rivals : Done(x)' <=> Done(x)
  BY LevelDone
<1>3. \A x \in Rivals :
        /\ Way'[x][q]["REQUEST"] = Way[x][q]["REQUEST"]
        /\ Way'[x][q]["RELEASE"] = Way[x][q]["RELEASE"]
        /\ Way'[q][x]["LOCK"] = Way[q][x]["LOCK"]
  BY <1>1 DEF Quiet, Kept
<1>. QED
  BY <1>1, <1>2, <1>3 DEF Quiet, Level, Settled

-----------------------------------------------------------------------------
\* Request.
LEMMA RequestKeeps ==
  ASSUME PInv, NEW n \in Nodes, NEW x, RequestView(n, x)
  PROVE  Duel'
<1>1. /\ Plain /\ First \in Rivals /\ Second \in Rivals /\ x \in Rivals /\ x \in Nodes
      /\ First \in Nodes /\ Second \in Nodes /\ First # Second /\ Ask(First) # Ask(Second)
      /\ "REQUEST" \in Kinds /\ "RELEASE" \in Kinds /\ "RELINQUISH" \in Kinds
      /\ "LOCK" \in Kinds /\ "FAIL" \in Kinds /\ "INQUIRE" \in Kinds
  BY RivalFacts DEF RequestView, Rivals, Plain, Kinds, NotRequest
<1>2. /\ n \in PeerSet(x) /\ n \notin Rivals /\ Ask(x) \notin waiting_queue[n]
      /\ Untouched(x, n) /\ ~is_inCS[x] /\ waiting_queue[x] # {} /\ ~Done(x)
      /\ Way[x][n]["REQUEST"] = 1
  <2>1. Way[x][n]["REQUEST"] > 0 /\ Way[x][n]["REQUEST"] >= 1
    BY <1>1, RivalFacts DEF RequestView
  <2>2. /\ n \in PeerSet(x) /\ n \notin Rivals /\ Ask(x) \notin waiting_queue[n]
        /\ Untouched(x, n) /\ ~is_inCS[x] /\ waiting_queue[x] # {}
        /\ Way[x][n]["REQUEST"] <= 1
    BY <1>1, <2>1 DEF PInv, Duel, Local, Passes, Passing, Routes, Route, Plain
  <2>. QED
    BY <1>1, <2>1, <2>2, RivalFacts DEF Done
<1>3. Level
  BY <1>1, <1>2 DEF RequestView, Level, AnyFail, Plain
<1>4. \A p \in Nodes \ {n} : Quiet(p)
  <2>1. \A p \in Nodes \ {n} : \A z \in Rivals : Kept(z, p, {})
    BY <1>1, <1>2, AnswerKept DEF RequestView
  <2>2. \A p \in Nodes \ {n} :
          locked_for'[p] = locked_for[p] /\ waiting_queue'[p] = waiting_queue[p]
    BY <1>1 DEF RequestView, Plain
  <2>. QED
    BY <2>1, <2>2 DEF Quiet, RequestView
<1>5. /\ Passing(First, n) /\ Passing(Second, n) /\ Section(n) /\ FirstHolds(n) /\ SecondHolds(n)
      /\ Probing(n) /\ SecondFails(n) /\ SecondOver(n) /\ FirstOver(n)
  BY DEF PInv, Duel, Local, Passes, Rivals
<1>6. waiting_queue'[n] = waiting_queue[n] \cup {Ask(x)}
  BY <1>1 DEF Plain, RequestView
<1>7. /\ \A z \in Rivals : Done(z)' <=> Done(z)
      /\ Listed'[n] = Listed[n] /\ \A z \in Rivals : Got'[z][n] = Got[z][n]
      /\ \A z \in Rivals : is_inCS'[z] <=> is_inCS[z]
      /\ AnyFail' <=> AnyFail
      /\ seq' = seq
      /\ \A z \in Rivals : waiting_queue'[z] = waiting_queue[z]
  BY <1>1, <1>2, <1>3, LevelDone DEF RequestView, Level
<1>8. Counted(First, n) /\ Counted(Second, n) /\ Listed[n] \in Nat
  BY <1>1, Numbers
<1>9. ASSUME waiting_queue[n] = {}, locked_for' = [locked_for EXCEPT ![n] = Ask(x)],
             Replaces(x, n, "REQUEST", n, x, "LOCK")
      PROVE  Routes' /\ Local(n)' /\ (Settled(n) => Settled(n)')
             /\ (Done(Second) => Way'[n][Second]["FAIL"] = Way[n][Second]["FAIL"])
  <2>1. Routes'
    BY <1>1, <1>2, <1>9, RoutesReplaced DEF Route
  <2>2. /\ Kept(x, n, {"REQUEST", "LOCK"}) /\ \A z \in Rivals \ {x} : Kept(z, n, {})
        /\ Way'[x][n]["REQUEST"] = 0 /\ Way'[n][x]["LOCK"] = 1
    <3>1. /\ \A z \in Rivals : \A S : (z = x => "REQUEST" \in S) /\ (z = x => "LOCK" \in S) => Kept(z, n, S)
          /\ Way'[x][n]["REQUEST"] = Way[x][n]["REQUEST"] - 1
          /\ Way'[n][x]["LOCK"] = Way[n][x]["LOCK"] + 1
      BY <1>1, <1>2, <1>9, AnswerKept
    <3>. QED
      BY <1>1, <1>2, <3>1 DEF Untouched
  <2>3. /\ locked_for'[n] = Ask(x) /\ waiting_queue'[n] = {Ask(x)} /\ waiting_queue[n] = {}
        /\ locked_for[n] = NoLock /\ NoLock # Ask(First) /\ NoLock # Ask(Second)
    BY <1>1, <1>6, <1>9 DEF Plain
  <2>4. Local(n)'
    <3>1. CASE x = First
      <4>1. /\ Kept(First, n, {"REQUEST", "LOCK"}) /\ Kept(Second, n, {})
            /\ Way'[First][n]["REQUEST"] = 0 /\ Way'[n][First]["LOCK"] = 1
        BY <1>1, <2>2, <3>1
      <4>11. Passing(First, n)' /\ Passing(Second, n)'
        BY <1>1, <1>2, <1>5, <1>7, <2>3, <4>1, <3>1 DEF Passing, Untouched, Kept
      <4>12. Section(n)' /\ FirstHolds(n)' /\ SecondHolds(n)'
        BY <1>1, <1>2, <1>5, <1>7, <2>3, <4>1, <3>1 DEF Section, FirstHolds, SecondHolds, Untouched, Kept
      <4>13. Probing(n)' /\ SecondFails(n)'
        BY <1>1, <1>2, <1>5, <1>7, <2>3, <4>1, <3>1 DEF Probing, SecondFails, Probes, Untouched, Kept
      <4>14. SecondOver(n)' /\ FirstOver(n)'
        BY <1>1, <1>2, <1>5, <1>7, <2>3, <4>1, <3>1 DEF SecondOver, FirstOver, Untouched, Kept
      <4>. QED
        BY <4>11, <4>12, <4>13, <4>14 DEF Local, Passes, Rivals
    <3>2. CASE x = Second
      <4>1. /\ Kept(Second, n, {"REQUEST", "LOCK"}) /\ Kept(First, n, {})
            /\ Way'[Second][n]["REQUEST"] = 0 /\ Way'[n][Second]["LOCK"] = 1
        BY <1>1, <2>2, <3>2
      <4>11. Passing(First, n)' /\ Passing(Second, n)'
        BY <1>1, <1>2, <1>5, <1>7, <2>3, <4>1, <3>2 DEF Passing, Untouched, Kept
      <4>12. Section(n)' /\ FirstHolds(n)' /\ SecondHolds(n)'
        BY <1>1, <1>2, <1>5, <1>7, <2>3, <4>1, <3>2 DEF Section, FirstHolds, SecondHolds, Untouched, Kept
      <4>13. Probing(n)' /\ SecondFails(n)'
        BY <1>1, <1>2, <1>5, <1>7, <2>3, <4>1, <3>2 DEF Probing, SecondFails, Probes, Untouched, Kept
      <4>14. SecondOver(n)' /\ FirstOver(n)'
        BY <1>1, <1>2, <1>5, <1>7, <2>3, <4>1, <3>2 DEF SecondOver, FirstOver, Untouched, Kept
      <4>. QED
        BY <4>11, <4>12, <4>13, <4>14 DEF Local, Passes, Rivals
    <3>. QED
      BY <1>1, <3>1, <3>2 DEF Rivals
  <2>5. ASSUME Settled(n) PROVE Settled(n)'
    <3>1. x = Second /\ Kept(Second, n, {"REQUEST", "LOCK"}) /\ Kept(First, n, {})
      BY <1>1, <1>2, <2>2, <2>5 DEF Settled, Rivals
    <3>. QED
      BY <1>1, <1>2, <1>7, <2>2, <2>3, <2>5, <3>1 DEF Settled, Kept, Untouched
  <2>6. Way'[n][Second]["FAIL"] = Way[n][Second]["FAIL"]
    BY <1>1, <2>2 DEF Kept
  <2>. QED
    BY <2>1, <2>4, <2>5, <2>6
<1>10. ASSUME x = First, waiting_queue[n] = {Ask(Second)}, UNCHANGED locked_for,
              Replaces(First, n, "REQUEST", n, Second, "INQUIRE")
       PROVE  Routes' /\ Local(n)' /\ (Settled(n) => Settled(n)')
              /\ (Done(Second) => Way'[n][Second]["FAIL"] = Way[n][Second]["FAIL"])
  <2>1. /\ n \in Common /\ seq[Second] = 2 /\ locked_for[n] = Ask(Second)
        /\ Ask(First) \notin waiting_queue[n] /\ Ask(Second) \in waiting_queue[n]
        /\ waiting_queue'[n] = {Ask(First), Ask(Second)} /\ locked_for'[n] = Ask(Second)
    BY <1>1, <1>2, <1>6, <1>10 DEF Plain, Common
  <2>2. Routes'
    BY <1>1, <1>10, <2>1, RoutesReplaced DEF Route
  <2>3. /\ Kept(First, n, {"REQUEST"}) /\ Kept(Second, n, {"INQUIRE"})
        /\ Way'[First][n]["REQUEST"] = 0
        /\ Way'[n][Second]["INQUIRE"] = Way[n][Second]["INQUIRE"] + 1
    <3>1. /\ \A z \in Rivals : \A S :
               (z = First => "REQUEST" \in S) /\ (z = Second => "INQUIRE" \in S) => Kept(z, n, S)
          /\ Way'[First][n]["REQUEST"] = Way[First][n]["REQUEST"] - 1
          /\ Way'[n][Second]["INQUIRE"] = Way[n][Second]["INQUIRE"] + 1
      BY <1>1, <1>2, <1>10, AnswerKept
    <3>. QED
      BY <1>1, <1>2, <1>10, <3>1
  <2>4. ~Done(Second) => Probes(n) = 0 /\ Probes(n)' = 1 /\ Way[Second][n]["RELINQUISH"] = 0
    <3>1. ~Done(Second) => ~(Probes(n) > 0)
      BY <1>2, <1>5, <1>10, <2>1 DEF Probing
    <3>2. /\ Way'[n][Second]["INQUIRE"] = Way[n][Second]["INQUIRE"] + 1 /\ Listed'[n] = Listed[n]
          /\ Way'[Second][n]["RELINQUISH"] = Way[Second][n]["RELINQUISH"]
      BY <1>7, <2>3 DEF Kept
    <3>3. /\ Way[n][Second]["INQUIRE"] \in Nat /\ Listed[n] \in Nat
          /\ Way[Second][n]["RELINQUISH"] \in Nat
      BY <1>8 DEF Counted
    <3>4. ~Done(Second) => /\ Way[n][Second]["INQUIRE"] = 0 /\ Listed[n] = 0
                            /\ Way[Second][n]["RELINQUISH"] = 0
      BY <3>1, <3>3 DEF Probes
    <3>. QED
      BY <3>2, <3>4 DEF Probes
  <2>5. Local(n)'
    <3>1. Passing(First, n)' /\ Passing(Second, n)'
      BY <1>1, <1>2, <1>5, <1>7, <1>10, <2>1, <2>3 DEF Passing, Untouched, Kept
    <3>2. Section(n)' /\ FirstHolds(n)' /\ SecondHolds(n)'
      BY <1>1, <1>2, <1>5, <1>7, <1>10, <2>1, <2>3 DEF Section, FirstHolds, SecondHolds, Untouched, Kept
    <3>3. Probing(n)' /\ SecondFails(n)'
      BY <1>1, <1>2, <1>5, <1>7, <1>10, <2>1, <2>3, <2>4 DEF Probing, SecondFails, Kept
    <3>4. SecondOver(n)' /\ FirstOver(n)'
      BY <1>1, <1>2, <1>5, <1>7, <1>10, <2>1, <2>3 DEF SecondOver, FirstOver, Kept
    <3>. QED
      BY <3>1, <3>2, <3>3, <3>4 DEF Local, Passes, Rivals
  <2>6. ~Settled(n)
    BY <1>2, <1>10 DEF Settled
  <2>7. Way'[n][Second]["FAIL"] = Way[n][Second]["FAIL"]
    BY <2>3 DEF Kept
  <2>. QED
    BY <2>2, <2>5, <2>6, <2>7
<1>11. ASSUME x = Second, waiting_queue[n] = {Ask(First)}, UNCHANGED locked_for,
              Replaces(Second, n, "REQUEST", n, Second, "FAIL")
       PROVE  Routes' /\ Local(n)' /\ (Settled(n) => Settled(n)')
              /\ (Done(Second) => Way'[n][Second]["FAIL"] = Way[n][Second]["FAIL"])
  <2>1. /\ n \in Common /\ seq[First] = 2 /\ locked_for[n] = Ask(First)
        /\ Ask(Second) \notin waiting_queue[n] /\ Ask(First) \in waiting_queue[n]
        /\ waiting_queue'[n] = {Ask(First), Ask(Second)} /\ locked_for'[n] = Ask(First)
    BY <1>1, <1>2, <1>6, <1>11 DEF Plain, Common
  <2>2. Routes'
    BY <1>1, <1>11, <2>1, RoutesReplaced DEF Route
  <2>3. /\ Kept(First, n, {}) /\ Kept(Second, n, {"REQUEST", "FAIL"})
        /\ Way'[Second][n]["REQUEST"] = 0 /\ Way'[n][Second]["FAIL"] = 1
    <3>1. /\ \A z \in Rivals : \A S :
               (z = Second => "REQUEST" \in S) /\ (z = Second => "FAIL" \in S) => Kept(z, n, S)
          /\ Way'[Second][n]["REQUEST"] = Way[Second][n]["REQUEST"] - 1
          /\ Way'[n][Second]["FAIL"] = Way[n][Second]["FAIL"] + 1
      BY <1>1, <1>2, <1>11, AnswerKept
    <3>. QED
      BY <1>1, <1>2, <1>11, <3>1 DEF Untouched
  <2>4. Local(n)'
    <3>1. Probes(n) = 0 /\ Probes(n)' = 0
      BY <1>2, <1>7, <1>11, <2>3 DEF Probes, Kept, Untouched
    <3>2. Passing(First, n)' /\ Passing(Second, n)'
      BY <1>1, <1>2, <1>5, <1>7, <1>11, <2>1, <2>3 DEF Passing, Untouched, Kept
    <3>3. Section(n)' /\ FirstHolds(n)' /\ SecondHolds(n)'
      BY <1>1, <1>2, <1>5, <1>7, <1>11, <2>1, <2>3 DEF Section, FirstHolds, SecondHolds, Untouched, Kept
    <3>4. Probing(n)' /\ SecondFails(n)'
      BY <1>1, <1>2, <1>5, <1>7, <1>11, <2>1, <2>3, <3>1 DEF Probing, SecondFails, Untouched, Kept
    <3>5. SecondOver(n)' /\ FirstOver(n)'
      BY <1>1, <1>2, <1>5, <1>7, <1>11, <2>1, <2>3 DEF SecondOver, FirstOver, Untouched, Kept
    <3>. QED
      BY <3>2, <3>3, <3>4, <3>5 DEF Local, Passes, Rivals
  <2>5. ASSUME Settled(n) PROVE Settled(n)'
    BY <1>1, <1>2, <1>7, <1>11, <2>1, <2>3, <2>5 DEF Settled, Kept, Untouched
  <2>6. ~Done(Second)
    BY <1>2, <1>11
  <2>. QED
    BY <2>2, <2>4, <2>5, <2>6
<1>12. /\ Routes' /\ Local(n)' /\ (Settled(n) => Settled(n)')
       /\ (Done(Second) => Way'[n][Second]["FAIL"] = Way[n][Second]["FAIL"])
  BY <1>9, <1>10, <1>11 DEF RequestView
<1>13. Settles'
  <2>1. \A q \in Nodes : Settled(q) => Settled(q)'
    BY <1>3, <1>4, <1>12, QuietSettled
  <2>2. Common \subseteq Nodes
    BY <1>1 DEF Common, Plain
  <2>. QED
    BY <1>3, <2>1, <2>2, SettlesKept
<1>14. \A p \in Nodes : Local(p)'
  <2>1. Clear => Clear'
    BY <1>1, <1>4, <1>7, <1>12, ClearKept DEF Quiet, RequestView
  <2>. QED
    BY <1>3, <1>4, <1>12, <2>1, QuietKeeps
<1>15. Records'
  BY DEF RequestView, Records, PInv, Duel
<1>16. Calm'
  <2>1. Ask(x) # Stray
    BY <1>1, ApartFacts DEF PInv, Rivals
  <2>2. \A u \in Nodes : locked_for'[u] = locked_for[u] \/ locked_for'[u] = Ask(x)
    BY <1>1 DEF RequestView, Plain
  <2>3. \A u \in Nodes : waiting_queue[u] # {} => waiting_queue'[u] # {}
    BY <1>1 DEF RequestView, Plain
  <2>. QED
    BY <2>1, <2>2, <2>3 DEF RequestView, Calm, PInv, Duel
<1>. QED
  BY <1>12, <1>13, <1>14, <1>15, <1>16 DEF Duel

\* Release.
LEMMA ReleaseKeeps ==
  ASSUME PInv, NEW n \in Nodes, n \notin Rivals, NEW x \in Rivals, NEW y \in Rivals,
         ReleaseView(n, x, y)
  PROVE  Duel'
<1>1. /\ Plain /\ First \in Rivals /\ Second \in Rivals
      /\ First \in Nodes /\ Second \in Nodes /\ First # Second /\ Ask(First) # Ask(Second)
      /\ (x = First /\ y = Second) \/ (x = Second /\ y = First)
      /\ x \in Nodes /\ y \in Nodes /\ "RELEASE" \in Kinds /\ "LOCK" \in Kinds
  BY RivalFacts DEF ReleaseView, Rivals, Plain, Kinds, NotRequest
<1>2. Done(x) /\ Way[x][n]["RELEASE"] = 1 /\ waiting_queue[n] \subseteq {Ask(x), Ask(y)}
  <2>1. Way[x][n]["RELEASE"] > 0 /\ Way[x][n]["RELEASE"] >= 1 /\ Way[x][n]["RELEASE"] \in Nat
    BY <1>1, RivalFacts DEF ReleaseView
  <2>2. Done(x) /\ Way[x][n]["RELEASE"] <= 1
    BY <2>1 DEF PInv, Duel, Local, Passes, Passing
  <2>3. waiting_queue[n] \subseteq {Ask(x), Ask(y)}
    BY <1>1 DEF Plain
  <2>. QED
    BY <2>1, <2>2, <2>3
<1>3. Level
  BY <1>1 DEF ReleaseView, Level, AnyFail, Plain
<1>4. \A p \in Nodes \ {n} : Quiet(p)
  <2>1. \A p \in Nodes \ {n} : \A z \in Rivals : Kept(z, p, {})
    BY <1>1, AnswerKept, SilenceKept DEF ReleaseView
  <2>2. \A p \in Nodes \ {n} :
          locked_for'[p] = locked_for[p] /\ waiting_queue'[p] = waiting_queue[p]
    BY <1>1 DEF ReleaseView, Plain
  <2>. QED
    BY <2>1, <2>2 DEF Quiet, ReleaseView
<1>5. /\ Passing(First, n) /\ Passing(Second, n) /\ Section(n) /\ FirstHolds(n) /\ SecondHolds(n)
      /\ Probing(n) /\ SecondFails(n) /\ SecondOver(n) /\ FirstOver(n)
  BY DEF PInv, Duel, Local, Passes, Rivals
<1>6. /\ waiting_queue'[n] = waiting_queue[n] \ {Ask(x)}
      /\ Ask(y) \in waiting_queue[n] => seq[y] = 2
  BY <1>1 DEF Plain, ReleaseView
<1>7. /\ \A z \in Rivals : Done(z)' <=> Done(z)
      /\ Listed'[n] = Listed[n] /\ \A z \in Rivals : Got'[z][n] = Got[z][n]
      /\ \A z \in Rivals : is_inCS'[z] <=> is_inCS[z]
      /\ AnyFail' <=> AnyFail
      /\ seq' = seq
      /\ \A z \in Rivals : waiting_queue'[z] = waiting_queue[z]
  BY <1>1, <1>3, LevelDone DEF ReleaseView, Level
<1>8. ASSUME Ask(y) \in waiting_queue[n], locked_for' = [locked_for EXCEPT ![n] = Ask(y)],
             Replaces(x, n, "RELEASE", n, y, "LOCK")
      PROVE  Routes' /\ Local(n)' /\ (Settled(n) => Settled(n)') /\ (Clear => Clear')
  <2>1. n \in PeerSet(y) /\ waiting_queue'[n] = {Ask(y)} /\ locked_for'[n] = Ask(y)
    BY <1>1, <1>2, <1>6, <1>8 DEF Plain
  <2>2. Routes'
    BY <1>1, <1>8, <2>1, RoutesReplaced DEF Route
  <2>3. /\ Kept(x, n, {"RELEASE"}) /\ Kept(y, n, {"LOCK"})
        /\ Way'[x][n]["RELEASE"] = 0 /\ Way'[n][y]["LOCK"] = Way[n][y]["LOCK"] + 1
    <3>1. /\ \A z \in Rivals : \A S : (z = x => "RELEASE" \in S) /\ (z = y => "LOCK" \in S) => Kept(z, n, S)
          /\ Way'[x][n]["RELEASE"] = Way[x][n]["RELEASE"] - 1
          /\ Way'[n][y]["LOCK"] = Way[n][y]["LOCK"] + 1
      BY <1>8, AnswerKept
    <3>. QED
      BY <1>1, <1>2, <3>1
  <2>4. Way[n][y]["LOCK"] = 0 => Way'[n][y]["LOCK"] = 1
    BY <2>3
  <2>7. Clear => Clear'
    <3>1. Way'[n][Second]["FAIL"] = Way[n][Second]["FAIL"] /\ \A q \in Nodes : Got'[Second][q] = Got[Second][q]
      BY <1>1, <2>3 DEF Kept, ReleaseView
    <3>. QED
      BY <1>1, <1>4, <1>7, <3>1, ClearKept DEF Quiet
  <2>5. CASE x = First /\ y = Second
    <3>1. Local(n)'
      <4>1. Passing(First, n)' /\ Passing(Second, n)'
        BY <1>1, <1>2, <1>5, <1>6, <1>7, <1>8, <2>1, <2>3, <2>5 DEF Passing, Untouched, Kept
      <4>2. Section(n)' /\ FirstHolds(n)' /\ SecondHolds(n)'
        BY <1>1, <1>2, <1>5, <1>7, <2>3, <2>5 DEF Section, FirstHolds, SecondHolds, Kept
      <4>3. Probing(n)' /\ SecondFails(n)'
        BY <1>1, <1>2, <1>5, <1>7, <2>3, <2>5 DEF Probing, SecondFails, Kept
      <4>4. SecondOver(n)' /\ FirstOver(n)'
        BY <1>1, <1>2, <1>5, <1>7, <2>3, <2>5, <2>7 DEF SecondOver, FirstOver, Kept
      <4>. QED
        BY <4>1, <4>2, <4>3, <4>4 DEF Local, Passes, Rivals
    <3>2. ASSUME Settled(n) PROVE Settled(n)'
      BY <1>1, <1>2, <1>7, <1>8, <2>1, <2>3, <2>4, <2>5, <3>2 DEF Settled, Kept
    <3>. QED
      BY <2>2, <2>7, <3>1, <3>2
  <2>6. CASE x = Second /\ y = First
    <3>1. ~Done(First) => Way[n][First]["LOCK"] = 0 /\ Got[First][n] # "LOCK"
      <4>1. ~Done(First) => locked_for[n] = Ask(Second)
        BY <1>2, <1>5, <2>6 DEF SecondOver
      <4>2. Way[n][First]["LOCK"] \in Nat
        BY <1>1, Numbers DEF Counted
      <4>. QED
        BY <1>1, <1>5, <4>1, <4>2 DEF FirstHolds
    <3>2. Local(n)'
      <4>1. Passing(First, n)' /\ Passing(Second, n)'
        BY <1>1, <1>2, <1>5, <1>6, <1>7, <1>8, <2>1, <2>3, <2>6 DEF Passing, Untouched, Kept
      <4>2. Section(n)' /\ FirstHolds(n)' /\ SecondHolds(n)'
        BY <1>1, <1>2, <1>5, <1>7, <2>1, <2>3, <2>4, <2>6, <3>1 DEF Section, FirstHolds, SecondHolds, Kept
      <4>3. Probing(n)' /\ SecondFails(n)'
        BY <1>1, <1>2, <1>5, <1>7, <2>3, <2>6 DEF Probing, SecondFails, Kept
      <4>4. SecondOver(n)' /\ FirstOver(n)'
        BY <1>1, <1>2, <1>5, <1>7, <2>1, <2>3, <2>6, <2>7 DEF SecondOver, FirstOver, Kept
      <4>. QED
        BY <4>1, <4>2, <4>3, <4>4 DEF Local, Passes, Rivals
    <3>3. ~Settled(n)
      BY <1>2, <1>8, <2>6 DEF Settled
    <3>. QED
      BY <2>2, <2>7, <3>2, <3>3
  <2>. QED
    BY <1>1, <2>5, <2>6, <2>7
<1>9. ASSUME Ask(y) \notin waiting_queue[n], locked_for' = [locked_for EXCEPT ![n] = NoLock],
             Loses(x, n, "RELEASE")
      PROVE  Routes' /\ Local(n)' /\ (Settled(n) => Settled(n)') /\ (Clear => Clear')
  <2>1. /\ waiting_queue'[n] = {} /\ locked_for'[n] = NoLock
        /\ NoLock # Ask(First) /\ NoLock # Ask(Second)
    BY <1>1, <1>2, <1>6, <1>9 DEF Plain
  <2>2. Routes'
    BY <1>1, <1>9, RoutesLost
  <2>3. Kept(x, n, {"RELEASE"}) /\ Kept(y, n, {}) /\ Way'[x][n]["RELEASE"] = 0
    <3>1. /\ \A z \in Rivals : \A S : (z = x => "RELEASE" \in S) => Kept(z, n, S)
          /\ Way'[x][n]["RELEASE"] = Way[x][n]["RELEASE"] - 1
      BY <1>9, SilenceKept
    <3>. QED
      BY <1>1, <1>2, <3>1
  <2>10. Clear => Clear'
    <3>1. Way'[n][Second]["FAIL"] = Way[n][Second]["FAIL"] /\ \A q \in Nodes : Got'[Second][q] = Got[Second][q]
      BY <1>1, <2>3 DEF Kept, ReleaseView
    <3>. QED
      BY <1>1, <1>4, <1>7, <3>1, ClearKept DEF Quiet
  <2>4. Passing(First, n)' /\ Passing(Second, n)'
    BY <1>1, <1>2, <1>5, <1>6, <1>7, <1>9, <2>1, <2>3 DEF Passing, Untouched, Kept
  <2>5. Section(n)' /\ FirstHolds(n)' /\ SecondHolds(n)'
    BY <1>1, <1>2, <1>5, <1>7, <1>9, <2>1, <2>3 DEF Section, FirstHolds, SecondHolds, Kept
  <2>6. Probing(n)' /\ SecondFails(n)'
    BY <1>1, <1>2, <1>5, <1>7, <1>9, <2>1, <2>3 DEF Probing, SecondFails, Kept
  <2>7. SecondOver(n)' /\ FirstOver(n)'
    BY <1>1, <1>2, <1>5, <1>7, <1>9, <2>1, <2>3, <2>10 DEF SecondOver, FirstOver, Kept
  <2>8. Local(n)'
    BY <2>4, <2>5, <2>6, <2>7 DEF Local, Passes, Rivals
  <2>9. ASSUME Settled(n) PROVE Settled(n)'
    BY <1>1, <1>2, <1>7, <1>9, <2>1, <2>3, <2>9 DEF Settled, Kept
  <2>. QED
    BY <2>2, <2>8, <2>9, <2>10
<1>10. Routes' /\ Local(n)' /\ (Settled(n) => Settled(n)') /\ (Clear => Clear')
  BY <1>8, <1>9 DEF ReleaseView
<1>11. Settles'
  <2>1. \A q \in Nodes : Settled(q) => Settled(q)'
    BY <1>3, <1>4, <1>10, QuietSettled
  <2>2. Common \subseteq Nodes
    BY <1>1 DEF Common, Plain
  <2>. QED
    BY <1>3, <2>1, <2>2, SettlesKept
<1>12. \A p \in Nodes : Local(p)'
  BY <1>3, <1>4, <1>10, QuietKeeps
<1>13. Records'
  BY DEF ReleaseView, Records, PInv, Duel
<1>14. Calm'
  <2>1. Ask(y) # Stray /\ NoLock # Stray
    BY <1>1, ApartFacts DEF PInv, Rivals
  <2>2. \A u \in Nodes : locked_for'[u] = locked_for[u] \/ locked_for'[u] = Ask(y) \/ locked_for'[u] = NoLock
    BY <1>1 DEF ReleaseView, Plain
  <2>3. \A u \in Rivals : waiting_queue'[u] = waiting_queue[u]
    BY <1>7
  <2>. QED
    BY <2>1, <2>2, <2>3 DEF ReleaseView, Calm, PInv, Duel
<1>. QED
  BY <1>10, <1>11, <1>12, <1>13, <1>14 DEF Duel

\* Relinquish.
LEMMA RelinquishKeeps ==
  ASSUME PInv, NEW n \in Nodes, RelinquishView(n)
  PROVE  Duel'
<1>1. /\ Plain /\ First \in Rivals /\ Second \in Rivals
      /\ First \in Nodes /\ Second \in Nodes /\ First # Second /\ Ask(First) # Ask(Second)
      /\ "RELINQUISH" \in Kinds /\ "LOCK" \in Kinds
      /\ n \in PeerSet(First) /\ n \notin Rivals
  BY RivalFacts DEF RelinquishView, Rivals, Plain, Kinds, NotRequest, Common
<1>2. /\ ~Done(First) /\ ~Done(Second) /\ locked_for[n] = Ask(Second)
      /\ waiting_queue[n] = {Ask(First), Ask(Second)} /\ waiting_queue'[n] = waiting_queue[n]
      /\ locked_for'[n] = Ask(First) /\ seq[First] = 2 /\ seq[Second] = 2
  BY <1>1 DEF RelinquishView, Plain
<1>3. Level
  BY DEF RelinquishView, Level, AnyFail
<1>4. /\ \A z \in Rivals : \A S : (z = Second => "RELINQUISH" \in S) /\ (z = First => "LOCK" \in S) => Kept(z, n, S)
      /\ \A p \in Nodes \ {n} : \A z \in Rivals : Kept(z, p, {})
      /\ Way'[Second][n]["RELINQUISH"] = Way[Second][n]["RELINQUISH"] - 1
      /\ Way'[n][First]["LOCK"] = Way[n][First]["LOCK"] + 1
  BY <1>1, AnswerKept DEF RelinquishView
<1>5. \A p \in Nodes \ {n} : Quiet(p)
  BY <1>1, <1>4 DEF Quiet, RelinquishView, Plain
<1>6. /\ Passing(First, n) /\ Passing(Second, n) /\ Section(n) /\ FirstHolds(n) /\ SecondHolds(n)
      /\ Probing(n) /\ SecondFails(n) /\ SecondOver(n) /\ FirstOver(n)
  BY DEF PInv, Duel, Local, Passes, Rivals
<1>7. /\ \A z \in Rivals : Done(z)' <=> Done(z)
      /\ Listed'[n] = Listed[n] /\ \A z \in Rivals : Got'[z][n] = Got[z][n]
      /\ \A z \in Rivals : is_inCS'[z] <=> is_inCS[z]
      /\ AnyFail' <=> AnyFail
      /\ seq' = seq
      /\ \A z \in Rivals : waiting_queue'[z] = waiting_queue[z]
  BY <1>1, <1>3, LevelDone DEF RelinquishView, Level
<1>8. /\ Way[Second][n]["RELINQUISH"] = 1 /\ Way[n][Second]["INQUIRE"] = 0 /\ Listed[n] = 0
      /\ AnyFail /\ Probes(n) = 1
  <2>1. /\ Way[n][Second]["INQUIRE"] \in Nat /\ Listed[n] \in Nat
        /\ Way[Second][n]["RELINQUISH"] \in Nat /\ Way[Second][n]["RELINQUISH"] >= 1
    BY <1>1, Numbers DEF Counted, RelinquishView
  <2>2. Probes(n) <= 1 /\ (Way[Second][n]["RELINQUISH"] > 0 => AnyFail)
    BY <1>2, <1>6 DEF Probing
  <2>3. Probes(n) = Way[n][Second]["INQUIRE"] + Listed[n] + Way[Second][n]["RELINQUISH"]
    BY DEF Probes
  <2>4. /\ Way[Second][n]["RELINQUISH"] = 1 /\ Way[n][Second]["INQUIRE"] = 0 /\ Listed[n] = 0
        /\ Probes(n) = 1
    BY <2>1, <2>2, <2>3
  <2>. QED
    BY <2>1, <2>2, <2>4
<1>9. Way[n][First]["LOCK"] = 0 /\ Got[First][n] # "LOCK"
  <2>1. Way[n][First]["LOCK"] \in Nat
    BY <1>1, Numbers DEF Counted
  <2>. QED
    BY <1>1, <1>2, <1>6, <2>1 DEF FirstHolds
<1>10. /\ Kept(First, n, {"LOCK"}) /\ Kept(Second, n, {"RELINQUISH"})
       /\ Way'[Second][n]["RELINQUISH"] = 0 /\ Way'[n][First]["LOCK"] = 1
  BY <1>1, <1>4, <1>8, <1>9
<1>11. Probes(n)' = 0
  BY <1>7, <1>8, <1>10 DEF Probes, Kept
<1>12. Local(n)'
  <2>1. Passing(First, n)' /\ Passing(Second, n)'
    BY <1>1, <1>2, <1>6, <1>7, <1>10 DEF Passing, Untouched, Kept
  <2>2. Section(n)' /\ FirstHolds(n)' /\ SecondHolds(n)'
    BY <1>1, <1>2, <1>6, <1>7, <1>8, <1>9, <1>10 DEF Section, FirstHolds, SecondHolds, Kept
  <2>3. Probing(n)' /\ SecondFails(n)'
    BY <1>1, <1>2, <1>6, <1>7, <1>8, <1>10, <1>11 DEF Probing, SecondFails, Kept
  <2>4. SecondOver(n)' /\ FirstOver(n)'
    BY <1>1, <1>2, <1>7 DEF SecondOver, FirstOver
  <2>. QED
    BY <2>1, <2>2, <2>3, <2>4 DEF Local, Passes, Rivals
<1>13. \A p \in Nodes : Local(p)'
  <2>1. ~Clear
    BY <1>2 DEF Clear
  <2>. QED
    BY <1>3, <1>5, <1>12, <2>1, QuietKeeps
<1>14. Routes'
  BY <1>1, RoutesReplaced DEF Route, RelinquishView
<1>15. Settles'
  BY <1>1, <1>2, <1>7 DEF Settles
<1>16. Records'
  BY DEF RelinquishView, Records, PInv, Duel
<1>17. Calm'
  <2>1. Ask(First) # Stray
    BY ApartFacts DEF PInv
  <2>2. \A u \in Nodes : locked_for'[u] = locked_for[u] \/ locked_for'[u] = Ask(First)
    BY <1>1 DEF RelinquishView, Plain
  <2>. QED
    BY <2>1, <2>2 DEF RelinquishView, Calm, PInv, Duel
<1>. QED
  BY <1>13, <1>14, <1>15, <1>16, <1>17 DEF Duel

\* Locked.
LEMMA LockedKeeps ==
  ASSUME PInv, NEW p \in Nodes, NEW x \in Rivals, LockedView(x, p)
  PROVE  Duel'
<1>1. /\ Plain /\ First \in Rivals /\ Second \in Rivals
      /\ First \in Nodes /\ Second \in Nodes /\ First # Second
      /\ x \in Nodes /\ p \notin Rivals /\ p \in PeerSet(x) /\ "LOCK" \in Kinds
  BY RivalFacts DEF LockedView, Rivals, Plain, Kinds, NotRequest
<1>2. Way[p][x]["LOCK"] # 0 /\ Way[p][x]["LOCK"] > 0
  <2>1. Way[p][x]["LOCK"] \in Nat /\ Way[p][x]["LOCK"] >= 1
    BY <1>1, RivalFacts DEF LockedView
  <2>. QED
    BY <2>1
<1>3. /\ \A z \in Rivals : \A S : (z = x => "LOCK" \in S) => Kept(z, p, S)
      /\ \A q \in Nodes \ {p} : \A z \in Rivals : Kept(z, q, {})
      /\ Way'[p][x]["LOCK"] = Way[p][x]["LOCK"] - 1
  BY <1>1, ReadKept DEF LockedView
<1>4. /\ seq' = seq /\ waiting_queue' = waiting_queue /\ locked_for' = locked_for /\ Listed' = Listed
      /\ \A z \in Rivals : \A q \in Nodes :
           Got'[z][q] = IF z = x /\ q = p THEN "LOCK" ELSE Got[z][q]
      /\ \A z \in Rivals : z # x => (is_inCS'[z] <=> is_inCS[z])
      /\ is_inCS[x] => is_inCS'[x]
      /\ is_inCS'[x] => is_inCS[x] \/ \A q \in PeerSet(x) : Got'[x][q] = "LOCK"
  BY <1>1 DEF LockedView, Rivals
<1>5. (Done(First)' <=> Done(First)) /\ (Done(Second)' <=> Done(Second))
  BY <1>4 DEF Done
<1>6. \A q \in Nodes :
        /\ Passing(First, q) /\ Passing(Second, q) /\ Section(q) /\ FirstHolds(q) /\ SecondHolds(q)
        /\ Probing(q) /\ SecondFails(q) /\ SecondOver(q) /\ FirstOver(q)
  BY DEF PInv, Duel, Local, Passes, Rivals
<1>7. ~Done(First) => (AnyFail' <=> AnyFail)
  <2>1. ~Done(First) /\ x = Second => Got[Second][p] # "FAIL"
    BY <1>2, <1>6 DEF SecondFails
  <2>2. \A q \in Nodes : ~Done(First) => (Got'[Second][q] = "FAIL" <=> Got[Second][q] = "FAIL")
    BY <1>1, <1>4, <2>1
  <2>. QED
    BY <2>2 DEF AnyFail
<1>8. seq[x] = 2
  BY <1>1, <1>2, <1>6 DEF Passing, Untouched, Plain, Rivals
<1>9. waiting_queue[x] # {} \/ ~is_inCS'[x]
  <2>. SUFFICES ASSUME waiting_queue[x] = {}, is_inCS'[x]
       PROVE  FALSE
    OBVIOUS
  <2>1. Done(x) /\ ~is_inCS[x] /\ \A q \in PeerSet(x) : Got'[x][q] = "LOCK"
    BY <1>1, <1>4, <1>8 DEF Done, PInv, Duel, Calm
  <2>2. CASE Done(First)
    <3>1. PICK q \in Common : Settled(q)
      BY <2>2 DEF PInv, Duel, Settles
    <3>2. q \in Nodes /\ Got[x][q] # "LOCK" /\ Way[q][x]["LOCK"] = 0
      BY <1>1, <2>1, <3>1 DEF Settled, Common, Plain, Rivals
    <3>3. q # p /\ q \in PeerSet(x)
      BY <1>2, <3>2 DEF Common, Rivals
    <3>. QED
      BY <1>1, <1>4, <2>1, <3>2, <3>3
  <2>3. CASE ~Done(First)
    <3>1. x = Second
      BY <2>1, <2>3 DEF Rivals
    <3>. QED
      BY <1>2, <1>6, <2>1, <2>3, <3>1 DEF SecondOver
  <2>. QED
    BY <2>2, <2>3
<1>18. Clear => Clear'
  <2>1. Kept(Second, p, {"LOCK"}) /\ \A q \in Nodes \ {p} : Kept(Second, q, {})
    BY <1>1, <1>3
  <2>2. Way'[p][Second]["FAIL"] = Way[p][Second]["FAIL"]
    BY <2>1 DEF Kept
  <2>3. \A q \in Nodes : Got'[Second][q] = "FAIL" => Got[Second][q] = "FAIL"
    BY <1>1, <1>4
  <2>. QED
    BY <1>5, <2>1, <2>2, <2>3, ClearKept
<1>10. ASSUME NEW q \in Nodes, q # p PROVE Local(q)'
  <2>1. /\ \A z \in Rivals : Kept(z, q, {}) /\ Got'[z][q] = Got[z][q]
        /\ Listed'[q] = Listed[q] /\ Probes(q)' = Probes(q)
    BY <1>1, <1>3, <1>4, <1>10 DEF Kept, Probes
  <2>2. is_inCS'[x] => is_inCS[x] \/ (q \in PeerSet(x) => Got[x][q] = "LOCK")
    BY <1>4, <2>1
  <2>3. Way[x][q]["REQUEST"] > 0 => q \in PeerSet(x)
    BY <1>1 DEF PInv, Duel, Routes, Route, Kinds, NotRequest
  <2>4. Way[x][q]["REQUEST"] > 0 => ~is_inCS'[x]
    <3>1. Way[x][q]["REQUEST"] > 0 => ~is_inCS[x] /\ Got[x][q] = "none"
      BY <1>6 DEF Passing, Untouched, Rivals
    <3>. QED
      BY <2>2, <2>3, <3>1
  <2>5. Passing(First, q)' /\ Passing(Second, q)'
    BY <1>1, <1>4, <1>5, <1>6, <2>1, <2>4 DEF Passing, Untouched, Kept, Rivals
  <2>6. Section(q)'
    BY <1>1, <1>4, <1>5, <1>6, <2>1, <2>2 DEF Section
  <2>7. FirstHolds(q)' /\ SecondHolds(q)'
    BY <1>1, <1>4, <1>5, <1>6, <1>7, <2>1 DEF FirstHolds, SecondHolds, Kept
  <2>8. Probing(q)' /\ SecondFails(q)'
    BY <1>1, <1>4, <1>5, <1>6, <1>7, <2>1 DEF Probing, SecondFails, Kept
  <2>9. SecondOver(q)' /\ FirstOver(q)'
    BY <1>1, <1>4, <1>5, <1>6, <1>18, <2>1 DEF SecondOver, FirstOver, Kept
  <2>. QED
    BY <2>5, <2>6, <2>7, <2>8, <2>9 DEF Local, Passes, Rivals
<1>11. Local(p)'
  <2>1. /\ Kept(x, p, {"LOCK"}) /\ \A z \in Rivals \ {x} : Kept(z, p, {}) /\ Got'[z][p] = Got[z][p]
        /\ Listed'[p] = Listed[p] /\ Got'[x][p] = "LOCK"
    BY <1>1, <1>3, <1>4
  <2>2. Probes(p)' = Probes(p)
    BY <1>1, <2>1 DEF Probes, Kept
  <2>3. ~(Way[x][p]["REQUEST"] > 0)
    BY <1>1, <1>2, <1>6 DEF Passing, Untouched, Rivals
  <2>4. Way[p][x]["LOCK"] <= 1 => Way'[p][x]["LOCK"] = 0
    <3>1. Way[p][x]["LOCK"] \in Nat
      BY <1>1, RivalFacts
    <3>. QED
      BY <1>2, <1>3, <3>1
  <2>5. Passing(First, p)' /\ Passing(Second, p)'
    BY <1>1, <1>4, <1>5, <1>6, <1>8, <2>1, <2>3 DEF Passing, Untouched, Kept, Rivals
  <2>6. Section(p)'
    BY <1>1, <1>4, <1>5, <1>6, <2>1 DEF Section
  <2>7. CASE x = First
    <3>1. FirstHolds(p)' /\ SecondHolds(p)'
      BY <1>1, <1>2, <1>4, <1>5, <1>6, <1>7, <2>1, <2>4, <2>7 DEF FirstHolds, SecondHolds, Kept
    <3>2. Probing(p)' /\ SecondFails(p)'
      BY <1>1, <1>4, <1>5, <1>6, <1>7, <2>1, <2>2, <2>7 DEF Probing, SecondFails, Kept
    <3>3. SecondOver(p)' /\ FirstOver(p)'
      BY <1>1, <1>2, <1>4, <1>5, <1>6, <1>18, <2>1, <2>7 DEF SecondOver, FirstOver, Kept
    <3>. QED
      BY <2>5, <2>6, <3>1, <3>2, <3>3 DEF Local, Passes, Rivals
  <2>8. CASE x = Second
    <3>1. FirstHolds(p)' /\ SecondHolds(p)'
      BY <1>1, <1>2, <1>4, <1>5, <1>6, <1>7, <2>1, <2>4, <2>8 DEF FirstHolds, SecondHolds, Kept
    <3>2. Probing(p)' /\ SecondFails(p)'
      BY <1>1, <1>2, <1>4, <1>5, <1>6, <1>7, <2>1, <2>2, <2>8 DEF Probing, SecondFails, Kept
    <3>3. SecondOver(p)' /\ FirstOver(p)'
      BY <1>1, <1>2, <1>4, <1>5, <1>6, <1>18, <2>1, <2>8 DEF SecondOver, FirstOver, Kept
    <3>. QED
      BY <2>5, <2>6, <3>1, <3>2, <3>3 DEF Local, Passes, Rivals
  <2>. QED
    BY <2>7, <2>8 DEF Rivals
<1>12. ASSUME NEW q \in Common, Settled(q), Done(First) PROVE Settled(q)'
  <2>1. q \in Nodes /\ q \in PeerSet(x)
    BY <1>1, <1>12 DEF Common, Plain, Rivals
  <2>2. is_inCS'[x] => is_inCS[x] \/ Got'[x][q] = "LOCK"
    BY <1>4, <2>1
  <2>3. CASE q # p
    <3>1. \A z \in Rivals : Kept(z, q, {}) /\ Got'[z][q] = Got[z][q]
      BY <1>1, <1>3, <1>4, <2>1, <2>3
    <3>. QED
      BY <1>1, <1>4, <1>5, <1>12, <2>2, <3>1 DEF Settled, Kept, Rivals
  <2>4. CASE q = p
    <3>1. x = Second
      BY <1>2, <1>12, <2>4 DEF Settled, Rivals
    <3>2. /\ Kept(Second, q, {"LOCK"}) /\ Kept(First, q, {}) /\ Got'[First][q] = Got[First][q]
          /\ Got'[Second][q] = "LOCK"
      BY <1>1, <1>3, <1>4, <2>4, <3>1
    <3>3. Way[q][Second]["LOCK"] <= 1 => Way'[q][Second]["LOCK"] = 0
      <4>1. Way[p][x]["LOCK"] \in Nat
        BY <1>1, RivalFacts
      <4>. QED
        BY <1>2, <1>3, <2>4, <3>1, <4>1
    <3>. QED
      BY <1>1, <1>2, <1>4, <1>5, <1>12, <2>4, <3>1, <3>2, <3>3 DEF Settled, Kept
  <2>. QED
    BY <2>3, <2>4
<1>13. Settles'
  <2>1. ASSUME Done(First) PROVE \E q \in Common : Settled(q)'
    <3>1. PICK q \in Common : Settled(q)
      BY <2>1 DEF PInv, Duel, Settles
    <3>. QED
      BY <1>12, <2>1, <3>1
  <2>2. Settles' <=> (Done(First)' => \E q \in Common : Settled(q)')
    BY DEF Settles
  <2>. QED
    BY <1>5, <2>1, <2>2
<1>14. Routes'
  BY <1>1, RoutesLost DEF LockedView
<1>15. Records'
  BY <1>1 DEF LockedView, Records, PInv, Duel
<1>16. Calm'
  BY <1>1, <1>9 DEF LockedView, Calm, PInv, Duel
<1>17. \A q \in Nodes : Local(q)'
  BY <1>10, <1>11
<1>. QED
  BY <1>13, <1>14, <1>15, <1>16, <1>17 DEF Duel

\* Failed.
LEMMA FailedKeeps ==
  ASSUME PInv, NEW p \in Nodes, FailedView(p)
  PROVE  Duel'
<1>1. /\ Plain /\ First \in Rivals /\ Second \in Rivals
      /\ First \in Nodes /\ Second \in Nodes /\ First # Second
      /\ p \in Common /\ Common \subseteq Nodes /\ Common \subseteq PeerSet(Second)
      /\ "FAIL" \in Kinds /\ "RELINQUISH" \in Kinds
  BY RivalFacts DEF FailedView, Rivals, Plain, Kinds, NotRequest, Common
<1>2. \A q \in Nodes :
        /\ Passing(First, q) /\ Passing(Second, q) /\ Section(q) /\ FirstHolds(q) /\ SecondHolds(q)
        /\ Probing(q) /\ SecondFails(q) /\ SecondOver(q) /\ FirstOver(q)
  BY DEF PInv, Duel, Local, Passes, Rivals
<1>3. Way[p][Second]["FAIL"] # 0 /\ Way[p][Second]["FAIL"] > 0 /\ Way[p][Second]["FAIL"] \in Nat
  <2>1. Way[p][Second]["FAIL"] \in Nat /\ Way[p][Second]["FAIL"] >= 1
    BY <1>1, RivalFacts DEF FailedView
  <2>. QED
    BY <2>1
<1>4. /\ seq' = seq /\ waiting_queue' = waiting_queue /\ locked_for' = locked_for /\ is_inCS' = is_inCS
      /\ \A z \in Rivals : \A q \in Nodes :
           Got'[z][q] = IF z = Second /\ q = p THEN "FAIL" ELSE Got[z][q]
      /\ \A q \in Nodes : Listed'[q] = 0
  BY <1>1 DEF FailedView, Rivals
<1>5. (Done(First)' <=> Done(First)) /\ (Done(Second)' <=> Done(Second))
  BY <1>4 DEF Done
<1>6. AnyFail' /\ ~Clear
  BY <1>1, <1>3, <1>4 DEF AnyFail, Clear
<1>7. ASSUME NEW q \in Nodes
      PROVE  /\ Kept(First, q, {}) /\ Kept(Second, q, {"FAIL", "RELINQUISH"})
             /\ Way'[Second][q]["RELINQUISH"] = Way[Second][q]["RELINQUISH"] + Listed[q]
             /\ IF q = p THEN Way'[p][Second]["FAIL"] = Way[p][Second]["FAIL"] - 1
                         ELSE Way'[q][Second]["FAIL"] = Way[q][Second]["FAIL"]
  <2>1. \A u, v \in Nodes : \A t \in Kinds : Way[u][v][t] \in Nat
    BY RivalFacts
  <2>2. \A u, v \in Nodes : \A t \in Kinds :
          ~(u = p /\ v = Second /\ t = "FAIL") /\ ~(u = Second /\ t = "RELINQUISH") =>
            Way'[u][v][t] = Way[u][v][t]
    BY <2>1 DEF FailedView, Bit
  <2>3. p # Second /\ p # First
    BY <1>1 DEF Common, Plain
  <2>4. Kept(First, q, {})
    BY <1>1, <2>2, <2>3 DEF Kept, Kinds, NotRequest
  <2>5. Kept(Second, q, {"FAIL", "RELINQUISH"})
    BY <1>1, <2>2, KeptBut
  <2>6. /\ Way'[Second][q]["RELINQUISH"] = Way[Second][q]["RELINQUISH"] + Listed[q]
        /\ IF q = p THEN Way'[p][Second]["FAIL"] = Way[p][Second]["FAIL"] - 1
                    ELSE Way'[q][Second]["FAIL"] = Way[q][Second]["FAIL"]
    BY <1>1, <1>3, <2>1, <2>3 DEF FailedView, Bit
  <2>. QED
    BY <2>4, <2>5, <2>6
<1>8. ASSUME NEW q \in Nodes
      PROVE  /\ Listed[q] \in Nat
             /\ Way[Second][q]["RELINQUISH"] \in Nat
             /\ Way[Second][q]["RELINQUISH"] = 0 /\ Listed[q] = 0 => Way'[Second][q]["RELINQUISH"] = 0
             /\ Listed[q] = 0 => Way'[Second][q]["RELINQUISH"] = Way[Second][q]["RELINQUISH"]
             /\ Probes(q)' = Probes(q)
  <2>1. /\ Listed[q] \in Nat /\ Way[Second][q]["RELINQUISH"] \in Nat
        /\ Way[q][Second]["INQUIRE"] \in Nat
    BY <1>1, Numbers DEF Counted
  <2>2. /\ Way'[Second][q]["RELINQUISH"] = Way[Second][q]["RELINQUISH"] + Listed[q]
        /\ Listed'[q] = 0 /\ Way'[q][Second]["INQUIRE"] = Way[q][Second]["INQUIRE"]
    BY <1>4, <1>7 DEF Kept
  <2>3. Probes(q)' = Probes(q)
    BY <2>1, <2>2 DEF Probes
  <2>. QED
    BY <2>1, <2>2, <2>3
<1>9. Done(First) => \A q \in Nodes : Way'[Second][q]["RELINQUISH"] = 0 /\ Way[q][Second]["INQUIRE"] = 0
  <2>. SUFFICES ASSUME Done(First), NEW q \in Nodes
       PROVE  Way'[Second][q]["RELINQUISH"] = 0 /\ Way[q][Second]["INQUIRE"] = 0
    OBVIOUS
  <2>1. ~(Listed[q] > 0) /\ ~(Way[q][Second]["INQUIRE"] > 0) /\ Way[Second][q]["RELINQUISH"] = 0
    BY <1>2, <1>6 DEF FirstOver
  <2>2. Listed[q] \in Nat /\ Way[q][Second]["INQUIRE"] \in Nat
    BY <1>1, Numbers DEF Counted
  <2>3. Listed[q] = 0 /\ Way[q][Second]["INQUIRE"] = 0
    BY <2>1, <2>2
  <2>. QED
    BY <1>8, <2>1, <2>3
<1>10. ~Done(First) => /\ Got[Second][p] = "none" /\ ~Done(Second) /\ Ask(First) \in waiting_queue[p]
                       /\ Way[p][Second]["LOCK"] = 0 /\ Probes(p) = 0 /\ Way'[p][Second]["FAIL"] = 0
  <2>1. ~Done(First) => /\ Got[Second][p] = "none" /\ ~Done(Second) /\ Ask(First) \in waiting_queue[p]
                        /\ Way[p][Second]["LOCK"] = 0 /\ Probes(p) = 0 /\ Way[p][Second]["FAIL"] <= 1
    BY <1>2, <1>3 DEF SecondFails
  <2>2. Way'[p][Second]["FAIL"] = Way[p][Second]["FAIL"] - 1
    BY <1>7
  <2>3. ~Done(First) => Way'[p][Second]["FAIL"] = 0
    BY <1>3, <2>1, <2>2
  <2>. QED
    BY <2>1, <2>3
<1>11. ASSUME NEW q \in Nodes PROVE Local(q)'
  <2>1. q = p => /\ seq[Second] # 1 /\ ~(Way[Second][q]["REQUEST"] > 0)
    BY <1>2, <1>3 DEF Passing, Untouched
  <2>2. Passing(First, q)' /\ Passing(Second, q)'
    BY <1>1, <1>2, <1>4, <1>5, <1>7, <1>8, <2>1, SMTT(30) DEF Passing, Untouched, Kept
  <2>3. Section(q)'
    BY <1>1, <1>2, <1>4, <1>5, <1>10 DEF Section
  <2>4. FirstHolds(q)' /\ SecondHolds(q)'
    BY <1>1, <1>2, <1>4, <1>5, <1>6, <1>7 DEF FirstHolds, SecondHolds, Kept
  <2>5. Probing(q)'
    BY <1>1, <1>2, <1>4, <1>5, <1>6, <1>8 DEF Probing
  <2>6. SecondFails(q)'
    BY <1>1, <1>2, <1>4, <1>5, <1>7, <1>8, <1>10 DEF SecondFails, Kept
  <2>7. SecondOver(q)'
    BY <1>5, <1>2, <1>10 DEF SecondOver
  <2>8. FirstOver(q)'
    BY <1>4, <1>5, <1>7, <1>9 DEF FirstOver, Kept
  <2>. QED
    BY <2>2, <2>3, <2>4, <2>5, <2>6, <2>7, <2>8 DEF Local, Passes, Rivals
<1>12. ASSUME NEW q \in Common, Settled(q) PROVE Settled(q)'
  BY <1>1, <1>4, <1>5, <1>7, <1>12 DEF Settled, Kept
<1>13. Settles'
  <2>1. ASSUME Done(First) PROVE \E q \in Common : Settled(q)'
    <3>1. PICK q \in Common : Settled(q)
      BY <2>1 DEF PInv, Duel, Settles
    <3>. QED
      BY <1>12, <3>1
  <2>2. Settles' <=> (Done(First)' => \E q \in Common : Settled(q)')
    BY DEF Settles
  <2>. QED
    BY <1>5, <2>1, <2>2
<1>14. Routes'
  <2>. SUFFICES ASSUME NEW u \in Nodes, NEW v \in Nodes, NEW t \in Kinds, Way'[u][v][t] > 0
       PROVE  Route(u, v, t)
    BY DEF Routes, Route
  <2>1. CASE Way[u][v][t] > 0
    BY <2>1 DEF PInv, Duel, Routes
  <2>2. CASE ~(Way[u][v][t] > 0)
    <3>1. /\ Way[u][v][t] \in Nat /\ Listed[v] \in Nat
          /\ Way'[u][v][t] = Way[u][v][t] - Bit(u = p /\ v = Second /\ t = "FAIL")
                               + IF u = Second /\ t = "RELINQUISH" THEN Listed[v] ELSE 0
      BY RivalFacts DEF FailedView
    <3>2. u = Second /\ t = "RELINQUISH" /\ Listed[v] > 0
      BY <2>2, <3>1 DEF Bit
    <3>3. v \in Common
      BY <3>2 DEF PInv, Duel, Records
    <3>. QED
      BY <3>2, <3>3 DEF Route
  <2>. QED
    BY <2>1, <2>2
<1>15. Records'
  <2>1. \A x, q \in Nodes : Got'[x][q] = IF x = Second /\ q = p THEN "FAIL" ELSE Got[x][q]
    BY DEF FailedView
  <2>. QED
    BY <1>1, <1>4, <2>1 DEF Records, PInv, Duel
<1>16. Calm'
  BY <1>1 DEF FailedView, Calm, PInv, Duel
<1>. QED
  BY <1>11, <1>13, <1>14, <1>15, <1>16 DEF Duel

\* Inquire.
LEMMA InquiryKeeps ==
  ASSUME PInv, NEW p \in Nodes, InquiryView(p)
  PROVE  Duel'
<1>1. /\ Plain /\ First \in Rivals /\ Second \in Rivals
      /\ First \in Nodes /\ Second \in Nodes /\ First # Second
      /\ p \in Common /\ p \notin Rivals /\ Common \subseteq Nodes
      /\ "INQUIRE" \in Kinds /\ "RELINQUISH" \in Kinds
  BY RivalFacts DEF InquiryView, Rivals, Plain, Kinds, NotRequest, Common
<1>2. /\ Passing(First, p) /\ Passing(Second, p) /\ Section(p) /\ FirstHolds(p) /\ SecondHolds(p)
      /\ Probing(p) /\ SecondFails(p) /\ SecondOver(p) /\ FirstOver(p)
  BY DEF PInv, Duel, Local, Passes, Rivals
<1>3. /\ Way[p][Second]["INQUIRE"] >= 1 /\ Way[p][Second]["INQUIRE"] > 0 /\ Way[p][Second]["INQUIRE"] # 0
      /\ Way[p][Second]["INQUIRE"] \in Nat /\ Listed[p] \in Nat /\ Way[Second][p]["RELINQUISH"] \in Nat
  <2>1. /\ Way[p][Second]["INQUIRE"] \in Nat /\ Listed[p] \in Nat /\ Way[Second][p]["RELINQUISH"] \in Nat
    BY <1>1, Numbers DEF Counted
  <2>2. Way[p][Second]["INQUIRE"] >= 1
    BY DEF InquiryView
  <2>. QED
    BY <2>1, <2>2
<1>4. Level
  BY DEF InquiryView, Level, AnyFail
<1>5. /\ (Done(First)' <=> Done(First)) /\ (Done(Second)' <=> Done(Second)) /\ (AnyFail' <=> AnyFail)
      /\ seq' = seq /\ waiting_queue' = waiting_queue /\ locked_for' = locked_for /\ is_inCS' = is_inCS
      /\ Got' = Got
  BY <1>1, <1>4, LevelDone DEF Level, InquiryView
<1>6. AnyFail => ~Done(First) /\ ~Done(Second)
  <2>1. Done(First) => Clear
    BY <1>2, <1>3 DEF FirstOver
  <2>2. Done(Second) /\ ~Done(First) => \A q \in Nodes : Got[Second][q] = "none"
    BY DEF PInv, Duel, Local, SecondOver
  <2>. QED
    BY <2>1, <2>2 DEF Clear, AnyFail
<1>7. \/ /\ Loses(p, Second, "INQUIRE")
         /\ \A q \in Nodes \ {p} : Listed'[q] = Listed[q]
         /\ Listed'[p] = Listed[p] \/ Listed'[p] = Listed[p] + 1
      \/ /\ AnyFail /\ Listed' = Listed
         /\ Replaces(p, Second, "INQUIRE", Second, p, "RELINQUISH")
  <2>1. \A q \in Nodes : Listed[q] \in Nat
    BY RivalFacts
  <2>2. ASSUME \A v \in Nodes : Listed'[v] = Listed[v] + Bit(v = p)
        PROVE  /\ \A q \in Nodes \ {p} : Listed'[q] = Listed[q]
               /\ Listed'[p] = Listed[p] + 1
    BY <2>1, <2>2 DEF Bit
  <2>. QED
    BY <2>2 DEF InquiryView
<1>8. /\ \A q \in Nodes \ {p} : \A z \in Rivals : Kept(z, q, {})
      /\ Kept(First, p, {}) /\ Kept(Second, p, {"INQUIRE", "RELINQUISH"})
      /\ Way'[p][Second]["INQUIRE"] = Way[p][Second]["INQUIRE"] - 1
      /\ \A q \in Nodes \ {p} : Listed'[q] = Listed[q]
      /\ \/ /\ Way'[Second][p]["RELINQUISH"] = Way[Second][p]["RELINQUISH"]
            /\ Listed'[p] = Listed[p] \/ Listed'[p] = Listed[p] + 1
         \/ /\ AnyFail /\ Way'[Second][p]["RELINQUISH"] = Way[Second][p]["RELINQUISH"] + 1
            /\ Listed'[p] = Listed[p]
  <2>1. CASE /\ Loses(p, Second, "INQUIRE")
             /\ \A q \in Nodes \ {p} : Listed'[q] = Listed[q]
             /\ Listed'[p] = Listed[p] \/ Listed'[p] = Listed[p] + 1
    <3>1. /\ \A z \in Rivals : \A S : (z = Second => "INQUIRE" \in S) => Kept(z, p, S)
          /\ \A q \in Nodes \ {p} : \A z \in Rivals : Kept(z, q, {})
          /\ Way'[p][Second]["INQUIRE"] = Way[p][Second]["INQUIRE"] - 1
      BY <1>1, <2>1, ReadKept
    <3>2. Kept(Second, p, {"INQUIRE"})
      BY <1>1, <3>1
    <3>. QED
      BY <1>1, <2>1, <3>1, <3>2 DEF Kept
  <2>2. CASE /\ AnyFail /\ Listed' = Listed
             /\ Replaces(p, Second, "INQUIRE", Second, p, "RELINQUISH")
    <3>1. p # Second /\ p \in Nodes /\ Second \in Nodes
      BY <1>1
    <3>2. /\ \A u, v \in Nodes : \A t \in Kinds :
               ~(u = p /\ v = Second /\ t = "INQUIRE") /\ ~(u = Second /\ v = p /\ t = "RELINQUISH") =>
                 Way'[u][v][t] = Way[u][v][t]
          /\ Way'[p][Second]["INQUIRE"] = Way[p][Second]["INQUIRE"] - 1
          /\ Way'[Second][p]["RELINQUISH"] = Way[Second][p]["RELINQUISH"] + 1
      <4>1. "INQUIRE" \in Kinds /\ "RELINQUISH" \in Kinds
            /\ Replaces(p, Second, "INQUIRE", Second, p, "RELINQUISH")
        BY <1>1, <2>2
      <4>. QED
        BY <3>1, <4>1, ReplacesStays
    <3>3. ASSUME NEW q \in Nodes \ {p}, NEW z \in Rivals
          PROVE  Kept(z, q, {})
      <4>1. z \in Nodes /\ z # p
        BY <1>1 DEF Rivals
      <4>. QED
        BY <3>1, <3>2, <4>1, KeptBut
    <3>4. Kept(First, p, {}) /\ Kept(Second, p, {"INQUIRE", "RELINQUISH"})
      BY <1>1, <3>2, KeptBut
    <3>. QED
      BY <2>2, <3>2, <3>3, <3>4
  <2>. QED
    BY <1>7, <2>1, <2>2
<1>9. /\ Probes(p) # 0 /\ Probes(p) > 0 /\ (Probes(p) <= 1 => Probes(p)' <= 1)
      /\ Way'[Second][p]["RELINQUISH"] = Way[Second][p]["RELINQUISH"] \/ AnyFail
  <2>1. /\ Probes(p) = Way[p][Second]["INQUIRE"] + Listed[p] + Way[Second][p]["RELINQUISH"]
        /\ Probes(p)' = Way'[p][Second]["INQUIRE"] + Listed'[p] + Way'[Second][p]["RELINQUISH"]
    BY DEF Probes
  <2>2. Probes(p) > 0 /\ Probes(p) \in Nat
    BY <1>3, <2>1
  <2>3. Probes(p)' <= Probes(p) /\ Probes(p)' \in Int
    BY <1>3, <1>8, <2>1
  <2>4. Probes(p) # 0 /\ (Probes(p) <= 1 => Probes(p)' <= 1)
    BY <2>2, <2>3
  <2>. QED
    BY <1>8, <2>2, <2>4
<1>10. Clear => Clear'
  <2>1. Way'[p][Second]["FAIL"] = Way[p][Second]["FAIL"]
    BY <1>8 DEF Kept
  <2>. QED
    BY <1>1, <1>5, <1>8, <2>1, ClearKept
<1>11. Local(p)'
  <2>1. Passing(First, p)' /\ Passing(Second, p)'
    BY <1>1, <1>2, <1>3, <1>5, <1>8 DEF Passing, Untouched, Kept
  <2>2. Section(p)' /\ FirstHolds(p)' /\ SecondHolds(p)'
    BY <1>1, <1>2, <1>5, <1>8 DEF Section, FirstHolds, SecondHolds, Kept
  <2>3. Probing(p)' /\ SecondFails(p)'
    BY <1>1, <1>2, <1>5, <1>8, <1>9 DEF Probing, SecondFails, Kept
  <2>4. SecondOver(p)'
    BY <1>1, <1>2, <1>5, <1>6, <1>8, <1>9 DEF SecondOver, Kept
  <2>5. FirstOver(p)'
    BY <1>2, <1>3, <1>5, <1>6, <1>9, <1>10 DEF FirstOver
  <2>. QED
    BY <2>1, <2>2, <2>3, <2>4, <2>5 DEF Local, Passes, Rivals
<1>12. \A q \in Nodes \ {p} : Quiet(q)
  BY <1>5, <1>8 DEF Quiet
<1>13. \A q \in Nodes : Local(q)'
  BY <1>4, <1>10, <1>11, <1>12, QuietKeeps
<1>14. Settles'
  <2>1. Settled(p) => Settled(p)'
    BY <1>1, <1>5, <1>8 DEF Settled, Kept
  <2>2. \A q \in Nodes : Settled(q) => Settled(q)'
    BY <1>4, <1>12, <2>1, QuietSettled
  <2>. QED
    BY <1>1, <1>4, <2>2, SettlesKept
<1>15. Routes'
  <2>1. CASE Loses(p, Second, "INQUIRE")
    BY <1>1, <2>1, RoutesLost
  <2>2. CASE Replaces(p, Second, "INQUIRE", Second, p, "RELINQUISH")
    <3>1. Route(Second, p, "RELINQUISH")
      BY <1>1 DEF Route
    <3>. QED
      BY <1>1, <2>2, <3>1, RoutesReplaced
  <2>. QED
    BY <1>7, <2>1, <2>2
<1>16. Records'
  BY <1>1, <1>5, <1>8 DEF Records, PInv, Duel
<1>17. Calm'
  BY <1>1 DEF InquiryView, Calm, PInv, Duel
<1>. QED
  BY <1>13, <1>14, <1>15, <1>16, <1>17 DEF Duel

\* A count falls, or stays.
Sinks(u, v, t) ==
  /\ Way[u][v][t] <= 1 => Way'[u][v][t] <= 1
  /\ Way[u][v][t] = 0 => Way'[u][v][t] = 0
  /\ Way'[u][v][t] > 0 => Way[u][v][t] > 0

\* A switch process.
LEMMA SwitchKeeps ==
  ASSUME PInv, SwitchView
  PROVE  Duel'
<1>1. /\ Plain /\ First \in Rivals /\ Second \in Rivals
      /\ First \in Nodes /\ Second \in Nodes /\ First # Second /\ Common \subseteq Nodes
  BY RivalFacts DEF Rivals, Plain, Common
<1>2. /\ seq' = seq /\ waiting_queue' = waiting_queue /\ locked_for' = locked_for /\ is_inCS' = is_inCS
      /\ Got' = Got /\ Listed' = Listed
      /\ (Done(First)' <=> Done(First)) /\ (Done(Second)' <=> Done(Second)) /\ (AnyFail' <=> AnyFail)
  BY DEF SwitchView, Done, AnyFail
<1>3. ASSUME NEW u \in Nodes, NEW v \in Nodes, NEW t \in Kinds PROVE Sinks(u, v, t)
  <2>1. Way[u][v][t] \in Nat /\ Way'[u][v][t] \in Nat /\ Way'[u][v][t] <= Way[u][v][t]
    BY RivalFacts DEF SwitchView
  <2>. QED
    BY <2>1 DEF Sinks
<1>4. ASSUME NEW q \in Nodes
      PROVE  /\ \A z \in Rivals :
                  /\ Sinks(z, q, "REQUEST") /\ Sinks(z, q, "RELEASE") /\ Sinks(z, q, "RELINQUISH")
                  /\ Sinks(q, z, "LOCK") /\ Sinks(q, z, "FAIL") /\ Sinks(q, z, "INQUIRE")
             /\ Probes(q) <= 1 => Probes(q)' <= 1
             /\ Probes(q) = 0 => Probes(q)' = 0
             /\ Probes(q)' > 0 => Probes(q) > 0
  <2>1. \A z \in Rivals :
                  /\ Sinks(z, q, "REQUEST") /\ Sinks(z, q, "RELEASE") /\ Sinks(z, q, "RELINQUISH")
                  /\ Sinks(q, z, "LOCK") /\ Sinks(q, z, "FAIL") /\ Sinks(q, z, "INQUIRE")
    BY <1>1, <1>3 DEF Rivals, Kinds, NotRequest
  <2>2. /\ Way[q][Second]["INQUIRE"] \in Nat /\ Way[Second][q]["RELINQUISH"] \in Nat
        /\ Way'[q][Second]["INQUIRE"] \in Nat /\ Way'[Second][q]["RELINQUISH"] \in Nat
        /\ Way'[q][Second]["INQUIRE"] <= Way[q][Second]["INQUIRE"]
        /\ Way'[Second][q]["RELINQUISH"] <= Way[Second][q]["RELINQUISH"]
        /\ Listed[q] \in Nat /\ Listed'[q] = Listed[q]
    BY <1>1, <1>2, RivalFacts DEF SwitchView, Kinds, NotRequest
  <2>3. /\ Probes(q) = Way[q][Second]["INQUIRE"] + Listed[q] + Way[Second][q]["RELINQUISH"]
        /\ Probes(q)' = Way'[q][Second]["INQUIRE"] + Listed'[q] + Way'[Second][q]["RELINQUISH"]
    BY DEF Probes
  <2>4. Probes(q) \in Nat /\ Probes(q)' \in Nat /\ Probes(q)' <= Probes(q)
    BY <2>2, <2>3
  <2>5. /\ Probes(q) <= 1 => Probes(q)' <= 1
        /\ Probes(q) = 0 => Probes(q)' = 0
        /\ Probes(q)' > 0 => Probes(q) > 0
    BY <2>4
  <2>. QED
    BY <2>1, <2>5
<1>5. Clear => Clear'
  BY <1>1, <1>2, <1>4 DEF Clear, Sinks
<1>6. ASSUME NEW q \in Nodes PROVE Local(q)'
  <2>1. /\ Passing(First, q) /\ Passing(Second, q) /\ Section(q) /\ FirstHolds(q) /\ SecondHolds(q)
        /\ Probing(q) /\ SecondFails(q) /\ SecondOver(q) /\ FirstOver(q)
    BY DEF PInv, Duel, Local, Passes, Rivals
  <2>2. \A x \in Rivals : Untouched(x, q) => Untouched(x, q)'
    BY <1>2, <1>4 DEF Untouched, Sinks
  <2>3. Passing(First, q)' /\ Passing(Second, q)'
    BY <1>1, <1>2, <1>4, <2>1, <2>2 DEF Passing, Sinks
  <2>4. Section(q)' /\ FirstHolds(q)' /\ SecondHolds(q)'
    BY <1>1, <1>2, <1>4, <2>1 DEF Section, FirstHolds, SecondHolds, Sinks
  <2>5. Probing(q)' /\ SecondFails(q)'
    BY <1>1, <1>2, <1>4, <2>1 DEF Probing, SecondFails, Sinks
  <2>6. SecondOver(q)' /\ FirstOver(q)'
    BY <1>1, <1>2, <1>4, <1>5, <2>1 DEF SecondOver, FirstOver, Sinks
  <2>. QED
    BY <2>3, <2>4, <2>5, <2>6 DEF Local, Passes, Rivals
<1>7. Level
  BY <1>2 DEF Level
<1>8. Settles'
  <2>1. ASSUME NEW q \in Common, Settled(q) PROVE Settled(q)'
    <3>1. q \in Nodes
      BY <1>1
    <3>. QED
      BY <1>1, <1>2, <1>4, <2>1, <3>1 DEF Settled, Sinks
  <2>. QED
    BY <1>7, <2>1, SettlesKept
<1>9. Routes'
  BY <1>3 DEF Routes, Route, Sinks, PInv, Duel
<1>10. Records'
  BY <1>2 DEF Records, PInv, Duel
<1>11. Calm'
  BY DEF SwitchView, Calm, PInv, Duel
<1>. QED
  BY <1>6, <1>8, <1>9, <1>10, <1>11 DEF Duel


\* A competitor's broadcast reaches its peers and nobody else.
LEMMA SpreadKept ==
  ASSUME PInv, NEW x \in Rivals, NEW k \in {"REQUEST", "RELEASE"}, Spreads(x, k)
  PROVE  /\ \A q \in Nodes : \A z \in Rivals : \A S : (z = x => k \in S) => Kept(z, q, S)
         /\ \A q \in Nodes : Way'[x][q][k] = Way[x][q][k] + Bit(q \in PeerSet(x))
         /\ \A u, v \in Nodes : \A t \in Kinds : Way'[u][v][t] \in Nat
         /\ Routes'
<1>1. x \in Nodes /\ k \in Kinds /\ \A z \in Rivals : z \in Nodes
  BY ApartFacts DEF Kinds, NotRequest, Rivals, PInv
<1>2. \A u, v \in Nodes : \A t \in Kinds :
        /\ Way[u][v][t] \in Nat
        /\ Way'[u][v][t] = Way[u][v][t] + Bit(u = x /\ v \in PeerSet(x) /\ t = k)
  BY RivalFacts DEF Spreads
<1>3. \A u, v \in Nodes : \A t \in Kinds :
        /\ Way'[u][v][t] \in Nat
        /\ ~(u = x /\ v \in PeerSet(x) /\ t = k) => Way'[u][v][t] = Way[u][v][t]
  BY <1>2 DEF Bit
<1>4. ASSUME NEW q \in Nodes, NEW z \in Rivals, NEW S, z = x => k \in S
      PROVE  Kept(z, q, S)
  <2>1. z \in Nodes
    BY <1>1
  <2>2. /\ "REQUEST" \in Kinds /\ "RELEASE" \in Kinds /\ "RELINQUISH" \in Kinds
        /\ "LOCK" \in Kinds /\ "FAIL" \in Kinds /\ "INQUIRE" \in Kinds
    BY DEF Kinds, NotRequest
  <2>. QED
    BY <1>3, <1>4, <2>1, <2>2 DEF Kept
<1>5. \A q \in Nodes : Way'[x][q][k] = Way[x][q][k] + Bit(q \in PeerSet(x))
  BY <1>1, <1>2
<1>6. Routes'
  <2>. SUFFICES ASSUME NEW u \in Nodes, NEW v \in Nodes, NEW t \in Kinds, Way'[u][v][t] > 0
       PROVE  Route(u, v, t)
    BY DEF Routes, Route
  <2>1. CASE u = x /\ v \in PeerSet(x) /\ t = k
    BY <2>1 DEF Route
  <2>2. CASE ~(u = x /\ v \in PeerSet(x) /\ t = k)
    <3>1. Way[u][v][t] > 0
      BY <1>3, <2>2
    <3>. QED
      BY <3>1 DEF PInv, Duel, Routes
  <2>. QED
    BY <2>1, <2>2
<1>. QED
  BY <1>3, <1>4, <1>5, <1>6

\* No message that counts comes to a competitor or is answered by it.
LEMMA RivalLocal ==
  ASSUME PInv, NEW r \in Rivals, Routes', Records',
         \A u, v \in Nodes : \A t \in Kinds : Way'[u][v][t] \in Nat,
         \A q \in Nodes : Listed'[q] \in Nat,
         locked_for'[r] = Ask(First) => Ask(Second) \notin waiting_queue'[r]
  PROVE  Local(r)'
<1>1. /\ First \in Rivals /\ Second \in Rivals /\ \A z \in Rivals : z \in Nodes /\ r \notin PeerSet(z)
      /\ r \in Nodes /\ r \notin Common
      /\ "REQUEST" \in Kinds /\ "RELEASE" \in Kinds /\ "RELINQUISH" \in Kinds
      /\ "LOCK" \in Kinds /\ "FAIL" \in Kinds /\ "INQUIRE" \in Kinds
  BY RivalFacts DEF Plain, Rivals, Common, Kinds, NotRequest
<1>2. \A z \in Rivals :
        /\ ~(Way'[z][r]["REQUEST"] > 0) /\ ~(Way'[z][r]["RELEASE"] > 0)
        /\ ~(Way'[z][r]["RELINQUISH"] > 0) /\ ~(Way'[r][z]["LOCK"] > 0)
        /\ ~(Way'[r][z]["FAIL"] > 0) /\ ~(Way'[r][z]["INQUIRE"] > 0)
  BY <1>1 DEF Routes, Route
<1>3. \A z \in Rivals :
        /\ Way'[z][r]["REQUEST"] = 0 /\ Way'[z][r]["RELEASE"] = 0
        /\ Way'[z][r]["RELINQUISH"] = 0 /\ Way'[r][z]["LOCK"] = 0
        /\ Way'[r][z]["FAIL"] = 0 /\ Way'[r][z]["INQUIRE"] = 0
  BY <1>1, <1>2
<1>4. ~(Listed'[r] > 0) /\ \A z \in Rivals : Got'[z][r] = "none"
  BY <1>1 DEF Records
<1>5. Listed'[r] = 0 /\ Probes(r)' = 0
  <2>1. Listed'[r] = 0
    BY <1>1, <1>4
  <2>. QED
    BY <1>1, <1>3, <2>1 DEF Probes
<1>6. Passing(First, r)' /\ Passing(Second, r)'
  BY <1>1, <1>3, <1>4, <1>5 DEF Passing, Untouched
<1>7. Section(r)' /\ FirstHolds(r)' /\ SecondHolds(r)'
  BY <1>1, <1>3, <1>4 DEF Section, FirstHolds, SecondHolds
<1>8. Probing(r)' /\ SecondFails(r)'
  BY <1>1, <1>3, <1>4, <1>5 DEF Probing, SecondFails
<1>9. SecondOver(r)' /\ FirstOver(r)'
  BY <1>1, <1>3, <1>4, <1>5 DEF SecondOver, FirstOver
<1>. QED
  BY <1>6, <1>7, <1>8, <1>9 DEF Local, Passes, Rivals

\* A competitor asks: whoever gets the request has heard nothing of it yet.
LEMMA SendKeeps ==
  ASSUME PInv, NEW x, SendView(x)
  PROVE  Duel'
<1>1. /\ Plain /\ First \in Rivals /\ Second \in Rivals /\ x \in Rivals /\ x \in Nodes
      /\ First \in Nodes /\ Second \in Nodes /\ First # Second /\ Common \subseteq Nodes
      /\ \A z \in Rivals : z \notin Common /\ z \in Nodes
  BY RivalFacts DEF SendView, Rivals, Plain, Common
<1>2. /\ seq[x] = 1 /\ waiting_queue[x] = {} /\ is_inCS[x] = FALSE /\ ~Done(x) /\ ~Done(x)'
      /\ seq'[x] = 2 /\ waiting_queue'[x] = {Ask(x)} /\ locked_for'[x] = Ask(x)
      /\ \A q \in Nodes : Ask(x) \notin waiting_queue[q]
  <2>1. seq[x] = 1 /\ waiting_queue[x] = {} /\ \A q \in Nodes : Ask(x) \notin waiting_queue[q]
    BY <1>1 DEF SendView, Plain
  <2>2. seq'[x] = 2 /\ waiting_queue'[x] = {Ask(x)} /\ locked_for'[x] = Ask(x)
    BY <1>1 DEF SendView, Plain
  <2>3. is_inCS[x] = FALSE
    BY <1>1, <2>1 DEF Plain, PInv, Duel, Calm
  <2>. QED
    BY <2>1, <2>2, <2>3 DEF Done
<1>3. /\ is_inCS' = is_inCS /\ Got' = Got /\ Listed' = Listed /\ (AnyFail' <=> AnyFail)
      /\ \A q \in Nodes : q # x => /\ seq'[q] = seq[q] /\ waiting_queue'[q] = waiting_queue[q]
                                   /\ locked_for'[q] = locked_for[q]
  BY <1>1 DEF SendView, Plain, AnyFail
<1>4. \A z \in Rivals : Done(z)' <=> Done(z)
  BY <1>1, <1>2, <1>3 DEF Done
<1>5. /\ \A q \in Nodes : \A z \in Rivals : \A S : (z = x => "REQUEST" \in S) => Kept(z, q, S)
      /\ \A q \in Nodes : Way'[x][q]["REQUEST"] = Way[x][q]["REQUEST"] + Bit(q \in PeerSet(x))
      /\ \A u, v \in Nodes : \A t \in Kinds : Way'[u][v][t] \in Nat
      /\ Routes'
  BY <1>1, SpreadKept DEF SendView
<1>6. ASSUME NEW q \in Nodes
      PROVE  /\ Passing(First, q) /\ Passing(Second, q) /\ Section(q) /\ FirstHolds(q) /\ SecondHolds(q)
             /\ Probing(q) /\ SecondFails(q) /\ SecondOver(q) /\ FirstOver(q)
  BY DEF PInv, Duel, Local, Passes, Rivals
<1>7. Records'
  BY <1>3 DEF Records, PInv, Duel
<1>8. Clear => Clear'
  <2>1. \A q \in Nodes : Way'[q][Second]["FAIL"] = Way[q][Second]["FAIL"]
    <3>1. \A q \in Nodes : Kept(Second, q, {"REQUEST"})
      BY <1>1, <1>5
    <3>. QED
      BY <3>1 DEF Kept
  <2>. QED
    BY <1>1, <1>3, <1>4, <2>1 DEF Clear
<1>9. ASSUME NEW r \in Rivals PROVE Local(r)'
  <2>1. Ask(Second) \in waiting_queue'[r] => r = Second
    BY <1>1, <1>2, <1>3, <1>9 DEF Plain
  <2>2. locked_for'[Second] # Ask(First)
    <3>1. Ask(First) # Ask(Second) /\ locked_for[Second] # Ask(First)
      BY <1>1 DEF Plain
    <3>. QED
      BY <1>1, <1>2, <1>3, <3>1
  <2>3. \A q \in Nodes : Listed'[q] \in Nat
    BY <1>3, RivalFacts
  <2>. QED
    BY <1>5, <1>7, <1>9, <2>1, <2>2, <2>3, RivalLocal
<1>10. ASSUME NEW q \in Nodes, q \notin Rivals PROVE Local(q)'
  <2>1. /\ seq'[q] = seq[q] /\ waiting_queue'[q] = waiting_queue[q] /\ locked_for'[q] = locked_for[q]
        /\ Kept(x, q, {"REQUEST"}) /\ \A z \in Rivals : z # x => Kept(z, q, {})
    BY <1>1, <1>3, <1>5, <1>10
  <2>2. /\ Untouched(x, q) /\ Way[x][q]["REQUEST"] = 0 /\ Way[x][q]["RELEASE"] = 0
        /\ (Way'[x][q]["REQUEST"] = 0 \/ Way'[x][q]["REQUEST"] = 1)
    <3>1. Untouched(x, q) /\ Way[x][q]["REQUEST"] = 0 /\ Way[x][q]["RELEASE"] = 0
      BY <1>1, <1>2, <1>6 DEF Passing, Rivals
    <3>. QED
      BY <1>5, <3>1 DEF Bit
  <2>3. \A z \in Rivals :
          /\ Way'[z][q]["RELEASE"] = Way[z][q]["RELEASE"]
          /\ Way'[z][q]["RELINQUISH"] = Way[z][q]["RELINQUISH"]
          /\ Way'[q][z]["LOCK"] = Way[q][z]["LOCK"]
          /\ Way'[q][z]["FAIL"] = Way[q][z]["FAIL"]
          /\ Way'[q][z]["INQUIRE"] = Way[q][z]["INQUIRE"]
          /\ z # x => Way'[z][q]["REQUEST"] = Way[z][q]["REQUEST"]
    BY <2>1 DEF Kept
  <2>4. \A z \in Rivals : Untouched(z, q)' <=> Untouched(z, q)
    BY <1>1, <1>3, <2>3 DEF Untouched
  <2>5. Probes(q)' = Probes(q)
    BY <1>1, <1>3, <2>3 DEF Probes
  <2>6. \A z \in Rivals : Passing(z, q)'
    <3>1. Passing(x, q)'
      BY <1>1, <1>2, <1>3, <2>1, <2>2, <2>3, <2>4 DEF Passing
    <3>2. ASSUME NEW z \in Rivals, z # x PROVE Passing(z, q)'
      BY <1>1, <1>3, <1>4, <1>6, <2>1, <2>3, <2>4, <3>2 DEF Passing, Rivals
    <3>. QED
      BY <3>1, <3>2
  <2>7. Section(q)' /\ FirstHolds(q)' /\ SecondHolds(q)'
    BY <1>1, <1>3, <1>4, <1>6, <2>1, <2>3 DEF Section, FirstHolds, SecondHolds
  <2>8. Probing(q)' /\ SecondFails(q)'
    BY <1>1, <1>3, <1>4, <1>6, <2>1, <2>3, <2>5 DEF Probing, SecondFails
  <2>9. SecondOver(q)' /\ FirstOver(q)'
    BY <1>1, <1>3, <1>4, <1>6, <1>8, <2>1, <2>3 DEF SecondOver, FirstOver
  <2>. QED
    BY <2>6, <2>7, <2>8, <2>9 DEF Local, Passes
<1>11. Settles'
  <2>. SUFFICES ASSUME Done(First)' PROVE \E q \in Common : Settled(q)'
    BY DEF Settles
  <2>1. Done(First) /\ x = Second
    BY <1>1, <1>2, <1>4 DEF Rivals
  <2>2. PICK q \in Common : Settled(q)
    BY <2>1 DEF PInv, Duel, Settles
  <2>3. /\ q \in Nodes /\ q # x /\ q \notin Rivals /\ waiting_queue'[q] = waiting_queue[q]
        /\ Kept(Second, q, {"REQUEST"}) /\ Kept(First, q, {})
    BY <1>1, <1>3, <1>5, <2>1
  <2>4. Settled(q)'
    BY <1>1, <1>2, <1>3, <1>4, <2>1, <2>2, <2>3 DEF Settled, Kept
  <2>. QED
    BY <2>4
<1>12. Calm'
  <2>1. Ask(x) # Stray
    BY <1>1, ApartFacts DEF PInv, Rivals
  <2>2. \A u \in Nodes : locked_for'[u] # Stray /\ (waiting_queue[u] # {} => waiting_queue'[u] # {})
    BY <1>2, <1>3, <2>1 DEF PInv, Duel, Calm
  <2>. QED
    BY <1>3, <2>2 DEF SendView, Calm, PInv, Duel
<1>. QED
  BY <1>5, <1>7, <1>9, <1>10, <1>11, <1>12 DEF Duel


\* What the end of x's section leaves as it was, and what it ends.
Ended(x, q) ==
  /\ seq' = seq /\ is_inCS[x] /\ ~Done(x) /\ Done(x)' /\ ~is_inCS'[x]
  /\ waiting_queue'[q] = waiting_queue[q] /\ locked_for'[q] = locked_for[q]
  /\ \A z \in Rivals : z # x => /\ Done(z)' <=> Done(z)
                                /\ waiting_queue'[z] = waiting_queue[z] /\ is_inCS'[z] = is_inCS[z]
  /\ \A z \in Rivals :
       /\ Way'[z][q]["REQUEST"] = Way[z][q]["REQUEST"]
       /\ Way'[z][q]["RELINQUISH"] = Way[z][q]["RELINQUISH"]
       /\ Way'[q][z]["LOCK"] = Way[q][z]["LOCK"]
       /\ Way'[q][z]["FAIL"] = Way[q][z]["FAIL"]
       /\ Way'[q][z]["INQUIRE"] = Way[q][z]["INQUIRE"]
       /\ z # x => Way'[z][q]["RELEASE"] = Way[z][q]["RELEASE"]
       /\ Got'[z][q] = IF z = x THEN "none" ELSE Got[z][q]
  /\ Listed'[q] = IF x = Second THEN 0 ELSE Listed[q]
  /\ Way[x][q]["REQUEST"] = 0 /\ Way[x][q]["RELEASE"] = 0
  /\ Way'[x][q]["RELEASE"] = IF q \in PeerSet(x) THEN 1 ELSE 0
  /\ q \in PeerSet(x) => Got[x][q] # "none"

LEMMA FinishEnds ==
  ASSUME PInv, NEW x, FinishView(x), NEW q \in Nodes, q \notin Rivals
  PROVE  Ended(x, q)
<1>1. /\ Plain /\ x \in Rivals /\ x \in Nodes /\ q # x /\ \A z \in Rivals : z \in Nodes
  BY RivalFacts DEF FinishView, Rivals, Plain
<1>2. /\ seq' = seq /\ is_inCS[x] /\ ~Done(x) /\ Done(x)' /\ ~is_inCS'[x]
      /\ waiting_queue'[q] = waiting_queue[q] /\ locked_for'[q] = locked_for[q]
      /\ \A z \in Rivals : z # x =>
           waiting_queue'[z] = waiting_queue[z] /\ is_inCS'[z] = is_inCS[z]
      /\ \A z \in Rivals : Got'[z][q] = IF z = x THEN "none" ELSE Got[z][q]
      /\ Listed'[q] = IF x = Second THEN 0 ELSE Listed[q]
  BY <1>1 DEF FinishView, Plain, Done
<1>3. \A z \in Rivals : z # x => (Done(z)' <=> Done(z))
  BY <1>2 DEF Done
<1>4. /\ \A z \in Rivals : \A S : (z = x => "RELEASE" \in S) => Kept(z, q, S)
      /\ Way'[x][q]["RELEASE"] = Way[x][q]["RELEASE"] + Bit(q \in PeerSet(x))
  BY <1>1, SpreadKept DEF FinishView
<1>5. Way[x][q]["REQUEST"] = 0 /\ Way[x][q]["RELEASE"] = 0
  <2>1. ~(Way[x][q]["REQUEST"] > 0) /\ ~(Way[x][q]["RELEASE"] > 0)
    BY <1>1, <1>2 DEF PInv, Duel, Local, Passes, Passing
  <2>2. Way[x][q]["REQUEST"] \in Nat /\ Way[x][q]["RELEASE"] \in Nat
    BY <1>1, Numbers DEF Counted
  <2>. QED
    BY <2>1, <2>2
<1>6. Way'[x][q]["RELEASE"] = IF q \in PeerSet(x) THEN 1 ELSE 0
  BY <1>4, <1>5 DEF Bit
<1>7. \A z \in Rivals :
       /\ Way'[z][q]["REQUEST"] = Way[z][q]["REQUEST"]
       /\ Way'[z][q]["RELINQUISH"] = Way[z][q]["RELINQUISH"]
       /\ Way'[q][z]["LOCK"] = Way[q][z]["LOCK"]
       /\ Way'[q][z]["FAIL"] = Way[q][z]["FAIL"]
       /\ Way'[q][z]["INQUIRE"] = Way[q][z]["INQUIRE"]
       /\ z # x => Way'[z][q]["RELEASE"] = Way[z][q]["RELEASE"]
  <2>1. \A z \in Rivals : Kept(z, q, {"RELEASE"}) /\ (z # x => Kept(z, q, {}))
    BY <1>4
  <2>. QED
    BY <2>1 DEF Kept
<1>8. q \in PeerSet(x) => Got[x][q] # "none"
  BY <1>1, <1>2 DEF PInv, Duel, Local, Section
<1>. QED
  BY <1>2, <1>3, <1>5, <1>6, <1>7, <1>8 DEF Ended

\* The messages of a competitor to a node outside its quorum, and back.
LEMMA Strangers ==
  ASSUME PInv, NEW q \in Nodes
  PROVE  /\ q \notin Common => /\ Way[q][Second]["INQUIRE"] = 0 /\ Listed[q] = 0
                               /\ Way[Second][q]["RELINQUISH"] = 0 /\ Way[q][Second]["FAIL"] = 0
                               /\ Got[Second][q] # "FAIL"
         /\ \A x \in Rivals : q \notin PeerSet(x) => Way[q][x]["LOCK"] = 0 /\ Got[x][q] = "none"
<1>1. Second \in Rivals /\ Second \in Nodes /\ \A x \in Rivals : x \in Nodes
  BY RivalFacts DEF Plain, Rivals
<1>2. q \notin Common => /\ ~(Way[q][Second]["INQUIRE"] > 0) /\ ~(Listed[q] > 0)
                         /\ ~(Way[Second][q]["RELINQUISH"] > 0) /\ ~(Way[q][Second]["FAIL"] > 0)
                         /\ Got[Second][q] # "FAIL"
  BY <1>1 DEF PInv, Duel, Routes, Records, Route, Kinds, NotRequest
<1>3. \A x \in Rivals : q \notin PeerSet(x) => ~(Way[q][x]["LOCK"] > 0) /\ Got[x][q] = "none"
  BY <1>1 DEF PInv, Duel, Routes, Records, Route, Kinds, NotRequest
<1>4. /\ \A x \in Rivals : Counted(x, q)
      /\ Listed[q] \in Nat
  BY Numbers
<1>. QED
  BY <1>1, <1>2, <1>3, <1>4 DEF Counted


\* First leaves: its locks are all its own, so that no INQUIRE is on its way.
LEMMA FinishFirst ==
  ASSUME PInv, FinishView(First)
  PROVE  /\ \A q \in Nodes \ Rivals : Local(q)'
         /\ Settles'
<1>1. /\ Plain /\ First \in Rivals /\ Second \in Rivals /\ First # Second /\ Common \subseteq Nodes
      /\ \A z \in Rivals : z \notin Common /\ z \in Nodes
      /\ Ask(First) # Ask(Second) /\ Common \subseteq PeerSet(First) /\ Common \subseteq PeerSet(Second)
  BY RivalFacts DEF Rivals, Plain, Common
<1>2. \A q \in Nodes \ Rivals : Ended(First, q)
  BY FinishEnds
<1>3. is_inCS[First] /\ ~Done(First) /\ Done(First)'
  <2>1. seq[First] = 2 /\ waiting_queue[First] = {Ask(First)} /\ is_inCS[First]
    BY DEF FinishView
  <2>2. seq'[First] = 2 /\ waiting_queue'[First] = {}
    BY <1>1, <2>1 DEF FinishView, Plain
  <2>. QED
    BY <2>1, <2>2 DEF Done
<1>4. ASSUME NEW q \in Nodes
      PROVE  /\ Passing(First, q) /\ Passing(Second, q) /\ Section(q) /\ FirstHolds(q) /\ SecondHolds(q)
             /\ Probing(q) /\ SecondFails(q) /\ SecondOver(q) /\ FirstOver(q)
  BY DEF PInv, Duel, Local, Passes, Rivals
<1>5. ASSUME NEW q \in Common
      PROVE  /\ locked_for[q] = Ask(First) /\ Ask(First) \in waiting_queue[q] /\ Got[First][q] = "LOCK"
             /\ Way[q][First]["LOCK"] = 0 /\ (~Done(Second) => Probes(q) = 0)
  <2>1. Got[First][q] = "LOCK"
    BY <1>1, <1>3, <1>4 DEF Section
  <2>2. locked_for[q] = Ask(First) /\ Ask(First) \in waiting_queue[q] /\ Way[q][First]["LOCK"] = 0
    BY <1>1, <1>3, <1>4, <2>1 DEF FirstHolds
  <2>3. ~Done(Second) => ~(Probes(q) > 0)
    BY <1>1, <1>3, <1>4, <2>2 DEF Probing
  <2>4. Probes(q) \in Nat
    BY <1>1, Numbers DEF Counted, Probes
  <2>. QED
    BY <2>1, <2>2, <2>3, <2>4
<1>6. ASSUME NEW q \in Nodes
      PROVE  /\ Way[Second][q]["RELINQUISH"] = 0
             /\ ~Done(Second) => Way[q][Second]["INQUIRE"] = 0 /\ Listed[q] = 0
  <2>1. /\ Way[q][Second]["INQUIRE"] \in Nat /\ Listed[q] \in Nat /\ Way[Second][q]["RELINQUISH"] \in Nat
    BY <1>1, Numbers DEF Counted
  <2>2. CASE q \notin Common
    BY <2>2, Strangers
  <2>3. CASE q \in Common /\ ~Done(Second)
    <3>1. Way[q][Second]["INQUIRE"] + Listed[q] + Way[Second][q]["RELINQUISH"] = 0
      BY <1>5, <2>3 DEF Probes
    <3>2. \A a, b, c \in Nat : a + b + c = 0 => a = 0 /\ b = 0 /\ c = 0
      OBVIOUS
    <3>. QED
      BY <2>1, <3>1, <3>2
  <2>4. CASE q \in Common /\ Done(Second)
    BY <1>3, <1>4, <2>4 DEF SecondOver
  <2>. QED
    BY <2>2, <2>3, <2>4
<1>7. Done(Second) => Clear
  BY <1>1, <1>3, <1>4 DEF SecondOver, Clear
<1>8. Clear => Clear'
  <2>1. Got'[Second] = Got[Second] /\ (Done(Second)' <=> Done(Second))
    <3>1. /\ \A q \in Nodes : Got'[Second][q] = Got[Second][q]
      BY <1>1 DEF FinishView
    <3>2. seq'[Second] = seq[Second] /\ waiting_queue'[Second] = waiting_queue[Second]
      BY <1>1 DEF FinishView, Plain
    <3>. QED
      BY <1>1, <3>1, <3>2 DEF Done, Got
  <2>2. \A q \in Nodes : Way'[q][Second]["FAIL"] = Way[q][Second]["FAIL"]
    <3>1. \A q \in Nodes : \A z \in Rivals : \A S : (z = First => "RELEASE" \in S) => Kept(z, q, S)
      BY <1>1, SpreadKept DEF FinishView
    <3>2. \A q \in Nodes : Kept(Second, q, {})
      BY <1>1, <3>1
    <3>. QED
      BY <3>2 DEF Kept
  <2>. QED
    BY <2>1, <2>2 DEF Clear
<1>9. ASSUME NEW q \in Nodes \ Rivals PROVE Local(q)'
  <2>1. Ended(First, q)
    BY <1>2
  <2>2. Passing(First, q)'
    BY <1>1, <1>3, <1>4, <2>1 DEF Passing, Untouched, Ended
  <2>3. Passing(Second, q)'
    BY <1>1, <1>3, <1>4, <2>1 DEF Passing, Untouched, Ended
  <2>4. Section(q)' /\ FirstHolds(q)' /\ SecondHolds(q)'
    BY <1>1, <1>3, <1>4, <2>1 DEF Section, FirstHolds, SecondHolds, Ended, Rivals
  <2>5. Probing(q)' /\ SecondFails(q)' /\ SecondOver(q)'
    BY <1>3 DEF Probing, SecondFails, SecondOver
  <2>6. FirstOver(q)'
    BY <1>1, <1>6, <1>7, <1>8, <2>1 DEF FirstOver, Ended
  <2>. QED
    BY <2>2, <2>3, <2>4, <2>5, <2>6 DEF Local, Passes, Rivals
<1>10. ASSUME NEW q \in Common, AnyFail /\ ~Done(Second) => Got[Second][q] = "FAIL" PROVE Settled(q)'
  <2>1. Ended(First, q) /\ q \in Nodes
    BY <1>1, <1>2
  <2>2. Got'[First][q] = "none" /\ Way'[First][q]["REQUEST"] = 0
    BY <1>1, <2>1 DEF Ended
  <2>3. Way'[q][First]["LOCK"] = 0
    BY <1>1, <1>5, <2>1 DEF Ended
  <2>4. CASE Done(Second)
    <3>1. /\ Got[Second][q] = "none" /\ Way[q][Second]["LOCK"] = 0
          /\ ~(Way[Second][q]["RELEASE"] > 0) /\ Ask(Second) \notin waiting_queue[q]
      BY <1>1, <1>3, <1>4, <1>5, <2>4 DEF SecondOver
    <3>2. Way[Second][q]["RELEASE"] = 0
      BY <1>1, <2>1, <3>1, Numbers DEF Counted
    <3>. QED
      BY <1>1, <2>1, <2>2, <2>3, <2>4, <3>1, <3>2 DEF Settled, Ended
  <2>5. CASE ~Done(Second)
    <3>1. ~is_inCS[Second]
      <4>1. is_inCS[Second] => Got[Second][q] = "LOCK"
        BY <1>1, <1>3, <1>4 DEF Section
      <4>2. is_inCS[Second] => ~AnyFail
        BY <1>10, <2>5, <4>1
      <4>. QED
        BY <1>1, <1>3, <1>4, <1>5, <2>1, <2>5, <4>1, <4>2 DEF SecondHolds
    <3>2. Got[Second][q] # "LOCK" /\ Way[q][Second]["LOCK"] = 0
      <4>1. CASE AnyFail
        BY <1>3, <1>4, <1>10, <2>1, <2>5, <4>1 DEF SecondFails
      <4>2. CASE ~AnyFail
        <5>1. Got[Second][q] # "LOCK" /\ ~(Way[q][Second]["LOCK"] > 0)
          BY <1>1, <1>3, <1>4, <1>5, <2>1, <2>5, <4>2 DEF SecondHolds
        <5>. QED
          BY <1>1, <2>1, <5>1, Numbers DEF Counted
      <4>. QED
        BY <4>1, <4>2
    <3>. QED
      BY <1>1, <1>5, <2>1, <2>2, <2>3, <2>5, <3>1, <3>2 DEF Settled, Ended
  <2>. QED
    BY <2>4, <2>5
<1>11. \E q \in Common : AnyFail /\ ~Done(Second) => Got[Second][q] = "FAIL"
  <2>1. CASE AnyFail
    <3>1. PICK q \in Nodes : Got[Second][q] = "FAIL"
      BY <2>1 DEF AnyFail
    <3>2. q \in Common
      BY <3>1, Strangers
    <3>. QED
      BY <3>1, <3>2
  <2>2. CASE ~AnyFail
    BY <2>2 DEF PInv, Apart
  <2>. QED
    BY <2>1, <2>2
<1>12. Settles'
  BY <1>10, <1>11 DEF Settles
<1>. QED
  BY <1>9, <1>12


\* Second leaves before First is done: it held all its locks, and no FAIL came.
LEMMA FinishSecondFirst ==
  ASSUME PInv, FinishView(Second), ~Done(First)
  PROVE  \A q \in Nodes \ Rivals : Local(q)'
<1>1. /\ Plain /\ First \in Rivals /\ Second \in Rivals /\ First # Second /\ Common \subseteq Nodes
      /\ \A z \in Rivals : z \notin Common /\ z \in Nodes
      /\ Ask(First) # Ask(Second) /\ Common \subseteq PeerSet(Second)
  BY RivalFacts DEF Rivals, Plain, Common
<1>2. ASSUME NEW q \in Nodes
      PROVE  /\ Passing(First, q) /\ Passing(Second, q) /\ Section(q) /\ FirstHolds(q) /\ SecondHolds(q)
             /\ Probing(q) /\ SecondFails(q) /\ SecondOver(q) /\ FirstOver(q)
  BY DEF PInv, Duel, Local, Passes, Rivals
<1>3. is_inCS[Second] /\ ~Done(Second)
  BY DEF FinishView, Done
<1>4. \A q \in PeerSet(Second) : Got[Second][q] = "LOCK" /\ q \in Nodes
  BY <1>1, <1>2, <1>3 DEF Section, Plain
<1>5. ~AnyFail
  <2>1. ASSUME NEW q \in Nodes PROVE Got[Second][q] # "FAIL"
    BY <1>1, <1>4, Strangers
  <2>. QED
    BY <2>1 DEF AnyFail
<1>. SUFFICES ASSUME NEW q \in Nodes \ Rivals PROVE Local(q)'
  OBVIOUS
<1>6. Ended(Second, q)
  BY FinishEnds
<1>7. /\ Way[q][Second]["LOCK"] = 0
      /\ q \in PeerSet(Second) => locked_for[q] = Ask(Second)
      /\ Ask(Second) \in waiting_queue[q] => locked_for[q] = Ask(Second)
  <2>1. CASE q \in PeerSet(Second)
    BY <1>2, <1>3, <1>4, <1>5, <2>1 DEF SecondHolds
  <2>2. CASE q \notin PeerSet(Second)
    <3>1. Way[q][Second]["LOCK"] = 0
      BY <1>1, <2>2, Strangers
    <3>2. Ask(Second) \notin waiting_queue[q]
      BY <1>1, <2>2 DEF Plain
    <3>. QED
      BY <2>2, <3>1, <3>2
  <2>. QED
    BY <2>1, <2>2
<1>8. Way[q][Second]["FAIL"] = 0 /\ Way[Second][q]["RELINQUISH"] = 0
  <2>1. CASE q \notin Common
    BY <2>1, Strangers
  <2>2. CASE q \in Common
    <3>1. Got[Second][q] = "LOCK"
      BY <1>1, <1>4, <2>2
    <3>2. ~(Way[q][Second]["FAIL"] > 0) /\ ~(Way[Second][q]["RELINQUISH"] > 0)
      BY <1>2, <1>3, <1>5, <3>1 DEF SecondFails, Probing
    <3>. QED
      BY <1>1, <3>2, Numbers DEF Counted
  <2>. QED
    BY <2>1, <2>2
<1>9. Passing(First, q)' /\ Passing(Second, q)'
  BY <1>1, <1>2, <1>6 DEF Passing, Untouched, Ended
<1>10. Section(q)' /\ FirstHolds(q)' /\ SecondHolds(q)'
  BY <1>1, <1>2, <1>6 DEF Section, FirstHolds, SecondHolds, Ended, Rivals
<1>11. Probing(q)' /\ SecondFails(q)'
  BY <1>1, <1>2, <1>6, <1>8 DEF Probing, SecondFails, Ended
<1>12. SecondOver(q)' /\ FirstOver(q)'
  BY <1>1, <1>2, <1>6, <1>7, <1>8 DEF SecondOver, FirstOver, Ended
<1>. QED
  BY <1>9, <1>10, <1>11, <1>12 DEF Local, Passes, Rivals

\* Second leaves after First: the settled node still keeps both out.
LEMMA FinishSecondLast ==
  ASSUME PInv, FinishView(Second), Done(First)
  PROVE  /\ \A q \in Nodes \ Rivals : Local(q)'
         /\ Settles'
<1>1. /\ Plain /\ First \in Rivals /\ Second \in Rivals /\ First # Second /\ Common \subseteq Nodes
      /\ \A z \in Rivals : z \notin Common /\ z \in Nodes
  BY RivalFacts DEF Rivals, Plain, Common
<1>2. ASSUME NEW q \in Nodes
      PROVE  /\ Passing(First, q) /\ Passing(Second, q) /\ Section(q) /\ FirstHolds(q) /\ SecondHolds(q)
             /\ Probing(q) /\ SecondFails(q) /\ SecondOver(q) /\ FirstOver(q)
  BY DEF PInv, Duel, Local, Passes, Rivals
<1>3. is_inCS[Second] /\ ~Done(Second)
  BY DEF FinishView, Done
<1>4. \A q \in Nodes \ Rivals : Ended(Second, q)
  BY FinishEnds
<1>5. ASSUME NEW q \in Nodes \ Rivals PROVE Local(q)'
  <2>1. Ended(Second, q)
    BY <1>4
  <2>2. /\ Way[Second][q]["RELINQUISH"] = 0 /\ ~(Way[q][Second]["INQUIRE"] > 0)
        /\ Listed'[q] = 0 /\ ~(Listed'[q] > 0)
    BY <1>2, <1>3, <2>1 DEF FirstOver, Clear, Ended
  <2>3. Passing(First, q)' /\ Passing(Second, q)'
    BY <1>1, <1>2, <2>1 DEF Passing, Untouched, Ended
  <2>4. Section(q)' /\ FirstHolds(q)' /\ SecondHolds(q)'
    BY <1>1, <1>2, <2>1 DEF Section, FirstHolds, SecondHolds, Ended, Rivals
  <2>5. Probing(q)' /\ SecondFails(q)' /\ SecondOver(q)'
    BY <1>1, <2>1 DEF Probing, SecondFails, SecondOver, Ended
  <2>6. FirstOver(q)'
    BY <1>1, <2>1, <2>2 DEF FirstOver, Ended
  <2>. QED
    BY <2>3, <2>4, <2>5, <2>6 DEF Local, Passes, Rivals
<1>6. Settles'
  <2>1. PICK q \in Common : Settled(q)
    BY DEF PInv, Duel, Settles
  <2>2. Ended(Second, q)
    BY <1>1, <1>4
  <2>3. Settled(q)'
    BY <1>1, <1>3, <2>1, <2>2 DEF Settled, Ended
  <2>. QED
    BY <2>3 DEF Settles
<1>. QED
  BY <1>5, <1>6

\* A section ends.
LEMMA FinishKeeps ==
  ASSUME PInv, NEW x, FinishView(x)
  PROVE  Duel'
<1>1. /\ Plain /\ First \in Rivals /\ Second \in Rivals /\ First # Second
      /\ x \in Rivals /\ x \in Nodes /\ \A z \in Rivals : z \in Nodes
      /\ Ask(First) # Ask(Second) /\ Ask(First) # NoLock
  BY RivalFacts DEF FinishView, Rivals, Plain
<1>2. /\ \A q \in Nodes : /\ waiting_queue'[q] = IF q = x THEN {} ELSE waiting_queue[q]
                          /\ locked_for'[q] = IF q = x THEN NoLock ELSE locked_for[q]
                          /\ is_inCS'[q] = IF q = x THEN FALSE ELSE is_inCS[q]
      /\ \A u, v \in Nodes : Got'[u][v] = "none" \/ Got'[u][v] = Got[u][v]
      /\ \A q \in Nodes : Listed'[q] = 0 \/ Listed'[q] = Listed[q]
  BY <1>1 DEF FinishView, Plain
<1>3. /\ \A u, v \in Nodes : \A t \in Kinds : Way'[u][v][t] \in Nat
      /\ Routes'
  BY <1>1, SpreadKept DEF FinishView
<1>4. Records'
  <2>1. \A q \in Nodes : Listed'[q] > 0 => Listed[q] > 0
    BY <1>2
  <2>. QED
    BY <1>2, <2>1 DEF Records, PInv, Duel
<1>5. ASSUME NEW r \in Rivals PROVE Local(r)'
  <2>1. Ask(Second) \in waiting_queue'[r] => r = Second
    <3>1. r \in Nodes /\ (waiting_queue[r] # {} => waiting_queue[r] = {Ask(r)})
      BY <1>1, <1>5 DEF Plain
    <3>2. waiting_queue'[r] \subseteq waiting_queue[r]
      BY <1>2, <3>1
    <3>. QED
      BY <1>1, <1>5, <3>1, <3>2 DEF Rivals
  <2>2. locked_for'[Second] # Ask(First)
    <3>1. locked_for[Second] # Ask(First)
      BY <1>1 DEF Plain
    <3>. QED
      BY <1>1, <1>2, <3>1
  <2>3. \A q \in Nodes : Listed'[q] \in Nat
    BY <1>2, RivalFacts
  <2>. QED
    BY <1>3, <1>4, <1>5, <2>1, <2>2, <2>3, RivalLocal
<1>6. (\A q \in Nodes \ Rivals : Local(q)') /\ Settles'
  <2>1. CASE x = First
    BY <2>1, FinishFirst
  <2>2. CASE x = Second /\ ~Done(First)
    <3>1. ~Done(First)'
      BY <1>1, <1>2, <2>2 DEF Done, FinishView
    <3>. QED
      BY <2>2, <3>1, FinishSecondFirst DEF Settles
  <2>3. CASE x = Second /\ Done(First)
    BY <2>3, FinishSecondLast
  <2>. QED
    BY <1>1, <2>1, <2>2, <2>3 DEF Rivals
<1>7. Calm'
  <2>1. NoLock # Stray
    BY ApartFacts DEF PInv
  <2>2. \A u \in Nodes : /\ locked_for'[u] # Stray
                         /\ is_inCS'[u] => is_inCS[u] /\ waiting_queue'[u] = waiting_queue[u]
    BY <1>2, <2>1 DEF PInv, Duel, Calm
  <2>. QED
    BY <1>1, <2>2 DEF FinishView, Calm, PInv, Duel
<1>. QED
  BY <1>3, <1>4, <1>5, <1>6, <1>7 DEF Duel


-----------------------------------------------------------------------------
(* The invariant holds at first, and every step of the system keeps it.    *)

LEMMA InitPInv == Apart /\ Init => PInv
<1>. SUFFICES ASSUME Apart, Init PROVE PInv
  OBVIOUS
<1>1. IInv /\ JInv
  BY InitIInv, InitJInv
<1>2. /\ First \in Nodes /\ Second \in Nodes /\ First \in Rivals /\ Second \in Rivals
      /\ Common \subseteq Nodes /\ \A x \in Rivals : x \in Nodes
  BY ApartFacts DEF Rivals, Common
<1>3. ASSUME NEW u \in Nodes, NEW v \in Nodes, NEW t \in Kinds PROVE Way[u][v][t] = 0
  <2>1. mailbox[v] = <<>> /\ outq[u] = <<>>
    BY DEF Init, NetInit
  <2>2. /\ Num(mailbox[v], Msg(u, t)) = 0
        /\ Num(outq[u], [to |-> v, msg |-> Msg(u, t)]) = 0
    BY <2>1, NumNothing
  <2>. QED
    BY <2>2 DEF Way
<1>4. ASSUME NEW p \in Nodes PROVE Listed[p] = 0
  BY <1>2, NumNothing DEF Init, Listed
<1>5. ASSUME NEW x \in Nodes, NEW p \in Nodes PROVE Got[x][p] = "none"
  <2>1. response_map[x] = <<>> /\ DOMAIN <<>> = {}
    BY DEF Init
  <2>. QED
    BY <2>1 DEF Got, Answered
<1>6. /\ \A x \in Rivals : ~Done(x) /\ seq[x] = 1 /\ ~is_inCS[x]
      /\ ~Done(First) /\ ~Done(Second)
  BY <1>2 DEF Init, Done
<1>7. OutOwn
  BY EmptySeq DEF OutOwn, Init, NetInit
<1>8. Calm
  BY ApartFacts DEF Calm, Init
<1>9. Routes /\ Records
  BY <1>2, <1>3, <1>4, <1>5 DEF Routes, Records
<1>10. ASSUME NEW p \in Nodes PROVE Local(p)
  <2>1. /\ \A x \in Rivals :
             /\ Way[x][p]["REQUEST"] = 0 /\ Way[x][p]["RELEASE"] = 0 /\ Way[x][p]["RELINQUISH"] = 0
             /\ Way[p][x]["LOCK"] = 0 /\ Way[p][x]["FAIL"] = 0 /\ Way[p][x]["INQUIRE"] = 0
             /\ Got[x][p] = "none"
        /\ Listed[p] = 0
    BY <1>2, <1>3, <1>4, <1>5 DEF Kinds, NotRequest
  <2>2. Probes(p) = 0
    BY <1>2, <2>1 DEF Probes
  <2>3. Passes(p) /\ Section(p)
    BY <1>6, <2>1 DEF Passes, Passing, Untouched, Section
  <2>4. FirstHolds(p) /\ SecondHolds(p)
    BY <1>2, <2>1 DEF FirstHolds, SecondHolds
  <2>5. Probing(p) /\ SecondFails(p)
    BY <1>2, <2>1, <2>2 DEF Probing, SecondFails
  <2>6. SecondOver(p) /\ FirstOver(p)
    BY <1>6 DEF SecondOver, FirstOver
  <2>. QED
    BY <2>3, <2>4, <2>5, <2>6 DEF Local
<1>11. Settles
  BY <1>6 DEF Settles
<1>. QED
  BY <1>1, <1>7, <1>8, <1>9, <1>10, <1>11 DEF PInv, Duel

LEMMA HandlePInv ==
  ASSUME PInv, IInv', NEW n \in Nodes, Handle(n)
  PROVE  OutOwn' /\ Duel'
<1>1. CASE ReceiveRequest(n)
  BY <1>1, RequestViewed, RequestKeeps DEF RequestView
<1>2. CASE ReceiveRelinquish(n)
  BY <1>2, RelinquishViewed, RelinquishKeeps DEF RelinquishView
<1>3. CASE ReceiveRelease(n)
  BY <1>3, ReleaseViewed, ReleaseKeeps DEF ReleaseView
<1>4. CASE ReceiveLocked(n)
  <2>1. Head(mailbox[n]).from \in Nodes
    BY <1>4, HeadFacts DEF PInv, ReceiveLocked
  <2>2. LockedView(n, Head(mailbox[n]).from)
    BY <1>4, LockedViewed
  <2>3. n \in Rivals /\ OutOwn'
    BY <2>2 DEF LockedView
  <2>. QED
    BY <2>1, <2>2, <2>3, LockedKeeps
<1>5. CASE ReceiveFailed(n)
  <2>1. Head(mailbox[n]).from \in Nodes
    BY <1>5, HeadFacts DEF PInv, ReceiveFailed
  <2>2. FailedView(Head(mailbox[n]).from)
    BY <1>5, FailedViewed
  <2>3. OutOwn'
    BY <2>2 DEF FailedView
  <2>. QED
    BY <2>1, <2>2, <2>3, FailedKeeps
<1>6. CASE ReceiveInquiry(n)
  <2>1. Head(mailbox[n]).from \in Nodes
    BY <1>6, HeadFacts DEF PInv, ReceiveInquiry
  <2>2. InquiryView(Head(mailbox[n]).from)
    BY <1>6, InquiryViewed
  <2>3. OutOwn'
    BY <2>2 DEF InquiryView
  <2>. QED
    BY <2>1, <2>2, <2>3, InquiryKeeps
<1>. QED
  BY <1>1, <1>2, <1>3, <1>4, <1>5, <1>6 DEF Handle

LEMMA StepPInv == PInv /\ [Next]_vars => PInv'
<1>. SUFFICES ASSUME PInv, [Next]_vars PROVE PInv'
  OBVIOUS
<1>1. IInv' /\ JInv'
  BY StepIInv, StepJInv DEF PInv
<1>2. Apart'
  BY DEF PInv, Apart, Common, Rivals, PeerSet
<1>3. CASE UNCHANGED vars
  <2>1. /\ Way' = Way /\ Got' = Got /\ Listed' = Listed /\ OutOwn'
        /\ UNCHANGED <<seq, waiting_queue, locked_for, hung, is_inCS, inquiry_list>>
    BY <1>3, GotStays, ListedStays DEF vars, netVars, nodeVars, arbiterVars, requesterVars, Way,
                                       OutOwn, Own, Envelope, Message, PInv
  <2>2. \A u, v \in Nodes : \A t \in Kinds : Way'[u][v][t] \in Nat /\ Way'[u][v][t] <= Way[u][v][t]
    BY <2>1, RivalFacts
  <2>3. SwitchView
    BY <2>1, <2>2 DEF SwitchView
  <2>. QED
    BY <1>1, <1>2, <2>1, <2>3, SwitchKeeps DEF PInv
<1>4. ASSUME NEW n \in Nodes, NodeStep(n) PROVE OutOwn' /\ Duel'
  <2>1. CASE SendRequest(n)
    BY <1>1, <2>1, SendViewed, SendKeeps DEF SendView
  <2>2. CASE Handle(n)
    BY <1>1, <2>2, HandlePInv
  <2>3. CASE Finish(n)
    BY <1>1, <2>3, FinishViewed, FinishKeeps, NobodyHangs DEF Finish, FinishView
  <2>. QED
    BY <1>4, <2>1, <2>2, <2>3 DEF NodeStep
<1>5. ASSUME NEW n \in Nodes, Switch(n) PROVE OutOwn' /\ Duel'
  BY <1>1, <1>5, SwitchViewed, SwitchKeeps DEF SwitchView
<1>. QED
  BY <1>1, <1>2, <1>3, <1>4, <1>5 DEF Next, PInv

LEMMA DuelInvariance == Apart /\ Spec => []PInv
BY InitPInv, StepPInv, PTL DEF Spec

-----------------------------------------------------------------------------
(* What follows from the invariant.                                        *)

LEMMA PInvExcludes == PInv => Mutex
<1>. SUFFICES ASSUME PInv PROVE Mutex
  OBVIOUS
<1>0. \A n \in Nodes : is_inCS[n] => n = First \/ n = Second
  BY DEF PInv, Duel, Calm, Rivals
<1>. SUFFICES ASSUME is_inCS[First], is_inCS[Second] PROVE FALSE
  BY <1>0 DEF Mutex
<1>1. /\ First \in Rivals /\ Second \in Rivals /\ Ask(First) # Ask(Second)
      /\ First \in Nodes /\ Second \in Nodes /\ Common \subseteq Nodes
      /\ Common \subseteq PeerSet(First) /\ Common \subseteq PeerSet(Second)
  BY RivalFacts DEF Rivals, Plain, Common
<1>2. ~Done(First) /\ ~Done(Second)
  BY <1>1 DEF PInv, Duel, Calm, Done
<1>3. \A q \in Common : Got[First][q] = "LOCK" /\ Got[Second][q] = "LOCK"
  BY <1>1, <1>2 DEF PInv, Duel, Local, Section
<1>4. ~AnyFail
  <2>1. ASSUME NEW q \in Nodes PROVE Got[Second][q] # "FAIL"
    BY <1>3, Strangers
  <2>. QED
    BY <2>1 DEF AnyFail
<1>5. PICK q \in Common : TRUE
  BY DEF PInv, Apart
<1>6. FirstHolds(q) /\ SecondHolds(q)
  BY <1>1 DEF PInv, Duel, Local
<1>. QED
  BY <1>1, <1>2, <1>3, <1>4, <1>6 DEF FirstHolds, SecondHolds

LEMMA PInvHolder == PInv => RelinquishFromHolder
<1>. SUFFICES ASSUME PInv, NEW n \in Nodes, Receives(n, "RELINQUISH")
     PROVE  locked_for[n][2] = Head(mailbox[n]).from
  BY DEF RelinquishFromHolder
<1>1. /\ Head(mailbox[n]).from \in Nodes
      /\ Way[Head(mailbox[n]).from][n]["RELINQUISH"] >= 1
  BY HeadCounted DEF PInv
<1>2. Head(mailbox[n]).from = Second /\ locked_for[n] = Ask(Second)
  BY <1>1, RelinquishTells
<1>. QED
  BY <1>2 DEF Ask

\* Two competitors with a common arbiter are never in the critical section at the
\* same time, whatever the sizes of their quorums, the number of other nodes, the
\* order of the messages, and the messages the network loses.
THEOREM MutualExclusion == Apart /\ Spec => []Mutex
BY DuelInvariance, PInvExcludes, PTL

\* A RELINQUISH always finds its sender holding the lock: receive_relinquish,
\* which does not look at the sender, never takes the lock from the other one.
THEOREM LockFromItsHolder == Apart /\ Spec => []RelinquishFromHolder
BY DuelInvariance, PInvHolder, PTL

=============================================================================
