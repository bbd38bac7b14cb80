--------------------------- MODULE Transport_proofs ---------------------------
(***************************************************************************)
(* Transport implements the network of CutNet, for any number of nodes,    *)
(* any messages, any backlog, any nodes whose stream is cut and any nodes  *)
(* that start early: the initial states are initial states of CutNet, and  *)
(* every step is one of its steps or changes neither outq nor mailbox.     *)
(* Where no stream is cut CutNet is SwitchNet.  What remains to TLC is     *)
(* that nothing stays under way for ever.                                  *)
(***************************************************************************)
EXTENDS Transport, SequenceTheorems, TLAPS

\* The two variables of SwitchNet, as Net maps them.
Out == [n \in Nodes |-> held[n] \o stream[n] \o msgs[n]]
Box == [n \in Nodes |-> queue[n] \o backlog[n]]

\* Where START is late enough and the stream is whole, whoever is written to listens,
\* unless it was killed.
Sound(n) ==
  /\ n \in started => listening = Nodes
  /\ n \notin started => msgs[n] = <<>> /\ stream[n] = <<>> /\ held[n] = <<>>

\* A switch process that is gone left nothing behind.
AllSound ==
  /\ \A n \in exited : held[n] = <<>> /\ stream[n] = <<>> /\ rest[n] = 0
  /\ \A n \in Nodes \ Cut : rest[n] = 0
  /\ \A n \in Nodes \ (Cut \cup Early) : Sound(n)

TransportInv == TypeOK /\ AllSound

-----------------------------------------------------------------------------
(* Concatenations.                                                         *)

\* A sequence of messages moves its head from one queue to the next.
LEMMA HandOver ==
  ASSUME NEW E, NEW s \in Seq(E), NEW t \in Seq(E), t # <<>>
  PROVE  /\ Append(s, Head(t)) \in Seq(E)
         /\ Tail(t) \in Seq(E)
         /\ Append(s, Head(t)) \o Tail(t) = s \o t
<1>1. Head(t) \in E /\ Tail(t) \in Seq(E)
  BY HeadTailProperties
<1>2. t = <<Head(t)>> \o Tail(t)
  OBVIOUS
<1>3. Append(s, Head(t)) = s \o <<Head(t)>>
  BY <1>1
<1>4. (s \o <<Head(t)>>) \o Tail(t) = s \o (<<Head(t)>> \o Tail(t))
  BY <1>1, ConcatAssociative
<1>. QED
  BY <1>1, <1>2, <1>3, <1>4

\* The head of a concatenation is the head of its first part that has one.
LEMMA HeadOfConcat ==
  ASSUME NEW E, NEW s \in Seq(E), NEW t \in Seq(E), s # <<>>
  PROVE  /\ s \o t # <<>>
         /\ Head(s \o t) = Head(s)
         /\ Tail(s \o t) = Tail(s) \o t
OBVIOUS

LEMMA EmptyConcat ==
  ASSUME NEW E, NEW s \in Seq(E)
  PROVE  <<>> \o s = s /\ s \o <<>> = s
BY ConcatEmptySeq

LEMMA AppendToConcat ==
  ASSUME NEW E, NEW s \in Seq(E), NEW t \in Seq(E), NEW e \in E
  PROVE  s \o Append(t, e) = Append(s \o t, e) /\ Append(s \o t, e) = (s \o t) \o <<e>>
OBVIOUS

LEMMA SuffixOfConcat ==
  ASSUME NEW E, NEW s \in Seq(E), NEW t \in Seq(E)
  PROVE  SubSeq(s \o t, Len(s) + 1, Len(s \o t)) = t
<1>. DEFINE u == SubSeq(s \o t, Len(s) + 1, Len(s \o t))
<1>1. /\ s \o t \in Seq(E)
      /\ Len(s \o t) = Len(s) + Len(t)
      /\ Len(s) \in Nat /\ Len(t) \in Nat
      /\ \A i \in 1..Len(t) : (s \o t)[Len(s) + i] = t[i]
  BY ConcatProperties, LenProperties
<1>2. u \in Seq(E)
  <2>1. \A i \in (Len(s) + 1)..Len(s \o t) : (s \o t)[i] \in E
    BY <1>1, ElementOfSeq
  <2>. QED
    BY <1>1, <2>1, SubSeqProperties
<1>3. Len(u) = Len(t) /\ \A i \in 1..Len(t) : u[i] = (s \o t)[Len(s) + i]
  BY <1>1
<1>. QED
  BY <1>1, <1>2, <1>3, SeqEqual

-----------------------------------------------------------------------------
(* Types, and the soundness of the nodes that start in time.               *)

LEMMA InitInv == Init => TransportInv
BY MaxRestAssumption DEF Init, Empty, TransportInv, TypeOK, AllSound, Sound

LEMMA Types ==
  ASSUME TypeOK, NEW n \in Nodes
  PROVE  /\ msgs[n] \in Seq(Envelope) /\ stream[n] \in Seq(Envelope)
         /\ held[n] \in Seq(Envelope)
         /\ backlog[n] \in Seq(Message) /\ queue[n] \in Seq(Message)
BY DEF TypeOK

\* What a switch process holds is one message.
LEMMA HeldOne ==
  ASSUME TypeOK, NEW n \in Nodes, held[n] # <<>>
  PROVE  Head(held[n]) \in Envelope /\ Tail(held[n]) = <<>>
BY Types DEF TypeOK

LEMMA NodeInv ==
  ASSUME TransportInv, NEW n \in Nodes,
         \/ Listen(n) \/ Start(n) \/ Write(n) \/ WriteLost(n) \/ Killed(n)
         \/ Accept(n) \/ GetMessage(n)
  PROVE  TransportInv'
<1>. USE DEF TransportInv, TypeOK, AllSound, Sound
<1>1. CASE Listen(n)
  BY <1>1 DEF Listen, switchVars
<1>2. CASE Start(n)
  BY <1>2 DEF Start, Listeners, Slept, switchVars
<1>3. CASE Write(n)
  <2>1. /\ Append(stream[n], Head(msgs[n])) \in Seq(Envelope)
        /\ Tail(msgs[n]) \in Seq(Envelope)
    BY <1>3, HandOver DEF Write
  <2>. QED
    BY <1>3, <2>1, SMTT(30) DEF Write, nodeVars, switchVars
<1>4. CASE Accept(n)
  <2>1. Push(queue[n], Head(backlog[n])) \in Seq(Message) /\ Tail(backlog[n]) \in Seq(Message)
    BY <1>4, HandOver DEF Accept, Push
  <2>. QED
    BY <1>4, <2>1 DEF Accept, nodeVars, switchVars
<1>5. CASE GetMessage(n)
  <2>1. Tail(queue[n]) \in Seq(Message)
    BY <1>5, HeadTailProperties DEF GetMessage
  <2>. QED
    BY <1>5, <2>1 DEF GetMessage, nodeVars, switchVars
<1>6. CASE WriteLost(n)
  <2>1. Tail(msgs[n]) \in Seq(Envelope)
    BY <1>6, HeadTailProperties DEF WriteLost
  <2>2. n \in Cut
    BY <1>6 DEF WriteLost
  <2>. QED
    BY <1>6, <2>1, <2>2 DEF WriteLost, nodeVars, switchVars
<1>7. CASE Killed(n)
  BY <1>7, SMTT(30) DEF Killed, switchVars
<1>. QED
  BY <1>1, <1>2, <1>3, <1>4, <1>5, <1>6, <1>7

LEMMA SendInv ==
  ASSUME TransportInv, NEW n \in Nodes, NEW t \in Nodes \cup Controls, Send(n, t)
  PROVE  TransportInv'
<1>. DEFINE e == [to |-> t, msg |-> [from |-> n, no |-> count[n] + 1]]
<1>1. count[n] + 1 \in Nat
  BY DEF TransportInv, TypeOK
<1>2. e \in Envelope
  BY <1>1 DEF Envelope, Message
<1>3. Append(msgs[n], e) \in Seq(Envelope)
  BY <1>2, Types, AppendProperties DEF TransportInv
<1>. QED
  BY <1>1, <1>3 DEF TransportInv, TypeOK, AllSound, Sound, Send, switchVars

\* A switch process never holds more than one message.
LEMMA HoldsOne ==
  ASSUME TypeOK, NEW n \in Nodes, NEW v \in Seq(Envelope), Len(v) <= 1,
         held' = [held EXCEPT ![n] = v]
  PROVE  /\ held' \in [Nodes -> Seq(Envelope)]
         /\ \A m \in Nodes : Len(held'[m]) <= 1
         /\ \A m \in Nodes \ {n} : held'[m] = held[m]
         /\ held'[n] = v
BY DEF TypeOK

LEMMA ClearedHolds ==
  ASSUME TypeOK, NEW n \in Nodes, held' = Cleared(n)
  PROVE  /\ held' \in [Nodes -> Seq(Envelope)]
         /\ \A m \in Nodes : Len(held'[m]) <= 1
         /\ \A m \in Nodes \ {n} : held'[m] = held[m]
         /\ held'[n] = <<>>
<1>1. <<>> \in Seq(Envelope) /\ Len(<<>>) <= 1
  OBVIOUS
<1>. QED
  BY <1>1, HoldsOne DEF Cleared

\* What recv may make of a message, and of the bytes behind one.
LEMMA GarbledType ==
  ASSUME NEW n \in Nodes
  PROVE  Garbled(n) \in Message
BY DEF Garbled, Message

LEMMA RestSet ==
  ASSUME TypeOK, NEW n \in Nodes
  PROVE  /\ rest \in [Nodes -> 0..MaxRest]
         /\ \A k \in 0..MaxRest : [rest EXCEPT ![n] = k] \in [Nodes -> 0..MaxRest]
BY DEF TypeOK

LEMMA RecvInv ==
  ASSUME TransportInv, NEW n \in Nodes, Recv(n)
  PROVE  TransportInv'
<1>. DEFINE e == Head(stream[n])
<1>1. e \in Envelope /\ Tail(stream[n]) \in Seq(Envelope)
  BY Types, HeadTailProperties DEF Recv, TransportInv
<1>2. PICK m \in {e.msg, Garbled(n)} : held' = [held EXCEPT ![n] = <<[to |-> e.to, msg |-> m]>>]
  BY <1>1 DEF Recv, Envelope
<1>3. <<[to |-> e.to, msg |-> m]>> \in Seq(Envelope) /\ Len(<<[to |-> e.to, msg |-> m]>>) <= 1
  BY <1>1, GarbledType DEF Envelope
<1>4. /\ held' \in [Nodes -> Seq(Envelope)]
      /\ \A k \in Nodes : Len(held'[k]) <= 1
      /\ \A k \in Nodes \ {n} : held'[k] = held[k]
  BY <1>2, <1>3, HoldsOne DEF TransportInv
<1>5. stream' \in [Nodes -> Seq(Envelope)] /\ rest' \in [Nodes -> 0..MaxRest]
  <2>1. stream' \in [Nodes -> Seq(Envelope)]
    BY <1>1 DEF Recv, TransportInv, TypeOK
  <2>2. rest' = rest \/ \E k \in 1..MaxRest : rest' = [rest EXCEPT ![n] = k]
    BY DEF Recv
  <2>3. rest' \in [Nodes -> 0..MaxRest]
    BY <2>2, MaxRestAssumption, RestSet DEF TransportInv
  <2>. QED
    BY <2>1, <2>3
<1>6. TypeOK'
  BY <1>4, <1>5 DEF TransportInv, TypeOK, Recv, nodeVars
<1>7. \A k \in Nodes \ Cut : rest'[k] = 0
  BY DEF Recv, TransportInv, TypeOK, AllSound
<1>8. \A k \in Nodes \ (Cut \cup Early) : Sound(k)'
  <2>1. n \notin Cut \cup Early => n \in started
    BY DEF Recv, TransportInv, AllSound, Sound
  <2>. QED
    BY <1>4, <2>1 DEF Recv, nodeVars, TransportInv, TypeOK, AllSound, Sound
<1>9. \A k \in exited' : held'[k] = <<>> /\ stream'[k] = <<>> /\ rest'[k] = 0
  <2>1. n \notin exited
    BY DEF Recv, TransportInv, AllSound
  <2>2. exited' = exited /\ exited \subseteq Nodes
    BY CutAssumption DEF Recv, TransportInv, TypeOK
  <2>3. \A k \in Nodes \ {n} : rest'[k] = rest[k] /\ stream'[k] = stream[k]
    BY DEF Recv, TransportInv, TypeOK
  <2>. QED
    BY <1>4, <2>1, <2>2, <2>3 DEF TransportInv, AllSound
<1>. QED
  BY <1>6, <1>7, <1>8, <1>9 DEF TransportInv, AllSound

LEMMA RecvRestInv ==
  ASSUME TransportInv, NEW n \in Nodes, RecvRest(n)
  PROVE  TransportInv'
<1>1. PICK t \in Nodes \cup Controls :
        held' = [held EXCEPT ![n] = <<[to |-> t, msg |-> Garbled(n)]>>]
  BY DEF RecvRest
<1>2. /\ <<[to |-> t, msg |-> Garbled(n)]>> \in Seq(Envelope)
      /\ Len(<<[to |-> t, msg |-> Garbled(n)]>>) <= 1
  BY GarbledType DEF Envelope
<1>3. /\ held' \in [Nodes -> Seq(Envelope)]
      /\ \A k \in Nodes : Len(held'[k]) <= 1
      /\ \A k \in Nodes \ {n} : held'[k] = held[k]
  BY <1>1, <1>2, HoldsOne DEF TransportInv
<1>4. stream' \in [Nodes -> Seq(Envelope)] /\ rest' \in [Nodes -> 0..MaxRest]
  <2>1. stream[n] # <<>> => Tail(stream[n]) \in Seq(Envelope)
    BY Types, HeadTailProperties DEF TransportInv
  <2>2. stream' \in [Nodes -> Seq(Envelope)]
    BY <2>1 DEF RecvRest, TransportInv, TypeOK
  <2>3. rest' \in [Nodes -> 0..MaxRest]
    <3>1. rest[n] \in 0..MaxRest
      BY DEF TransportInv, TypeOK
    <3>2. \E k \in 0..MaxRest : rest' = [rest EXCEPT ![n] = k]
      BY <3>1, MaxRestAssumption DEF RecvRest
    <3>. QED
      BY <3>2, RestSet DEF TransportInv
  <2>. QED
    BY <2>2, <2>3
<1>5. n \in Cut
  BY DEF RecvRest, TransportInv, AllSound
<1>6. \A k \in Nodes \ {n} : rest'[k] = rest[k] /\ stream'[k] = stream[k]
  BY DEF RecvRest, TransportInv, TypeOK
<1>7. TypeOK'
  BY <1>3, <1>4 DEF TransportInv, TypeOK, RecvRest, nodeVars
<1>8. n \notin exited /\ exited' = exited /\ exited \subseteq Nodes
  BY CutAssumption DEF RecvRest, TransportInv, TypeOK, AllSound
<1>9. \A k \in exited' : held'[k] = <<>> /\ stream'[k] = <<>> /\ rest'[k] = 0
  BY <1>3, <1>6, <1>8 DEF TransportInv, AllSound
<1>. QED
  BY <1>3, <1>5, <1>6, <1>7, <1>9 DEF RecvRest, nodeVars, TransportInv, AllSound, Sound

LEMMA ExitInv ==
  ASSUME TransportInv, NEW n \in Nodes, Exit(n)
  PROVE  TransportInv'
<1>1. n \in Cut
  BY DEF Exit, TransportInv, AllSound
<1>. QED
  BY <1>1, MaxRestAssumption DEF Exit, nodeVars, TransportInv, TypeOK, AllSound, Sound

LEMMA ClearedSound ==
  ASSUME TransportInv, NEW n \in Nodes, held' = Cleared(n),
         UNCHANGED <<nodeVars, msgs, stream, rest, exited>>
  PROVE  AllSound'
<1>1. /\ held'[n] = <<>>
      /\ \A k \in Nodes \ {n} : held'[k] = held[k]
  BY ClearedHolds DEF TransportInv
<1>2. exited \subseteq Nodes
  BY CutAssumption DEF TransportInv, TypeOK
<1>. QED
  BY <1>1, <1>2 DEF nodeVars, TransportInv, AllSound, Sound

LEMMA SwitchInv ==
  ASSUME TransportInv, NEW n \in Nodes, Switch(n)
  PROVE  TransportInv'
<1>1. CASE Connect(n)
  <2>. DEFINE e == Head(held[n])
  <2>1. e \in Envelope /\ e.to \in Nodes
    BY <1>1, HeldOne DEF Connect, TransportInv, TypeOK
  <2>2. Append(backlog[e.to], e.msg) \in Seq(Message)
    BY <2>1, Types, AppendProperties DEF Envelope, TransportInv
  <2>3. backlog' \in [Nodes -> Seq(Message)]
    BY <1>1, <2>1, <2>2 DEF Connect, TransportInv, TypeOK
  <2>4. held' = Cleared(n)
    BY <1>1 DEF Connect
  <2>5. TypeOK'
    BY <1>1, <2>3, <2>4, ClearedHolds DEF Connect, nodeVars, TransportInv, TypeOK
  <2>6. AllSound'
    BY <1>1, <2>4, ClearedSound DEF Connect
  <2>. QED
    BY <2>5, <2>6 DEF TransportInv
<1>2. CASE NotForwarded(n) \/ Drop(n) \/ Refused(n)
  <2>1. /\ held' = Cleared(n)
        /\ UNCHANGED <<nodeVars, msgs, stream, rest, exited, backlog, queue>>
    BY <1>2 DEF NotForwarded, Drop, Refused
  <2>2. TypeOK'
    BY <2>1, ClearedHolds DEF nodeVars, TransportInv, TypeOK
  <2>3. AllSound'
    BY <2>1, ClearedSound
  <2>. QED
    BY <2>2, <2>3 DEF TransportInv
<1>. QED
  BY <1>1, <1>2, RecvInv, RecvRestInv, ExitInv DEF Switch

LEMMA StepInv == TransportInv /\ [Next]_vars => TransportInv'
<1>1. TransportInv /\ UNCHANGED vars => TransportInv'
  BY DEF TransportInv, TypeOK, AllSound, Sound, vars, nodeVars, switchVars
<1>. QED
  BY <1>1, NodeInv, SendInv, SwitchInv DEF Next

\* Every variable of the transport keeps its type, for any number of nodes.
THEOREM TypeCorrect == Spec => []TypeOK
<1>1. TransportInv => TypeOK
  BY DEF TransportInv
<1>. QED
  BY <1>1, InitInv, StepInv, PTL DEF Spec

-----------------------------------------------------------------------------
(* The refinement.  Each lemma says what the actions do to Out and Box.    *)

NetUnchanged == Out' = Out /\ Box' = Box

LEMMA InitRefines == Init => Net!NetInit
BY EmptyConcat DEF Init, Empty, Net!NetInit

\* START and the opening of the accept thread's port concern neither.
LEMMA SignalsRefine ==
  ASSUME NEW n \in Nodes, Listen(n) \/ Start(n)
  PROVE  NetUnchanged
BY DEF Listen, Start, switchVars, NetUnchanged, Out, Box

\* It is enough to look at one node.
LEMMA AllUnchanged ==
  ASSUME \A m \in Nodes : Out'[m] = Out[m], \A m \in Nodes : Box'[m] = Box[m]
  PROVE  NetUnchanged
BY DEF NetUnchanged, Out, Box

\* The send thread moves a message within Out, the accept thread within Box.
LEMMA WriteRefines ==
  ASSUME TypeOK, NEW n \in Nodes, Write(n)
  PROVE  NetUnchanged
<1>1. /\ msgs[n] # <<>> /\ held'[n] = held[n]
      /\ stream'[n] = Append(stream[n], Head(msgs[n])) /\ msgs'[n] = Tail(msgs[n])
  BY DEF Write, switchVars, TypeOK
<1>2. /\ stream'[n] \in Seq(Envelope) /\ msgs'[n] \in Seq(Envelope)
      /\ stream'[n] \o msgs'[n] = stream[n] \o msgs[n]
  <2>1. stream[n] \in Seq(Envelope) /\ msgs[n] \in Seq(Envelope)
    BY Types
  <2>2. /\ Append(stream[n], Head(msgs[n])) \in Seq(Envelope)
        /\ Tail(msgs[n]) \in Seq(Envelope)
        /\ Append(stream[n], Head(msgs[n])) \o Tail(msgs[n]) = stream[n] \o msgs[n]
    <3>1. msgs[n] # <<>>
      BY <1>1
    <3>. QED
      BY ONLY <2>1, <3>1, HandOver
  <2>. QED
    BY <1>1, <2>2
<1>3. /\ (held[n] \o stream'[n]) \o msgs'[n] = held[n] \o (stream'[n] \o msgs'[n])
      /\ (held[n] \o stream[n]) \o msgs[n] = held[n] \o (stream[n] \o msgs[n])
  <2>1. /\ held[n] \in Seq(Envelope) /\ stream[n] \in Seq(Envelope)
        /\ msgs[n] \in Seq(Envelope)
    BY Types
  <2>2. \A x, y, z \in Seq(Envelope) : (x \o y) \o z = x \o (y \o z)
    BY ConcatAssociative
  <2>. QED
    BY <1>2, <2>1, <2>2, ZenonT(60)
<1>4. \A m \in Nodes \ {n} : UNCHANGED <<held[m], stream[m], msgs[m]>>
  BY DEF Write, switchVars, TypeOK
<1>5. \A m \in Nodes : Out'[m] = Out[m]
  BY <1>1, <1>2, <1>3, <1>4 DEF Out
<1>6. \A m \in Nodes : Box'[m] = Box[m]
  BY DEF Write, Box
<1>. QED
  BY <1>5, <1>6, AllUnchanged

LEMMA AcceptRefines ==
  ASSUME TypeOK, NEW n \in Nodes, Accept(n)
  PROVE  NetUnchanged
<1>1. /\ backlog[n] # <<>>
      /\ queue'[n] = Append(queue[n], Head(backlog[n])) /\ backlog'[n] = Tail(backlog[n])
  BY DEF Accept, Push, TypeOK
<1>2. queue'[n] \o backlog'[n] = queue[n] \o backlog[n]
  <2>1. queue[n] \in Seq(Message) /\ backlog[n] \in Seq(Message) /\ backlog[n] # <<>>
    BY <1>1, Types
  <2>2. Append(queue[n], Head(backlog[n])) \o Tail(backlog[n]) = queue[n] \o backlog[n]
    BY ONLY <2>1, HandOver, ZenonT(60)
  <2>. QED
    BY <1>1, <2>2
<1>3. \A m \in Nodes \ {n} : UNCHANGED <<queue[m], backlog[m]>>
  BY DEF Accept, TypeOK
<1>4. \A m \in Nodes : Box'[m] = Box[m]
  BY <1>2, <1>3 DEF Box
<1>5. \A m \in Nodes : Out'[m] = Out[m]
  BY DEF Accept, switchVars, Out
<1>. QED
  BY <1>4, <1>5, AllUnchanged

\* recv moves a message within Out.  Where the stream is cut the message may have
\* been garbled in its place.
LEMMA RecvRefines ==
  ASSUME TransportInv, NEW n \in Nodes, Recv(n)
  PROVE  NetUnchanged \/ Net!Garble(n)
<1>. DEFINE e == Head(stream[n])
<1>1. /\ held[n] = <<>> /\ stream[n] # <<>> /\ stream'[n] = Tail(stream[n])
      /\ stream[n] \in Seq(Envelope) /\ Tail(stream[n]) \in Seq(Envelope)
      /\ msgs[n] \in Seq(Envelope) /\ e \in Envelope /\ msgs' = msgs
  BY Types, HeadTailProperties DEF Recv, TransportInv, TypeOK
<1>2. PICK m \in {e.msg, Garbled(n)} :
        /\ held' = [held EXCEPT ![n] = <<[to |-> e.to, msg |-> m]>>]
        /\ m = Garbled(n) => m = e.msg \/ n \in Cut
  BY <1>1 DEF Recv, Envelope
<1>. DEFINE f == [to |-> e.to, msg |-> m]
<1>3. f \in Envelope
  BY <1>1, GarbledType DEF Envelope
<1>4. held'[n] = <<f>> /\ \A k \in Nodes \ {n} : held'[k] = held[k] /\ stream'[k] = stream[k]
  BY <1>2 DEF Recv, TransportInv, TypeOK
<1>5. Out[n] = stream[n] \o msgs[n]
  BY <1>1, EmptyConcat DEF Out
<1>6. /\ Out[n] # <<>> /\ Head(Out[n]) = e /\ Tail(Out[n]) = Tail(stream[n]) \o msgs[n]
      /\ Out[n] \in Seq(Envelope)
  <2>1. /\ stream[n] \o msgs[n] # <<>> /\ Head(stream[n] \o msgs[n]) = Head(stream[n])
        /\ Tail(stream[n] \o msgs[n]) = Tail(stream[n]) \o msgs[n]
    BY ONLY <1>1, HeadOfConcat
  <2>. QED
    BY <1>1, <1>5, <2>1, ConcatProperties
<1>7. Out'[n] = <<f>> \o Tail(Out[n])
  <2>1. Out'[n] = (<<f>> \o Tail(stream[n])) \o msgs[n]
    BY <1>1, <1>4 DEF Out
  <2>2. <<f>> \in Seq(Envelope)
    BY <1>3
  <2>3. \A x, y, z \in Seq(Envelope) : (x \o y) \o z = x \o (y \o z)
    BY ConcatAssociative
  <2>4. (<<f>> \o Tail(stream[n])) \o msgs[n] = <<f>> \o (Tail(stream[n]) \o msgs[n])
    BY <1>1, <2>2, <2>3
  <2>. QED
    BY <1>6, <2>1, <2>4
<1>8. \A k \in Nodes \ {n} : Out'[k] = Out[k]
  BY <1>1, <1>4 DEF Out
<1>9. Box' = Box
  BY DEF Recv, Box
<1>10. CASE m = e.msg
  <2>1. f = e
    BY <1>1, <1>10 DEF Envelope
  <2>2. <<e>> \o Tail(Out[n]) = Out[n]
    BY ONLY <1>6
  <2>3. \A k \in Nodes : Out'[k] = Out[k]
    BY <1>7, <1>8, <2>1, <2>2
  <2>. QED
    BY <1>9, <2>3, AllUnchanged
<1>11. CASE m # e.msg
  <2>1. n \in Cut /\ f.msg \in {Garbled(k) : k \in Cut}
    BY <1>2, <1>11
  <2>2. Out'[n] # <<>> /\ Head(Out'[n]) = f
    <3>1. Tail(Out[n]) \in Seq(Envelope)
      BY <1>6, HeadTailProperties
    <3>. QED
      BY <1>3, <1>7, <3>1
  <2>3. Out' = [Out EXCEPT ![n] = <<f>> \o Tail(@)]
    BY <1>7, <1>8 DEF Out
  <2>. QED
    BY <1>6, <1>9, <2>1, <2>2, <2>3 DEF Net!Garble, Out, Box
<1>. QED
  BY <1>10, <1>11

\* Socket::send appends to Out: it is an Emit of one message.
LEMMA SendRefines ==
  ASSUME TransportInv, NEW n \in Nodes, NEW t \in Nodes \cup Controls, Send(n, t)
  PROVE  Net!Emit(n, Net!Burst(n))
<1>. DEFINE e == [to |-> t, msg |-> [from |-> n, no |-> count[n] + 1]]
            s == held[n] \o stream[n]
<1>1. e \in Envelope
  BY DEF Envelope, Message, TransportInv, TypeOK
<1>2. msgs'[n] = Append(msgs[n], e)
  BY DEF Send, TransportInv, TypeOK
<1>3. s \in Seq(Envelope) /\ Out[n] = s \o msgs[n] /\ Out[n] \in Seq(Envelope)
  BY Types, ConcatProperties DEF Out, TransportInv
<1>4. Out'[n] = s \o Append(msgs[n], e)
  BY <1>2 DEF Out, Send, switchVars
<1>5. Out'[n] = Out[n] \o <<e>>
  <2>1. msgs[n] \in Seq(Envelope)
    BY Types DEF TransportInv
  <2>2. s \o Append(msgs[n], e) = (s \o msgs[n]) \o <<e>>
    <3>1. \A x, y \in Seq(Envelope) : x \o Append(y, e) = (x \o y) \o <<e>>
      BY <1>1, AppendToConcat
    <3>. QED
      BY <1>3, <2>1, <3>1
  <2>. QED
    BY <1>3, <1>4, <2>2
<1>6. SubSeq(Out'[n], Len(Out[n]) + 1, Len(Out'[n])) = <<e>>
  <2>1. <<e>> \in Seq(Envelope)
    BY <1>1
  <2>. QED
    BY <1>3, <1>5, <2>1, SuffixOfConcat
<1>7. \A m \in Nodes \ {n} : UNCHANGED <<held[m], stream[m], msgs[m]>>
  BY DEF Send, switchVars, TransportInv, TypeOK
<1>8. Out' = [Out EXCEPT ![n] = @ \o <<e>>]
  BY <1>5, <1>7 DEF Out
<1>9. Box' = Box
  BY DEF Box, Send
<1>. QED
  BY <1>6, <1>8, <1>9 DEF Net!Emit, Net!Burst, Out, Box

\* The run loop takes the head of Box: it is a Consume that sends nothing.
LEMMA GetMessageRefines ==
  ASSUME TransportInv, NEW n \in Nodes, GetMessage(n)
  PROVE  Net!Consume(n, Net!Burst(n))
<1>1. /\ Out' = Out
      /\ Out[n] \in Seq(Envelope)
  BY Types, ConcatProperties DEF GetMessage, switchVars, Out, TransportInv
<1>2. SubSeq(Out'[n], Len(Out[n]) + 1, Len(Out'[n])) = <<>>
  BY <1>1, LenProperties, SubSeqEmpty
<1>3. Out' = [Out EXCEPT ![n] = @ \o <<>>]
  BY <1>1, EmptyConcat DEF Out
<1>4. Box[n] # <<>> /\ Tail(Box[n]) = Tail(queue[n]) \o backlog[n]
  BY Types, HeadOfConcat DEF GetMessage, Box, TransportInv
<1>5. Box'[n] = Tail(Box[n])
  BY <1>4 DEF GetMessage, Box, TransportInv, TypeOK
<1>6. \A m \in Nodes \ {n} : UNCHANGED <<queue[m], backlog[m]>>
  BY DEF GetMessage, TransportInv, TypeOK
<1>7. Box' = [Box EXCEPT ![n] = Tail(@)]
  BY <1>5, <1>6 DEF Box
<1>. QED
  BY <1>2, <1>3, <1>4, <1>7 DEF Net!Consume, Net!Burst, Out, Box

\* What is left of a message becomes garbage in front, or in place of the message
\* whose beginning came with it.
LEMMA RecvRestRefines ==
  ASSUME TransportInv, NEW n \in Nodes, RecvRest(n)
  PROVE  Net!Garble(n)
<1>1. n \in Cut
  BY DEF RecvRest, TransportInv, AllSound
<1>2. PICK t \in Nodes \cup Controls :
        held' = [held EXCEPT ![n] = <<[to |-> t, msg |-> Garbled(n)]>>]
  BY DEF RecvRest
<1>. DEFINE f == [to |-> t, msg |-> Garbled(n)]
<1>3. f \in Envelope /\ <<f>> \in Seq(Envelope)
  BY GarbledType DEF Envelope
<1>4. /\ held[n] = <<>> /\ held'[n] = <<f>> /\ msgs' = msgs
      /\ stream[n] \in Seq(Envelope) /\ msgs[n] \in Seq(Envelope)
      /\ \A k \in Nodes \ {n} : held'[k] = held[k] /\ stream'[k] = stream[k]
  BY <1>2, Types DEF RecvRest, TransportInv, TypeOK
<1>5. Out[n] = stream[n] \o msgs[n] /\ Out[n] \in Seq(Envelope)
  <2>1. \A x \in Seq(Envelope) : <<>> \o x = x
    BY EmptyConcat
  <2>2. Out[n] = stream[n] \o msgs[n]
    BY <1>4, <2>1 DEF Out
  <2>. QED
    BY <1>4, <2>2, ConcatProperties
<1>6. \A k \in Nodes \ {n} : Out'[k] = Out[k]
  BY <1>4 DEF Out
<1>7. Box' = Box
  BY DEF RecvRest, Box
<1>8. Out'[n] = <<f>> \o (stream'[n] \o msgs[n]) /\ stream'[n] \in Seq(Envelope)
  <2>1. stream'[n] \in Seq(Envelope)
    BY RecvRestInv, Types DEF TransportInv, TypeOK
  <2>2. Out'[n] = (<<f>> \o stream'[n]) \o msgs[n]
    BY <1>4 DEF Out
  <2>3. \A x, y, z \in Seq(Envelope) : (x \o y) \o z = x \o (y \o z)
    BY ConcatAssociative
  <2>. QED
    BY <1>3, <1>4, <2>1, <2>2, <2>3
<1>9. Out'[n] # <<>> /\ Head(Out'[n]) = f
  <2>1. stream'[n] \o msgs[n] \in Seq(Envelope)
    BY <1>4, <1>8, ConcatProperties
  <2>. QED
    BY <1>3, <1>8, <2>1
<1>10. Head(Out'[n]).msg \in {Garbled(k) : k \in Cut}
  BY <1>1, <1>9
<1>11. CASE UNCHANGED stream
  <2>1. Out'[n] = <<f>> \o Out[n]
    BY <1>5, <1>8, <1>11
  <2>2. Out' = [Out EXCEPT ![n] = <<f>> \o @]
    BY <1>6, <2>1 DEF Out
  <2>. QED
    BY <1>1, <1>7, <1>9, <1>10, <2>2 DEF Net!Garble, Out, Box
<1>12. CASE stream[n] # <<>> /\ stream' = [stream EXCEPT ![n] = Tail(@)]
  <2>1. stream'[n] = Tail(stream[n])
    BY <1>12 DEF TransportInv, TypeOK
  <2>2. /\ stream[n] \o msgs[n] # <<>>
        /\ Tail(stream[n] \o msgs[n]) = Tail(stream[n]) \o msgs[n]
    BY ONLY <1>4, <1>12, HeadOfConcat, ZenonT(60)
  <2>3. Out[n] # <<>> /\ Out'[n] = <<f>> \o Tail(Out[n])
    BY <1>5, <1>8, <2>1, <2>2
  <2>4. Out' = [Out EXCEPT ![n] = <<f>> \o Tail(@)]
    BY <1>6, <2>3 DEF Out
  <2>. QED
    BY <1>1, <1>7, <1>9, <1>10, <2>3, <2>4 DEF Net!Garble, Out, Box
<1>. QED
  BY <1>11, <1>12 DEF RecvRest

\* A part of Out is swallowed from its front.
LEMMA FrontSwallowed ==
  ASSUME NEW n \in Nodes, n \in Cut,
         NEW s \in Seq(Envelope), NEW t \in Seq(Envelope),
         Out[n] = s \o t, Out'[n] = t,
         \A k \in Nodes \ {n} : Out'[k] = Out[k], Box' = Box
  PROVE  NetUnchanged \/ Net!Swallow(n)
<1>1. Len(s) \in Nat /\ Len(t) \in Nat /\ Len(s \o t) = Len(s) + Len(t)
  BY ConcatProperties, LenProperties
<1>2. SubSeq(s \o t, Len(s) + 1, Len(s \o t)) = t
  BY SuffixOfConcat
<1>3. CASE s = <<>>
  <2>1. <<>> \o t = t
    BY EmptyConcat
  <2>2. \A k \in Nodes : Out'[k] = Out[k]
    BY <1>3, <2>1
  <2>3. \A k \in Nodes : Box'[k] = Box[k]
    OBVIOUS
  <2>. QED
    BY <2>2, <2>3, AllUnchanged
<1>4. CASE s # <<>>
  <2>1. Len(s) \in 1..Len(Out[n])
    BY <1>1, <1>4, EmptySeq
  <2>2. Out' = [Out EXCEPT ![n] = SubSeq(@, Len(s) + 1, Len(@))]
    BY <1>2 DEF Out
  <2>. QED
    BY <2>1, <2>2 DEF Net!Swallow, Out, Box
<1>. QED
  BY <1>3, <1>4

\* A switch process that exits takes its stream with it.
LEMMA ExitRefines ==
  ASSUME TransportInv, NEW n \in Nodes, Exit(n)
  PROVE  NetUnchanged \/ Net!Swallow(n)
<1>1. n \in Cut
  BY DEF Exit, TransportInv, AllSound
<1>2. /\ held[n] = <<>> /\ UNCHANGED <<held, msgs>> /\ stream'[n] = <<>>
      /\ stream[n] \in Seq(Envelope) /\ msgs[n] \in Seq(Envelope)
      /\ \A k \in Nodes \ {n} : stream'[k] = stream[k]
  BY Types DEF Exit, TransportInv, TypeOK
<1>3. Out[n] = stream[n] \o msgs[n] /\ Out'[n] = msgs[n]
  <2>1. \A x \in Seq(Envelope) : <<>> \o x = x
    BY EmptyConcat
  <2>2. <<>> \o <<>> = <<>>
    OBVIOUS
  <2>. QED
    BY <1>2, <2>1, <2>2 DEF Out
<1>4. \A k \in Nodes \ {n} : Out'[k] = Out[k]
  BY <1>2 DEF Out
<1>5. Box' = Box
  BY DEF Exit, Box
<1>. QED
  BY <1>1, <1>2, <1>3, <1>4, <1>5, FrontSwallowed

\* Nothing is left in the stream of a switch process that is gone, nor in its hands:
\* what is written to it then is the head of Out.
LEMMA WriteLostRefines ==
  ASSUME TransportInv, NEW n \in Nodes, WriteLost(n)
  PROVE  NetUnchanged \/ Net!Swallow(n)
<1>1. n \in Cut /\ held[n] = <<>> /\ stream[n] = <<>>
  BY DEF WriteLost, TransportInv, TypeOK, AllSound
<1>2. /\ UNCHANGED <<held, stream>> /\ msgs[n] # <<>> /\ msgs'[n] = Tail(msgs[n])
      /\ msgs[n] \in Seq(Envelope) /\ Tail(msgs[n]) \in Seq(Envelope)
      /\ Head(msgs[n]) \in Envelope
      /\ \A k \in Nodes \ {n} : msgs'[k] = msgs[k]
  BY Types, HeadTailProperties DEF WriteLost, switchVars, TransportInv, TypeOK
<1>3. \A x \in Seq(Envelope) : <<>> \o x = x
  BY EmptyConcat
<1>4. <<>> \o <<>> = <<>>
  OBVIOUS
<1>5. Out[n] = msgs[n] /\ Out'[n] = Tail(msgs[n])
  BY <1>1, <1>2, <1>3, <1>4 DEF Out
<1>6. msgs[n] = <<Head(msgs[n])>> \o Tail(msgs[n]) /\ <<Head(msgs[n])>> \in Seq(Envelope)
  BY <1>2
<1>7. \A k \in Nodes \ {n} : Out'[k] = Out[k]
  BY <1>2 DEF Out
<1>8. Box' = Box
  BY DEF WriteLost, Box
<1>. QED
  BY <1>1, <1>2, <1>5, <1>6, <1>7, <1>8, FrontSwallowed

LEMMA KilledRefines ==
  ASSUME TransportInv, NEW n \in Nodes, Killed(n)
  PROVE  Net!Die(n)
<1>1. n \in Cut /\ held[n] = <<>> /\ stream[n] = <<>>
  BY DEF Killed, TransportInv, TypeOK, AllSound
<1>2. <<>> \o <<>> = <<>>
  OBVIOUS
<1>3. Out'[n] = <<>> /\ Box'[n] = <<>>
  BY <1>1, <1>2 DEF Killed, switchVars, TransportInv, TypeOK, Out, Box
<1>4. \A k \in Nodes \ {n} : Out'[k] = Out[k] /\ Box'[k] = Box[k]
  BY DEF Killed, switchVars, TransportInv, TypeOK, Out, Box
<1>5. Out' = [Out EXCEPT ![n] = <<>>] /\ Box' = [Box EXCEPT ![n] = <<>>]
  BY <1>3, <1>4 DEF Out, Box
<1>. QED
  BY <1>1, <1>5 DEF Net!Die, Out, Box

\* When the switch process has dealt with the message it held, Out has lost its head.
LEMMA ClearedIsTail ==
  ASSUME TypeOK, NEW n \in Nodes, held[n] # <<>>, held' = Cleared(n),
         UNCHANGED <<stream, msgs>>
  PROVE  /\ Out[n] # <<>> /\ Head(Out[n]) = Head(held[n])
         /\ Out' = [Out EXCEPT ![n] = Tail(@)]
<1>. DEFINE e == Head(held[n])
            s == stream[n] \o msgs[n]
<1>1. /\ held[n] \in Seq(Envelope) /\ stream[n] \in Seq(Envelope) /\ msgs[n] \in Seq(Envelope)
      /\ s \in Seq(Envelope)
  BY Types, ConcatProperties
<1>2. Tail(held[n]) = <<>>
  BY HeldOne
<1>3. \A x \in Seq(Envelope) : <<>> \o x = x
  BY EmptyConcat
<1>4. Out[n] = held[n] \o s
  <2>1. \A x, y, z \in Seq(Envelope) : (x \o y) \o z = x \o (y \o z)
    BY ConcatAssociative
  <2>. QED
    BY <1>1, <2>1 DEF Out
<1>5. Out[n] # <<>> /\ Head(Out[n]) = e /\ Tail(Out[n]) = s
  <2>1. /\ held[n] \o s # <<>> /\ Head(held[n] \o s) = e
        /\ Tail(held[n] \o s) = Tail(held[n]) \o s
    BY ONLY <1>1, held[n] # <<>>, HeadOfConcat
  <2>. QED
    BY <1>1, <1>2, <1>3, <1>4, <2>1
<1>6. /\ held'[n] = <<>>
      /\ \A m \in Nodes \ {n} : held'[m] = held[m]
  BY ClearedHolds
<1>7. Out'[n] = s
  BY <1>1, <1>3, <1>6 DEF Out
<1>8. \A m \in Nodes \ {n} : Out'[m] = Out[m]
  BY <1>6 DEF Out
<1>. QED
  BY <1>5, <1>7, <1>8 DEF Out

\* What is not forwarded leaves every mailbox alone.
LEMMA NotForwardedRefines ==
  ASSUME TypeOK, NEW n \in Nodes, NotForwarded(n)
  PROVE  Net!Forward(n)
<1>1. /\ Out[n] # <<>> /\ Head(Out[n]).to \notin Nodes
      /\ Out' = [Out EXCEPT ![n] = Tail(@)]
  BY ClearedIsTail, ControlsAssumption DEF NotForwarded
<1>2. Box' = Box
  BY DEF NotForwarded, Box
<1>. QED
  BY <1>1, <1>2 DEF Net!Forward, Net!Deliver, Out, Box

\* A message is lost to net_status 3, or because nobody listens: the addressee was
\* killed, or START came early.
LEMMA LossRefines ==
  ASSUME TransportInv, NEW n \in Nodes, Drop(n) \/ Refused(n)
  PROVE  Net!Drop(n) \/ Net!Miss(n) \/ NetUnchanged \/ Net!Swallow(n)
<1>1. /\ Out[n] # <<>> /\ Head(Out[n]) = Head(held[n])
      /\ Out' = [Out EXCEPT ![n] = Tail(@)]
  BY ClearedIsTail DEF Drop, Refused, TransportInv
<1>2. Box' = Box
  BY DEF Drop, Refused, Box
<1>3. CASE NetStatus[n] = 3 \/ n \in Early
  BY <1>1, <1>2, <1>3 DEF Net!Drop, Out, Box
<1>4. CASE Refused(n) /\ n \notin Cut \cup Early
  <2>1. Head(held[n]).to \in dead
    BY <1>4 DEF Refused, TransportInv, AllSound, Sound
  <2>2. Head(held[n]).to \in Cut
    BY <2>1 DEF TransportInv, TypeOK
  <2>. QED
    BY <1>1, <1>2, <2>2 DEF Net!Miss, Out, Box
<1>5. CASE n \in Cut
  <2>1. Out[n] \in Seq(Envelope)
    BY Types, ConcatProperties DEF Out, TransportInv
  <2>2. /\ Out[n] = <<Head(Out[n])>> \o Tail(Out[n])
        /\ <<Head(Out[n])>> \in Seq(Envelope) /\ Tail(Out[n]) \in Seq(Envelope)
    BY <1>1, <2>1
  <2>3. Out'[n] = Tail(Out[n]) /\ \A k \in Nodes \ {n} : Out'[k] = Out[k]
    BY <1>1 DEF Out
  <2>. QED
    BY <1>2, <1>5, <2>2, <2>3, FrontSwallowed
<1>. QED
  BY <1>3, <1>4, <1>5 DEF Drop, Refused

\* A connection to an accept thread is the arrival of its message.
LEMMA ConnectRefines ==
  ASSUME TransportInv, NEW n \in Nodes, Connect(n)
  PROVE  Net!Forward(n)
<1>. DEFINE e == Head(held[n])
<1>1. /\ Out[n] # <<>> /\ Head(Out[n]) = e
      /\ Out' = [Out EXCEPT ![n] = Tail(@)]
  BY ClearedIsTail DEF Connect, TransportInv
<1>2. e \in Envelope /\ e.to \in Nodes /\ e.msg \in Message
  BY HeldOne DEF Connect, TransportInv, TypeOK, Envelope
<1>3. /\ backlog'[e.to] = Append(backlog[e.to], e.msg)
      /\ \A m \in Nodes \ {e.to} : backlog'[m] = backlog[m]
      /\ queue' = queue
  BY <1>2 DEF Connect, TransportInv, TypeOK
<1>4. Box'[e.to] = Append(Box[e.to], e.msg)
  <2>1. queue[e.to] \in Seq(Message) /\ backlog[e.to] \in Seq(Message)
    BY <1>2, Types DEF TransportInv
  <2>2. \A x, y \in Seq(Message) : x \o Append(y, e.msg) = Append(x \o y, e.msg)
    BY <1>2, AppendToConcat
  <2>. QED
    BY <1>2, <1>3, <2>1, <2>2 DEF Box
<1>5. \A m \in Nodes \ {e.to} : Box'[m] = Box[m]
  BY <1>3 DEF Box
<1>6. Box' = [Box EXCEPT ![e.to] = Append(@, e.msg)]
  BY <1>4, <1>5 DEF Box
<1>. QED
  BY <1>1, <1>2, <1>6 DEF Net!Forward, Net!Deliver, Out, Box

-----------------------------------------------------------------------------
LEMMA StepRefines == TransportInv /\ [Next]_vars => [Net!CutNext]_(Net!netVars)
<1>. SUFFICES ASSUME TransportInv, [Next]_vars PROVE NetUnchanged \/ Net!CutNext
  BY DEF NetUnchanged, Net!netVars, Out, Box
<1>1. CASE UNCHANGED vars
  BY <1>1 DEF vars, switchVars, NetUnchanged, Out, Box
<1>2. ASSUME NEW n \in Nodes,
             \/ Listen(n) \/ Start(n) \/ Write(n) \/ WriteLost(n) \/ Killed(n)
             \/ Accept(n) \/ GetMessage(n)
      PROVE  NetUnchanged \/ Net!CutNext
  BY <1>2, SignalsRefine, WriteRefines, AcceptRefines, GetMessageRefines,
     WriteLostRefines, KilledRefines
  DEF Net!CutNext, Net!NetNext, TransportInv
<1>3. ASSUME NEW n \in Nodes, NEW t \in Nodes \cup Controls, Send(n, t)
      PROVE  Net!CutNext
  BY <1>3, SendRefines DEF Net!CutNext, Net!NetNext
<1>4. ASSUME NEW n \in Nodes, Switch(n)
      PROVE  NetUnchanged \/ Net!CutNext
  BY <1>4, RecvRefines, RecvRestRefines, ExitRefines, NotForwardedRefines, LossRefines,
     ConnectRefines
  DEF Switch, Net!CutNext, Net!NetNext, Net!SwitchStep, TransportInv
<1>. QED
  BY <1>1, <1>2, <1>3, <1>4 DEF Next

\* Sockets, threads, streams and connections, in whatever order they run, implement
\* CutNet: a stream that is cut may turn into garbage for anybody and take its node
\* down, but the messages of every other node stay whole and in order, and are lost
\* only by a switch with net_status 3, an early START or at a node that is gone.
THEOREM Refinement == Spec => Net!CutSpec
BY InitInv, StepInv, InitRefines, StepRefines, PTL DEF Spec, Net!CutSpec

-----------------------------------------------------------------------------
(* Where recv returns whole messages.                                      *)

LEMMA NothingCut ==
  ASSUME Cut = {}
  PROVE  [Net!CutNext]_(Net!netVars) => [Net!NetNext]_(Net!netVars)
<1>. SUFFICES ASSUME Net!CutNext PROVE Net!NetNext
  OBVIOUS
<1>1. \A n \in Nodes : ~(Net!Garble(n) \/ Net!Swallow(n) \/ Net!Die(n) \/ Net!Miss(n))
  BY DEF Net!Garble, Net!Swallow, Net!Die, Net!Miss
<1>. QED
  BY <1>1 DEF Net!CutNext

\* If recv of the switch processes returns one message at a time, as the code expects
\* it to, the transport is the network over which the algorithms are modelled.
THEOREM WholeMessages ==
  ASSUME Cut = {}
  PROVE  Spec => Net!NetSpec
BY InitInv, StepInv, InitRefines, StepRefines, NothingCut, PTL DEF Spec, Net!NetSpec

=============================================================================
