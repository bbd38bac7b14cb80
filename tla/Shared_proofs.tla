---------------------------- MODULE Shared_proofs ----------------------------
(***************************************************************************)
(* Lemmas about the two modules that both algorithms are built on: the     *)
(* order of requests (RequestOrder) and the network (SwitchNet).  Those    *)
(* about the network are stated for any sets E of envelopes and Box[t] of  *)
(* messages that may be delivered to t, as long as a message of E that is  *)
(* addressed to t is one of Box[t].                                        *)
(***************************************************************************)
EXTENDS SwitchNet, RequestOrder, SequenceTheorems, FiniteSetTheorems, WellFoundedInduction, TLAPS

-----------------------------------------------------------------------------
(* The order of requests.                                                  *)

\* Every set of numbers that is not empty has a least element.
LEMMA SmallestElement ==
  ASSUME NEW S, S \subseteq Nat, S # {}
  PROVE  \E m \in S : \A k \in S : m <= k
<1>1. PICK m \in S : \A k \in S : ~ (<<k, m>> \in OpToRel(<, Nat))
  BY NatLessThanWellFounded, WFMin
<1>2. \A k \in S : ~ (k < m)
  BY <1>1 DEF OpToRel
<1>. QED
  BY <1>2

\* operator< has a least element in every queue that is not empty.
LEMMA BeginInQueue ==
  ASSUME NEW q, q \subseteq Nat \X Nat, q # {}
  PROVE  Begin(q) \in q
<1>. DEFINE seqs == {r[1] : r \in q}
<1>1. PICK s \in seqs : \A x \in seqs : s <= x
  BY SmallestElement, seqs \subseteq Nat, seqs # {}
<1>. DEFINE froms == {r[2] : r \in {x \in q : x[1] = s}}
<1>2. PICK f \in froms : \A x \in froms : f <= x
  BY <1>1, SmallestElement, froms \subseteq Nat, froms # {}
<1>3. PICK r \in q : r[1] = s /\ r[2] = f
  BY <1>2
<1>4. \A x \in q : x = r \/ Before(r, x)
  <2>. TAKE x \in q
  <2>1. /\ x = <<x[1], x[2]>> /\ r = <<r[1], r[2]>>
        /\ x[1] \in Nat /\ x[2] \in Nat /\ r[1] \in Nat /\ r[2] \in Nat
    BY <1>3
  <2>2. r[1] <= x[1] /\ (x[1] = r[1] => r[2] <= x[2])
    BY <1>1, <1>2, <1>3
  <2>. QED
    BY <2>1, <2>2 DEF Before
<1>. QED
  BY <1>3, <1>4 DEF Begin

\* A set of numbers below a bound has a greatest element: its least upper bound.
LEMMA LargestElement ==
  ASSUME NEW S, S \subseteq Nat, S # {}, NEW B \in Nat, \A k \in S : k <= B
  PROVE  \E m \in S : \A k \in S : k <= m
<1>. DEFINE bounds == {b \in Nat : \A k \in S : k <= b}
<1>1. PICK b \in bounds : \A c \in bounds : b <= c
  BY SmallestElement, bounds \subseteq Nat, bounds # {}
<1>2. CASE b \in S
  BY <1>1, <1>2
<1>3. CASE b \notin S
  <2>1. \A k \in S : k < b
    BY <1>1, <1>3
  <2>2. \A k \in S : k \in Nat /\ k <= b - 1
    BY <2>1
  <2>3. b - 1 \in Nat
    <3>1. b \in Nat
      OBVIOUS
    <3>2. PICK k \in S : TRUE
      OBVIOUS
    <3>. QED
      BY <3>1, <3>2, <2>2
  <2>4. b - 1 \in bounds
    BY <2>2, <2>3
  <2>. QED
    BY <2>4, <1>1
<1>. QED
  BY <1>2, <1>3

\* operator< has a greatest element in every bounded queue that is not empty.
LEMMA FinalInQueue ==
  ASSUME NEW q, q \subseteq Nat \X Nat, q # {},
         NEW B \in Nat, \A r \in q : r[1] <= B /\ r[2] <= B
  PROVE  Final(q) \in q
<1>. DEFINE seqs == {r[1] : r \in q}
<1>0. seqs \subseteq Nat /\ seqs # {} /\ \A x \in seqs : x <= B
  OBVIOUS
<1>1. PICK s \in seqs : \A x \in seqs : x <= s
  BY <1>0, LargestElement
<1>. DEFINE froms == {r[2] : r \in {x \in q : x[1] = s}}
<1>a. froms \subseteq Nat /\ froms # {} /\ \A x \in froms : x <= B
  BY <1>1
<1>2. PICK f \in froms : \A x \in froms : x <= f
  BY <1>a, LargestElement
<1>3. PICK r \in q : r[1] = s /\ r[2] = f
  BY <1>2
<1>4. \A x \in q : x = r \/ Before(x, r)
  <2>. TAKE x \in q
  <2>1. /\ x = <<x[1], x[2]>> /\ r = <<r[1], r[2]>>
        /\ x[1] \in Nat /\ x[2] \in Nat /\ r[1] \in Nat /\ r[2] \in Nat
    BY <1>3
  <2>2. x[1] <= r[1] /\ (x[1] = r[1] => x[2] <= r[2])
    BY <1>1, <1>2, <1>3
  <2>. QED
    BY <2>1, <2>2 DEF Before
<1>. QED
  BY <1>3, <1>4 DEF Final

-----------------------------------------------------------------------------
(* The network.                                                            *)

\* What is under way belongs to E, what has arrived at t belongs to Box[t].
NetHolds(E, Box) ==
  /\ outq \in [Nodes -> Seq(E)]
  /\ mailbox = [t \in Nodes |-> mailbox[t]]
  /\ \A t \in Nodes : mailbox[t] \in Seq(Box[t])

\* quorum_set without node_id: a node is not a peer of its own.
LEMMA PeerSetFacts ==
  ASSUME NEW n \in Nodes
  PROVE  /\ PeerSet(n) \subseteq Nodes
         /\ n \notin PeerSet(n)
         /\ \A i \in 1..Len(Peers[n]) : Peers[n][i] \in PeerSet(n)
BY PeersAssumption, ElementOfSeq DEF PeerSet

\* A message that may go to every peer of n makes an envelope sequence of E.
LEMMA ToPeersHolds ==
  ASSUME NEW n \in Nodes, NEW m, NEW E,
         \A t \in PeerSet(n) : [to |-> t, msg |-> m] \in E
  PROVE  ToPeers(n, m) \in Seq(E)
<1>1. Len(Peers[n]) \in Nat
  BY PeersAssumption, LenProperties
<1>2. \A i \in 1..Len(Peers[n]) : [to |-> Peers[n][i], msg |-> m] \in E
  BY PeerSetFacts
<1>. QED
  BY <1>1, <1>2, IsASeq DEF ToPeers

\* The same for a single addressee.
LEMMA ToHolds ==
  ASSUME NEW t, NEW m, NEW E, [to |-> t, msg |-> m] \in E
  PROVE  To(t, m) \in Seq(E)
BY DEF To

\* n reads a message it may get, and what it sends joins what is under way.
LEMMA ConsumeHolds ==
  ASSUME NEW E, NEW Box, NEW n \in Nodes, NEW s \in Seq(E),
         NetHolds(E, Box), Consume(n, s)
  PROVE  /\ NetHolds(E, Box)'
         /\ Head(mailbox[n]) \in Box[n]
<1>1. /\ Head(mailbox[n]) \in Box[n]
      /\ Tail(mailbox[n]) \in Seq(Box[n])
  BY HeadTailProperties DEF NetHolds, Consume
<1>2. outq[n] \o s \in Seq(E)
  BY ConcatProperties DEF NetHolds
<1>. QED
  BY <1>1, <1>2 DEF NetHolds, Consume

\* Sending of one's own accord.
LEMMA EmitHolds ==
  ASSUME NEW E, NEW Box, NEW n \in Nodes, NEW s \in Seq(E),
         NetHolds(E, Box), Emit(n, s)
  PROVE  NetHolds(E, Box)'
<1>1. outq[n] \o s \in Seq(E)
  BY ConcatProperties DEF NetHolds
<1>. QED
  BY <1>1 DEF NetHolds, Emit

\* A switch process forwards to t only what t may get.
LEMMA SwitchHolds ==
  ASSUME NEW E, NEW Box, NEW n \in Nodes,
         \A e \in E : e.to \in Nodes => e.msg \in Box[e.to],
         NetHolds(E, Box), SwitchStep(n)
  PROVE  NetHolds(E, Box)'
<1>1. /\ Head(outq[n]) \in E
      /\ Tail(outq[n]) \in Seq(E)
  BY HeadTailProperties DEF NetHolds, SwitchStep, Forward, Drop
<1>2. outq' = [outq EXCEPT ![n] = Tail(@)]
  BY DEF SwitchStep, Forward, Drop
<1>3. outq' \in [Nodes -> Seq(E)]
  BY <1>1, <1>2 DEF NetHolds
<1>4. CASE Head(outq[n]).to \in Nodes /\ Forward(n)
  <2>. DEFINE e == Head(outq[n])
  <2>1. Append(mailbox[e.to], e.msg) \in Seq(Box[e.to])
    BY <1>1, <1>4, AppendProperties DEF NetHolds
  <2>2. mailbox' = [mailbox EXCEPT ![e.to] = Append(@, e.msg)]
    BY <1>4 DEF Forward, Deliver
  <2>. QED
    BY <1>3, <2>1, <2>2, <1>4 DEF NetHolds
<1>5. CASE ~(Head(outq[n]).to \in Nodes /\ Forward(n))
  <2>1. mailbox' = mailbox
    BY <1>5 DEF SwitchStep, Forward, Deliver, Drop
  <2>. QED
    BY <1>3, <2>1 DEF NetHolds
<1>. QED
  BY <1>4, <1>5

-----------------------------------------------------------------------------
(* What a node does to the network, in a single action, is a step of the   *)
(* abstract network: it takes one message or none and sends a burst.       *)

IsSeq(s) == \E F : s \in Seq(F)

LEMMA SuffixOf ==
  ASSUME NEW E, NEW s \in Seq(E), NEW t \in Seq(E)
  PROVE  SubSeq(s \o t, Len(s) + 1, Len(s \o t)) = t
<1>. DEFINE u == SubSeq(s \o t, Len(s) + 1, Len(s \o t))
<1>1. /\ s \o t \in Seq(E)
      /\ Len(s \o t) = Len(s) + Len(t)
      /\ Len(s) \in Nat /\ Len(t) \in Nat
      /\ \A i \in 1..Len(t) : (s \o t)[Len(s) + i] = t[i]
  BY ConcatProperties, LenProperties
<1>2. u \in Seq(E)
  <2>1. \A i \in (Len(s) + 1)..Len(s \o t) : (s \o t)[i] \in E
    BY <1>1, ElementOfSeq
  <2>. QED
    BY <1>1, <2>1, SubSeqProperties
<1>3. Len(u) = Len(t) /\ \A i \in 1..Len(t) : u[i] = (s \o t)[Len(s) + i]
  BY <1>1
<1>. QED
  BY <1>1, <1>2, <1>3, SeqEqual

LEMMA InLarger ==
  ASSUME NEW E, NEW F, NEW s \in Seq(E)
  PROVE  s \in Seq(E \cup F) /\ s \in Seq(F \cup E)
OBVIOUS

LEMMA ToIsSeq ==
  ASSUME NEW t, NEW m
  PROVE  IsSeq(To(t, m))
<1>1. To(t, m) \in Seq({[to |-> t, msg |-> m]})
  BY ToHolds
<1>. QED
  BY <1>1 DEF IsSeq

LEMMA ToPeersIsSeq ==
  ASSUME NEW n \in Nodes, NEW m
  PROVE  IsSeq(ToPeers(n, m))
<1>1. ToPeers(n, m) \in Seq({[to |-> t, msg |-> m] : t \in PeerSet(n)})
  BY ToPeersHolds
<1>. QED
  BY <1>1 DEF IsSeq

LEMMA ConcatIsSeq ==
  ASSUME NEW s, NEW t, IsSeq(s), IsSeq(t)
  PROVE  IsSeq(s \o t)
<1>1. PICK E : s \in Seq(E)
  BY DEF IsSeq
<1>2. PICK F : t \in Seq(F)
  BY DEF IsSeq
<1>3. s \o t \in Seq(E \cup F)
  BY <1>1, <1>2, InLarger, ConcatProperties
<1>. QED
  BY <1>3 DEF IsSeq

LEMMA ListIsSeq ==
  ASSUME NEW k \in Nat, NEW s, DOMAIN s = 1..k, s = [i \in DOMAIN s |-> s[i]]
  PROVE  IsSeq(s)
<1>. DEFINE F == {s[i] : i \in 1..k}
<1>1. s \in [1..k -> F]
  OBVIOUS
<1>2. s \in Seq(F)
  BY <1>1
<1>. QED
  BY <1>2 DEF IsSeq

LEMMA NothingIsSeq == IsSeq(<<>>)
<1>1. <<>> \in Seq({})
  OBVIOUS
<1>. QED
  BY <1>1 DEF IsSeq

\* What a step appends to outq[n] is what n sends in it.
LEMMA BurstIs ==
  ASSUME NEW E, outq \in [Nodes -> Seq(E)], NEW n \in Nodes, NEW s, IsSeq(s),
         outq' = [outq EXCEPT ![n] = @ \o s]
  PROVE  Burst(n) = s
<1>1. PICK F : s \in Seq(F)
  BY DEF IsSeq
<1>2. outq[n] \in Seq(E \cup F) /\ s \in Seq(E \cup F)
  BY <1>1, InLarger
<1>3. outq'[n] = outq[n] \o s
  OBVIOUS
<1>. QED
  BY <1>2, <1>3, SuffixOf DEF Burst

LEMMA ConsumeIsNet ==
  ASSUME NEW E, outq \in [Nodes -> Seq(E)], NEW n \in Nodes, NEW s, IsSeq(s), Consume(n, s)
  PROVE  NetNext
<1>1. Burst(n) = s
  BY BurstIs DEF Consume
<1>. QED
  BY <1>1 DEF NetNext

LEMMA EmitIsNet ==
  ASSUME NEW E, outq \in [Nodes -> Seq(E)], NEW n \in Nodes, NEW s, IsSeq(s), Emit(n, s)
  PROVE  NetNext
<1>1. Burst(n) = s
  BY BurstIs DEF Emit
<1>. QED
  BY <1>1 DEF NetNext

-----------------------------------------------------------------------------
(* Counting: how often e occurs in the sequence s, and what that makes of  *)
(* the sequences a node sends.                                             *)

Places(s, e) == {i \in 1..Len(s) : s[i] = e}
Num(s, e) == Cardinality(Places(s, e))

LEMMA PlacesFinite ==
  ASSUME NEW s, IsSeq(s), NEW e
  PROVE  /\ Len(s) \in Nat
         /\ IsFiniteSet(Places(s, e))
         /\ Num(s, e) \in Nat
         /\ Places(s, e) \subseteq 1..Len(s)
<1>1. PICK k \in Nat : k = Len(s)
  BY LenProperties DEF IsSeq
<1>2. IsFiniteSet(1..k)
  BY FS_Interval
<1>3. Places(s, e) \in SUBSET (1..k)
  BY <1>1 DEF Places
<1>4. IsFiniteSet(Places(s, e))
  BY <1>2, <1>3, FS_Subset
<1>. QED
  BY <1>1, <1>3, <1>4, FS_CardinalityType DEF Num

LEMMA NumConcat ==
  ASSUME NEW s, NEW t, IsSeq(s), IsSeq(t), NEW e
  PROVE  Num(s \o t, e) = Num(s, e) + Num(t, e)
<1>. DEFINE P == Places(s, e)
            Q == Places(t, e)
            R == {Len(s) + i : i \in Q}
<1>0. PICK E : s \in Seq(E) /\ t \in Seq(E)
  <2>1. PICK A, B : s \in Seq(A) /\ t \in Seq(B)
    BY DEF IsSeq
  <2>. QED
    BY <2>1, InLarger
<1>1. /\ Len(s \o t) = Len(s) + Len(t)
      /\ Len(s) \in Nat /\ Len(t) \in Nat
      /\ \A i \in 1..Len(s) : (s \o t)[i] = s[i]
      /\ \A i \in 1..Len(t) : (s \o t)[Len(s) + i] = t[i]
  BY <1>0, ConcatProperties, LenProperties
<1>2. Places(s \o t, e) = P \cup R
  <2>1. ASSUME NEW j \in 1..(Len(s) + Len(t))
        PROVE  j \in 1..Len(s) \/ \E i \in 1..Len(t) : j = Len(s) + i
    <3>1. CASE j > Len(s)
      <4>1. j - Len(s) \in 1..Len(t) /\ j = Len(s) + (j - Len(s))
        BY <1>1, <3>1
      <4>. QED
        BY <4>1
    <3>. QED
      BY <1>1, <3>1
  <2>2. ASSUME NEW j \in Places(s \o t, e) PROVE j \in P \cup R
    <3>1. j \in 1..(Len(s) + Len(t)) /\ (s \o t)[j] = e
      BY <1>1 DEF Places
    <3>. QED
      BY <1>1, <2>1, <3>1 DEF Places
  <2>3. ASSUME NEW j \in P \cup R PROVE j \in Places(s \o t, e)
    BY <1>1 DEF Places
  <2>. QED
    BY <2>2, <2>3
<1>3. IsFiniteSet(P) /\ IsFiniteSet(Q)
  BY PlacesFinite
<1>4. IsFiniteSet(R) /\ Cardinality(R) = Cardinality(Q)
  <2>. DEFINE f == [i \in Q |-> Len(s) + i]
  <2>1. Q \subseteq Nat
    BY <1>1 DEF Places
  <2>2. f \in Bijection(Q, R)
    BY <1>1, <2>1 DEF Bijection, Injection, Surjection, IsInjective
  <2>. QED
    BY <1>3, <2>2, FS_Bijection DEF ExistsBijection
<1>5. P \cap R = {}
  BY <1>1 DEF Places
<1>6. Cardinality(P \cup R) = Cardinality(P) + Cardinality(R)
  <2>. HIDE DEF P, R
  <2>1. Cardinality(P \cup R) = Cardinality(P) + Cardinality(R) - Cardinality(P \cap R)
    BY <1>3, <1>4, FS_Union
  <2>2. Cardinality(P) \in Nat /\ Cardinality(R) \in Nat /\ Cardinality(P \cap R) = 0
    BY <1>3, <1>4, <1>5, FS_EmptySet, FS_CardinalityType
  <2>. QED
    BY <2>1, <2>2
<1>. QED
  BY <1>2, <1>4, <1>6 DEF Num

LEMMA NumNothing ==
  ASSUME NEW e
  PROVE  Num(<<>>, e) = 0
<1>1. Places(<<>>, e) = {}
  BY DEF Places
<1>. QED
  BY <1>1, FS_EmptySet DEF Num

LEMMA NumOne ==
  ASSUME NEW x, NEW e
  PROVE  /\ IsSeq(<<x>>)
         /\ Num(<<x>>, e) = IF x = e THEN 1 ELSE 0
<1>1. <<x>> \in Seq({x}) /\ Len(<<x>>) = 1 /\ <<x>>[1] = x
  OBVIOUS
<1>2. Places(<<x>>, e) = IF x = e THEN {1} ELSE {}
  BY <1>1 DEF Places
<1>. QED
  BY <1>1, <1>2, FS_EmptySet, FS_Singleton DEF Num, IsSeq

LEMMA NumAppend ==
  ASSUME NEW E, NEW s \in Seq(E), NEW x \in E, NEW e
  PROVE  Num(Append(s, x), e) = Num(s, e) + IF x = e THEN 1 ELSE 0
<1>1. Append(s, x) = s \o <<x>>
  BY AppendIsConcat
<1>2. IsSeq(s)
  BY DEF IsSeq
<1>. QED
  BY <1>1, <1>2, NumConcat, NumOne

LEMMA NumTail ==
  ASSUME NEW E, NEW s \in Seq(E), s # <<>>, NEW e
  PROVE  /\ Num(s, e) = Num(Tail(s), e) + IF Head(s) = e THEN 1 ELSE 0
         /\ Num(s, e) \in Nat /\ Num(Tail(s), e) \in Nat
<1>1. s = <<Head(s)>> \o Tail(s) /\ Tail(s) \in Seq(E)
  <2>1. /\ Head(s) \in E /\ Tail(s) \in Seq(E) /\ Len(Tail(s)) = Len(s) - 1
        /\ \A i \in 1..Len(Tail(s)) : Tail(s)[i] = s[i+1]
        /\ Len(s) \in Nat
    BY HeadTailProperties, LenProperties
  <2>2. <<Head(s)>> \in Seq(E) /\ Len(<<Head(s)>>) = 1 /\ <<Head(s)>>[1] = s[1]
    BY <2>1
  <2>3. /\ <<Head(s)>> \o Tail(s) \in Seq(E)
        /\ Len(<<Head(s)>> \o Tail(s)) = Len(s)
        /\ (<<Head(s)>> \o Tail(s))[1] = s[1]
        /\ \A i \in 1..Len(Tail(s)) : (<<Head(s)>> \o Tail(s))[1 + i] = Tail(s)[i]
    BY <2>1, <2>2, ConcatProperties
  <2>4. ASSUME NEW i \in 1..Len(s) PROVE (<<Head(s)>> \o Tail(s))[i] = s[i]
    <3>1. CASE i = 1
      BY <2>3, <3>1
    <3>2. CASE i # 1
      <4>1. i - 1 \in 1..Len(Tail(s)) /\ i = 1 + (i - 1) /\ i = (i - 1) + 1
        BY <2>1, <3>2
      <4>. QED
        BY <2>1, <2>3, <4>1
    <3>. QED
      BY <3>1, <3>2
  <2>. QED
    BY <2>1, <2>3, <2>4, SeqEqual
<1>2. IsSeq(s) /\ IsSeq(Tail(s)) /\ IsSeq(<<Head(s)>>)
  BY <1>1, NumOne DEF IsSeq
<1>3. Num(<<Head(s)>> \o Tail(s), e) = Num(<<Head(s)>>, e) + Num(Tail(s), e)
  BY <1>2, NumConcat
<1>4. Num(<<Head(s)>>, e) = IF Head(s) = e THEN 1 ELSE 0
  BY NumOne
<1>5. Num(s, e) \in Nat /\ Num(Tail(s), e) \in Nat
  BY <1>2, PlacesFinite
<1>6. Num(s, e) = Num(<<Head(s)>>, e) + Num(Tail(s), e)
  BY <1>1, <1>3
<1>. QED
  BY <1>4, <1>5, <1>6

\* An envelope that is sent to every peer goes to each of them once.
LEMMA NumToPeers ==
  ASSUME NEW n \in Nodes, NEW m, NEW t, NEW x
  PROVE  Num(ToPeers(n, m), [to |-> t, msg |-> x]) = IF x = m /\ t \in PeerSet(n) THEN 1 ELSE 0
<1>. DEFINE s == ToPeers(n, m)
            e == [to |-> t, msg |-> x]
<1>0. Len(Peers[n]) \in Nat
  BY PeersAssumption, LenProperties
<1>1. Len(s) = Len(Peers[n]) /\ \A i \in 1..Len(Peers[n]) : s[i] = [to |-> Peers[n][i], msg |-> m]
  BY <1>0 DEF ToPeers
<1>2. ASSUME NEW i \in 1..Len(Peers[n]) PROVE s[i] = e <=> Peers[n][i] = t /\ x = m
  <2>1. s[i].to = Peers[n][i] /\ s[i].msg = m /\ e.to = t /\ e.msg = x
    <3>1. s[i] = [to |-> Peers[n][i], msg |-> m]
      BY <1>1
    <3>2. [to |-> Peers[n][i], msg |-> m].to = Peers[n][i] /\ [to |-> Peers[n][i], msg |-> m].msg = m
      OBVIOUS
    <3>. QED
      BY <3>1, <3>2
  <2>2. Peers[n][i] = t /\ x = m => s[i] = e
    BY <1>1
  <2>. QED
    BY <2>1, <2>2
<1>3. \A i, j \in 1..Len(Peers[n]) : Peers[n][i] = Peers[n][j] => i = j
  <2>1. ASSUME NEW i \in 1..Len(Peers[n]), NEW j \in 1..(i-1)
        PROVE  Peers[n][j] # Peers[n][i]
    <3>1. Peers[n][j] < Peers[n][i] /\ j \in 1..Len(Peers[n])
      BY PeersAssumption, <1>0
    <3>2. Peers[n][j] \in Nat /\ Peers[n][i] \in Nat
      BY <3>1, PeersAssumption, ElementOfSeq, NodesAssumption
    <3>. QED
      BY <3>1, <3>2
  <2>2. ASSUME NEW i \in 1..Len(Peers[n]), NEW j \in 1..Len(Peers[n]), i # j
        PROVE  i \in 1..(j-1) \/ j \in 1..(i-1)
    BY <1>0, <2>2
  <2>. QED
    BY <2>1, <2>2
<1>4. CASE x = m /\ t \in PeerSet(n)
  <2>1. PICK i \in 1..Len(Peers[n]) : Peers[n][i] = t
    BY <1>4 DEF PeerSet
  <2>2. Places(s, e) = {i}
    BY <1>1, <1>2, <1>3, <1>4, <2>1 DEF Places
  <2>. QED
    BY <1>4, <2>2, FS_Singleton DEF Num
<1>5. CASE ~(x = m /\ t \in PeerSet(n))
  <2>1. Places(s, e) = {}
    BY <1>1, <1>2, <1>5, PeerSetFacts DEF Places
  <2>. QED
    BY <1>5, <2>1, FS_EmptySet DEF Num
<1>. QED
  BY <1>4, <1>5

LEMMA NumTo ==
  ASSUME NEW t, NEW m, NEW e
  PROVE  Num(To(t, m), e) = IF e = [to |-> t, msg |-> m] THEN 1 ELSE 0
BY NumOne DEF To

=============================================================================
