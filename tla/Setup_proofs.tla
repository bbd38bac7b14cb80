----------------------------- MODULE Setup_proofs -----------------------------
(***************************************************************************)
(* The quorums that QuorumAssignment makes intersect, and membership is    *)
(* mutual, for every number of nodes: also when the last row of the grid,  *)
(* or its last two, are not full.                                          *)
(* And the machines that contact_servers counts off are those for which    *)
(* there are files.                                                        *)
(***************************************************************************)
EXTENDS Setup, SequenceTheorems, FiniteSetTheorems, WellFoundedInduction, TLAPS

\* Every set of numbers that is not empty has a least element.
LEMMA SmallestElement ==
  ASSUME NEW S, S \subseteq Nat, S # {}
  PROVE  \E m \in S : \A k \in S : m <= k
<1>1. PICK m \in S : \A k \in S : ~ (<<k, m>> \in OpToRel(<, Nat))
  BY NatLessThanWellFounded, WFMin
<1>2. \A k \in S : ~ (k < m)
  BY <1>1 DEF OpToRel
<1>. QED
  BY <1>2

\* The loop that looks for the side of the square ends, with a square that is large enough.
LEMMA SideFacts ==
  ASSUME NEW n \in Nat
  PROVE  Side(n) \in Nat /\ Side(n) >= 1 /\ Side(n) * Side(n) >= n
<1>. DEFINE S == {k \in 1..(n + 1) : k * k >= n}
<1>1. n + 1 \in S
  <2>1. (n + 1) * (n + 1) = n * n + n + n + 1 /\ n * n >= 0
    BY SMT
  <2>. QED
    BY <2>1
<1>2. PICK k \in S : \A j \in S : k <= j
  <2>1. S \subseteq Nat
    OBVIOUS
  <2>2. S # {}
    BY <1>1
  <2>. HIDE DEF S
  <2>. QED
    BY <2>1, <2>2, SmallestElement
<1>3. \A j \in S : ~ (j < k)
  <2>. TAKE j \in S
  <2>. QED
    BY <1>2
<1>4. \A j \in 1..(k - 1) : j * j < n
  <2>. TAKE j \in 1..(k - 1)
  <2>1. j \in 1..(n + 1) /\ j < k
    BY <1>2
  <2>2. j \notin S
    BY <2>1, <1>3
  <2>3. j * j \in Nat
    BY <2>1
  <2>. QED
    BY <2>1, <2>2, <2>3
<1>5. \E x \in 1..(n + 1) : x * x >= n /\ \A j \in 1..(x - 1) : j * j < n
  BY <1>2, <1>4
<1>6. Side(n) \in 1..(n + 1) /\ Side(n) * Side(n) >= n
  BY <1>5 DEF Side
<1>. QED
  BY <1>6

\* No cell of the grid has the number of another.
LEMMA CellInjective ==
  ASSUME NEW k \in Nat, NEW r \in Nat, NEW s \in Nat,
         NEW c \in 0..(k - 1), NEW d \in 0..(k - 1),
         r * k + c = s * k + d
  PROVE  r = s /\ c = d
<1>1. ASSUME NEW x \in Nat, NEW y \in Nat, x < y
      PROVE  x * k + k <= y * k
  <2>1. y * k = x * k + (y - x) * k
    BY <1>1
  <2>2. (y - x) * k = k + (y - x - 1) * k
    BY <1>1
  <2>3. (y - x - 1) * k >= 0
    <3>1. y - x - 1 \in Nat
      BY <1>1
    <3>. QED
      BY <3>1
  <2>4. x * k \in Int /\ (y - x) * k \in Int /\ (y - x - 1) * k \in Int
    BY <1>1
  <2>. QED
    BY <2>1, <2>2, <2>3, <2>4
<1>2. r * k \in Int /\ s * k \in Int
  OBVIOUS
<1>3. ~ (r < s)
  BY <1>1, <1>2
<1>4. ~ (s < r)
  BY <1>1, <1>2
<1>5. r = s
  BY <1>3, <1>4
<1>. QED
  BY <1>5, <1>2

-----------------------------------------------------------------------------
(* The inductive invariant: the quorums made so far are those of the first *)
(* cells, in the order of the rows.                                        *)

InRange(n) == 0..(Side(n) - 1)

\* q is the quorum of the i-th cell of the grid, which holds node i.
OfCell(n, q, i) ==
  \E r, c \in InRange(n) :
    /\ i = Cell(n, Side(n), r, c)
    /\ q = [id |-> i, quorum_members |-> Members(n, Side(n), r, c)]

GridInv ==
  /\ num_nodes \in Nat
  /\ row \in Nat /\ col \in InRange(num_nodes)
  /\ quorum_list \in Seq([id : Nat, quorum_members : SUBSET Nat])
  /\ Len(quorum_list) <= num_nodes
  /\ Len(quorum_list) # num_nodes => Len(quorum_list) = row * Side(num_nodes) + col
  /\ \A i \in 1..Len(quorum_list) : OfCell(num_nodes, quorum_list[i], i)

LEMMA CellNat ==
  ASSUME NEW n \in Nat, NEW r \in InRange(n), NEW c \in InRange(n)
  PROVE  /\ Cell(n, Side(n), r, c) \in Nat
         /\ Cell(n, Side(n), r, c) = r * Side(n) + c + 1
         /\ r * Side(n) \in Nat
         /\ Members(n, Side(n), r, c) \in SUBSET Nat
<1>1. Side(n) \in Nat /\ Side(n) >= 1
  BY SideFacts
<1>. HIDE DEF Side
<1>2. ASSUME NEW x \in InRange(n), NEW y \in InRange(n)
      PROVE  x * Side(n) \in Nat /\ x * Side(n) + y + 1 \in Nat
  <2>1. x \in Nat /\ y \in Nat
    BY <1>1 DEF InRange
  <2>. QED
    BY <1>1, <2>1
<1>3. \A x, y \in InRange(n) : Cell(n, Side(n), x, y) \in Nat
  BY <1>2 DEF Cell
<1>. QED
  BY <1>2, <1>3 DEF Members, Filled, InRange, Cell

LEMMA GridInit == Init => GridInv
<1>. SUFFICES ASSUME Init PROVE GridInv
  OBVIOUS
<1>1. num_nodes \in Nat /\ quorum_list = <<>>
  BY SizesAssumption DEF Init
<1>2. Side(num_nodes) \in Nat /\ Side(num_nodes) >= 1
  BY <1>1, SideFacts
<1>3. row = 0 /\ col = 0 /\ col \in InRange(num_nodes)
  BY <1>2 DEF Init, InRange
<1>4. row * Side(num_nodes) + col = 0
  BY <1>2, <1>3
<1>. QED
  BY <1>1, <1>3, <1>4, EmptySeq DEF GridInv

LEMMA GridStep == GridInv /\ [Next]_vars => GridInv'
<1>. SUFFICES ASSUME GridInv, [Next]_vars PROVE GridInv'
  OBVIOUS
<1>1. Side(num_nodes) \in Nat /\ Side(num_nodes) >= 1
  BY SideFacts DEF GridInv
<1>2. CASE UNCHANGED <<num_nodes, gridVars>>
  BY <1>2 DEF GridInv, gridVars
<1>3. CASE AssignQuorum
  <2>. DEFINE n == num_nodes
              K == Side(num_nodes)
  <2>1. num_nodes' = num_nodes /\ row < K
    BY <1>3 DEF AssignQuorum, inputVars
  <2>2. CASE Len(quorum_list) = num_nodes
    <3>1. quorum_list' = quorum_list /\ row' = row + 1 /\ col' = 0
      BY <1>3, <2>2 DEF AssignQuorum
    <3>. QED
      BY <3>1, <2>1, <2>2, <1>1 DEF GridInv, InRange
  <2>3. CASE Len(quorum_list) # num_nodes
    <3>. DEFINE q == [id |-> Cell(n, K, row, col), quorum_members |-> Members(n, K, row, col)]
    <3>1. quorum_list' = Append(quorum_list, q)
      BY <1>3, <2>3 DEF AssignQuorum
    <3>2. row \in InRange(n) /\ col \in InRange(n)
      BY <2>1, <1>1 DEF GridInv, InRange
    <3>3. /\ Cell(n, K, row, col) \in Nat
          /\ Cell(n, K, row, col) = row * K + col + 1
          /\ row * K \in Nat
          /\ Members(n, K, row, col) \in SUBSET Nat
      BY <3>2, CellNat DEF GridInv
    <3>4. Len(quorum_list) = row * K + col /\ Len(quorum_list) <= n /\ n \in Nat
      BY <2>3 DEF GridInv
    <3>5. q \in [id : Nat, quorum_members : SUBSET Nat]
      BY <3>3
    <3>6. /\ quorum_list' \in Seq([id : Nat, quorum_members : SUBSET Nat])
          /\ Len(quorum_list') = Len(quorum_list) + 1
          /\ \A i \in 1..Len(quorum_list) : quorum_list'[i] = quorum_list[i]
          /\ quorum_list'[Len(quorum_list) + 1] = q
      BY <3>1, <3>5, AppendProperties DEF GridInv
    <3>7. Len(quorum_list) + 1 = Cell(n, K, row, col)
      BY <3>3, <3>4
    <3>8. OfCell(n, q, Len(quorum_list) + 1)
      BY <3>2, <3>7 DEF OfCell
    <3>9. \A i \in 1..Len(quorum_list') : OfCell(n, quorum_list'[i], i)
      <4>. TAKE i \in 1..Len(quorum_list')
      <4>0. Len(quorum_list) \in Nat
        BY LenProperties DEF GridInv
      <4>1. CASE i \in 1..Len(quorum_list)
        BY <4>1, <3>6 DEF GridInv
      <4>2. CASE i = Len(quorum_list) + 1
        BY <4>2, <3>6, <3>8
      <4>. QED
        BY <4>0, <4>1, <4>2, <3>6
    <3>10. col \in Nat /\ col <= K - 1 /\ row \in Nat
      BY <1>1 DEF GridInv, InRange
    <3>11. /\ row' \in Nat /\ col' \in InRange(n)
           /\ row' * K + col' = row * K + col + 1
      <4>1. CASE col + 1 = K
        <5>1. row' = row + 1 /\ col' = 0
          BY <1>3, <2>3, <4>1 DEF AssignQuorum
        <5>2. (row + 1) * K = row * K + K
          BY <1>1, <3>10
        <5>. QED
          BY <5>1, <5>2, <4>1, <1>1, <3>10, <3>3 DEF InRange
      <4>2. CASE col + 1 # K
        <5>1. row' = row /\ col' = col + 1
          BY <1>3, <2>3, <4>2 DEF AssignQuorum
        <5>. QED
          BY <5>1, <4>2, <1>1, <3>10, <3>3 DEF InRange
      <4>. QED
        BY <4>1, <4>2
    <3>12. Len(quorum_list') <= n /\ Len(quorum_list') = row' * K + col'
      BY <3>4, <3>6, <3>11, <2>3
    <3>. QED
      BY <2>1, <3>6, <3>9, <3>11, <3>12, <3>4 DEF GridInv
  <2>. QED
    BY <2>2, <2>3
<1>4. CASE WriteQuorums \/ WriteConfig \/ ContactNext \/ ContactLast
  BY <1>2, <1>4 DEF WriteQuorums, WriteConfig, ContactNext, ContactLast, inputVars, gridVars
<1>. QED
  BY <1>2, <1>3, <1>4 DEF Next, vars, inputVars, gridVars

-----------------------------------------------------------------------------
(* The two properties, from the invariant.                                 *)

\* Two filled cells whose rows are in this order: the cell in the row of the first
\* and the column of the second is filled, and belongs to both quorums.
LEMMA CommonCell ==
  ASSUME NEW n \in Nat,
         NEW r \in InRange(n), NEW c \in InRange(n),
         NEW s \in InRange(n), NEW d \in InRange(n),
         r <= s, Cell(n, Side(n), s, d) <= n
  PROVE  /\ Cell(n, Side(n), r, d) \in Members(n, Side(n), r, c)
         /\ Cell(n, Side(n), r, d) \in Members(n, Side(n), s, d)
<1>1. Side(n) \in Nat /\ Side(n) >= 1
  BY SideFacts
<1>2. r \in Nat /\ s \in Nat /\ d \in Nat
  BY <1>1 DEF InRange
<1>. HIDE DEF Side
<1>3. r * Side(n) <= s * Side(n)
  <2>1. s * Side(n) = r * Side(n) + (s - r) * Side(n)
    BY <1>1, <1>2
  <2>2. s - r \in Nat
    BY <1>2
  <2>3. (s - r) * Side(n) >= 0
    BY <2>2, <1>1
  <2>4. r * Side(n) \in Int /\ (s - r) * Side(n) \in Int
    BY <1>1, <1>2
  <2>. QED
    BY <2>1, <2>3, <2>4
<1>4. Cell(n, Side(n), r, d) <= n
  BY <1>2, <1>3, CellNat
<1>. QED
  BY <1>4 DEF Members, Filled, InRange

\* What the invariant says of the i-th quorum, as facts for both theorems.
LEMMA QuorumFacts ==
  ASSUME GridInv, NEW i \in DOMAIN quorum_list
  PROVE  /\ i \in 1..num_nodes /\ quorum_list[i].id = i
         /\ \E r, c \in InRange(num_nodes) :
              /\ i = Cell(num_nodes, Side(num_nodes), r, c)
              /\ Ids(i) = Members(num_nodes, Side(num_nodes), r, c)
<1>1. /\ Len(quorum_list) \in Nat /\ Len(quorum_list) <= num_nodes /\ num_nodes \in Nat
      /\ i \in 1..Len(quorum_list)
  BY LenProperties DEF GridInv
<1>2. OfCell(num_nodes, quorum_list[i], i)
  BY <1>1 DEF GridInv
<1>3. PICK r \in InRange(num_nodes), c \in InRange(num_nodes) :
        /\ i = Cell(num_nodes, Side(num_nodes), r, c)
        /\ quorum_list[i] = [id |-> i, quorum_members |-> Members(num_nodes, Side(num_nodes), r, c)]
  BY <1>2 DEF OfCell
<1>4. quorum_list[i].id = i /\ Ids(i) = Members(num_nodes, Side(num_nodes), r, c)
  BY <1>3 DEF Ids
<1>. QED
  BY <1>1, <1>3, <1>4

LEMMA GridIntersects == GridInv => QuorumsIntersect
<1>. SUFFICES ASSUME GridInv, NEW i \in DOMAIN quorum_list, NEW j \in DOMAIN quorum_list
              PROVE  Ids(i) \cap Ids(j) # {}
  BY DEF QuorumsIntersect
<1>. DEFINE n == num_nodes
            K == Side(num_nodes)
<1>1. n \in Nat /\ i \in 1..n /\ j \in 1..n
  BY QuorumFacts DEF GridInv
<1>2. PICK r \in InRange(n), c \in InRange(n) :
        i = Cell(n, K, r, c) /\ Ids(i) = Members(n, K, r, c)
  BY QuorumFacts
<1>3. PICK s \in InRange(n), d \in InRange(n) :
        j = Cell(n, K, s, d) /\ Ids(j) = Members(n, K, s, d)
  BY QuorumFacts
<1>4. r \in Int /\ s \in Int
  BY SideFacts, <1>1 DEF InRange
<1>5. CASE r <= s
  BY <1>1, <1>2, <1>3, <1>5, CommonCell
<1>6. CASE s <= r
  BY <1>1, <1>2, <1>3, <1>6, CommonCell
<1>. QED
  BY <1>4, <1>5, <1>6

\* Node j is in the quorum of node i exactly when their cells share a row or a column.
LEMMA SharesLine ==
  ASSUME NEW n \in Nat,
         NEW r \in InRange(n), NEW c \in InRange(n),
         NEW s \in InRange(n), NEW d \in InRange(n),
         Cell(n, Side(n), s, d) <= n
  PROVE  Cell(n, Side(n), s, d) \in Members(n, Side(n), r, c) <=> (r = s \/ c = d)
<1>1. Side(n) \in Nat /\ Side(n) >= 1
  BY SideFacts
<1>2. ASSUME NEW x \in InRange(n), NEW y \in InRange(n),
             Cell(n, Side(n), s, d) = Cell(n, Side(n), x, y)
      PROVE  x = s /\ y = d
  <2>1. /\ s \in Nat /\ x \in Nat /\ d \in 0..(Side(n) - 1) /\ y \in 0..(Side(n) - 1)
        /\ d \in Nat /\ y \in Nat
    BY <1>1 DEF InRange
  <2>2. s * Side(n) + d = x * Side(n) + y
    <3>1. /\ s * Side(n) + d + 1 = x * Side(n) + y + 1
          /\ s * Side(n) \in Nat /\ x * Side(n) \in Nat
      BY <1>2, CellNat
    <3>. QED
      BY <3>1, <2>1
  <2>. QED
    BY <1>1, <2>1, <2>2, CellInjective
<1>3. CASE r = s \/ c = d
  BY <1>3 DEF Members, Filled, InRange
<1>4. ASSUME Cell(n, Side(n), s, d) \in Members(n, Side(n), r, c)
      PROVE  r = s \/ c = d
  <2>1. PICK x \in 0..(Side(n) - 1) : \/ Cell(n, Side(n), s, d) = Cell(n, Side(n), r, x)
                                      \/ Cell(n, Side(n), s, d) = Cell(n, Side(n), x, c)
    BY <1>4 DEF Members, Filled
  <2>2. x \in InRange(n)
    BY DEF InRange
  <2>. QED
    BY <2>1, <2>2, <1>2
<1>. QED
  BY <1>3, <1>4

LEMMA GridMutual == GridInv => QuorumsMutual
<1>. SUFFICES ASSUME GridInv, NEW i \in DOMAIN quorum_list
              PROVE  /\ quorum_list[i].id = i /\ i \in Ids(i)
                     /\ \A j \in DOMAIN quorum_list : j \in Ids(i) <=> i \in Ids(j)
  BY DEF QuorumsMutual
<1>. DEFINE n == num_nodes
            K == Side(num_nodes)
<1>1. n \in Nat /\ i \in 1..n /\ i <= n
  BY QuorumFacts DEF GridInv
<1>2. PICK r \in InRange(n), c \in InRange(n) :
        i = Cell(n, K, r, c) /\ Ids(i) = Members(n, K, r, c)
  BY QuorumFacts
<1>3. i \in Ids(i)
  BY <1>1, <1>2, SharesLine
<1>4. ASSUME NEW j \in DOMAIN quorum_list
      PROVE  j \in Ids(i) <=> i \in Ids(j)
  <2>1. j \in 1..n /\ j <= n
    BY <1>1, QuorumFacts
  <2>2. PICK s \in InRange(n), d \in InRange(n) :
          j = Cell(n, K, s, d) /\ Ids(j) = Members(n, K, s, d)
    BY QuorumFacts
  <2>3. j \in Ids(i) <=> (r = s \/ c = d)
    BY <1>1, <1>2, <2>1, <2>2, SharesLine
  <2>4. i \in Ids(j) <=> (s = r \/ d = c)
    BY <1>1, <1>2, <2>2, SharesLine
  <2>. QED
    BY <2>3, <2>4
<1>. QED
  BY <1>3, <1>4, QuorumFacts

\* Any two of the quorums that QuorumAssignment has made have a member in common,
\* at every moment and for every number of nodes.
THEOREM QuorumsMeet == Spec => []QuorumsIntersect
<1>1. Init => GridInv
  BY GridInit
<1>2. GridInv /\ [Next]_vars => GridInv'
  BY GridStep
<1>3. GridInv => QuorumsIntersect
  BY GridIntersects
<1>. QED
  BY <1>1, <1>2, <1>3, PTL DEF Spec

\* The i-th quorum is node i's, node i is in it, and two nodes are either in each
\* other's quorum or neither is in the other's.
THEOREM MembershipMutual == Spec => []QuorumsMutual
<1>1. Init => GridInv
  BY GridInit
<1>2. GridInv /\ [Next]_vars => GridInv'
  BY GridStep
<1>3. GridInv => QuorumsMutual
  BY GridMutual
<1>. QED
  BY <1>1, <1>2, <1>3, PTL DEF Spec

-----------------------------------------------------------------------------
(* The machines.  From net01 on every fifth is a switch: trans skips them, *)
(* and contact_servers counts the others.                                  *)

\* The compute nodes among the first m machines.
Computes(m) == {x \in 1..m : x % 5 # 0}
Numbered(m) == m - (m \div 5)

LEMMA CountComputes ==
  ASSUME NEW m \in Nat
  PROVE  IsFiniteSet(Computes(m)) /\ Cardinality(Computes(m)) = Numbered(m)
<1>. DEFINE Right(k) == IsFiniteSet(Computes(k)) /\ Cardinality(Computes(k)) = Numbered(k)
            Wrong == {k \in Nat : ~Right(k)}
<1>1. SUFFICES ASSUME Wrong # {} PROVE FALSE
  OBVIOUS
<1>2. PICK k \in Wrong : \A x \in Wrong : k <= x
  <2>1. Wrong \subseteq Nat
    OBVIOUS
  <2>. HIDE DEF Wrong
  <2>. QED
    BY <1>1, <2>1, SmallestElement
<1>3. CASE k = 0
  <2>1. Computes(0) = {} /\ Numbered(0) = 0
    BY DEF Computes, Numbered
  <2>. QED
    BY <1>2, <1>3, <2>1, FS_EmptySet
<1>4. CASE k # 0
  <2>. DEFINE S == Computes(k - 1)
  <2>0. k \in Nat /\ k - 1 \in Nat
    BY <1>2, <1>4
  <2>1. k - 1 \notin Wrong
    BY <1>2, <2>0
  <2>2. IsFiniteSet(S) /\ Cardinality(S) = Numbered(k - 1)
    BY <2>0, <2>1
  <2>3. CASE k % 5 = 0
    <3>1. Computes(k) = S
      BY <2>0, <2>3 DEF Computes
    <3>2. Numbered(k) = Numbered(k - 1)
      BY <2>0, <2>3 DEF Numbered
    <3>. QED
      BY <1>2, <2>2, <3>1, <3>2
  <2>4. CASE k % 5 # 0
    <3>1. Computes(k) = S \cup {k} /\ k \notin S
      BY <2>0, <2>4 DEF Computes
    <3>2. Numbered(k) = Numbered(k - 1) + 1
      BY <2>0, <2>4 DEF Numbered
    <3>3. IsFiniteSet(S \cup {k}) /\ Cardinality(S \cup {k}) = Cardinality(S) + 1
      BY <2>2, <3>1, FS_AddElement
    <3>. QED
      BY <1>2, <2>2, <3>1, <3>2, <3>3
  <2>. QED
    BY <2>3, <2>4
<1>. QED
  BY <1>3, <1>4

\* A machine that is not a switch is known by its number among those.
LEMMA NumberedInjective ==
  ASSUME NEW m \in Nat, NEW k \in Nat, m % 5 # 0, k % 5 # 0
  PROVE  m <= k <=> Numbered(m) <= Numbered(k)
BY DEF Numbered

LEMMA TransFacts ==
  ASSUME NEW i \in 1..36
  PROVE  Trans(i) \in 1..44 /\ Trans(i) % 5 # 0 /\ Numbered(Trans(i)) = i
<1>. DEFINE Fits(m) == m % 5 # 0 /\ Cardinality({x \in 1..m : x % 5 # 0}) = i
            w == i + ((i - 1) \div 4)
<1>1. \A m \in 1..45 : Fits(m) <=> m % 5 # 0 /\ Numbered(m) = i
  BY CountComputes DEF Computes
<1>2. w \in 1..45 /\ w % 5 # 0 /\ Numbered(w) = i
  BY DEF Numbered
<1>3. Trans(i) \in 1..45 /\ Fits(Trans(i))
  BY <1>1, <1>2 DEF Trans
<1>4. Trans(i) \in 1..44
  BY <1>3
<1>. QED
  BY <1>1, <1>3, <1>4

\* The first n nodes are the compute nodes with the first n numbers.
LEMMA FirstNodes ==
  ASSUME NEW n \in 0..36
  PROVE  {Trans(i) : i \in 1..n} = {m \in 1..44 : m % 5 # 0 /\ Numbered(m) <= n}
<1>1. ASSUME NEW i \in 1..n
      PROVE  Trans(i) \in 1..44 /\ Trans(i) % 5 # 0 /\ Numbered(Trans(i)) <= n
  BY TransFacts
<1>2. ASSUME NEW m \in 1..44, m % 5 # 0, Numbered(m) <= n
      PROVE  \E i \in 1..n : m = Trans(i)
  <2>1. Numbered(m) \in 1..n
    BY <1>2 DEF Numbered
  <2>2. /\ Trans(Numbered(m)) \in Nat /\ Trans(Numbered(m)) % 5 # 0
        /\ Numbered(Trans(Numbered(m))) = Numbered(m)
    BY <2>1, TransFacts
  <2>3. Numbered(m) \in Nat
    BY <2>1
  <2>4. m = Trans(Numbered(m))
    BY <1>2, <2>2, <2>3, NumberedInjective
  <2>. QED
    BY <2>1, <2>4
<1>. QED
  BY <1>1, <1>2

-----------------------------------------------------------------------------
(* What is ready when the test starts: the files, and the machines that    *)
(* have been contacted.                                                    *)

\* The machines net01 .. net45 hold 36 compute nodes.
EnoughMachines == Sizes \subseteq 0..36

Nodes(n) == {Trans(i) : i \in 1..n}

\* Every node has a quorum file, and it lists nodes.
FilesWritten ==
  /\ DOMAIN quorum_file = Nodes(num_nodes)
  /\ \A m \in DOMAIN quorum_file : quorum_file[m] \subseteq Nodes(num_nodes)

\* The machines are contacted in the order of their numbers, as far as the last
\* compute node that is counted.
Contacting ==
  /\ current \in Nat /\ current >= 1 /\ contacted = 1..(current - 1)
  /\ count \in Nat /\ count = num_nodes - Numbered(current - 1)
  /\ count = 0 => current = 1 \/ (current - 1) % 5 # 0

\* All nodes of the test have been contacted, and the switches up to the one after
\* the last node.
Contacted ==
  \E last \in 0..44 :
    /\ Numbered(last) = num_nodes /\ (last = 0 \/ last % 5 # 0)
    /\ contacted = (1..last) \cup {SwitchOf(last)}

ReadyInv ==
  /\ num_nodes \in 0..36
  /\ pc \in {"assign", "config", "contact", "done"}
  /\ pc \in {"assign", "config"} => contacted = {} /\ current = 1 /\ count = num_nodes
  /\ pc # "assign" => FilesWritten
  /\ pc \in {"contact", "done"} => DOMAIN config_file = Switches
  /\ pc = "contact" => Contacting
  /\ pc = "done" => Contacted

LEMMA InitReady == EnoughMachines /\ Init => ReadyInv
BY DEF EnoughMachines, Init, ReadyInv

\* At the end of the grid every node has its quorum.
LEMMA AllAssigned ==
  ASSUME GridInv, row = Side(num_nodes)
  PROVE  Len(quorum_list) = num_nodes
<1>1. /\ Side(num_nodes) \in Nat /\ Side(num_nodes) * Side(num_nodes) >= num_nodes
      /\ num_nodes \in Nat
  BY SideFacts DEF GridInv
<1>2. Len(quorum_list) \in Nat /\ Len(quorum_list) <= num_nodes
  BY LenProperties DEF GridInv
<1>3. col \in Nat
  BY <1>1 DEF GridInv, InRange
<1>. QED
  BY <1>1, <1>2, <1>3 DEF GridInv

LEMMA QuorumsWritten ==
  ASSUME GridInv, num_nodes \in 0..36, row = Side(num_nodes), quorum_file' = QuorumFiles,
         num_nodes' = num_nodes
  PROVE  FilesWritten'
<1>1. Len(quorum_list) = num_nodes /\ DOMAIN quorum_list = 1..num_nodes
  BY AllAssigned, LenProperties DEF GridInv
<1>2. \A i \in 1..num_nodes : quorum_list[i].id = i
  BY <1>1, QuorumFacts
<1>3. {Trans(quorum_list[i].id) : i \in DOMAIN quorum_list} = Nodes(num_nodes)
  BY <1>1, <1>2 DEF Nodes
<1>4. ASSUME NEW i \in 1..num_nodes, NEW x \in quorum_list[i].quorum_members
      PROVE  x \in 1..num_nodes
  <2>1. PICK r, c \in InRange(num_nodes) :
          Ids(i) = Members(num_nodes, Side(num_nodes), r, c)
    BY <1>1, QuorumFacts
  <2>2. Side(num_nodes) \in Nat /\ num_nodes \in Nat
    BY SideFacts DEF GridInv
  <2>3. PICK y, z \in InRange(num_nodes) : x = Cell(num_nodes, Side(num_nodes), y, z)
    BY <1>4, <2>1 DEF Ids, Members, Filled, InRange
  <2>4. y * Side(num_nodes) \in Nat /\ z \in Nat /\ x = y * Side(num_nodes) + z + 1
    BY <2>2, <2>3, CellNat DEF InRange
  <2>5. x <= num_nodes
    BY <1>4, <2>1 DEF Ids, Members, Filled
  <2>. QED
    BY <2>2, <2>4, <2>5
<1>5. \A m \in DOMAIN QuorumFiles : QuorumFiles[m] \subseteq Nodes(num_nodes)
  BY <1>1, <1>4 DEF QuorumFiles, Nodes
<1>6. DOMAIN QuorumFiles = Nodes(num_nodes)
  BY <1>3 DEF QuorumFiles
<1>. QED
  BY <1>5, <1>6 DEF FilesWritten

LEMMA StepReady == GridInv /\ ReadyInv /\ [Next]_vars => ReadyInv'
<1>. SUFFICES ASSUME GridInv, ReadyInv, [Next]_vars PROVE ReadyInv'
  OBVIOUS
<1>1. CASE UNCHANGED vars
  BY <1>1 DEF vars, inputVars, gridVars, fileVars, contactVars, ReadyInv, FilesWritten,
              Contacting, Contacted
<1>2. CASE AssignQuorum
  BY <1>2 DEF AssignQuorum, inputVars, fileVars, contactVars, ReadyInv
<1>3. CASE WriteQuorums
  <2>1. FilesWritten'
    BY <1>3, QuorumsWritten DEF WriteQuorums, ReadyInv, inputVars
  <2>. QED
    BY <1>3, <2>1 DEF WriteQuorums, inputVars, contactVars, ReadyInv
<1>4. CASE WriteConfig
  <2>1. Contacting'
    <3>1. /\ contacted' = {} /\ current' = 1 /\ count' = num_nodes' /\ num_nodes' \in 0..36
      BY <1>4 DEF WriteConfig, contactVars, inputVars, ReadyInv
    <3>2. Numbered(0) = 0 /\ 1..0 = {}
      BY DEF Numbered
    <3>. QED
      BY <3>1, <3>2 DEF Contacting
  <2>. QED
    BY <1>4, <2>1 DEF WriteConfig, inputVars, contactVars, ReadyInv, FilesWritten
<1>5. CASE ContactNext
  <2>1. Contacting'
    <3>1. /\ current \in Nat /\ current >= 1 /\ contacted = 1..(current - 1)
          /\ count \in Nat /\ count # 0 /\ count = num_nodes - Numbered(current - 1)
          /\ num_nodes \in Nat /\ num_nodes' = num_nodes
          /\ count' = IF current % 5 # 0 THEN count - 1 ELSE count
          /\ contacted' = contacted \cup {current} /\ current' = current + 1
      BY <1>5 DEF ContactNext, ReadyInv, Contacting, inputVars
    <3>2. contacted' = 1..(current' - 1)
      BY <3>1
    <3>3. Numbered(current) = IF current % 5 # 0 THEN Numbered(current - 1) + 1
                                                 ELSE Numbered(current - 1)
      BY <3>1 DEF Numbered
    <3>4. Numbered(current - 1) \in Int
      BY <3>1 DEF Numbered
    <3>5. /\ current' \in Nat /\ current' >= 1 /\ current' - 1 = current
          /\ count' \in Nat /\ count' = num_nodes - Numbered(current)
          /\ count' = 0 => current % 5 # 0
      BY <3>1, <3>3, <3>4
    <3>. QED
      BY <3>1, <3>2, <3>5 DEF Contacting
  <2>. QED
    BY <1>5, <2>1 DEF ContactNext, inputVars, fileVars, ReadyInv, FilesWritten
<1>6. CASE ContactLast
  <2>1. Contacted'
    <3>. DEFINE last == current - 1
    <3>1. /\ current \in Nat /\ current >= 1 /\ contacted = 1..last
          /\ 0 = num_nodes - Numbered(last) /\ (last = 0 \/ last % 5 # 0)
          /\ num_nodes \in 0..36 /\ num_nodes' = num_nodes
          /\ contacted' = contacted \cup {LastSwitch(current)}
      BY <1>6 DEF ContactLast, ReadyInv, Contacting, inputVars
    <3>2. last \in 0..44 /\ Numbered(last) = num_nodes
      BY <3>1 DEF Numbered
    <3>3. LastSwitch(current) = SwitchOf(last)
      BY <3>1 DEF LastSwitch, SwitchOf
    <3>. QED
      BY <3>1, <3>2, <3>3 DEF Contacted
  <2>. QED
    BY <1>6, <2>1 DEF ContactLast, inputVars, fileVars, ReadyInv, FilesWritten
<1>. QED
  BY <1>1, <1>2, <1>3, <1>4, <1>5, <1>6 DEF Next

LEMMA ReadyImplies == ReadyInv => ReadyToStart
<1>. SUFFICES ASSUME ReadyInv, pc = "done" PROVE ReadyToStart
  BY DEF ReadyToStart
<1>1. /\ num_nodes \in 0..36 /\ DOMAIN quorum_file = Nodes(num_nodes)
      /\ DOMAIN config_file = Switches
      /\ \A m \in DOMAIN quorum_file : quorum_file[m] \subseteq DOMAIN quorum_file
  BY DEF ReadyInv, FilesWritten
<1>2. PICK last \in 0..44 :
        /\ Numbered(last) = num_nodes /\ (last = 0 \/ last % 5 # 0)
        /\ contacted = (1..last) \cup {SwitchOf(last)}
  BY DEF ReadyInv, Contacted
<1>3. Nodes(num_nodes) = Computes(last)
  <2>1. Nodes(num_nodes) = {m \in 1..44 : m % 5 # 0 /\ Numbered(m) <= Numbered(last)}
    BY <1>1, <1>2, FirstNodes DEF Nodes
  <2>2. CASE last = 0
    <3>1. \A m \in 1..44 : m % 5 # 0 => Numbered(m) > 0
      BY DEF Numbered
    <3>2. Numbered(0) = 0 /\ Computes(0) = {}
      BY DEF Numbered, Computes
    <3>3. \A m \in 1..44 : Numbered(m) \in Int
      BY DEF Numbered
    <3>. QED
      BY <2>1, <2>2, <3>1, <3>2, <3>3
  <2>3. CASE last # 0
    <3>1. \A m \in 1..44 : m % 5 # 0 => (Numbered(m) <= Numbered(last) <=> m <= last)
      BY <1>2, <2>3, NumberedInjective
    <3>. QED
      BY <2>1, <3>1 DEF Computes
  <2>. QED
    BY <2>2, <2>3
<1>4. SwitchOf(last) % 5 = 0 /\ SwitchOf(last) \in 1..45
  BY DEF SwitchOf
<1>5. {m \in contacted : m % 5 # 0} = DOMAIN quorum_file
  BY <1>1, <1>2, <1>3, <1>4 DEF Computes
<1>6. Cardinality(DOMAIN quorum_file) = num_nodes
  BY <1>1, <1>2, <1>3, CountComputes
<1>7. \A m \in DOMAIN quorum_file :
        /\ SwitchOf(m) \in 1..45 /\ SwitchOf(m) % 5 = 0
        /\ SwitchOf(m) \in contacted
  <2>. SUFFICES ASSUME NEW m \in Computes(last)
                PROVE  /\ SwitchOf(m) \in 1..45 /\ SwitchOf(m) % 5 = 0
                       /\ SwitchOf(m) \in contacted
    BY <1>1, <1>3
  <2>1. m \in 1..last /\ m % 5 # 0 /\ last \in 1..44 /\ last % 5 # 0
    BY <1>2 DEF Computes
  <2>2. SwitchOf(m) \in 1..45 /\ SwitchOf(m) % 5 = 0
    BY <2>1 DEF SwitchOf
  <2>3. SwitchOf(m) <= last \/ SwitchOf(m) = SwitchOf(last)
    BY <2>1 DEF SwitchOf
  <2>. QED
    BY <1>2, <2>2, <2>3
<1>8. num_nodes > 0 =>
        {m \in contacted : m % 5 = 0} = {SwitchOf(m) : m \in DOMAIN quorum_file}
  <2>. SUFFICES ASSUME num_nodes > 0
                PROVE  {m \in contacted : m % 5 = 0} = {SwitchOf(m) : m \in Computes(last)}
    BY <1>1, <1>3
  <2>1. last \in Computes(last)
    BY <1>2 DEF Numbered, Computes
  <2>2. ASSUME NEW m \in contacted, m % 5 = 0
        PROVE  \E x \in Computes(last) : m = SwitchOf(x)
    <3>1. CASE m = SwitchOf(last)
      BY <2>1, <3>1
    <3>2. CASE m \in 1..last
      <4>1. m - 1 \in Computes(last) /\ m = SwitchOf(m - 1)
        BY <2>2, <3>2 DEF Computes, SwitchOf
      <4>. QED
        BY <4>1
    <3>. QED
      BY <1>2, <3>1, <3>2
  <2>3. \A x \in Computes(last) : SwitchOf(x) \in contacted /\ SwitchOf(x) % 5 = 0
    BY <1>1, <1>3, <1>7
  <2>. QED
    BY <2>2, <2>3
<1>. QED
  BY <1>1, <1>5, <1>6, <1>7, <1>8 DEF ReadyToStart, Switches

\* For as many compute nodes as the machines allow: when the test starts, exactly the
\* nodes with a quorum file have been contacted, and their switches and no other.
THEOREM TestPrepared == EnoughMachines /\ Spec => []ReadyToStart
<1>1. EnoughMachines /\ Init => GridInv /\ ReadyInv
  BY GridInit, InitReady
<1>2. GridInv /\ ReadyInv /\ [Next]_vars => (GridInv /\ ReadyInv)'
  BY GridStep, StepReady
<1>3. ReadyInv => ReadyToStart
  BY ReadyImplies
<1>. QED
  BY <1>1, <1>2, <1>3, PTL DEF Spec

=============================================================================
