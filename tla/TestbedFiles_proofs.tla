------------------------- MODULE TestbedFiles_proofs -------------------------
(***************************************************************************)
(* What becomes of the files, for every config.txt and all logs: each node *)
(* gets the requests that config.txt asks of it, in order, and the results *)
(* count the messages that were logged.                                    *)
(***************************************************************************)
EXTENDS TestbedFiles, SequenceTheorems, FiniteSetTheorems, WellFoundedInduction, TLAPS

-----------------------------------------------------------------------------
(* Lines of config.txt.                                                    *)

LEMMA LineFacts ==
  /\ Blank.is = "blank" /\ Start.is = "start" /\ End.is = "end"
  /\ \A l \in ConfigLine : /\ l.is = "request" => l.node \in Indices /\ l.value \in Nat
                           /\ l.is = "setting" => l.value \in Nat
<1>1. Blank.is = "blank" /\ Start.is = "start" /\ End.is = "end"
  BY DEF Blank, Start, End
<1>2. ASSUME NEW l \in ConfigLine
      PROVE  /\ l.is = "request" => l.node \in Indices /\ l.value \in Nat
             /\ l.is = "setting" => l.value \in Nat
  <2>1. CASE l \in {Blank, Start, End}
    BY <1>1, <2>1
  <2>2. CASE l \in Setting
    BY <2>2, TimesAssumption DEF Setting
  <2>3. CASE l \in Request
    BY <2>3, TimesAssumption DEF Request
  <2>. QED
    BY <1>2, <2>1, <2>2, <2>3 DEF ConfigLine
<1>. QED
  BY <1>1, <1>2

\* The lines that getline has returned, but for the empty one after the last.
Pos == Len(config_txt) - Len(unread)

\* The last line has been dealt with, or it was blank.
AtEnd == eof /\ buffer = Blank

\* The lines that have been dealt with.
Past == IF AtEnd THEN Len(config_txt) ELSE Pos - 1

Located ==
  /\ unread \in Seq(ConfigLine) /\ Len(unread) < Len(config_txt)
  /\ \A i \in 1..Len(unread) : unread[i] = config_txt[Pos + i]
  /\ eof \in BOOLEAN /\ (eof => unread = <<>>)
  /\ ~AtEnd => buffer = config_txt[Pos]

\* The end of the file was met between request_start and request_end.
Stuck == step = "block" /\ eof /\ buffer # End

\* The loop the program is in is that of the line it looks at.
Nested ==
  /\ step = "read" => AtEnd \/ ~InBlock(Pos)
  /\ step = "block" => Stuck \/ InBlock(Pos) \/ buffer = End

\* s holds the times of the lines in S.
Holds(s, S) ==
  /\ Len(s) = Cardinality(S)
  /\ \A i \in S : s[Rank(S, i)] = config_txt[i].value

Upto(m, k) == {i \in Asking(m) : i <= k}
Stored == \A m \in Machines : Holds(c.reqlist[m], Upto(m, Past))

ReadInv ==
  /\ config_txt \in Seq(ConfigLine) /\ Len(config_txt) >= 1
  /\ c \in [alloc_time : Nat, reqlist : [Machines -> Seq(Nat)]]
  /\ IF step \in {"read", "block"}
     THEN config_file = <<>> /\ Located /\ Nested /\ (~Stuck => Stored)
     ELSE ScheduleWritten

\* A set of lines is finite, and so are those up to one of them.
LEMMA LinesFinite ==
  ASSUME config_txt \in Seq(ConfigLine), NEW S \in SUBSET DOMAIN config_txt
  PROVE  /\ S \subseteq Nat /\ IsFiniteSet(S) /\ Cardinality(S) \in Nat
<1>1. Len(config_txt) \in Nat /\ DOMAIN config_txt = 1..Len(config_txt)
  OBVIOUS
<1>2. IsFiniteSet(DOMAIN config_txt)
  BY <1>1, FS_Interval
<1>. QED
  BY <1>1, <1>2, FS_Subset, FS_CardinalityType

\* The rank of a line is a place in the list.
LEMMA RankIn ==
  ASSUME config_txt \in Seq(ConfigLine), NEW S \in SUBSET DOMAIN config_txt, NEW i \in S
  PROVE  Rank(S, i) \in 1..Cardinality(S)
<1>. DEFINE R == {j \in S : j <= i}
<1>1. S \subseteq Nat /\ IsFiniteSet(S) /\ Cardinality(S) \in Nat
  BY LinesFinite
<1>2. R \subseteq S /\ i \in R
  BY <1>1
<1>3. IsFiniteSet(R) /\ Cardinality(R) <= Cardinality(S)
  BY <1>1, <1>2, FS_Subset
<1>4. Cardinality(R) \in Nat /\ Cardinality(R) # 0
  BY <1>2, <1>3, FS_CardinalityType, FS_EmptySet
<1>. QED
  BY <1>1, <1>3, <1>4 DEF Rank

\* A line after all of S comes last.
LEMMA HoldsOneMore ==
  ASSUME config_txt \in Seq(ConfigLine), NEW S \in SUBSET DOMAIN config_txt,
         NEW p \in DOMAIN config_txt, \A i \in S : i < p,
         NEW s \in Seq(Nat), NEW t \in Nat, t = config_txt[p].value, Holds(s, S)
  PROVE  Holds(Append(s, t), S \cup {p})
<1>. DEFINE T == S \cup {p}
<1>1. /\ IsFiniteSet(S) /\ Cardinality(S) \in Nat /\ S \subseteq Nat /\ p \in Nat
  BY LinesFinite
<1>2. p \notin S
  BY <1>1
<1>3. Cardinality(T) = Cardinality(S) + 1
  BY <1>1, <1>2, FS_AddElement
<1>4. /\ Len(Append(s, t)) = Len(s) + 1
      /\ \A i \in 1..Len(s) : Append(s, t)[i] = s[i]
      /\ Append(s, t)[Len(s) + 1] = t
  OBVIOUS
<1>5. ASSUME NEW i \in S PROVE Append(s, t)[Rank(T, i)] = config_txt[i].value
  <2>1. Rank(T, i) = Rank(S, i)
    <3>1. {j \in T : j <= i} = {j \in S : j <= i}
      BY <1>1
    <3>. QED
      BY <3>1 DEF Rank
  <2>2. Rank(S, i) \in 1..Len(s)
    BY RankIn DEF Holds
  <2>. QED
    BY <1>4, <2>1, <2>2 DEF Holds
<1>6. Append(s, t)[Rank(T, p)] = config_txt[p].value
  <2>1. {j \in T : j <= p} = T
    BY <1>1
  <2>2. Rank(T, p) = Len(s) + 1
    BY <1>3, <2>1 DEF Rank, Holds
  <2>. QED
    BY <1>4, <2>2
<1>. QED
  BY <1>1, <1>3, <1>4, <1>5, <1>6 DEF Holds

\* getline before the end: it returns the next line, or an empty one after the last.
LEMMA NextLine ==
  ASSUME config_txt \in Seq(ConfigLine), Located, ~eof, NEW whole, GetLine(whole),
         config_txt' = config_txt
  PROVE  /\ Located'
         /\ Pos \in DOMAIN config_txt /\ buffer = config_txt[Pos] /\ Past = Pos - 1
         /\ \/ Pos' = Pos + 1 /\ buffer' = config_txt[Pos'] /\ Pos' \in DOMAIN config_txt
            \/ Pos' = Pos /\ AtEnd'
         /\ \A m : Upto(m, Past)' = Upto(m, Pos)
<1>. DEFINE N == Len(config_txt)
<1>1. /\ N \in Nat /\ DOMAIN config_txt = 1..N /\ Len(unread) \in Nat
      /\ Pos \in 1..N /\ Pos + Len(unread) = N /\ ~AtEnd
  BY DEF Located, Pos, AtEnd
<1>. HIDE DEF N
<1>2. Pos \in DOMAIN config_txt /\ buffer = config_txt[Pos] /\ Past = Pos - 1
  BY <1>1 DEF Located, Past, N
<1>3. \A m : Asking(m)' = Asking(m) /\ Asking(m) \subseteq 1..N
  BY <1>1 DEF Asking, InBlock
<1>4. CASE unread # <<>>
  <2>1. /\ buffer' = Head(unread) /\ unread' = Tail(unread)
        /\ eof' = (Len(unread) = 1 /\ ~whole)
    BY <1>4 DEF GetLine
  <2>2. /\ Len(unread) >= 1 /\ unread' \in Seq(ConfigLine) /\ Len(unread') = Len(unread) - 1
        /\ \A i \in 1..Len(unread') : unread'[i] = unread[i + 1]
        /\ buffer' = unread[1]
    <3>1. Len(unread) # 0
      BY <1>4, EmptySeq DEF Located
    <3>. QED
      BY <1>1, <2>1, <3>1 DEF Located
  <2>3. Pos' = Pos + 1 /\ Pos' \in 1..N
    BY <1>1, <2>2 DEF Pos
  <2>4. buffer' = config_txt[Pos']
    BY <1>1, <2>2, <2>3 DEF Located
  <2>5. Located'
    <3>1. \A i \in 1..Len(unread') : unread'[i] = config_txt'[Pos' + i]
      <4>. TAKE i \in 1..Len(unread')
      <4>1. i + 1 \in 1..Len(unread) /\ Pos' + i = Pos + (i + 1)
        BY <1>1, <2>2, <2>3
      <4>. QED
        BY <2>2, <4>1 DEF Located
    <3>2. eof' \in BOOLEAN /\ (eof' => unread' = <<>>)
      <4>1. eof' \in BOOLEAN
        BY <2>1
      <4>2. eof' => Len(unread) = 1
        BY <2>1
      <4>3. Len(unread') = 0 => unread' = <<>>
        BY <2>2, EmptySeq
      <4>. QED
        BY <2>2, <4>1, <4>2, <4>3
    <3>3. Len(unread') < Len(config_txt')
      BY <1>1, <2>2
    <3>. QED
      BY <2>2, <2>4, <3>1, <3>2, <3>3 DEF Located
  <2>6. ASSUME NEW m PROVE Upto(m, Past)' = Upto(m, Pos)
    <3>1. CASE AtEnd'
      <4>1. Len(unread') = 0
        BY <2>2, <2>5, <3>1 DEF Located, AtEnd
      <4>2. Past' = Pos + 1
        <5>1. Past' = N
          BY <3>1 DEF Past, N
        <5>2. Len(unread) = 1
          BY <1>1, <2>2, <4>1
        <5>3. N = Pos + 1
          BY <1>1, <5>2
        <5>. QED
          BY <5>1, <5>3
      <4>3. Pos + 1 \notin Asking(m)
        BY <2>3, <2>4, <3>1, LineFacts DEF Asking, AtEnd
      <4>. QED
        BY <1>1, <1>3, <4>2, <4>3 DEF Upto
    <3>2. CASE ~AtEnd'
      <4>1. Past' = Pos
        BY <1>1, <2>3, <3>2 DEF Past
      <4>. QED
        BY <1>3, <4>1 DEF Upto
    <3>. QED
      BY <3>1, <3>2
  <2>. QED
    BY <1>1, <1>2, <2>3, <2>4, <2>5, <2>6
<1>5. CASE unread = <<>>
  <2>1. buffer' = Blank /\ eof' = TRUE /\ unread' = unread
    BY <1>5 DEF GetLine
  <2>2. AtEnd' /\ Pos' = Pos
    BY <2>1 DEF AtEnd, Pos
  <2>3. Past' = Pos
    <3>1. Past' = N
      BY <2>2 DEF Past, N
    <3>2. Len(unread) = 0
      BY <1>5
    <3>. QED
      BY <1>1, <3>1, <3>2
  <2>4. Located'
    BY <1>5, <2>1, <2>2 DEF Located
  <2>5. \A m : Upto(m, Past)' = Upto(m, Pos)
    BY <1>3, <2>3 DEF Upto
  <2>. QED
    BY <1>2, <2>2, <2>4, <2>5
<1>. QED
  BY <1>4, <1>5

\* A block goes on to the next line unless that is a request_end, and does not begin
\* but with a request_start.
LEMMA BlockGoesOn ==
  ASSUME config_txt \in Seq(ConfigLine), NEW p \in DOMAIN config_txt,
         p + 1 \in DOMAIN config_txt
  PROVE  /\ InBlock(p) \/ config_txt[p] = Start => InBlock(p + 1) \/ config_txt[p + 1] = End
         /\ InBlock(p + 1) => InBlock(p) \/ config_txt[p] = Start
<1>1. p \in Nat /\ \A k : k \in DOMAIN config_txt <=> k \in 1..Len(config_txt)
  OBVIOUS
<1>2. ASSUME config_txt[p] = Start, config_txt[p + 1] # End PROVE InBlock(p + 1)
  <2>1. p \in 1..((p + 1) - 1) /\ \A k \in (p + 1)..(p + 1) : k = p + 1
    BY <1>1
  <2>. QED
    BY <1>2, <2>1 DEF InBlock
<1>3. ASSUME InBlock(p), config_txt[p + 1] # End PROVE InBlock(p + 1)
  <2>1. PICK s \in 1..(p - 1) : config_txt[s] = Start /\ \A k \in (s + 1)..p : config_txt[k] # End
    BY <1>3 DEF InBlock
  <2>2. s \in 1..((p + 1) - 1) /\ \A k \in (s + 1)..(p + 1) : k \in (s + 1)..p \/ k = p + 1
    BY <1>1
  <2>. QED
    BY <1>3, <2>1, <2>2 DEF InBlock
<1>4. ASSUME InBlock(p + 1) PROVE InBlock(p) \/ config_txt[p] = Start
  <2>1. PICK s \in 1..((p + 1) - 1) :
          config_txt[s] = Start /\ \A k \in (s + 1)..(p + 1) : config_txt[k] # End
    BY <1>4 DEF InBlock
  <2>2. CASE s = p
    BY <2>1, <2>2
  <2>3. CASE s # p
    <3>1. s \in 1..(p - 1) /\ \A k \in (s + 1)..p : k \in (s + 1)..(p + 1)
      BY <1>1, <2>3
    <3>. QED
      BY <2>1, <3>1 DEF InBlock
  <2>. QED
    BY <2>2, <2>3
<1>. QED
  BY <1>2, <1>3, <1>4

\* A line that asks for nothing leaves nothing to store.
LEMMA UptoNext ==
  ASSUME config_txt \in Seq(ConfigLine), NEW p \in DOMAIN config_txt, NEW m
  PROVE  /\ p \notin Asking(m) => Upto(m, p) = Upto(m, p - 1)
         /\ p \in Asking(m) => Upto(m, p) = Upto(m, p - 1) \cup {p}
         /\ Upto(m, p - 1) \in SUBSET DOMAIN config_txt /\ \A i \in Upto(m, p - 1) : i < p
<1>1. Asking(m) \subseteq Nat /\ p \in Nat
  BY DEF Asking
<1>. QED
  BY <1>1 DEF Upto, Asking

LEMMA InitRead == Init => ReadInv
<1>. SUFFICES ASSUME Init PROVE ReadInv
  OBVIOUS
<1>1. PICK f \in Inputs : config_txt = f.config_txt /\ terminated = f.terminated
  BY DEF Init
<1>2. config_txt \in Seq(ConfigLine) /\ config_txt # <<>>
  BY <1>1, InputsAssumption
<1>3. /\ step = "read" /\ buffer = Head(config_txt) /\ unread = Tail(config_txt)
      /\ eof = (Len(config_txt) = 1 /\ ~terminated)
      /\ c = [alloc_time |-> 0, reqlist |-> [m \in Machines |-> <<>>]]
      /\ config_file = <<>>
  BY DEF Init
<1>4. Len(config_txt) \in Nat /\ Len(config_txt) >= 1
  <2>1. Len(config_txt) # 0
    BY <1>2, EmptySeq
  <2>. QED
    BY <1>2, <2>1
<1>5. /\ unread \in Seq(ConfigLine) /\ Len(unread) = Len(config_txt) - 1
      /\ buffer = config_txt[1]
      /\ \A i \in 1..Len(unread) : unread[i] = config_txt[i + 1]
  BY <1>2, <1>3, <1>4
<1>6. Pos = 1
  BY <1>4, <1>5 DEF Pos
<1>7. Located
  <2>1. eof \in BOOLEAN
    BY <1>3
  <2>2. eof => Len(config_txt) = 1
    BY <1>3
  <2>3. Len(unread) = 0 => unread = <<>>
    BY <1>5, EmptySeq
  <2>4. \A i \in 1..Len(unread) : unread[i] = config_txt[Pos + i]
    BY <1>5, <1>6
  <2>. QED
    BY <1>4, <1>5, <1>6, <2>1, <2>2, <2>3, <2>4 DEF Located
<1>8. Nested
  <2>1. 1..(1 - 1) = {}
    OBVIOUS
  <2>2. ~InBlock(1)
    BY <2>1 DEF InBlock
  <2>. QED
    BY <1>3, <1>6, <2>2 DEF Nested
<1>9. c \in [alloc_time : Nat, reqlist : [Machines -> Seq(Nat)]]
  BY <1>3, EmptySeq
<1>10. Stored
  <2>. SUFFICES ASSUME NEW m \in Machines PROVE Holds(c.reqlist[m], Upto(m, Past))
    BY DEF Stored
  <2>1. c.reqlist[m] = <<>>
    BY <1>3
  <2>2. 1 \notin Asking(m) /\ Asking(m) \subseteq Nat \ {0}
    <3>1. 1..(1 - 1) = {}
      OBVIOUS
    <3>2. ~InBlock(1)
      BY <3>1 DEF InBlock
    <3>. QED
      BY <1>2, <3>2 DEF Asking
  <2>3. Past = 0 \/ Past = 1
    <3>1. AtEnd => Len(unread) = 0
      BY <1>7 DEF AtEnd, Located
    <3>2. AtEnd => Past = Len(config_txt)
      BY DEF Past
    <3>3. ~AtEnd => Past = 0
      BY <1>6 DEF Past
    <3>. QED
      BY <1>4, <1>5, <3>1, <3>2, <3>3
  <2>4. Upto(m, Past) = {}
    BY <2>2, <2>3 DEF Upto
  <2>. QED
    BY <2>1, <2>4, FS_EmptySet DEF Holds
<1>. QED
  BY <1>2, <1>3, <1>4, <1>7, <1>8, <1>9, <1>10 DEF ReadInv

\* A list that holds the same lines as before.
LEMMA HoldsStill ==
  ASSUME config_txt' = config_txt, NEW S, NEW s, Holds(s, S)
  PROVE  /\ Len(s) = Cardinality(S)
         /\ \A i \in S : s[Rank(S, i)] = config_txt'[i].value
BY DEF Holds

LEMMA StepReadLine ==
  ASSUME ReadInv, ReadLine
  PROVE  ReadInv'
<1>1. /\ step = "read" /\ ~eof /\ step' = IF buffer = Start THEN "block" ELSE step
      /\ GetLine(terminated) /\ config_txt' = config_txt /\ config_file' = config_file
  BY DEF ReadLine, inputVars
<1>2. /\ config_txt \in Seq(ConfigLine) /\ Len(config_txt) >= 1
      /\ config_file = <<>> /\ Located /\ Nested /\ Stored
      /\ c \in [alloc_time : Nat, reqlist : [Machines -> Seq(Nat)]]
  BY <1>1 DEF ReadInv, Stuck
<1>3. /\ Located'
      /\ Pos \in DOMAIN config_txt /\ buffer = config_txt[Pos] /\ Past = Pos - 1
      /\ \/ Pos' = Pos + 1 /\ buffer' = config_txt[Pos'] /\ Pos' \in DOMAIN config_txt
         \/ Pos' = Pos /\ AtEnd'
      /\ \A m : Upto(m, Past)' = Upto(m, Pos)
  BY <1>1, <1>2, NextLine
<1>4. ~InBlock(Pos)
  BY <1>1, <1>2 DEF Nested, AtEnd
<1>5. \A p : InBlock(p)' <=> InBlock(p)
  BY <1>1 DEF InBlock
<1>6. Nested'
  <2>1. CASE buffer = Start
    <3>1. step' = "block"
      BY <1>1, <2>1
    <3>2. CASE AtEnd'
      <4>1. Stuck'
        BY <3>1, <3>2, LineFacts DEF AtEnd, Stuck
      <4>. QED
        BY <3>1, <4>1 DEF Nested
    <3>3. CASE Pos' = Pos + 1 /\ buffer' = config_txt[Pos'] /\ Pos' \in DOMAIN config_txt
      <4>1. InBlock(Pos') \/ buffer' = End
        BY <1>2, <1>3, <2>1, <3>3, BlockGoesOn
      <4>. QED
        BY <1>5, <3>1, <4>1 DEF Nested
    <3>. QED
      BY <1>3, <3>2, <3>3
  <2>2. CASE buffer # Start
    <3>1. step' = "read"
      BY <1>1, <2>2
    <3>2. CASE AtEnd'
      BY <3>1, <3>2 DEF Nested
    <3>3. CASE Pos' = Pos + 1 /\ Pos' \in DOMAIN config_txt
      <4>1. ~InBlock(Pos')
        BY <1>2, <1>3, <1>4, <2>2, <3>3, BlockGoesOn
      <4>. QED
        BY <1>5, <3>1, <4>1 DEF Nested
    <3>. QED
      BY <1>3, <3>2, <3>3
  <2>. QED
    BY <2>1, <2>2
<1>7. /\ c' \in [alloc_time : Nat, reqlist : [Machines -> Seq(Nat)]]
      /\ c'.reqlist = c.reqlist
  <2>1. c' = IF buffer.is = "setting" THEN [c EXCEPT !.alloc_time = buffer.value] ELSE c
    BY DEF ReadLine
  <2>2. buffer.is = "setting" => buffer.value \in Nat
    BY <1>2, <1>3, LineFacts
  <2>. QED
    BY <1>2, <2>1, <2>2
<1>8. Stored'
  <2>. SUFFICES ASSUME NEW m \in Machines PROVE Holds(c.reqlist[m], Upto(m, Past))'
    BY DEF Stored
  <2>1. Pos \notin Asking(m)
    BY <1>4 DEF Asking
  <2>2. Upto(m, Past)' = Upto(m, Past)
    BY <1>2, <1>3, <2>1, UptoNext
  <2>3. Holds(c.reqlist[m], Upto(m, Past))
    BY <1>2 DEF Stored
  <2>. QED
    BY <1>1, <1>7, <2>2, <2>3, HoldsStill DEF Holds
<1>9. step' \in {"read", "block"}
  BY <1>1
<1>. QED
  BY <1>1, <1>2, <1>3, <1>6, <1>7, <1>8, <1>9 DEF ReadInv

LEMMA StepReadRequest ==
  ASSUME ReadInv, ReadRequest
  PROVE  ReadInv'
<1>1. /\ step = "block" /\ step' = step /\ buffer # End
      /\ GetLine(terminated) /\ config_txt' = config_txt /\ config_file' = config_file
      /\ c' = IF buffer.is = "request"
              THEN [c EXCEPT !.reqlist[Trans(buffer.node)] = Append(@, buffer.value)] ELSE c
  BY DEF ReadRequest, inputVars, Appended
<1>2. /\ config_txt \in Seq(ConfigLine) /\ Len(config_txt) >= 1
      /\ config_file = <<>> /\ Located /\ Nested /\ (~Stuck => Stored)
      /\ c \in [alloc_time : Nat, reqlist : [Machines -> Seq(Nat)]]
  BY <1>1 DEF ReadInv
<1>3. Pos \in DOMAIN config_txt
  BY <1>2 DEF Located, Pos
<1>4. buffer \in ConfigLine
  <2>1. Blank \in ConfigLine
    BY DEF ConfigLine
  <2>. QED
    BY <1>2, <1>3, <2>1 DEF Located, AtEnd
<1>5. buffer.is = "request" => Trans(buffer.node) \in Machines /\ buffer.value \in Nat
  BY <1>4, LineFacts DEF Machines
<1>6. /\ c' \in [alloc_time : Nat, reqlist : [Machines -> Seq(Nat)]]
      /\ \A m \in Machines :
           c'.reqlist[m] = IF buffer.is = "request" /\ Trans(buffer.node) = m
                           THEN Append(c.reqlist[m], buffer.value) ELSE c.reqlist[m]
  <2>1. CASE buffer.is = "request"
    <3>. DEFINE t == Trans(buffer.node)
    <3>1. t \in Machines /\ Append(c.reqlist[t], buffer.value) \in Seq(Nat)
      BY <1>2, <1>5, <2>1
    <3>2. c' = [c EXCEPT !.reqlist[t] = Append(@, buffer.value)]
      BY <1>1, <2>1
    <3>. HIDE DEF t
    <3>3. /\ c' \in [alloc_time : Nat, reqlist : [Machines -> Seq(Nat)]]
          /\ \A m \in Machines :
               c'.reqlist[m] = IF t = m THEN Append(c.reqlist[m], buffer.value) ELSE c.reqlist[m]
      BY <1>2, <3>1, <3>2
    <3>. QED
      BY <2>1, <3>3 DEF t
  <2>2. CASE buffer.is # "request"
    BY <1>1, <1>2, <2>2
  <2>. QED
    BY <2>1, <2>2
<1>7. CASE eof
  <2>1. UNCHANGED fileVars
    BY <1>1, <1>2, <1>7 DEF GetLine, Located
  <2>2. Located' /\ Stuck'
    BY <1>1, <1>2, <1>7, <2>1 DEF fileVars, Located, Stuck, AtEnd, Pos
  <2>. QED
    BY <1>1, <1>2, <1>6, <2>2 DEF ReadInv, Nested
<1>8. CASE ~eof
  <2>1. /\ Located'
        /\ buffer = config_txt[Pos] /\ Past = Pos - 1
        /\ \/ Pos' = Pos + 1 /\ buffer' = config_txt[Pos'] /\ Pos' \in DOMAIN config_txt
           \/ Pos' = Pos /\ AtEnd'
        /\ \A m : Upto(m, Past)' = Upto(m, Pos)
    BY <1>1, <1>2, <1>8, NextLine
  <2>2. InBlock(Pos) /\ Stored
    BY <1>1, <1>2, <1>8 DEF Nested, Stuck
  <2>3. \A p : InBlock(p)' <=> InBlock(p)
    BY <1>1 DEF InBlock
  <2>4. Nested'
    <3>1. CASE AtEnd'
      <4>1. Stuck'
        BY <1>1, <3>1, LineFacts DEF AtEnd, Stuck
      <4>. QED
        BY <1>1, <4>1 DEF Nested
    <3>2. CASE Pos' = Pos + 1 /\ buffer' = config_txt[Pos'] /\ Pos' \in DOMAIN config_txt
      <4>1. InBlock(Pos') \/ buffer' = End
        BY <1>2, <1>3, <2>2, <3>2, BlockGoesOn
      <4>. QED
        BY <1>1, <2>3, <4>1 DEF Nested
    <3>. QED
      BY <2>1, <3>1, <3>2
  <2>5. Stored'
    <3>. SUFFICES ASSUME NEW m \in Machines PROVE Holds(c.reqlist[m], Upto(m, Past))'
      BY DEF Stored
    <3>. DEFINE S == Upto(m, Pos - 1)
                s == c.reqlist[m]
    <3>1. Holds(s, S) /\ s \in Seq(Nat)
      BY <1>2, <2>1, <2>2 DEF Stored
    <3>2. S \in SUBSET DOMAIN config_txt /\ \A i \in S : i < Pos
      BY <1>2, <1>3, UptoNext
    <3>3. CASE buffer.is = "request" /\ Trans(buffer.node) = m
      <4>1. Pos \in Asking(m)
        BY <1>3, <2>1, <2>2, <3>3 DEF Asking
      <4>2. Upto(m, Past)' = S \cup {Pos}
        BY <1>2, <1>3, <2>1, <4>1, UptoNext
      <4>3. c'.reqlist[m] = Append(s, buffer.value)
        BY <1>6, <3>3
      <4>4. Holds(Append(s, buffer.value), S \cup {Pos})
        BY <1>2, <1>3, <1>5, <2>1, <3>1, <3>2, <3>3, HoldsOneMore
      <4>. QED
        BY <1>1, <4>2, <4>3, <4>4, HoldsStill DEF Holds
    <3>4. CASE ~(buffer.is = "request" /\ Trans(buffer.node) = m)
      <4>1. Pos \notin Asking(m)
        BY <2>1, <3>4 DEF Asking
      <4>2. Upto(m, Past)' = S
        BY <1>2, <1>3, <2>1, <4>1, UptoNext
      <4>3. c'.reqlist[m] = s
        BY <1>6, <3>4
      <4>. QED
        BY <1>1, <3>1, <4>2, <4>3, HoldsStill DEF Holds
    <3>. QED
      BY <3>3, <3>4
  <2>. QED
    BY <1>1, <1>2, <1>6, <2>1, <2>4, <2>5 DEF ReadInv
<1>. QED
  BY <1>7, <1>8

\* Steps that read nothing.
LEMMA SameConfig ==
  ASSUME UNCHANGED config_txt
  PROVE  (\A m : Asking(m)' = Asking(m)) /\ (\A p : InBlock(p)' <=> InBlock(p))
<1>1. \A p : InBlock(p)' <=> InBlock(p)
  BY DEF InBlock
<1>. QED
  BY <1>1 DEF Asking

LEMMA SameSchedule ==
  ASSUME UNCHANGED <<config_txt, config_file>>, ScheduleWritten
  PROVE  ScheduleWritten'
<1>1. \A m : Asking(m)' = Asking(m)
  BY SameConfig
<1>. QED
  BY <1>1 DEF ScheduleWritten

LEMMA SameReading ==
  ASSUME UNCHANGED <<config_txt, unread, buffer, eof, c>>
  PROVE  /\ Pos' = Pos /\ Past' = Past /\ (AtEnd' <=> AtEnd)
         /\ Located => Located'
         /\ Stored => Stored'
<1>1. Pos' = Pos /\ Past' = Past /\ (AtEnd' <=> AtEnd)
  BY DEF Pos, Past, AtEnd
<1>2. \A m : Asking(m)' = Asking(m)
  BY SameConfig
<1>3. Located => Located'
  BY <1>1 DEF Located
<1>4. \A m : Upto(m, Past)' = Upto(m, Past)
  BY <1>1, <1>2 DEF Upto
<1>5. Stored => Stored'
  BY <1>4 DEF Stored, Holds
<1>. QED
  BY <1>1, <1>3, <1>5

LEMMA StepEndBlock ==
  ASSUME ReadInv, EndBlock
  PROVE  ReadInv'
<1>1. /\ step = "block" /\ step' = "read" /\ buffer = End
      /\ UNCHANGED <<config_txt, unread, buffer, eof, c, config_file>>
  BY DEF EndBlock, BlockEnds, inputVars, fileVars
<1>2. /\ config_txt \in Seq(ConfigLine) /\ Len(config_txt) >= 1
      /\ config_file = <<>> /\ Located /\ Stored
      /\ c \in [alloc_time : Nat, reqlist : [Machines -> Seq(Nat)]]
  BY <1>1 DEF ReadInv, Stuck
<1>3. ~InBlock(Pos)
  <2>1. Pos \in Nat
    BY <1>2 DEF Located, Pos
  <2>2. ~AtEnd
    BY <1>1, LineFacts DEF AtEnd
  <2>3. config_txt[Pos] = End
    BY <1>1, <1>2, <2>2 DEF Located
  <2>4. \A s \in 1..(Pos - 1) : Pos \in (s + 1)..Pos
    BY <2>1
  <2>. QED
    BY <2>3, <2>4 DEF InBlock
<1>4. Nested' /\ Located' /\ Stored'
  <2>1. Pos' = Pos /\ Located' /\ Stored'
    BY <1>1, <1>2, SameReading
  <2>2. ~InBlock(Pos)'
    BY <1>1, <1>3, <2>1, SameConfig
  <2>. QED
    BY <1>1, <2>1, <2>2 DEF Nested
<1>. QED
  BY <1>1, <1>2, <1>4 DEF ReadInv

LEMMA StepWriteConfig ==
  ASSUME ReadInv, WriteConfig
  PROVE  ReadInv'
<1>1. /\ step = "read" /\ eof /\ step' = "open"
      /\ config_file' = [m \in Machines |-> <<c.alloc_time>> \o c.reqlist[m]]
      /\ config_txt' = config_txt /\ c' = c
  BY DEF WriteConfig, inputVars
<1>2. /\ config_txt \in Seq(ConfigLine) /\ Len(config_txt) >= 1
      /\ Located /\ Nested /\ Stored
      /\ c \in [alloc_time : Nat, reqlist : [Machines -> Seq(Nat)]]
  BY <1>1 DEF ReadInv, Stuck
<1>3. ASSUME NEW m \in Machines PROVE Asking(m) = Upto(m, Past)
  <2>1. Asking(m) \subseteq 1..Len(config_txt) /\ Len(config_txt) \in Nat
    BY <1>2 DEF Asking
  <2>2. CASE AtEnd
    BY <2>1, <2>2 DEF Upto, Past
  <2>3. CASE ~AtEnd
    <3>1. unread = <<>> /\ Len(unread) = 0
      BY <1>1, <1>2 DEF Located
    <3>2. Pos = Len(config_txt)
      BY <2>1, <3>1 DEF Pos
    <3>3. Pos \notin Asking(m)
      BY <1>1, <1>2, <2>3 DEF Nested, Asking
    <3>4. Past = Len(config_txt) - 1
      BY <2>3, <3>2 DEF Past
    <3>. QED
      BY <2>1, <3>2, <3>3, <3>4 DEF Upto
  <2>. QED
    BY <2>2, <2>3
<1>4. ASSUME NEW m \in Machines
      PROVE  /\ Len(config_file'[m]) = 1 + Cardinality(Asking(m))
             /\ \A i \in Asking(m) : config_file'[m][1 + Rank(Asking(m), i)] = config_txt[i].value
  <2>. DEFINE s == c.reqlist[m]
              f == <<c.alloc_time>> \o s
  <2>1. Holds(s, Asking(m)) /\ s \in Seq(Nat) /\ c.alloc_time \in Nat
    BY <1>2, <1>3 DEF Stored
  <2>2. Len(f) = 1 + Len(s) /\ \A k \in 1..Len(s) : f[1 + k] = s[k]
    BY <2>1
  <2>3. \A i \in Asking(m) : Rank(Asking(m), i) \in 1..Len(s)
    <3>1. Asking(m) \in SUBSET DOMAIN config_txt
      BY DEF Asking
    <3>. QED
      BY <1>2, <2>1, <3>1, RankIn DEF Holds
  <2>4. config_file'[m] = f
    BY <1>1
  <2>. HIDE DEF f
  <2>. QED
    BY <2>1, <2>2, <2>3, <2>4 DEF Holds
<1>5. ScheduleWritten'
  <2>1. \A m : Asking(m)' = Asking(m)
    BY <1>1 DEF Asking, InBlock
  <2>. QED
    BY <1>1, <1>4, <2>1 DEF ScheduleWritten
<1>. QED
  BY <1>1, <1>2, <1>5 DEF ReadInv

LEMMA StepRead == ReadInv /\ [Next]_vars => ReadInv'
<1>. SUFFICES ASSUME ReadInv, [Next]_vars PROVE ReadInv'
  OBVIOUS
<1>1. CASE UNCHANGED vars
  <2>1. UNCHANGED <<config_txt, step, unread, buffer, eof, c, config_file>>
    BY <1>1 DEF vars, inputVars, fileVars
  <2>2. CASE step \in {"read", "block"}
    <3>1. (Located => Located') /\ (Stored => Stored') /\ Pos' = Pos /\ (AtEnd' <=> AtEnd)
      BY <2>1, SameReading
    <3>2. Stuck' <=> Stuck
      BY <2>1 DEF Stuck
    <3>3. Nested => Nested'
      <4>1. InBlock(Pos)' <=> InBlock(Pos)
        BY <2>1, <3>1, SameConfig
      <4>. QED
        BY <2>1, <3>1, <3>2, <4>1 DEF Nested
    <3>. QED
      BY <2>1, <2>2, <3>1, <3>2, <3>3 DEF ReadInv
  <2>3. CASE step \notin {"read", "block"}
    BY <2>1, <2>3, SameSchedule DEF ReadInv
  <2>. QED
    BY <2>2, <2>3
<1>2. ASSUME step \in {"open", "log"}, step' \in {"open", "log", "done"},
             UNCHANGED <<config_txt, c, config_file>>
      PROVE  ReadInv'
  BY <1>2, SameSchedule DEF ReadInv
<1>3. CASE \E m \in Machines : OpenLog(m)
  BY <1>2, <1>3 DEF OpenLog, inputVars
<1>4. CASE ReadPair \/ CloseLog
  BY <1>2, <1>4 DEF ReadPair, CloseLog, inputVars
<1>. QED
  BY <1>1, <1>3, <1>4, StepReadLine, StepReadRequest, StepEndBlock, StepWriteConfig DEF Next

\* For every config.txt, with any comments, settings and blocks in any order: each
\* node's file holds the requests that are asked of it between request_start and
\* request_end, in the order of config.txt, and no others.
THEOREM SchedulesRight == Spec => []ScheduleWritten
<1>1. ReadInv => ScheduleWritten
  BY DEF ReadInv, ScheduleWritten
<1>. QED
  BY <1>1, InitRead, StepRead, PTL DEF Spec

-----------------------------------------------------------------------------
(* The lines of a log.                                                     *)

\* Every set of numbers that is not empty has a least element.
LEMMA SmallestElement ==
  ASSUME NEW S, S \subseteq Nat, S # {}
  PROVE  \E m \in S : \A k \in S : m <= k
<1>1. PICK m \in S : \A k \in S : ~ (<<k, m>> \in OpToRel(<, Nat))
  BY NatLessThanWellFounded, WFMin
<1>2. \A k \in S : ~ (k < m)
  BY <1>1 DEF OpToRel
<1>. QED
  BY <1>2

\* A sequence of sequences is flattened piece by piece.
LEMMA FlattenPieces ==
  ASSUME NEW s, Len(s) \in Nat
  PROVE  \E f : f = [i \in 1..Len(s) |-> IF i = 1 THEN s[i] ELSE f[i - 1] \o s[i]]
<1>. DEFINE Pieces(f, n) == f = [i \in 1..n |-> IF i = 1 THEN s[i] ELSE f[i - 1] \o s[i]]
            Some(n) == \E f : Pieces(f, n)
            Bad == {n \in Nat : ~Some(n)}
<1>. SUFFICES Some(Len(s))
  OBVIOUS
<1>. HIDE DEF Some
<1>1. SUFFICES ASSUME Bad # {} PROVE FALSE
  OBVIOUS
<1>2. PICK n \in Bad : \A x \in Bad : n <= x
  <2>1. Bad \subseteq Nat
    OBVIOUS
  <2>. HIDE DEF Bad
  <2>. QED
    BY <1>1, <2>1, SmallestElement
<1>3. CASE n = 0
  <2>. DEFINE g == [i \in 1..0 |-> s[i]]
  <2>1. Pieces(g, 0)
    <3>1. 1..0 = {}
      OBVIOUS
    <3>. QED
      BY <3>1
  <2>. HIDE DEF Pieces, g
  <2>. QED
    BY <1>2, <1>3, <2>1 DEF Some
<1>4. CASE n # 0
  <2>1. n - 1 \in Nat /\ n \in Nat /\ n - 1 \notin Bad
    BY <1>2, <1>4
  <2>2. PICK g : Pieces(g, n - 1)
    <3>1. Some(n - 1)
      BY <2>1
    <3>. QED
      BY <3>1 DEF Some
  <2>. DEFINE last == IF n = 1 THEN s[n] ELSE g[n - 1] \o s[n]
              h == [i \in 1..n |-> IF i = n THEN last ELSE g[i]]
  <2>3. ASSUME NEW i \in 1..n
        PROVE  h[i] = IF i = 1 THEN s[i] ELSE h[i - 1] \o s[i]
    <3>1. CASE i = n
      <4>1. n # 1 => h[n - 1] = g[n - 1]
        BY <2>1
      <4>. QED
        BY <2>1, <3>1, <4>1
    <3>2. CASE i # n
      <4>1. i \in 1..(n - 1) /\ h[i] = g[i]
        BY <2>1, <3>2
      <4>2. g[i] = IF i = 1 THEN s[i] ELSE g[i - 1] \o s[i]
        BY <2>2, <4>1
      <4>3. i # 1 => h[i - 1] = g[i - 1]
        BY <2>1, <4>1
      <4>. QED
        BY <4>1, <4>2, <4>3
    <3>. QED
      BY <3>1, <3>2
  <2>4. h = [i \in 1..n |-> h[i]]
    OBVIOUS
  <2>. HIDE DEF h
  <2>5. Pieces(h, n)
    BY <2>3, <2>4
  <2>. HIDE DEF Pieces
  <2>. QED
    BY <1>2, <2>5 DEF Some
<1>. QED
  BY <1>3, <1>4

Line == [is : {"control", "message", "rest", "length"}, value : Nat]

\* A line that begins a record.
Opens(l) == l.is \in {"control", "message"}

MessageLines(s, k) == {j \in 1..k : s[j].is = "message"}

\* What the lines s of the first k records of a log are like: a line that begins a
\* record is followed by one that does not, and there are as many message lines as
\* messages; if no record is split, the lines come in pairs.
LinesOf(log, k, s) ==
  /\ s \in Seq(Line)
  /\ \A j \in 1..Len(s) : Opens(s[j]) => j < Len(s) /\ ~Opens(s[j + 1])
  /\ Cardinality(MessageLines(s, Len(s))) = Cardinality({i \in 1..k : ~log[i].control})
  /\ (\A i \in DOMAIN log : ~log[i].split) =>
       /\ Len(s) = 2 * k
       /\ \A i \in 1..k : s[2 * i - 1] = First(log[i]) /\ s[2 * i] = Length(log[i])

LEMMA RecordLinesFacts ==
  ASSUME NEW r \in Record
  PROVE  LET s == RecordLines(r) IN
         /\ s \in Seq(Line) /\ Len(s) \in {2, 3}
         /\ s[1] = First(r) /\ Opens(s[1]) /\ (s[1].is = "message" <=> ~r.control)
         /\ \A j \in 2..Len(s) : ~Opens(s[j])
         /\ ~r.split => Len(s) = 2 /\ s[2] = Length(r)
<1>1. /\ First(r) \in Line /\ Opens(First(r)) /\ (First(r).is = "message" <=> ~r.control)
      /\ Rest \in Line /\ ~Opens(Rest) /\ Length(r) \in Line /\ ~Opens(Length(r))
  <2>1. r.length \in Nat /\ r.control \in BOOLEAN
    BY DEF Record
  <2>2. First(r) \in Line /\ Opens(First(r)) /\ (First(r).is = "message" <=> ~r.control)
    BY <2>1 DEF First, Line, Opens
  <2>3. Rest \in Line /\ ~Opens(Rest)
    BY DEF Rest, Line, Opens
  <2>4. Length(r) \in Line /\ ~Opens(Length(r))
    BY <2>1 DEF Length, Line, Opens
  <2>. QED
    BY <2>2, <2>3, <2>4
<1>2. CASE r.split
  <2>1. RecordLines(r) = <<First(r), Rest, Length(r)>>
    BY <1>2 DEF RecordLines
  <2>. QED
    BY <1>1, <1>2, <2>1
<1>3. CASE ~r.split
  <2>1. RecordLines(r) = <<First(r), Length(r)>>
    BY <1>3 DEF RecordLines
  <2>. QED
    BY <1>1, <1>3, <2>1
<1>. QED
  BY <1>2, <1>3

LEMMA OneRecordMore ==
  ASSUME NEW log \in Seq(Record), NEW k \in Nat, k < Len(log), NEW s, LinesOf(log, k, s)
  PROVE  LinesOf(log, k + 1, s \o RecordLines(log[k + 1]))
<1>. DEFINE r == log[k + 1]
            t == RecordLines(r)
            N == Len(s)
            u == s \o t
<1>1. r \in Record
  OBVIOUS
<1>2. /\ t \in Seq(Line) /\ Len(t) \in {2, 3}
      /\ t[1] = First(r) /\ Opens(t[1]) /\ (t[1].is = "message" <=> ~r.control)
      /\ \A j \in 2..Len(t) : ~Opens(t[j])
      /\ ~r.split => Len(t) = 2 /\ t[2] = Length(r)
  BY <1>1, RecordLinesFacts
<1>3. s \in Seq(Line) /\ N \in Nat
  BY DEF LinesOf
<1>. HIDE DEF t, r
<1>0. Len(t) \in Nat /\ Len(t) >= 2
  <2>1. Len(t) = 2 \/ Len(t) = 3
    BY <1>2
  <2>2. CASE Len(t) = 2
    BY <2>2
  <2>3. CASE Len(t) = 3
    BY <2>3
  <2>. QED
    BY <2>1, <2>2, <2>3
<1>4. /\ u \in Seq(Line) /\ Len(u) = N + Len(t)
      /\ \A j \in 1..N : u[j] = s[j]
      /\ \A j \in 1..Len(t) : u[N + j] = t[j]
  BY <1>2, <1>3
<1>. HIDE DEF u, N
<1>5. \A j \in 1..Len(u) : Opens(u[j]) => j < Len(u) /\ ~Opens(u[j + 1])
  <2>. SUFFICES ASSUME NEW j \in 1..Len(u), Opens(u[j]) PROVE j < Len(u) /\ ~Opens(u[j + 1])
    OBVIOUS
  <2>1. CASE j \in 1..N
    <3>1. Opens(s[j])
      BY <1>4, <2>1
    <3>2. j < N /\ ~Opens(s[j + 1])
      BY <2>1, <3>1 DEF LinesOf, N
    <3>. QED
      BY <1>2, <1>3, <1>4, <2>1, <3>2
  <2>2. CASE j \notin 1..N
    <3>1. PICK i \in 1..Len(t) : j = N + i
      <4>1. j - N \in 1..Len(t) /\ j = N + (j - N)
        BY <1>2, <1>3, <1>4, <2>2
      <4>. QED
        BY <4>1
    <3>2. i = 1
      BY <1>2, <1>4, <3>1
    <3>3. 2 \in 1..Len(t) /\ 2 \in 2..Len(t)
      BY <1>0
    <3>4. u[N + 2] = t[2] /\ ~Opens(t[2]) /\ j + 1 = N + 2
      BY <1>2, <1>3, <1>4, <3>1, <3>2, <3>3
    <3>5. j < Len(u)
      BY <1>0, <1>3, <1>4, <3>1, <3>2
    <3>. QED
      BY <3>4, <3>5
  <2>. QED
    BY <2>1, <2>2
<1>6. Cardinality(MessageLines(u, Len(u))) = Cardinality({i \in 1..(k + 1) : ~log[i].control})
  <2>. DEFINE A == MessageLines(s, N)
              B == {i \in 1..k : ~log[i].control}
  <2>1. Cardinality(A) = Cardinality(B)
    BY DEF LinesOf, N
  <2>2. IsFiniteSet(A) /\ IsFiniteSet(B) /\ Cardinality(A) \in Nat
    <3>1. A \subseteq 1..N /\ B \subseteq 1..k
      BY DEF MessageLines
    <3>2. IsFiniteSet(1..N) /\ IsFiniteSet(1..k)
      BY <1>3, FS_Interval
    <3>3. IsFiniteSet(A) /\ IsFiniteSet(B)
      BY <3>1, <3>2, FS_Subset
    <3>. QED
      BY <3>3, FS_CardinalityType
  <2>3. MessageLines(u, Len(u)) = A \cup {j \in {N + 1} : ~r.control}
    <3>1. ASSUME NEW j \in 1..Len(u)
          PROVE  u[j].is = "message" <=> j \in A \/ (j = N + 1 /\ ~r.control)
      <4>1. CASE j \in 1..N
        BY <1>3, <1>4, <4>1 DEF MessageLines
      <4>2. CASE j \notin 1..N
        <5>1. PICK i \in 1..Len(t) : j = N + i
          <6>1. j - N \in 1..Len(t) /\ j = N + (j - N)
            BY <1>2, <1>3, <1>4, <4>2
          <6>. QED
            BY <6>1
        <5>2. j \notin A /\ u[j] = t[i]
          BY <1>4, <4>2, <5>1 DEF MessageLines
        <5>3. CASE i = 1
          BY <1>2, <5>1, <5>2, <5>3
        <5>4. CASE i # 1
          <6>1. ~Opens(t[i]) /\ j # N + 1
            BY <1>2, <1>3, <5>1, <5>4
          <6>. QED
            BY <5>2, <6>1 DEF Opens
        <5>. QED
          BY <5>3, <5>4
      <4>. QED
        BY <4>1, <4>2
    <3>2. A \subseteq 1..Len(u) /\ N + 1 \in 1..Len(u)
      BY <1>2, <1>3, <1>4 DEF MessageLines
    <3>. QED
      BY <3>1, <3>2 DEF MessageLines
  <2>4. {i \in 1..(k + 1) : ~log[i].control} = B \cup {i \in {k + 1} : ~r.control}
    <3>1. \A i : i \in 1..(k + 1) <=> i \in 1..k \/ i = k + 1
      OBVIOUS
    <3>. QED
      BY <3>1 DEF r
  <2>5. N + 1 \notin A /\ k + 1 \notin B
    BY <1>3 DEF MessageLines
  <2>. HIDE DEF A, B
  <2>6. CASE r.control
    BY <2>1, <2>3, <2>4, <2>6
  <2>7. CASE ~r.control
    <3>1. Cardinality(A \cup {N + 1}) = Cardinality(A) + 1
          /\ Cardinality(B \cup {k + 1}) = Cardinality(B) + 1
      BY <2>2, <2>5, FS_AddElement
    <3>2. {j \in {N + 1} : ~r.control} = {N + 1} /\ {i \in {k + 1} : ~r.control} = {k + 1}
      BY <2>7
    <3>. QED
      BY <2>1, <2>3, <2>4, <3>1, <3>2
  <2>. QED
    BY <2>6, <2>7
<1>7. ASSUME \A i \in DOMAIN log : ~log[i].split
      PROVE  /\ Len(u) = 2 * (k + 1)
             /\ \A i \in 1..(k + 1) : u[2 * i - 1] = First(log[i]) /\ u[2 * i] = Length(log[i])
  <2>1. N = 2 * k /\ \A i \in 1..k : s[2 * i - 1] = First(log[i]) /\ s[2 * i] = Length(log[i])
    BY <1>7 DEF LinesOf, N
  <2>2. Len(t) = 2 /\ t[2] = Length(r)
    <3>1. k + 1 \in DOMAIN log
      OBVIOUS
    <3>. QED
      BY <1>2, <1>7, <3>1 DEF r
  <2>3. ASSUME NEW i \in 1..k PROVE u[2 * i - 1] = First(log[i]) /\ u[2 * i] = Length(log[i])
    <3>1. 2 * i - 1 \in 1..N /\ 2 * i \in 1..N
      BY <2>1
    <3>. QED
      BY <1>4, <2>1, <3>1
  <2>4. u[2 * (k + 1) - 1] = First(log[k + 1]) /\ u[2 * (k + 1)] = Length(log[k + 1])
    <3>1. 2 * (k + 1) - 1 = N + 1 /\ 2 * (k + 1) = N + 2
      BY <2>1
    <3>2. 1 \in 1..Len(t) /\ 2 \in 1..Len(t)
      BY <2>2
    <3>. QED
      BY <1>2, <1>4, <2>2, <3>1, <3>2 DEF r
  <2>5. \A i : i \in 1..(k + 1) <=> i \in 1..k \/ i = k + 1
    OBVIOUS
  <2>6. Len(u) = 2 * (k + 1)
    BY <1>4, <2>1, <2>2
  <2>. QED
    BY <2>3, <2>4, <2>5, <2>6
<1>. QED
  BY <1>4, <1>5, <1>6, <1>7 DEF LinesOf, u, t, r

LEMMA LogLinesFacts ==
  ASSUME NEW log \in Seq(Record)
  PROVE  LinesOf(log, Len(log), LogLines(log))
<1>. DEFINE s == [i \in DOMAIN log |-> RecordLines(log[i])]
            N == Len(log)
<1>1. N \in Nat /\ DOMAIN log = 1..N /\ Len(s) = N
  OBVIOUS
<1>2. LinesOf(log, 0, <<>>)
  <2>1. 1..0 = {} /\ Len(<<>>) = 0 /\ <<>> \in Seq(Line)
    OBVIOUS
  <2>2. MessageLines(<<>>, Len(<<>>)) = {} /\ {i \in 1..0 : ~log[i].control} = {}
    BY <2>1 DEF MessageLines
  <2>3. Cardinality(MessageLines(<<>>, Len(<<>>))) = Cardinality({i \in 1..0 : ~log[i].control})
    BY <2>2
  <2>4. \A j \in 1..Len(<<>>) : FALSE
    BY <2>1
  <2>5. Len(<<>>) = 2 * 0 /\ \A i \in 1..0 : FALSE
    BY <2>1
  <2>. QED
    BY <2>1, <2>3, <2>4, <2>5 DEF LinesOf
<1>3. CASE N = 0
  <2>1. s = <<>>
    BY <1>1, <1>3
  <2>2. LogLines(log) = s
    BY <1>1, <1>3 DEF LogLines, FlattenSeq
  <2>. QED
    BY <1>2, <1>3, <2>1, <2>2
<1>4. CASE N # 0
  <2>. DEFINE f == CHOOSE g : g = [i \in 1..Len(s) |-> IF i = 1 THEN s[i] ELSE g[i - 1] \o s[i]]
  <2>. HIDE DEF s
  <2>1. f = [i \in 1..Len(s) |-> IF i = 1 THEN s[i] ELSE f[i - 1] \o s[i]]
    BY <1>1, FlattenPieces
  <2>2. LogLines(log) = f[Len(s)]
    BY <1>1, <1>4 DEF LogLines, FlattenSeq, s
  <2>. HIDE DEF f
  <2>3. \A i \in 1..N : s[i] = RecordLines(log[i]) /\ s[i] \in Seq(Line)
    <3>1. \A i \in 1..N : log[i] \in Record
      OBVIOUS
    <3>. QED
      BY <1>1, <3>1, RecordLinesFacts DEF s
  <2>4. \A i \in 1..N : LinesOf(log, i, f[i])
    <3>. DEFINE Bad == {i \in 1..N : ~LinesOf(log, i, f[i])}
    <3>1. SUFFICES ASSUME Bad # {} PROVE FALSE
      OBVIOUS
    <3>2. PICK i \in Bad : \A x \in Bad : i <= x
      <4>1. Bad \subseteq Nat
        OBVIOUS
      <4>. HIDE DEF Bad
      <4>. QED
        BY <3>1, <4>1, SmallestElement
    <3>3. i \in 1..N /\ ~LinesOf(log, i, f[i])
      BY <3>2
    <3>4. CASE i = 1
      <4>1. f[1] = s[1] /\ s[1] = RecordLines(log[1]) /\ s[1] \in Seq(Line)
        BY <1>1, <2>1, <2>3, <3>3, <3>4
      <4>2. <<>> \o s[1] = s[1]
        BY <4>1
      <4>3. LinesOf(log, 0 + 1, <<>> \o RecordLines(log[0 + 1]))
        <5>1. 0 \in Nat /\ 0 < Len(log)
          BY <1>1, <1>4
        <5>. QED
          BY <1>2, <5>1, OneRecordMore
      <4>. QED
        BY <3>3, <3>4, <4>1, <4>2, <4>3
    <3>5. CASE i # 1
      <4>1. i - 1 \in 1..N /\ i - 1 \notin Bad /\ i - 1 \in Nat /\ i - 1 < N /\ (i - 1) + 1 = i
        BY <1>1, <3>2, <3>3, <3>5
      <4>2. LinesOf(log, i - 1, f[i - 1])
        BY <4>1
      <4>3. LinesOf(log, (i - 1) + 1, f[i - 1] \o RecordLines(log[(i - 1) + 1]))
        BY <4>1, <4>2, OneRecordMore
      <4>4. f[i] = f[i - 1] \o s[i]
        BY <1>1, <2>1, <3>3, <3>5
      <4>. QED
        BY <2>3, <3>3, <4>1, <4>3, <4>4
    <3>. QED
      BY <3>4, <3>5
  <2>. QED
    BY <1>1, <1>4, <2>2, <2>4
<1>. QED
  BY <1>3, <1>4

-----------------------------------------------------------------------------
(* The counts.                                                             *)

\* The lines of m's log, the messages of some machines, and their bytes.
Of(m) == LogLines(logs[m])
SentOf(M) == UNION {{<<m, i>> : i \in Messages(m)} : m \in M}
BytesOf(S) == UNION {{<<s, b>> : b \in 1..logs[s[1]][s[2]].length} : s \in S}

\* The messages of the logs read before m's, and of the first k records of m's.
Earlier(m) == SentOf(Machines \ (todo \cup {m}))
Early(m, k) == {<<m, i>> : i \in {x \in Messages(m) : x <= k}}

\* The counts are those of S.
Exact(S) ==
  /\ IsFiniteSet(S) /\ IsFiniteSet(BytesOf(S))
  /\ msg_count = Cardinality(S) /\ total_length = Cardinality(BytesOf(S))

\* Between two logs.
Totals ==
  /\ IsFiniteSet(SentOf(Machines \ todo))
  /\ msg_count >= Cardinality(SentOf(Machines \ todo))
  /\ ~Splits => Exact(SentOf(Machines \ todo))

\* In the log of m, p lines have been dealt with.
At(m, p) ==
  IF eof THEN p = Len(Of(m))
  ELSE /\ p < Len(Of(m)) /\ buffer = Of(m)[p + 1]
       /\ unread \in Seq(Line) /\ Len(unread) = Len(Of(m)) - p - 1
       /\ \A i \in 1..Len(unread) : unread[i] = Of(m)[p + 1 + i]

Counted(m, p) ==
  /\ IsFiniteSet(Earlier(m))
  /\ msg_count >= Cardinality(Earlier(m)) + Cardinality(MessageLines(Of(m), p))
  /\ ~Splits => \E k \in 0..Len(logs[m]) : p = 2 * k /\ Exact(Earlier(m) \cup Early(m, k))

CountInv ==
  /\ logs \in [Machines -> Seq(Record)] /\ todo \subseteq Machines
  /\ msg_count \in Nat /\ total_length \in Nat
  /\ step \in {"read", "block", "open", "log", "done"}
  /\ step \in {"read", "block"} => todo = Machines /\ msg_count = 0 /\ total_length = 0
  /\ step # "log" => Totals
  /\ step = "open" => todo # {} \/ Machines = {}
  /\ step = "log" => \E m \in Machines \ todo, p \in Nat : At(m, p) /\ Counted(m, p)
  /\ step = "done" => todo = {}

\* Everything said of the logs stays as it is while they do.
LEMMA SameLogs ==
  ASSUME UNCHANGED logs
  PROVE  /\ \A m : Messages(m)' = Messages(m)
         /\ \A M : SentOf(M)' = SentOf(M)
         /\ \A S : BytesOf(S)' = BytesOf(S)
         /\ Splits' <=> Splits
         /\ \A m : Of(m)' = Of(m)
<1>1. \A m : Messages(m)' = Messages(m)
  BY DEF Messages
<1>2. \A M : SentOf(M)' = SentOf(M)
  BY <1>1 DEF SentOf
<1>3. \A S : BytesOf(S)' = BytesOf(S)
  BY DEF BytesOf
<1>4. Splits' <=> Splits
  BY DEF Splits
<1>5. \A m : Of(m)' = Of(m)
  BY DEF Of
<1>. QED
  BY <1>1, <1>2, <1>3, <1>4, <1>5

LEMMA SameExact ==
  ASSUME UNCHANGED <<logs, msg_count, total_length>>
  PROVE  \A S : Exact(S)' <=> Exact(S)
BY SameLogs DEF Exact

LEMMA SameTotals ==
  ASSUME UNCHANGED <<logs, todo, msg_count, total_length>>, Totals
  PROVE  Totals'
<1>1. SentOf(Machines \ todo)' = SentOf(Machines \ todo)
  BY SameLogs
<1>2. Exact(SentOf(Machines \ todo))' <=> Exact(SentOf(Machines \ todo))
  BY <1>1, SameExact
<1>. QED
  BY <1>1, <1>2, SameLogs DEF Totals

LEMMA NoneSent ==
  SentOf({}) = {} /\ BytesOf({}) = {}
BY DEF SentOf, BytesOf

\* The log that is read next.
LEMMA MinIn ==
  ASSUME todo \subseteq Machines, todo # {}
  PROVE  Min(todo) \in todo
<1>1. todo \subseteq Nat
  <2>1. \A i \in Indices : i \in 1..36
    BY IndicesAssumption
  <2>2. \A i \in Indices : Trans(i) \in Nat
    BY <2>1 DEF Trans
  <2>. QED
    BY <2>2 DEF Machines
<1>2. PICK m \in todo : \A k \in todo : m <= k
  BY <1>1, SmallestElement
<1>. QED
  BY <1>2 DEF Min

\* One message more.
LEMMA OneMoreSent ==
  ASSUME NEW S, NEW x, x \notin S, IsFiniteSet(S), IsFiniteSet(BytesOf(S)),
         logs[x[1]][x[2]].length \in Nat
  PROVE  /\ IsFiniteSet(S \cup {x}) /\ Cardinality(S \cup {x}) = Cardinality(S) + 1
         /\ IsFiniteSet(BytesOf(S \cup {x}))
         /\ Cardinality(BytesOf(S \cup {x})) =
              Cardinality(BytesOf(S)) + logs[x[1]][x[2]].length
<1>. DEFINE n == logs[x[1]][x[2]].length
            New == {<<x, b>> : b \in 1..n}
            f == [b \in 1..n |-> <<x, b>>]
<1>1. IsFiniteSet(S \cup {x}) /\ Cardinality(S \cup {x}) = Cardinality(S) + 1
  BY FS_AddElement
<1>2. BytesOf(S \cup {x}) = BytesOf(S) \cup New
  BY DEF BytesOf
<1>3. BytesOf(S) \cap New = {}
  BY DEF BytesOf
<1>4. IsFiniteSet(1..n) /\ Cardinality(1..n) = n
  <2>1. n \in Nat
    OBVIOUS
  <2>. HIDE DEF n
  <2>. QED
    BY <2>1, FS_Interval
<1>5. IsFiniteSet(New) /\ Cardinality(New) = n
  <2>1. f \in Bijection(1..n, New)
    BY DEF Bijection, Injection, Surjection, IsInjective
  <2>. QED
    BY <1>4, <2>1, FS_Bijection DEF ExistsBijection
<1>. DEFINE B == BytesOf(S)
<1>6. IsFiniteSet(B \cup New) /\ Cardinality(B \cup New) = Cardinality(B) + n
  <2>1. IsFiniteSet(B) /\ B \cap New = {} /\ n \in Nat
    BY <1>3
  <2>. HIDE DEF B, New, n
  <2>2. IsFiniteSet(B \cup New)
        /\ Cardinality(B \cup New) = Cardinality(B) + Cardinality(New) - Cardinality(B \cap New)
    BY <1>5, <2>1, FS_Union
  <2>3. Cardinality(B) \in Nat /\ Cardinality(B \cap New) = 0
    BY <2>1, FS_CardinalityType, FS_EmptySet
  <2>. QED
    BY <1>5, <2>1, <2>2, <2>3
<1>. QED
  BY <1>1, <1>2, <1>6

\* What a pair of lines adds to the message lines: one at most, and none if the first
\* is that of a control message.
LEMMA PairMessages ==
  ASSUME NEW s \in Seq(Line), NEW p \in Nat, p < Len(s),
         \A j \in 1..Len(s) : Opens(s[j]) => j < Len(s) /\ ~Opens(s[j + 1]),
         NEW q \in {p + 1, p + 2}, q <= Len(s), NEW n \in Nat,
         n >= Cardinality(MessageLines(s, p))
  PROVE  (IF s[p + 1].is # "control" THEN n + 1 ELSE n) >= Cardinality(MessageLines(s, q))
<1>. DEFINE M == MessageLines(s, p)
<1>0. Len(s) \in Nat /\ p + 1 \in 1..Len(s)
  OBVIOUS
<1>1. IsFiniteSet(M) /\ Cardinality(M) \in Nat
  <2>1. M \in SUBSET (1..p)
    BY DEF MessageLines
  <2>2. IsFiniteSet(1..p)
    BY FS_Interval
  <2>3. IsFiniteSet(M)
    BY <2>1, <2>2, FS_Subset
  <2>. QED
    BY <2>3, FS_CardinalityType
<1>2. MessageLines(s, q) \subseteq M \cup {p + 1} \cup {p + 2}
  BY DEF MessageLines
<1>3. \A x : IsFiniteSet(M \cup {x}) /\ Cardinality(M \cup {x}) <= Cardinality(M) + 1
  <2>. HIDE DEF M
  <2>. TAKE x
  <2>1. /\ IsFiniteSet(M \cup {x})
        /\ Cardinality(M \cup {x}) = IF x \in M THEN Cardinality(M) ELSE Cardinality(M) + 1
    BY <1>1, FS_AddElement
  <2>. QED
    BY <1>1, <2>1
<1>4. CASE s[p + 1].is = "control"
  <2>1. p + 1 \notin MessageLines(s, q)
    BY <1>4 DEF MessageLines
  <2>2. p + 2 \notin MessageLines(s, q)
    <3>1. Opens(s[p + 1])
      BY <1>4 DEF Opens
    <3>2. ~Opens(s[(p + 1) + 1]) /\ (p + 1) + 1 = p + 2
      BY <1>0, <3>1
    <3>. QED
      BY <3>2 DEF MessageLines, Opens
  <2>3. MessageLines(s, q) \in SUBSET M
    BY <1>2, <2>1, <2>2
  <2>4. Cardinality(MessageLines(s, q)) <= Cardinality(M) /\ Cardinality(MessageLines(s, q)) \in Nat
    BY <1>1, <2>3, FS_Subset, FS_CardinalityType
  <2>. QED
    BY <1>1, <1>4, <2>4
<1>5. CASE s[p + 1].is # "control"
  <2>1. \E x : MessageLines(s, q) \in SUBSET (M \cup {x})
    <3>1. CASE Opens(s[p + 1])
      <4>1. ~Opens(s[(p + 1) + 1]) /\ (p + 1) + 1 = p + 2
        BY <1>0, <3>1
      <4>2. p + 2 \notin MessageLines(s, q)
        BY <4>1 DEF MessageLines, Opens
      <4>3. MessageLines(s, q) \in SUBSET (M \cup {p + 1})
        BY <1>2, <4>2
      <4>. QED
        BY <4>3
    <3>2. CASE ~Opens(s[p + 1])
      <4>1. p + 1 \notin MessageLines(s, q)
        BY <3>2 DEF MessageLines, Opens
      <4>2. MessageLines(s, q) \in SUBSET (M \cup {p + 2})
        BY <1>2, <4>1
      <4>. QED
        BY <4>2
    <3>. QED
      BY <3>1, <3>2
  <2>2. PICK x : MessageLines(s, q) \in SUBSET (M \cup {x})
    BY <2>1
  <2>3. IsFiniteSet(M \cup {x}) /\ Cardinality(M \cup {x}) <= Cardinality(M) + 1
    BY <1>3
  <2>4. /\ Cardinality(MessageLines(s, q)) <= Cardinality(M \cup {x})
        /\ Cardinality(MessageLines(s, q)) \in Nat /\ Cardinality(M \cup {x}) \in Nat
    BY <2>2, <2>3, FS_Subset, FS_CardinalityType
  <2>5. n >= Cardinality(M)
    OBVIOUS
  <2>. HIDE DEF M
  <2>. QED
    BY <1>1, <1>5, <2>3, <2>4, <2>5
<1>. QED
  BY <1>4, <1>5

\* The lines of m's log.
LEMMA OfFacts ==
  ASSUME logs \in [Machines -> Seq(Record)], NEW m \in Machines
  PROVE  /\ Of(m) \in Seq(Line) /\ Len(Of(m)) \in Nat
         /\ \A j \in 1..Len(Of(m)) : Opens(Of(m)[j]) => j < Len(Of(m)) /\ ~Opens(Of(m)[j + 1])
         /\ Cardinality(MessageLines(Of(m), Len(Of(m)))) = Cardinality(Messages(m))
         /\ ~Splits =>
              /\ Len(Of(m)) = 2 * Len(logs[m])
              /\ \A i \in 1..Len(logs[m]) : /\ Of(m)[2 * i - 1] = First(logs[m][i])
                                            /\ Of(m)[2 * i] = Length(logs[m][i])
<1>1. logs[m] \in Seq(Record) /\ Len(logs[m]) \in Nat /\ DOMAIN logs[m] = 1..Len(logs[m])
  OBVIOUS
<1>2. LinesOf(logs[m], Len(logs[m]), Of(m))
  BY <1>1, LogLinesFacts DEF Of
<1>3. Messages(m) = {i \in 1..Len(logs[m]) : ~logs[m][i].control}
  BY <1>1 DEF Messages
<1>4. ~Splits => \A i \in DOMAIN logs[m] : ~logs[m][i].split
  BY DEF Splits
<1>5. Of(m) \in Seq(Line)
  BY <1>2 DEF LinesOf
<1>6. Len(Of(m)) \in Nat
  BY <1>5
<1>. QED
  BY <1>2, <1>3, <1>4, <1>5, <1>6 DEF LinesOf

LEMMA InitCount == Init => CountInv
<1>. SUFFICES ASSUME Init PROVE CountInv
  OBVIOUS
<1>1. logs \in [Machines -> Seq(Record)]
  BY InputsAssumption DEF Init
<1>2. step = "read" /\ todo = Machines /\ msg_count = 0 /\ total_length = 0
  BY DEF Init
<1>3. Totals
  <2>1. SentOf(Machines \ todo) = {} /\ BytesOf({}) = {}
    <3>1. Machines \ todo = {}
      BY <1>2
    <3>. QED
      BY <3>1, NoneSent
  <2>2. IsFiniteSet({}) /\ Cardinality({}) = 0
    BY FS_EmptySet
  <2>3. Exact({})
    BY <1>2, <2>1, <2>2 DEF Exact
  <2>. QED
    BY <1>2, <2>1, <2>2, <2>3 DEF Totals
<1>. QED
  BY <1>1, <1>2, <1>3 DEF CountInv

LEMMA StepCountRead ==
  ASSUME CountInv, ReadLine \/ ReadRequest \/ EndBlock \/ WriteConfig
  PROVE  CountInv'
<1>1. /\ UNCHANGED <<logs, todo, msg_count, total_length>>
      /\ step \in {"read", "block"} /\ step' \in {"read", "block", "open"}
  BY DEF ReadLine, ReadRequest, EndBlock, WriteConfig, inputVars, countVars
<1>2. Totals'
  BY <1>1, SameTotals DEF CountInv
<1>3. step' = "open" => todo' # {} \/ Machines = {}
  BY <1>1 DEF CountInv
<1>. QED
  BY <1>1, <1>2, <1>3 DEF CountInv

LEMMA StepOpenLog ==
  ASSUME CountInv, NEW m \in Machines, OpenLog(m)
  PROVE  CountInv'
<1>1. /\ step = "open" /\ step' = "log" /\ m = Min(todo) /\ todo' = todo \ {m}
      /\ UNCHANGED <<logs, msg_count, total_length>>
  BY DEF OpenLog, inputVars, countVars, Remaining
<1>2. /\ logs \in [Machines -> Seq(Record)] /\ todo \subseteq Machines
      /\ msg_count \in Nat /\ total_length \in Nat /\ Totals
  BY <1>1 DEF CountInv
<1>3. m \in todo
  <2>1. todo # {}
    BY <1>1 DEF CountInv
  <2>. QED
    BY <1>1, <1>2, <2>1, MinIn
<1>4. m \in Machines \ todo' /\ todo' \subseteq Machines /\ Machines \ (todo' \cup {m}) = Machines \ todo
  BY <1>1, <1>2, <1>3
<1>5. At(m, 0)'
  <2>. DEFINE lines == Of(m)
  <2>1. IF lines = <<>>
        THEN buffer' = Blank /\ eof' = TRUE /\ unread' = <<>>
        ELSE buffer' = Head(lines) /\ eof' = FALSE /\ unread' = Tail(lines)
    BY DEF OpenLog, Of
  <2>2. Of(m)' = lines
    BY <1>1, SameLogs
  <2>3. lines \in Seq(Line) /\ Len(lines) \in Nat
    BY <1>2, OfFacts
  <2>. HIDE DEF lines
  <2>4. CASE lines = <<>>
    BY <2>1, <2>2, <2>4 DEF At
  <2>5. CASE lines # <<>>
    <3>1. /\ Len(lines) > 0 /\ Head(lines) = lines[1]
          /\ Tail(lines) \in Seq(Line) /\ Len(Tail(lines)) = Len(lines) - 1
          /\ \A i \in 1..Len(Tail(lines)) : Tail(lines)[i] = lines[i + 1]
      BY <2>3, <2>5
    <3>2. eof' = FALSE /\ buffer' = lines[1] /\ unread' = Tail(lines)
      BY <2>1, <2>5, <3>1
    <3>3. \A i \in 1..Len(unread') : 0 + 1 + i = i + 1
      BY <2>3, <3>1, <3>2
    <3>. QED
      BY <2>2, <2>3, <3>1, <3>2, <3>3 DEF At
  <2>. QED
    BY <2>4, <2>5
<1>6. Counted(m, 0)'
  <2>. DEFINE O == SentOf(Machines \ todo)
  <2>1. Earlier(m)' = O
    BY <1>1, <1>4, SameLogs DEF Earlier
  <2>2. Early(m, 0)' = {}
    <3>1. Messages(m) \subseteq 1..Len(logs[m])
      BY <1>2 DEF Messages
    <3>2. Messages(m)' = Messages(m) /\ \A x \in Messages(m) : ~(x <= 0)
      BY <1>1, <3>1, SameLogs
    <3>. QED
      BY <3>2 DEF Early
  <2>3. Cardinality(MessageLines(Of(m)', 0)) = 0 /\ MessageLines(Of(m)', 0) = {}
    <3>1. 1..0 = {}
      OBVIOUS
    <3>. QED
      BY <3>1, FS_EmptySet DEF MessageLines
  <2>4. IsFiniteSet(O) /\ msg_count >= Cardinality(O) /\ Cardinality(O) \in Nat
    BY <1>2, FS_CardinalityType DEF Totals
  <2>5. ~Splits' => Exact(Earlier(m) \cup Early(m, 0))'
    <3>1. ~Splits' => Exact(O)
      BY <1>1, <1>2, SameLogs DEF Totals
    <3>2. Earlier(m)' \cup Early(m, 0)' = O
      BY <2>1, <2>2
    <3>. HIDE DEF O
    <3>. QED
      BY <1>1, <3>1, <3>2, SameExact
  <2>6. 0 \in 0..Len(logs'[m]) /\ 0 = 2 * 0
    BY <1>1, <1>2
  <2>7. msg_count' >= Cardinality(Earlier(m)') + Cardinality(MessageLines(Of(m)', 0))
    BY <1>1, <2>1, <2>3, <2>4
  <2>8. IsFiniteSet(Earlier(m)')
    BY <2>1, <2>4
  <2>. HIDE DEF O
  <2>. QED
    BY <2>5, <2>6, <2>7, <2>8 DEF Counted
<1>. QED
  BY <1>1, <1>2, <1>4, <1>5, <1>6 DEF CountInv

LEMMA TailLines ==
  ASSUME NEW s \in Seq(Line), Len(s) >= 1
  PROVE  /\ Tail(s) \in Seq(Line) /\ Len(Tail(s)) = Len(s) - 1
         /\ \A i \in 1..Len(Tail(s)) : Tail(s)[i] = s[i + 1]
OBVIOUS

LEMMA StepReadPair ==
  ASSUME CountInv, ReadPair
  PROVE  CountInv'
<1>1. /\ step = "log" /\ ~eof /\ step' = "log"
      /\ UNCHANGED <<logs, todo>>
  BY DEF ReadPair, inputVars
<1>2. /\ logs \in [Machines -> Seq(Record)] /\ todo \subseteq Machines
      /\ msg_count \in Nat /\ total_length \in Nat
  BY DEF CountInv
<1>3. PICK m \in Machines \ todo, p \in Nat : At(m, p) /\ Counted(m, p)
  BY <1>1 DEF CountInv
<1>. DEFINE s == Of(m)
            log == logs[m]
<1>4. /\ s \in Seq(Line) /\ Len(s) \in Nat
      /\ \A j \in 1..Len(s) : Opens(s[j]) => j < Len(s) /\ ~Opens(s[j + 1])
      /\ ~Splits =>
           /\ Len(s) = 2 * Len(log)
           /\ \A i \in 1..Len(log) : s[2 * i - 1] = First(log[i]) /\ s[2 * i] = Length(log[i])
  BY <1>2, <1>3, OfFacts
<1>5. /\ p < Len(s) /\ buffer = s[p + 1]
      /\ unread \in Seq(Line) /\ Len(unread) = Len(s) - p - 1
      /\ \A i \in 1..Len(unread) : unread[i] = s[p + 1 + i]
  BY <1>1, <1>3 DEF At
<1>6. Of(m)' = s
  BY <1>1, SameLogs
<1>. HIDE DEF s
<1>0. PICK q \in Nat : q = IF Len(unread) = 0 THEN p + 1 ELSE p + 2
  <2>1. p + 1 \in Nat /\ p + 2 \in Nat
    OBVIOUS
  <2>. QED
    BY <2>1
<1>7. q \in {p + 1, p + 2} /\ q <= Len(s)
  BY <1>0, <1>4, <1>5
<1>8. At(m, q)'
  <2>1. CASE Len(unread) <= 1
    <3>1. eof' = TRUE
      BY <2>1 DEF ReadPair
    <3>2. q = Len(s)
      BY <1>0, <1>4, <1>5, <2>1
    <3>. QED
      BY <1>6, <3>1, <3>2 DEF At
  <2>2. CASE ~(Len(unread) <= 1)
    <3>1. buffer' = unread[2] /\ unread' = Tail(Tail(unread)) /\ eof' = eof
      BY <2>2 DEF ReadPair
    <3>2. /\ Len(unread) \in Nat /\ Len(unread) >= 2 /\ q = p + 2
          /\ Tail(Tail(unread)) \in Seq(Line)
          /\ Len(Tail(Tail(unread))) = Len(unread) - 2
          /\ \A i \in 1..Len(Tail(Tail(unread))) : Tail(Tail(unread))[i] = unread[i + 2]
      <4>1. Len(unread) \in Nat /\ Len(unread) >= 2 /\ q = p + 2
        BY <1>0, <1>5, <2>2
      <4>2. /\ Tail(unread) \in Seq(Line) /\ Len(Tail(unread)) = Len(unread) - 1
            /\ \A i \in 1..Len(Tail(unread)) : Tail(unread)[i] = unread[i + 1]
            /\ Len(Tail(unread)) >= 1
        BY <1>5, <4>1, TailLines
      <4>3. /\ Tail(Tail(unread)) \in Seq(Line) /\ Len(Tail(Tail(unread))) = Len(Tail(unread)) - 1
            /\ \A i \in 1..Len(Tail(Tail(unread))) : Tail(Tail(unread))[i] = Tail(unread)[i + 1]
        BY <4>2, TailLines
      <4>4. \A i \in 1..Len(Tail(Tail(unread))) : i + 1 \in 1..Len(Tail(unread)) /\ (i + 1) + 1 = i + 2
        BY <4>1, <4>2, <4>3
      <4>. QED
        BY <4>1, <4>2, <4>3, <4>4
    <3>3. q < Len(s) /\ Len(unread') = Len(s) - q - 1
      <4>1. Len(unread') = Len(unread) - 2 /\ Len(unread) = Len(s) - p - 1
        BY <1>5, <3>1, <3>2
      <4>. QED
        BY <1>4, <3>2, <4>1
    <3>4. buffer' = s[q + 1]
      <4>1. 2 \in 1..Len(unread) /\ p + 1 + 2 = q + 1
        BY <3>2
      <4>. QED
        BY <1>5, <3>1, <4>1
    <3>5. ASSUME NEW i \in 1..Len(unread') PROVE unread'[i] = s[q + 1 + i]
      <4>1. i + 2 \in 1..Len(unread) /\ p + 1 + (i + 2) = q + 1 + i
        BY <3>1, <3>2
      <4>. QED
        BY <1>5, <3>1, <3>2, <4>1
    <3>. QED
      BY <1>1, <1>6, <3>1, <3>2, <3>3, <3>4, <3>5 DEF At
  <2>. QED
    BY <2>1, <2>2
<1>9. /\ msg_count' = IF buffer.is # "control" THEN msg_count + 1 ELSE msg_count
      /\ total_length' = IF buffer.is # "control" THEN total_length + Number(unread) ELSE total_length
  BY DEF ReadPair, Counts
<1>10. Number(unread) \in Nat
  <2>1. unread # <<>> => Head(unread) \in Line
    BY <1>5
  <2>. QED
    BY <2>1 DEF Number, Line
<1>. DEFINE O == Earlier(m)
<1>11. /\ IsFiniteSet(O) /\ Cardinality(O) \in Nat
       /\ msg_count >= Cardinality(O) + Cardinality(MessageLines(s, p))
  BY <1>3, FS_CardinalityType DEF Counted, s
<1>12. Earlier(m)' = O
  BY <1>1, SameLogs DEF Earlier
<1>13. msg_count' >= Cardinality(O) + Cardinality(MessageLines(s, q))
  <2>1. \A k \in Nat : k <= Len(s) => Cardinality(MessageLines(s, k)) \in Nat
    <3>. SUFFICES ASSUME NEW k \in Nat PROVE Cardinality(MessageLines(s, k)) \in Nat
      OBVIOUS
    <3>1. MessageLines(s, k) \in SUBSET (1..k) /\ IsFiniteSet(1..k)
      BY FS_Interval DEF MessageLines
    <3>. QED
      BY <3>1, FS_Subset, FS_CardinalityType
  <2>. DEFINE n == msg_count - Cardinality(O)
  <2>2. /\ Cardinality(MessageLines(s, p)) \in Nat /\ Cardinality(MessageLines(s, q)) \in Nat
    BY <1>4, <1>5, <1>7, <2>1
  <2>3. n \in Nat /\ n >= Cardinality(MessageLines(s, p))
    BY <1>2, <1>11, <2>2
  <2>4. (IF s[p + 1].is # "control" THEN n + 1 ELSE n) >= Cardinality(MessageLines(s, q))
    <3>. HIDE DEF n
    <3>. QED
      BY <1>4, <1>5, <1>7, <2>3, PairMessages
  <2>. HIDE DEF O
  <2>. QED
    BY <1>2, <1>5, <1>9, <1>11, <2>2, <2>4, SMTT(30)
<1>14. ASSUME ~Splits
       PROVE  \E k \in 0..Len(log) : q = 2 * k /\ Exact(Earlier(m) \cup Early(m, k))'
  <2>1. PICK k \in 0..Len(log) : p = 2 * k /\ Exact(O \cup Early(m, k))
    BY <1>3, <1>14 DEF Counted
  <2>2. /\ Len(log) \in Nat /\ DOMAIN log = 1..Len(log) /\ log \in Seq(Record)
    BY <1>2, <1>3
  <2>3. /\ k + 1 \in 1..Len(log) /\ q = 2 * (k + 1)
        /\ Len(unread) >= 1 /\ Len(unread) \in Nat
    <3>1. Len(s) = 2 * Len(log) /\ 2 * k < Len(s) /\ k \in Nat
      BY <1>4, <1>5, <1>14, <2>1
    <3>2. k + 1 \in 1..Len(log) /\ 2 * k + 2 <= Len(s)
      BY <2>2, <3>1
    <3>3. Len(unread) >= 1 /\ Len(unread) \in Nat
      BY <1>4, <1>5, <2>1, <3>2
    <3>4. q = p + 2 /\ p = 2 * k /\ p + 2 = 2 * (k + 1)
      BY <1>0, <2>1, <3>1, <3>3
    <3>. QED
      BY <3>2, <3>3, <3>4
  <2>4. buffer = First(log[k + 1]) /\ Number(unread) = log[k + 1].length
    <3>1. 2 * (k + 1) - 1 = p + 1 /\ 2 * (k + 1) = p + 2
      BY <2>1
    <3>2. buffer = First(log[k + 1]) /\ s[p + 2] = Length(log[k + 1])
      BY <1>4, <1>5, <1>14, <2>3, <3>1
    <3>3. unread # <<>> /\ Head(unread) = unread[1] /\ unread[1] = s[p + 1 + 1] /\ p + 1 + 1 = p + 2
      BY <1>5, <2>3
    <3>4. Number(unread) = Length(log[k + 1]).value
      BY <3>2, <3>3 DEF Number
    <3>. QED
      BY <3>2, <3>4 DEF Length
  <2>5. log[k + 1] \in Record
    BY <2>2, <2>3
  <2>. DEFINE S == O \cup Early(m, k)
              x == <<m, k + 1>>
              T == O \cup Early(m, k + 1)
  <2>6. Messages(m)' = Messages(m) /\ Early(m, k + 1)' = Early(m, k + 1)
    BY <1>1, SameLogs DEF Early
  <2>7. Messages(m) = {i \in 1..Len(log) : ~log[i].control}
    BY <2>2 DEF Messages
  <2>8. T = IF log[k + 1].control THEN S ELSE S \cup {x}
    <3>1. \A i \in Messages(m) : i <= k + 1 <=> i <= k \/ i = k + 1
      BY <2>1, <2>2, <2>7
    <3>2. k + 1 \in Messages(m) <=> ~log[k + 1].control
      BY <2>3, <2>7
    <3>3. k + 1 <= k + 1
      BY <2>1
    <3>4. Early(m, k + 1) = IF log[k + 1].control THEN Early(m, k) ELSE Early(m, k) \cup {x}
      BY <3>1, <3>2, <3>3 DEF Early
    <3>. QED
      BY <3>4
  <2>9. x \notin S
    <3>1. x \notin Early(m, k)
      BY <2>1, <2>2 DEF Early
    <3>2. x \notin O
      BY DEF Earlier, SentOf
    <3>. QED
      BY <3>1, <3>2
  <2>10. /\ IsFiniteSet(T) /\ IsFiniteSet(BytesOf(T))
         /\ msg_count' = Cardinality(T) /\ total_length' = Cardinality(BytesOf(T))
    <3>1. /\ IsFiniteSet(S) /\ IsFiniteSet(BytesOf(S))
          /\ msg_count = Cardinality(S) /\ total_length = Cardinality(BytesOf(S))
      BY <2>1 DEF Exact
    <3>2. CASE log[k + 1].control
      <4>1. buffer.is = "control"
        BY <2>4, <3>2 DEF First
      <4>. QED
        BY <1>9, <2>8, <3>1, <3>2, <4>1
    <3>3. CASE ~log[k + 1].control
      <4>1. buffer.is # "control"
        BY <2>4, <3>3 DEF First
      <4>2. logs[x[1]][x[2]] = log[k + 1] /\ log[k + 1].length \in Nat
        BY <2>5 DEF Record
      <4>3. T = S \cup {x}
        BY <2>8, <3>3
      <4>. HIDE DEF S, T, x
      <4>4. /\ IsFiniteSet(S \cup {x}) /\ Cardinality(S \cup {x}) = Cardinality(S) + 1
            /\ IsFiniteSet(BytesOf(S \cup {x}))
            /\ Cardinality(BytesOf(S \cup {x})) =
                 Cardinality(BytesOf(S)) + logs[x[1]][x[2]].length
        BY <2>9, <3>1, <4>2, OneMoreSent
      <4>. QED
        BY <1>9, <2>4, <3>1, <4>1, <4>2, <4>3, <4>4
    <3>. QED
      BY <3>2, <3>3
  <2>11. Exact(Earlier(m) \cup Early(m, k + 1))'
    <3>1. (Earlier(m) \cup Early(m, k + 1))' = T
      BY <1>12, <2>6
    <3>2. \A X : BytesOf(X)' = BytesOf(X)
      BY <1>1, SameLogs
    <3>. HIDE DEF T
    <3>. QED
      BY <2>10, <3>1, <3>2 DEF Exact
  <2>12. k + 1 \in 0..Len(log) /\ q = 2 * (k + 1)
    BY <2>2, <2>3
  <2>. HIDE DEF O, log, T, S
  <2>. QED
    BY <2>11, <2>12
<1>15. Counted(m, q)'
  <2>1. log' = log /\ (Splits' <=> Splits)
    BY <1>1, SameLogs
  <2>2. IsFiniteSet(Earlier(m)')
    BY <1>11, <1>12
  <2>3. msg_count' >= Cardinality(Earlier(m)') + Cardinality(MessageLines(Of(m)', q))
    BY <1>6, <1>12, <1>13
  <2>4. ~Splits' => \E k \in 0..Len(logs'[m]) : q = 2 * k /\ Exact(Earlier(m) \cup Early(m, k))'
    BY <1>14, <2>1
  <2>. HIDE DEF O, log
  <2>. QED
    BY <2>2, <2>3, <2>4 DEF Counted
<1>16. msg_count' \in Nat /\ total_length' \in Nat
  BY <1>2, <1>9, <1>10
<1>17. m \in Machines \ todo' /\ q \in Nat /\ logs' \in [Machines -> Seq(Record)]
       /\ todo' \subseteq Machines
  BY <1>1, <1>2, <1>3, <1>0
<1>. HIDE DEF O, log
<1>. QED
  BY <1>1, <1>8, <1>15, <1>16, <1>17 DEF CountInv

LEMMA StepCloseLog ==
  ASSUME CountInv, CloseLog
  PROVE  CountInv'
<1>1. /\ step = "log" /\ eof /\ step' = IF todo = {} THEN "done" ELSE "open"
      /\ UNCHANGED <<logs, todo, msg_count, total_length>>
  BY DEF CloseLog, inputVars, countVars
<1>2. /\ logs \in [Machines -> Seq(Record)] /\ todo \subseteq Machines
      /\ msg_count \in Nat /\ total_length \in Nat
  BY DEF CountInv
<1>3. PICK m \in Machines \ todo, p \in Nat : At(m, p) /\ Counted(m, p)
  BY <1>1 DEF CountInv
<1>4. p = Len(Of(m))
  BY <1>1, <1>3 DEF At
<1>. DEFINE O == Earlier(m)
            N == {<<m, i>> : i \in Messages(m)}
            S == SentOf(Machines \ todo)
<1>5. DOMAIN logs[m] = 1..Len(logs[m]) /\ Len(logs[m]) \in Nat
  BY <1>2, <1>3
<1>6. S = O \cup N /\ O \cap N = {}
  <2>1. Machines \ todo = (Machines \ (todo \cup {m})) \cup {m}
    BY <1>3
  <2>2. S = O \cup N
    BY <2>1 DEF SentOf, Earlier
  <2>3. O \cap N = {}
    BY DEF SentOf, Earlier
  <2>. QED
    BY <2>2, <2>3
<1>7. IsFiniteSet(N) /\ Cardinality(N) = Cardinality(Messages(m))
  <2>. DEFINE f == [i \in Messages(m) |-> <<m, i>>]
  <2>1. Messages(m) \in SUBSET (1..Len(logs[m])) /\ IsFiniteSet(1..Len(logs[m]))
    BY <1>5, FS_Interval DEF Messages
  <2>2. IsFiniteSet(Messages(m))
    BY <2>1, FS_Subset
  <2>3. f \in Bijection(Messages(m), N)
    BY DEF Bijection, Injection, Surjection, IsInjective
  <2>. QED
    BY <2>2, <2>3, FS_Bijection DEF ExistsBijection
<1>8. IsFiniteSet(O) /\ msg_count >= Cardinality(O) + Cardinality(Messages(m))
  BY <1>2, <1>3, <1>4, OfFacts DEF Counted
<1>9. IsFiniteSet(S) /\ msg_count >= Cardinality(S)
  <2>. HIDE DEF O, N, S
  <2>1. IsFiniteSet(S) /\ Cardinality(S) = Cardinality(O) + Cardinality(N) - Cardinality(O \cap N)
    BY <1>6, <1>7, <1>8, FS_Union
  <2>2. Cardinality(O \cap N) = 0 /\ Cardinality(O) \in Nat /\ Cardinality(N) \in Nat
    BY <1>6, <1>7, <1>8, FS_EmptySet, FS_CardinalityType
  <2>. QED
    BY <1>7, <1>8, <2>1, <2>2
<1>10. ~Splits => Exact(S)
  <2>. SUFFICES ASSUME ~Splits PROVE Exact(S)
    OBVIOUS
  <2>1. PICK k \in 0..Len(logs[m]) : p = 2 * k /\ Exact(O \cup Early(m, k))
    BY <1>3 DEF Counted
  <2>2. k = Len(logs[m])
    <3>1. Len(Of(m)) = 2 * Len(logs[m])
      BY <1>2, <1>3, OfFacts
    <3>. DEFINE L == Len(logs[m])
                P == Len(Of(m))
    <3>2. P = 2 * L /\ L \in Nat /\ p = P /\ p = 2 * k /\ k \in 0..L
      BY <1>4, <1>5, <2>1, <3>1
    <3>. HIDE DEF L, P
    <3>3. k = L
      BY <3>2
    <3>. QED
      BY <3>3 DEF L
  <2>3. Early(m, k) = N
    <3>1. \A x \in Messages(m) : x <= k
      BY <1>5, <2>2 DEF Messages
    <3>. QED
      BY <3>1 DEF Early
  <2>. HIDE DEF O, N, S
  <2>. QED
    BY <1>6, <2>1, <2>3
<1>11. Totals
  BY <1>9, <1>10 DEF Totals
<1>12. Totals'
  BY <1>1, <1>11, SameTotals
<1>. QED
  BY <1>1, <1>2, <1>12 DEF CountInv

LEMMA StepCount == CountInv /\ [Next]_vars => CountInv'
<1>. SUFFICES ASSUME CountInv, [Next]_vars PROVE CountInv'
  OBVIOUS
<1>1. CASE UNCHANGED vars
  <2>1. UNCHANGED <<logs, step, unread, buffer, eof, todo, msg_count, total_length>>
    BY <1>1 DEF vars, inputVars, fileVars, countVars
  <2>2. Totals => Totals'
    BY <2>1, SameTotals
  <2>3. \A m, p : At(m, p)' <=> At(m, p)
    BY <2>1, SameLogs DEF At
  <2>4. \A m, p : Counted(m, p) => Counted(m, p)'
    <3>. TAKE m, p
    <3>1. Earlier(m)' = Earlier(m) /\ (\A k : Early(m, k)' = Early(m, k))
      BY <2>1, SameLogs DEF Earlier, Early
    <3>2. \A k : Exact(Earlier(m) \cup Early(m, k))' <=> Exact(Earlier(m) \cup Early(m, k))
      BY <2>1, <3>1, SameExact
    <3>. QED
      BY <2>1, <3>1, <3>2, SameLogs DEF Counted
  <2>. QED
    BY <2>1, <2>2, <2>3, <2>4 DEF CountInv
<1>. QED
  BY <1>1, StepCountRead, StepOpenLog, StepReadPair, StepCloseLog DEF Next

\* For all logs, of any number of machines and messages: the results count no message
\* too few, and, as long as no time in a log holds a byte 10, they count each message
\* once and give the average of the lengths.
THEOREM MessagesCounted == Spec => []CountRight
<1>1. CountInv => CountRight
  <2>. SUFFICES ASSUME CountInv, step = "done"
                PROVE  /\ msg_count >= Cardinality(Sent)
                       /\ ~Splits => /\ msg_count = Cardinality(Sent)
                                     /\ avg_length = IF Sent = {} THEN 0
                                                     ELSE Cardinality(Bytes) \div Cardinality(Sent)
    BY DEF CountRight
  <2>1. SentOf(Machines \ todo) = Sent /\ BytesOf(Sent) = Bytes
    <3>1. Machines \ todo = Machines
      BY DEF CountInv
    <3>. QED
      BY <3>1 DEF SentOf, Sent, BytesOf, Bytes
  <2>2. /\ IsFiniteSet(Sent) /\ msg_count >= Cardinality(Sent)
        /\ ~Splits => Exact(Sent)
    BY <2>1 DEF CountInv, Totals
  <2>3. Cardinality(Sent) = 0 <=> Sent = {}
    BY <2>2, FS_EmptySet
  <2>. QED
    BY <2>1, <2>2, <2>3 DEF Exact, avg_length
<1>. QED
  BY <1>1, InitCount, StepCount, PTL DEF Spec

=============================================================================
