---------------------------- MODULE TestRun_proofs ----------------------------
(***************************************************************************)
(* The rounds of a test, for any number of nodes and any delays: term_wait *)
(* counts connections, and no more of them come than nodes have ended, so  *)
(* that a round is over only when the run loop of every node is.           *)
(* The second half is about what the switches have written by then: END is *)
(* the last message of a node, so a log whose END is counted is complete.  *)
(***************************************************************************)
EXTENDS TestRun, SequenceTheorems, FiniteSetTheorems, TLAPS

Servers == Nodes \cup {Switch}
Over == {"ended", "done"}

Types ==
  /\ host \in Hosts
  /\ step \in {"command", "start", "wait", "end", "exit", "results", "done"}
  /\ round \in Rounds /\ todo \subseteq Servers /\ count \in Nat
  /\ backlog \in Seq({"contact", "END"})
  /\ commands \in [Servers -> Seq(0..2)]
  /\ proc \in [Processes -> {"off", "boot", "listen", "deaf", "run", "ended", "done"}]
  /\ bound \in [Nodes -> 0..2] /\ end_signal \subseteq Processes
  /\ pipe \in [Processes -> Seq({"message", "END"})]

\* A command is given once per machine and round: its process is off until then.
Commanded ==
  \A m \in Nodes : \A i \in 1..Len(commands[m]) : commands[m][i] # 0 =>
    /\ commands[m][i] <= round /\ proc[<<m, commands[m][i]>>] = "off"
    /\ \A j \in 1..Len(commands[m]) : commands[m][j] = commands[m][i] => j = i

NotYet ==
  step = "command" =>
    \A m \in Nodes \cap todo :
      proc[<<m, round>>] = "off" /\ \A i \in 1..Len(commands[m]) : commands[m][i] # round

Later == \A n \in Nodes : round = 1 => proc[<<n, 2>>] = "off"
BoundNow == \A n \in Nodes : bound[n] <= round

\* The first round is over before the second begins.
FirstOver == Apart /\ round = 2 => \A n \in Nodes : proc[<<n, 1>>] \in Over

\* END is the last message of a process, and of one whose run loop is over.
EndLast ==
  \A p \in Processes : \A i \in 1..Len(pipe[p]) :
    pipe[p][i] = "END" => i = Len(pipe[p]) /\ proc[p] \in Over

Order ==
  Types /\ Commanded /\ NotYet /\ Later /\ BoundNow /\ FirstOver /\ EndLast

\* What the count of term_wait is made of: the nodes that have ended.
Ended(r) == {n \in Nodes : proc[<<n, r>>] \in Over}
Finished == Ended(round)

EndsUnderWay == {p \in Processes : \E i \in 1..Len(pipe[p]) : pipe[p][i] = "END"}
Waited == IF step = "wait" THEN count ELSE 0
Total == Waited + Len(backlog) + Cardinality(EndsUnderWay)

Before == step \in {"command", "start", "wait"}
Counted == Before /\ Apart => Total <= Cardinality(Finished)
AllOver ==
  ~Before /\ Apart => Finished = Nodes /\ backlog = <<>> /\ EndsUnderWay = {}

RoundInv == Order /\ Counted /\ AllOver /\ StoppedAfterWork

-----------------------------------------------------------------------------
(* Facts about the sets that are counted.                                  *)

LEMMA NodeSets ==
  ASSUME NEW T \in SUBSET Nodes, NEW S \in SUBSET T
  PROVE  /\ IsFiniteSet(T) /\ Cardinality(T) \in Nat /\ Cardinality(S) \in Nat
         /\ Cardinality(S) <= Cardinality(T)
         /\ Cardinality(S) = Cardinality(T) => S = T
<1>1. IsFiniteSet(T)
  BY NodesAssumption, FS_Subset
<1>2. IsFiniteSet(S)
  BY <1>1, FS_Subset
<1>. QED
  BY <1>1, <1>2, FS_Subset, FS_CardinalityType

LEMMA ProcessSets ==
  ASSUME NEW T \in SUBSET Processes, NEW S \in SUBSET T
  PROVE  /\ IsFiniteSet(T) /\ Cardinality(T) \in Nat /\ Cardinality(S) \in Nat
         /\ Cardinality(S) <= Cardinality(T)
         /\ Cardinality(S) = 0 => S = {}
<1>1. IsFiniteSet(Processes)
  <2>1. IsFiniteSet(Rounds)
    <3>1. IsFiniteSet(1..2)
      BY FS_Interval, 1 \in Int, 2 \in Int
    <3>. QED
      BY <3>1 DEF Rounds
  <2>. QED
    BY <2>1, NodesAssumption, FS_Product DEF Processes
<1>2. IsFiniteSet(T)
  BY <1>1, FS_Subset
<1>3. IsFiniteSet(S)
  BY <1>2, FS_Subset
<1>. QED
  BY <1>2, <1>3, FS_Subset, FS_CardinalityType, FS_EmptySet

LEMMA SetTypes == Finished \subseteq Nodes /\ EndsUnderWay \subseteq Processes
BY DEF Finished, Ended, EndsUnderWay

LEMMA MinIsMember ==
  ASSUME NEW S \in SUBSET Servers, S # {}
  PROVE  Min(S) \in S
<1>1. S \subseteq Nat
  BY NodesAssumption, SwitchAssumption DEF Servers
<1>2. PICK x \in S : \A y \in S : ~(<<y, x>> \in OpToRel(<, Nat))
  BY <1>1, NatLessThanWellFounded, WFMin
<1>3. \A y \in S : ~(y < x)
  BY <1>1, <1>2 DEF OpToRel
<1>4. \A y \in S : x =< y
  BY <1>1, <1>3
<1>. QED
  BY <1>4 DEF Min

-----------------------------------------------------------------------------
LEMMA InitInv == Init => RoundInv
<1>. SUFFICES ASSUME Init PROVE RoundInv
  OBVIOUS
<1>1. Types
  <2>1. backlog \in Seq({"contact", "END"}) /\ commands \in [Servers -> Seq(0..2)]
    BY DEF Init, Servers
  <2>2. proc \in [Processes -> {"off", "boot", "listen", "deaf", "run", "ended", "done"}]
    BY DEF Init
  <2>3. pipe \in [Processes -> Seq({"message", "END"})]
    BY DEF Init
  <2>4. bound \in [Nodes -> 0..2]
    BY DEF Init
  <2>. QED
    BY <2>1, <2>2, <2>3, <2>4 DEF Init, Types, Rounds, Servers, Machines
<1>2. \A n \in Nodes : \A r \in Rounds : proc[<<n, r>>] = "off"
  BY DEF Init, Processes
<1>3. Commanded /\ NotYet /\ Later /\ BoundNow /\ FirstOver
  <2>1. \A m \in Nodes : commands[m] = <<>> /\ bound[m] = 0
    BY DEF Init
  <2>2. round = 1 /\ 1 \in Rounds /\ 2 \in Rounds
    BY DEF Init, Rounds
  <2>3. Commanded /\ NotYet
    BY <1>2, <2>1, <2>2 DEF Commanded, NotYet
  <2>4. Later /\ BoundNow /\ FirstOver
    BY <1>2, <2>1, <2>2 DEF Later, BoundNow, FirstOver
  <2>. QED
    BY <2>3, <2>4
<1>4. EndLast /\ EndsUnderWay = {}
  BY DEF Init, EndLast, EndsUnderWay
<1>5. Counted /\ AllOver
  <2>1. Total = 0
    BY <1>4, FS_EmptySet DEF Init, Total, Waited
  <2>2. Cardinality(Finished) \in Nat
    BY SetTypes, NodeSets
  <2>. QED
    BY <2>1, <2>2 DEF Init, Counted, AllOver, Before
<1>6. StoppedAfterWork
  BY DEF Init, StoppedAfterWork
<1>. QED
  BY <1>1, <1>3, <1>4, <1>5, <1>6 DEF RoundInv, Order

\* Most steps have nothing to do with the count: no connection to the testbed comes
\* or goes, no END sets out, and no node that is counted is forgotten.
LEMMA QuietStep ==
  ASSUME RoundInv, UNCHANGED <<host, step, round, count, backlog>>,
         Finished \subseteq Finished', EndsUnderWay' \subseteq EndsUnderWay, Types'
  PROVE  Counted' /\ AllOver'
<1>1. Finished' \subseteq Nodes /\ EndsUnderWay \subseteq Processes
  BY DEF Finished, Ended, EndsUnderWay
<1>2. /\ Cardinality(Finished) \in Nat /\ Cardinality(Finished') \in Nat
      /\ Cardinality(Finished) <= Cardinality(Finished')
  BY <1>1, NodeSets
<1>3. /\ Cardinality(EndsUnderWay) \in Nat /\ Cardinality(EndsUnderWay') \in Nat
      /\ Cardinality(EndsUnderWay') <= Cardinality(EndsUnderWay)
  BY <1>1, ProcessSets
<1>4. Len(backlog) \in Nat /\ Waited \in Nat /\ Waited' = Waited /\ (Apart' <=> Apart)
  BY DEF RoundInv, Order, Types, Waited, Apart
<1>5. Counted'
  <2>1. Total' <= Total /\ Total \in Nat /\ Total' \in Nat
    BY <1>3, <1>4 DEF Total
  <2>. QED
    BY <1>2, <1>4, <2>1 DEF RoundInv, Counted, Before
<1>6. AllOver'
  BY <1>1, <1>4 DEF RoundInv, AllOver, Before
<1>. QED
  BY <1>5, <1>6

\* A run loop that is over stays over.
OverStays == \A q \in Processes : proc[q] \in Over => proc'[q] \in Over

LEMMA EndedGrow ==
  ASSUME Types, round' = round, OverStays
  PROVE  Ended(round) \subseteq Ended(round)'
<1>1. ASSUME NEW n \in Nodes, proc[<<n, round>>] \in Over PROVE proc'[<<n, round>>] \in Over
  <2>1. <<n, round>> \in Processes
    BY DEF Types, Processes
  <2>. QED
    BY <1>1, <2>1 DEF OverStays
<1>. QED
  BY <1>1 DEF Ended

LEMMA EndLastKept ==
  ASSUME EndLast, OverStays, pipe' = pipe
  PROVE  EndLast' /\ EndsUnderWay' = EndsUnderWay
<1>1. ASSUME NEW q \in Processes, NEW i \in 1..Len(pipe[q]), pipe[q][i] = "END"
      PROVE  i = Len(pipe[q]) /\ proc'[q] \in Over
  BY <1>1 DEF EndLast, OverStays
<1>. QED
  BY <1>1 DEF EndLast, EndsUnderWay

LEMMA StoppedKept ==
  ASSUME Types, StoppedAfterWork, OverStays, host' = host, end_signal' = end_signal
  PROVE  StoppedAfterWork'
<1>1. ASSUME Apart, NEW q \in end_signal PROVE proc'[q] \in Over
  <2>1. q \in Processes /\ proc[q] \in Over
    BY <1>1 DEF Types, StoppedAfterWork, Over
  <2>. QED
    BY <2>1 DEF OverStays
<1>. QED
  BY <1>1 DEF StoppedAfterWork, Apart, Over

\* A step that takes no command: a process is not started again, and a run loop that
\* is over stays over.
LEMMA OrderKept ==
  ASSUME Order, Types', UNCHANGED <<host, round, commands>>,
         step' = "command" => step = "command" /\ todo' \subseteq todo,
         \A q \in Processes : proc[q] = "off" => proc'[q] = "off",
         OverStays, BoundNow', EndLast'
  PROVE  Order'
<1>1. \A n \in Nodes : \A r \in Rounds :
        /\ proc[<<n, r>>] = "off" => proc'[<<n, r>>] = "off"
        /\ proc[<<n, r>>] \in Over => proc'[<<n, r>>] \in Over
  <2>. TAKE n \in Nodes
  <2>. TAKE r \in Rounds
  <2>1. <<n, r>> \in Processes
    BY DEF Processes
  <2>2. proc[<<n, r>>] \in Over => proc'[<<n, r>>] \in Over
    BY <2>1 DEF OverStays
  <2>3. proc[<<n, r>>] = "off" => proc'[<<n, r>>] = "off"
    BY <2>1
  <2>. QED
    BY <2>2, <2>3
<1>2. Commanded'
  <2>1. ASSUME NEW m \in Nodes, NEW i \in 1..Len(commands[m]), commands[m][i] # 0
        PROVE  /\ commands[m][i] <= round /\ proc'[<<m, commands[m][i]>>] = "off"
               /\ \A j \in 1..Len(commands[m]) : commands[m][j] = commands[m][i] => j = i
    <3>1. commands[m][i] \in 0..2
      BY <2>1 DEF Order, Types, Servers
    <3>2. commands[m][i] \in Rounds
      BY <2>1, <3>1 DEF Rounds
    <3>. QED
      BY <1>1, <2>1, <3>2 DEF Order, Commanded
  <2>2. round' = round /\ commands' = commands
    OBVIOUS
  <2>. QED
    BY <2>1, <2>2 DEF Commanded
<1>3. NotYet' /\ Later' /\ FirstOver'
  <2>1. round \in Rounds /\ 1 \in Rounds /\ 2 \in Rounds
    BY DEF Order, Types, Rounds
  <2>2. NotYet' /\ Later'
    BY <1>1, <2>1 DEF Order, NotYet, Later
  <2>3. FirstOver'
    BY <1>1, <2>1 DEF Order, FirstOver, Apart
  <2>. QED
    BY <2>2, <2>3
<1>. QED
  BY <1>2, <1>3 DEF Order

-----------------------------------------------------------------------------
(* The steps of the testbed.                                               *)

\* What the steps of contact_servers have in common: one machine less to do.
LEMMA ContactIs ==
  ASSUME Types, NEW s, NEW m \in Servers, Contacts(s, m)
  PROVE  /\ step = s /\ m \in todo /\ todo' = todo \ {m}
         /\ UNCHANGED <<host, patient, step, round, count, results>>
<1>1. todo # {} /\ m = Min(todo) /\ todo \in SUBSET Servers
  BY DEF Contacts, Types
<1>2. m \in todo
  BY <1>1, MinIsMember
<1>. QED
  BY <1>2 DEF Contacts

LEMMA CommandInv ==
  ASSUME RoundInv, NEW m \in Servers, Command(m)
  PROVE  RoundInv'
<1>. DEFINE c == IF step = "command" THEN round ELSE 0
<1>1. Types
  BY DEF RoundInv, Order
<1>2. /\ step \in {"command", "exit"} /\ m \in todo /\ todo' = todo \ {m}
      /\ commands' = [commands EXCEPT ![m] = Append(@, c)]
      /\ UNCHANGED <<host, step, round, count>>
  BY <1>1, ContactIs DEF Command
<1>3. UNCHANGED <<proc, bound, end_signal, pipe, backlog>>
  BY DEF Command, procVars, flowVars
<1>4. c \in 0..2
  BY <1>1 DEF Types, Rounds
<1>5. Types'
  <2>1. commands' \in [Servers -> Seq(0..2)]
    BY <1>1, <1>2, <1>4, AppendProperties DEF Types
  <2>. QED
    BY <1>1, <1>2, <1>3, <2>1 DEF Types
<1>6. \A n \in Servers : n # m => commands'[n] = commands[n]
  BY <1>1, <1>2 DEF Types
<1>7. /\ commands[m] \in Seq(0..2) /\ Len(commands[m]) \in Nat
      /\ Len(commands'[m]) = Len(commands[m]) + 1
      /\ \A i \in 1..Len(commands[m]) : commands'[m][i] = commands[m][i]
      /\ commands'[m][Len(commands[m]) + 1] = c
  BY <1>1, <1>2, <1>4, AppendProperties DEF Types
<1>8. Commanded'
  <2>1. ASSUME NEW n \in Nodes, NEW i \in 1..Len(commands'[n]), commands'[n][i] # 0
        PROVE  /\ commands'[n][i] <= round /\ proc[<<n, commands'[n][i]>>] = "off"
               /\ \A j \in 1..Len(commands'[n]) : commands'[n][j] = commands'[n][i] => j = i
    <3>1. CASE n # m
      BY <1>6, <2>1, <3>1 DEF Servers, RoundInv, Order, Commanded
    <3>2. CASE n = m
      <4>1. c # 0 => /\ c = round /\ proc[<<m, c>>] = "off"
                     /\ \A j \in 1..Len(commands[m]) : commands[m][j] # c
        BY <1>2, <2>1, <3>2 DEF RoundInv, Order, NotYet
      <4>2. CASE i = Len(commands[m]) + 1
        <5>1. commands'[n][i] = c /\ c # 0
          BY <1>7, <2>1, <3>2, <4>2
        <5>2. ASSUME NEW j \in 1..Len(commands'[n]), commands'[n][j] = c PROVE j = i
          BY <1>7, <3>2, <4>1, <4>2, <5>1, <5>2
        <5>3. c <= round
          BY <1>1, <4>1, <5>1 DEF Types, Rounds
        <5>. QED
          BY <3>2, <4>1, <5>1, <5>2, <5>3
      <4>3. CASE i \in 1..Len(commands[m])
        <5>1. /\ commands[m][i] # 0 /\ commands[m][i] <= round /\ proc[<<m, commands[m][i]>>] = "off"
              /\ \A j \in 1..Len(commands[m]) : commands[m][j] = commands[m][i] => j = i
          BY <1>7, <2>1, <3>2, <4>3 DEF RoundInv, Order, Commanded
        <5>2. commands'[n][i] = commands[m][i]
          BY <1>7, <3>2, <4>3
        <5>3. ASSUME NEW j \in 1..Len(commands'[n]), commands'[n][j] = commands[m][i] PROVE j = i
          BY <1>7, <2>1, <3>2, <4>1, <4>3, <5>1, <5>2, <5>3
        <5>. QED
          BY <3>2, <5>1, <5>2, <5>3
      <4>. QED
        BY <1>7, <2>1, <3>2, <4>2, <4>3
    <3>. QED
      BY <3>1, <3>2
  <2>2. round' = round /\ proc' = proc
    BY <1>2, <1>3
  <2>. QED
    BY <2>1, <2>2 DEF Commanded
<1>9. NotYet'
  BY <1>2, <1>3, <1>6 DEF RoundInv, Order, NotYet, Servers
<1>10. Later' /\ BoundNow' /\  FirstOver' /\ EndLast' /\ StoppedAfterWork'
  BY <1>2, <1>3 DEF RoundInv, Order, Later, BoundNow, FirstOver, EndLast, StoppedAfterWork, Apart
<1>11. Finished \subseteq Finished' /\ EndsUnderWay' = EndsUnderWay
  BY <1>2, <1>3 DEF Finished, Ended, EndsUnderWay
<1>. QED
  BY <1>2, <1>3, <1>5, <1>8, <1>9, <1>10, <1>11, QuietStep DEF RoundInv, Order

LEMMA SendStartInv ==
  ASSUME RoundInv, NEW m \in Servers, SendStart(m)
  PROVE  RoundInv'
<1>1. Types
  BY DEF RoundInv, Order
<1>2. /\ step = "start" /\ m \in todo /\ todo' = todo \ {m}
      /\ UNCHANGED <<host, step, round, count>>
  BY <1>1, ContactIs DEF SendStart
<1>3. UNCHANGED <<commands, bound, end_signal, pipe>>
  BY DEF SendStart, serverVars
<1>4. \/ m = host /\ backlog' = Append(backlog, "contact") /\ proc' = proc
      \/ /\ m # host /\ Waits(m) /\ backlog' = backlog
         /\ proc' = [proc EXCEPT ![<<m, bound[m]>>] = "run"]
      \/ m # host /\ proc' = proc /\ backlog' = backlog
  BY DEF SendStart
<1>5. Waits(m) => m \in Nodes /\ <<m, bound[m]>> \in Processes /\ proc[<<m, bound[m]>>] = "listen"
  <2>1. ASSUME Waits(m) PROVE m \in Nodes /\ bound[m] # 0 /\ proc[<<m, bound[m]>>] = "listen"
    BY <2>1 DEF Waits
  <2>2. ASSUME Waits(m) PROVE bound[m] \in Rounds
    BY <1>1, <2>1, <2>2 DEF Types, Rounds
  <2>. QED
    BY <2>1, <2>2 DEF Processes
<1>6. Types'
  <2>1. backlog' \in Seq({"contact", "END"})
    <3>1. backlog \in Seq({"contact", "END"}) /\ "contact" \in {"contact", "END"}
      BY <1>1 DEF Types
    <3>. QED
      BY <1>4, <3>1, AppendProperties
  <2>2. proc' \in [Processes -> {"off", "boot", "listen", "deaf", "run", "ended", "done"}]
    BY <1>1, <1>4, <1>5 DEF Types
  <2>. QED
    BY <1>1, <1>2, <1>3, <2>1, <2>2 DEF Types
<1>7. OverStays /\ \A q \in Processes : proc[q] = "off" => proc'[q] = "off"
  <2>1. CASE proc' = proc
    BY <2>1 DEF OverStays
  <2>2. CASE m # host /\ Waits(m) /\ proc' = [proc EXCEPT ![<<m, bound[m]>>] = "run"]
    <3>1. PICK w \in Processes : w = <<m, bound[m]>> /\ w[1] = m
      BY <1>5, <2>2
    <3>2. proc' = [proc EXCEPT ![w] = "run"] /\ proc[w] = "listen"
      BY <1>5, <2>2, <3>1
    <3>. QED
      BY <1>1, <3>2 DEF Types, Over, OverStays
  <2>. QED
    BY <1>4, <2>1, <2>2
<1>8. Order'
  <2>1. BoundNow'
    BY <1>2, <1>3 DEF RoundInv, Order, BoundNow
  <2>2. EndLast'
    BY <1>3, <1>7, EndLastKept DEF RoundInv, Order
  <2>. QED
    BY <1>2, <1>3, <1>6, <1>7, <2>1, <2>2, OrderKept DEF RoundInv
<1>9. StoppedAfterWork'
  BY <1>1, <1>2, <1>3, <1>7, StoppedKept DEF RoundInv
<1>10. Ended(round) \subseteq Ended(round)' /\ EndsUnderWay' = EndsUnderWay
  <2>1. Ended(round) \subseteq Ended(round)'
    BY <1>1, <1>2, <1>7, EndedGrow
  <2>2. EndsUnderWay' = EndsUnderWay
    BY <1>3 DEF EndsUnderWay
  <2>. QED
    BY <2>1, <2>2
<1>11. CASE backlog' = backlog
  <2>1. Finished \subseteq Finished'
    BY <1>2, <1>10 DEF Finished
  <2>. QED
    BY <1>2, <1>6, <1>8, <1>9, <1>10, <1>11, <2>1, QuietStep DEF RoundInv
<1>12. CASE m = host /\ backlog' = Append(backlog, "contact") /\ proc' = proc
  <2>1. ~Apart'
    BY <1>1, <1>2, <1>12, HostsAssumption DEF Types, Servers, Apart
  <2>. QED
    BY <1>8, <1>9, <2>1 DEF RoundInv, Counted, AllOver
<1>. QED
  BY <1>4, <1>11, <1>12

\* Steps of the testbed that start and end no process and put nothing under way.
LEMMA TestbedKept ==
  ASSUME RoundInv, Types', UNCHANGED <<host, round, procVars, commands, pipe>>,
         step' = "command" => step = "command" /\ todo' \subseteq todo
  PROVE  /\ Order' /\ StoppedAfterWork' /\ EndsUnderWay' = EndsUnderWay
         /\ Ended(round)' = Ended(round)
<1>1. UNCHANGED <<proc, bound, end_signal>>
  BY DEF procVars
<1>2. OverStays
  BY <1>1 DEF OverStays
<1>3. BoundNow'
  BY <1>1 DEF RoundInv, Order, BoundNow
<1>4. EndLast' /\ EndsUnderWay' = EndsUnderWay
  BY <1>2, EndLastKept DEF RoundInv, Order
<1>5. Order'
  BY <1>1, <1>2, <1>3, <1>4, OrderKept DEF RoundInv
<1>6. StoppedAfterWork'
  BY <1>1, <1>2, StoppedKept DEF RoundInv, Order
<1>7. Ended(round)' = Ended(round)
  BY <1>1 DEF Ended
<1>. QED
  BY <1>4, <1>5, <1>6, <1>7

\* END goes out when every node of this round has ended, and none of the last is left.
LEMMA SendEndInv ==
  ASSUME RoundInv, NEW m \in Servers, SendEnd(m)
  PROVE  RoundInv'
<1>1. Types
  BY DEF RoundInv, Order
<1>2. /\ step = "end" /\ todo' = todo \ {m}
      /\ UNCHANGED <<host, step, round, count>>
  BY <1>1, ContactIs DEF SendEnd
<1>3. UNCHANGED <<commands, proc, bound, pipe>>
  BY DEF SendEnd, serverVars
<1>4. backlog' = IF m = host THEN Append(backlog, "contact") ELSE backlog
  BY DEF SendEnd
<1>. DEFINE signalled == m \in Nodes \ {host} /\ bound[m] # 0
<1>5. end_signal' = IF signalled THEN end_signal \cup {<<m, bound[m]>>} ELSE end_signal
  BY DEF SendEnd
<1>6. signalled => bound[m] \in Rounds /\ <<m, bound[m]>> \in Processes
  <2>1. signalled => bound[m] \in Rounds
    BY <1>1 DEF Types, Rounds
  <2>. QED
    BY <2>1 DEF Processes
<1>7. Types'
  <2>1. backlog' \in Seq({"contact", "END"})
    <3>1. backlog \in Seq({"contact", "END"}) /\ "contact" \in {"contact", "END"}
      BY <1>1 DEF Types
    <3>. QED
      BY <1>4, <3>1, AppendProperties
  <2>2. end_signal' \subseteq Processes
    BY <1>1, <1>5, <1>6 DEF Types
  <2>. QED
    BY <1>1, <1>2, <1>3, <2>1, <2>2 DEF Types
<1>8. Order'
  <2>1. OverStays
    BY <1>3 DEF OverStays
  <2>2. BoundNow'
    BY <1>2, <1>3 DEF RoundInv, Order, BoundNow
  <2>3. EndLast'
    BY <1>3, <2>1, EndLastKept DEF RoundInv, Order
  <2>. QED
    BY <1>2, <1>3, <1>7, <2>1, <2>2, <2>3, OrderKept DEF RoundInv
<1>9. Finished' = Finished /\ EndsUnderWay' = EndsUnderWay
  BY <1>2, <1>3 DEF Finished, Ended, EndsUnderWay
<1>10. Apart => backlog' = backlog
  BY <1>1, <1>4, HostsAssumption DEF Apart, Types, Servers
<1>11. AllOver' /\ Counted'
  BY <1>2, <1>9, <1>10 DEF RoundInv, AllOver, Counted, Before, Apart
<1>12. StoppedAfterWork'
  <2>1. ASSUME Apart, signalled PROVE proc[<<m, bound[m]>>] \in Over
    <3>1. Finished = Nodes
      BY <1>2, <2>1 DEF RoundInv, AllOver, Before
    <3>2. proc[<<m, round>>] \in Over
      BY <2>1, <3>1 DEF Finished, Ended
    <3>3. CASE bound[m] = round
      BY <3>2, <3>3
    <3>4. CASE bound[m] # round
      <4>1. bound[m] <= round /\ bound[m] \in 1..2 /\ round \in 1..2
        BY <1>1, <1>6, <2>1 DEF RoundInv, Order, BoundNow, Types, Rounds
      <4>2. round = 2 /\ bound[m] = 1
        BY <3>4, <4>1
      <4>. QED
        BY <2>1, <4>2 DEF RoundInv, Order, FirstOver
    <3>. QED
      BY <3>3, <3>4
  <2>. QED
    BY <1>2, <1>3, <1>5, <2>1 DEF RoundInv, StoppedAfterWork, Apart, Over
<1>. QED
  BY <1>8, <1>11, <1>12 DEF RoundInv

LEMMA TermWaitInv == RoundInv /\ TermWait => RoundInv'
<1>. SUFFICES ASSUME RoundInv, TermWait PROVE RoundInv'
  OBVIOUS
<1>1. Types
  BY DEF RoundInv, Order
<1>2. /\ step = "wait" /\ backlog # <<>> /\ count' = count + 1 /\ backlog' = Tail(backlog)
      /\ UNCHANGED <<host, step, round, todo, commands, procVars, pipe>>
  BY DEF TermWait, serverVars
<1>3. /\ backlog' \in Seq({"contact", "END"})
      /\ Len(backlog) \in Nat /\ Len(backlog') = Len(backlog) - 1
  BY <1>1, <1>2 DEF Types
<1>4. Types'
  BY <1>1, <1>2, <1>3 DEF Types, procVars
<1>5. /\ Order' /\ StoppedAfterWork' /\ EndsUnderWay' = EndsUnderWay
      /\ Ended(round)' = Ended(round)
  BY <1>2, <1>4, TestbedKept
<1>6. Finished' = Finished
  BY <1>2, <1>5 DEF Finished
<1>7. Total' = Total
  <2>1. Cardinality(EndsUnderWay) \in Nat
    BY SetTypes, ProcessSets
  <2>. QED
    BY <1>1, <1>2, <1>3, <1>5, <2>1 DEF Total, Waited, Types
<1>8. Counted' /\ AllOver'
  BY <1>2, <1>6, <1>7 DEF RoundInv, Counted, AllOver, Before, Apart
<1>. QED
  BY <1>5, <1>8 DEF RoundInv

LEMMA GoesOnIs ==
  ASSUME RoundInv, NEW s, NEW s2, GoesOn(s, s2),
         s2 \in {"start", "wait", "end", "exit", "results"}
  PROVE  /\ step = s /\ step' = s2 /\ Order' /\ StoppedAfterWork'
         /\ todo' = IF s2 \in {"start", "end", "exit"} THEN Machines ELSE {}
         /\ s2 = "wait" => count' = 0
         /\ UNCHANGED <<host, round, backlog>>
         /\ EndsUnderWay' = EndsUnderWay /\ Ended(round)' = Ended(round)
<1>1. /\ step = s /\ step' = s2
      /\ todo' = IF s2 \in {"start", "end", "exit"} THEN Machines ELSE {}
      /\ count' = IF s2 = "wait" THEN 0 ELSE count
      /\ UNCHANGED <<host, round, commands, procVars, pipe, backlog>>
  BY DEF GoesOn, serverVars, flowVars
<1>2. Types'
  BY <1>1 DEF RoundInv, Order, Types, procVars, Machines, Servers
<1>. QED
  BY <1>1, <1>2, TestbedKept

LEMMA NextCallInv == RoundInv /\ NextCall => RoundInv'
<1>. SUFFICES ASSUME RoundInv, NextCall PROVE RoundInv'
  OBVIOUS
<1>1. Types
  BY DEF RoundInv, Order
<1>2. CASE GoesOn("command", "start") \/ GoesOn("start", "wait")
  <2>1. /\ Order' /\ StoppedAfterWork'
        /\ UNCHANGED <<host, round, backlog>>
        /\ EndsUnderWay' = EndsUnderWay /\ Ended(round)' = Ended(round)
        /\ \/ step = "command" /\ step' = "start" /\ todo' = Machines
           \/ step = "start" /\ step' = "wait" /\ count' = 0
    BY <1>2, GoesOnIs
  <2>2. Finished' = Finished /\ Total' = Total
    BY <2>1 DEF Finished, Total, Waited
  <2>. QED
    BY <2>1, <2>2 DEF RoundInv, Counted, AllOver, Before, Apart
<1>3. CASE GoesOn("end", "results") \/ GoesOn("end", "exit") \/ GoesOn("exit", "results")
  <2>1. /\ Order' /\ StoppedAfterWork'
        /\ UNCHANGED <<host, round, backlog>>
        /\ EndsUnderWay' = EndsUnderWay /\ Ended(round)' = Ended(round)
        /\ step \in {"end", "exit"} /\ step' \in {"exit", "results"}
    BY <1>3, GoesOnIs
  <2>2. Finished' = Finished
    BY <2>1 DEF Finished
  <2>. QED
    BY <2>1, <2>2 DEF RoundInv, Counted, AllOver, Before, Apart
<1>. QED
  BY <1>2, <1>3 DEF NextCall

\* As many connections as nodes: all nodes have ended, and nothing is left that
\* could be counted in the next round.
LEMMA WaitOverInv == RoundInv /\ WaitOver => RoundInv'
<1>. SUFFICES ASSUME RoundInv, WaitOver PROVE RoundInv'
  OBVIOUS
<1>1. Types
  BY DEF RoundInv, Order
<1>2. /\ count >= Cardinality(Nodes) /\ step = "wait" /\ step' = "end"
      /\ Order' /\ StoppedAfterWork' /\ UNCHANGED <<host, round, backlog>>
      /\ EndsUnderWay' = EndsUnderWay /\ Ended(round)' = Ended(round)
  BY GoesOnIs DEF WaitOver, AllCounted
<1>3. Finished' = Finished
  BY <1>2 DEF Finished
<1>4. ASSUME Apart
      PROVE  Finished = Nodes /\ backlog = <<>> /\ EndsUnderWay = {}
  <2>1. Total <= Cardinality(Finished)
    BY <1>2, <1>4 DEF RoundInv, Counted, Before
  <2>2. /\ Cardinality(Finished) <= Cardinality(Nodes)
        /\ Cardinality(Finished) = Cardinality(Nodes) => Finished = Nodes
        /\ Cardinality(Finished) \in Nat /\ Cardinality(Nodes) \in Nat
    BY SetTypes, NodeSets
  <2>3. /\ Cardinality(EndsUnderWay) \in Nat
        /\ Cardinality(EndsUnderWay) = 0 => EndsUnderWay = {}
    BY SetTypes, ProcessSets
  <2>4. Len(backlog) \in Nat /\ (Len(backlog) = 0 => backlog = <<>>) /\ count \in Nat
    BY <1>1, EmptySeq DEF Types
  <2>5. Total = count + Len(backlog) + Cardinality(EndsUnderWay)
    BY <1>2 DEF Total, Waited
  <2>. QED
    BY <1>2, <2>1, <2>2, <2>3, <2>4, <2>5
<1>5. AllOver' /\ Counted'
  BY <1>2, <1>3, <1>4 DEF AllOver, Counted, Before, Apart
<1>. QED
  BY <1>2, <1>5 DEF RoundInv

LEMMA CollectInv == RoundInv /\ Collect => RoundInv'
<1>. SUFFICES ASSUME RoundInv, Collect PROVE RoundInv'
  OBVIOUS
<1>1. Types
  BY DEF RoundInv, Order
<1>2. /\ step = "results"
      /\ UNCHANGED <<host, count, commands, procVars, backlog, pipe>>
      /\ \/ round = 1 /\ step' = "command" /\ round' = 2 /\ todo' = Machines
         \/ round = 2 /\ step' = "done" /\ UNCHANGED <<round, todo>>
  BY DEF Collect, serverVars
<1>3. UNCHANGED <<proc, bound, end_signal>> /\ EndsUnderWay' = EndsUnderWay
  BY <1>2 DEF procVars, EndsUnderWay
<1>4. Types'
  BY <1>1, <1>2, <1>3 DEF Types, Machines, Servers, Rounds
<1>5. CASE round = 2
  <2>1. /\ Order' /\ StoppedAfterWork' /\ Ended(round)' = Ended(round)
        /\ step' = "done" /\ round' = 2
    BY <1>2, <1>4, <1>5, TestbedKept
  <2>2. Finished' = Finished
    BY <1>2, <1>5, <2>1 DEF Finished
  <2>. QED
    BY <1>2, <1>3, <2>1, <2>2 DEF RoundInv, Counted, AllOver, Before, Apart
<1>6. CASE round = 1
  <2>1. step' = "command" /\ round' = 2 /\ todo' = Machines
    BY <1>2, <1>6
  <2>2. Commanded'
    <3>1. ASSUME NEW m \in Nodes, NEW i \in 1..Len(commands[m]), commands[m][i] # 0
          PROVE  /\ commands[m][i] <= 2 /\ proc[<<m, commands[m][i]>>] = "off"
                 /\ \A j \in 1..Len(commands[m]) : commands[m][j] = commands[m][i] => j = i
      <4>1. commands[m][i] \in 0..2
        BY <1>1, <3>1 DEF Types, Servers
      <4>. QED
        BY <3>1, <4>1 DEF RoundInv, Order, Commanded
    <3>. QED
      BY <1>2, <1>3, <2>1, <3>1 DEF Commanded
  <2>3. NotYet'
    <3>1. ASSUME NEW m \in Nodes
          PROVE  proc[<<m, 2>>] = "off" /\ \A i \in 1..Len(commands[m]) : commands[m][i] # 2
      BY <1>6, <3>1 DEF RoundInv, Order, Later, Commanded
    <3>. QED
      BY <1>2, <1>3, <2>1, <3>1 DEF NotYet
  <2>4. Later' /\ BoundNow'
    BY <1>1, <1>3, <2>1 DEF Later, BoundNow, Types
  <2>5. EndLast'
    BY <1>2, <1>3 DEF RoundInv, Order, EndLast
  <2>6. FirstOver'
    <3>1. Apart => Finished = Nodes
      BY <1>2, <1>6 DEF RoundInv, AllOver, Before
    <3>2. Apart => \A n \in Nodes : proc[<<n, 1>>] \in Over
      BY <1>6, <3>1 DEF Finished, Ended
    <3>. QED
      BY <1>2, <1>3, <3>2 DEF FirstOver, Apart
  <2>7. StoppedAfterWork'
    BY <1>2, <1>3 DEF RoundInv, StoppedAfterWork, Apart
  <2>8. Counted' /\ AllOver'
    <3>1. Apart => Total' = 0
      <4>1. Apart => backlog = <<>> /\ EndsUnderWay = {}
        BY <1>2 DEF RoundInv, AllOver, Before
      <4>. QED
        BY <1>2, <1>3, <2>1, <4>1, FS_EmptySet DEF Total, Waited
    <3>2. Cardinality(Finished') \in Nat
      <4>1. Finished' \subseteq Nodes
        BY DEF Finished, Ended
      <4>. QED
        BY <4>1, NodeSets
    <3>3. Apart' <=> Apart
      BY <1>2 DEF Apart
    <3>. QED
      BY <2>1, <3>1, <3>2, <3>3 DEF Counted, AllOver, Before
  <2>. QED
    BY <1>4, <2>2, <2>3, <2>4, <2>5, <2>6, <2>7, <2>8 DEF RoundInv, Order
<1>. QED
  BY <1>2, <1>5, <1>6

-----------------------------------------------------------------------------
(* The listening servers.                                                  *)

\* A command starts a process that has been off, and there is no other for it.
LEMMA ListeningServerInv ==
  ASSUME RoundInv, NEW m \in Servers, ListeningServer(m)
  PROVE  RoundInv'
<1>. DEFINE q == commands[m]
            c == Head(q)
            starts == c # 0 /\ m \in Nodes
<1>1. Types
  BY DEF RoundInv, Order
<1>2. /\ q # <<>> /\ commands' = [commands EXCEPT ![m] = Tail(@)]
      /\ proc' = IF starts THEN [proc EXCEPT ![<<m, c>>] = "boot"] ELSE proc
      /\ UNCHANGED <<host, step, round, todo, count, bound, end_signal, pipe, backlog>>
  BY DEF ListeningServer, testbedVars, flowVars
<1>3. /\ q \in Seq(0..2) /\ c = q[1] /\ c \in 0..2 /\ 1 \in 1..Len(q)
      /\ commands'[m] = Tail(q) /\ Tail(q) \in Seq(0..2) /\ Len(Tail(q)) = Len(q) - 1 /\ Len(q) \in Nat
      /\ \A i \in 1..Len(Tail(q)) : Tail(q)[i] = q[i + 1] /\ i + 1 \in 1..Len(q)
  <2>1. q \in Seq(0..2) /\ q # <<>>
    BY <1>1, <1>2 DEF Types
  <2>2. c = q[1] /\ 1 \in 1..Len(q) /\ Len(q) \in Nat
    BY <2>1
  <2>3. c \in 0..2 /\ Tail(q) \in Seq(0..2) /\ Len(Tail(q)) = Len(q) - 1
        /\ \A i \in 1..Len(Tail(q)) : Tail(q)[i] = q[i + 1]
    BY <2>1, HeadTailProperties, Zenon
  <2>4. commands'[m] = Tail(q)
    BY <1>1, <1>2 DEF Types
  <2>. QED
    BY <2>1, <2>2, <2>3, <2>4
<1>4. starts => /\ c \in Rounds /\ c <= round /\ proc[<<m, c>>] = "off" /\ <<m, c>> \in Processes
                /\ \A i \in 1..Len(q) : q[i] = c => i = 1
  <2>1. starts => c \in Rounds
    BY <1>3 DEF Rounds
  <2>2. starts => /\ c <= round /\ proc[<<m, c>>] = "off"
                  /\ \A i \in 1..Len(q) : q[i] = c => i = 1
    BY <1>3 DEF RoundInv, Order, Commanded
  <2>. QED
    BY <2>1, <2>2 DEF Processes
<1>5. Types'
  <2>1. commands' \in [Servers -> Seq(0..2)]
    BY <1>1, <1>2, <1>3 DEF Types
  <2>2. proc' \in [Processes -> {"off", "boot", "listen", "deaf", "run", "ended", "done"}]
    BY <1>1, <1>2, <1>4 DEF Types
  <2>. QED
    BY <1>1, <1>2, <2>1, <2>2 DEF Types
<1>6. /\ \A n \in Servers : n # m => commands'[n] = commands[n]
      /\ \A w \in Processes : w # <<m, c>> => proc'[w] = proc[w]
      /\ starts => proc'[<<m, c>>] = "boot"
      /\ ~starts => proc' = proc
  BY <1>1, <1>2, <1>4 DEF Types
<1>7. Commanded'
  <2>1. ASSUME NEW n \in Nodes, NEW i \in 1..Len(commands'[n]), commands'[n][i] # 0
        PROVE  /\ commands'[n][i] <= round /\ proc'[<<n, commands'[n][i]>>] = "off"
               /\ \A j \in 1..Len(commands'[n]) : commands'[n][j] = commands'[n][i] => j = i
    <3>1. CASE n # m
      <4>1. commands'[n] = commands[n]
        BY <1>6, <3>1 DEF Servers
      <4>2. commands[n][i] \in Rounds
        BY <1>1, <2>1, <4>1 DEF Types, Rounds, Servers
      <4>3. <<n, commands[n][i]>> \in Processes /\ <<n, commands[n][i]>> # <<m, c>>
        BY <3>1, <4>2 DEF Processes
      <4>. QED
        BY <1>6, <2>1, <4>1, <4>3 DEF RoundInv, Order, Commanded
    <3>2. CASE n = m
      <4>1. i + 1 \in 1..Len(q) /\ commands'[n][i] = q[i + 1] /\ q[i + 1] # 0
        BY <1>3, <2>1, <3>2
      <4>2. /\ q[i + 1] <= round /\ proc[<<m, q[i + 1]>>] = "off"
            /\ \A j \in 1..Len(q) : q[j] = q[i + 1] => j = i + 1
        BY <3>2, <4>1 DEF RoundInv, Order, Commanded
      <4>3. q[i + 1] \in Rounds /\ q[i + 1] # c
        BY <1>1, <1>3, <3>2, <4>1, <4>2 DEF Types, Rounds
      <4>4. <<m, q[i + 1]>> \in Processes /\ <<m, q[i + 1]>> # <<m, c>>
        BY <3>2, <4>3 DEF Processes
      <4>5. ASSUME NEW j \in 1..Len(commands'[n]), commands'[n][j] = commands'[n][i] PROVE j = i
        <5>1. j + 1 \in 1..Len(q) /\ commands'[n][j] = q[j + 1]
          BY <1>3, <3>2, <4>5
        <5>2. j + 1 = i + 1
          BY <4>1, <4>2, <4>5, <5>1
        <5>. QED
          BY <1>3, <2>1, <3>2, <4>5, <5>2
      <4>. QED
        BY <1>6, <3>2, <4>1, <4>2, <4>4, <4>5
    <3>. QED
      BY <3>1, <3>2
  <2>2. round' = round
    BY <1>2
  <2>. QED
    BY <2>1, <2>2 DEF Commanded
<1>8. NotYet'
  <2>1. ASSUME step = "command", NEW n \in Nodes \cap todo
        PROVE  /\ proc'[<<n, round>>] = "off"
               /\ \A i \in 1..Len(commands'[n]) : commands'[n][i] # round
    <3>1. /\ proc[<<n, round>>] = "off"
          /\ \A i \in 1..Len(commands[n]) : commands[n][i] # round
      BY <2>1 DEF RoundInv, Order, NotYet
    <3>2. CASE n # m
      <4>1. <<n, round>> \in Processes /\ <<n, round>> # <<m, c>> /\ n \in Servers
        BY <1>1, <3>2 DEF Types, Processes, Servers
      <4>. QED
        BY <1>6, <3>1, <3>2, <4>1
    <3>3. CASE n = m
      <4>1. c # round
        BY <1>3, <3>1, <3>3
      <4>2. <<n, round>> \in Processes /\ <<n, round>> # <<m, c>>
        BY <1>1, <4>1 DEF Types, Processes
      <4>3. ASSUME NEW i \in 1..Len(commands'[n]) PROVE commands'[n][i] # round
        <5>1. i + 1 \in 1..Len(q) /\ commands'[n][i] = q[i + 1]
          BY <1>3, <3>3, <4>3
        <5>. QED
          BY <3>1, <3>3, <5>1
      <4>4. proc'[<<n, round>>] = "off"
        BY <1>6, <3>1, <4>2
      <4>. QED
        BY <4>3, <4>4
    <3>. QED
      BY <3>2, <3>3
  <2>. QED
    BY <1>2, <2>1 DEF NotYet
<1>9. OverStays
  BY <1>4, <1>6 DEF OverStays, Over
<1>10. Later' /\ BoundNow' /\  FirstOver' /\ EndLast' /\ EndsUnderWay' = EndsUnderWay
  <2>1. ASSUME NEW n \in Nodes, round = 1 PROVE proc'[<<n, 2>>] = "off"
    <3>1. c # 2 \/ ~starts
      BY <1>4, <2>1
    <3>2. <<n, 2>> \in Processes /\ (starts => <<n, 2>> # <<m, c>>)
      BY <3>1 DEF Processes, Rounds
    <3>. QED
      BY <1>6, <2>1, <3>2 DEF RoundInv, Order, Later
  <2>2. ASSUME Apart, round = 2, NEW n \in Nodes PROVE proc'[<<n, 1>>] \in Over
    <3>1. <<n, 1>> \in Processes
      BY DEF Processes, Rounds
    <3>. QED
      BY <1>9, <2>2, <3>1 DEF RoundInv, Order, FirstOver, OverStays
  <2>3. EndLast' /\ EndsUnderWay' = EndsUnderWay
    BY <1>2, <1>9, EndLastKept DEF RoundInv, Order
  <2>. QED
    BY <1>2, <2>1, <2>2, <2>3 DEF RoundInv, Order, Later, BoundNow, FirstOver, Apart
<1>11. StoppedAfterWork'
  BY <1>1, <1>2, <1>9, StoppedKept DEF RoundInv
<1>12. Finished \subseteq Finished'
  <2>1. Ended(round) \subseteq Ended(round)'
    BY <1>1, <1>2, <1>9, EndedGrow
  <2>. QED
    BY <1>2, <2>1 DEF Finished
<1>. QED
  BY <1>2, <1>5, <1>7, <1>8, <1>10, <1>11, <1>12, QuietStep DEF RoundInv, Order

-----------------------------------------------------------------------------
(* The node processes and the switch processes.                            *)

\* A step of one process p, which is on its way from start to end.
LEMMA ProcessKept ==
  ASSUME RoundInv, Types', NEW p \in Processes,
         UNCHANGED <<host, step, round, todo, count, commands, end_signal>>,
         \A q \in Processes : q # p => proc'[q] = proc[q],
         proc[p] # "off" \/ proc' = proc,
         proc[p] \in Over => proc'[p] \in Over,
         BoundNow', EndLast'
  PROVE  Order' /\ StoppedAfterWork' /\ Finished \subseteq Finished'
<1>1. Types
  BY DEF RoundInv, Order
<1>2. OverStays
  BY DEF OverStays
<1>3. Order'
  BY <1>2, OrderKept DEF RoundInv
<1>4. StoppedAfterWork'
  BY <1>1, <1>2, StoppedKept DEF RoundInv
<1>5. Finished \subseteq Finished'
  <2>1. Ended(round) \subseteq Ended(round)'
    BY <1>1, <1>2, EndedGrow
  <2>. QED
    BY <2>1 DEF Finished
<1>. QED
  BY <1>3, <1>4, <1>5

\* Only processes of this round or of the one before are up.
LEMMA UpNow ==
  ASSUME Order, NEW p \in Processes, proc[p] # "off"
  PROVE  p[2] <= round /\ p[1] \in Nodes /\ p[2] \in Rounds /\ p = <<p[1], p[2]>>
<1>1. p[1] \in Nodes /\ p[2] \in Rounds /\ p = <<p[1], p[2]>>
  BY DEF Processes
<1>2. CASE round = 1
  <2>1. p[2] # 2
    BY <1>1, <1>2 DEF Order, Later
  <2>. QED
    BY <1>1, <1>2, <2>1 DEF Rounds
<1>3. CASE round = 2
  BY <1>1, <1>3 DEF Rounds
<1>. QED
  BY <1>1, <1>2, <1>3 DEF Order, Types, Rounds

LEMMA BootInv ==
  ASSUME RoundInv, NEW p \in Processes, Boot(p)
  PROVE  RoundInv'
<1>1. Types
  BY DEF RoundInv, Order
<1>2. /\ proc[p] = "boot"
      /\ UNCHANGED <<host, step, round, todo, count, commands, end_signal, pipe, backlog>>
  BY DEF Boot, testbedVars, serverVars, flowVars
<1>3. PICK state \in {"listen", "deaf"} :
        /\ proc' = [proc EXCEPT ![p] = state]
        /\ bound' = bound \/ bound' = [bound EXCEPT ![p[1]] = p[2]]
  BY DEF Boot
<1>4. p[1] \in Nodes /\ p[2] \in Rounds /\ p[2] <= round
  BY <1>2, UpNow DEF RoundInv
<1>5. Types'
  <2>1. bound' \in [Nodes -> 0..2]
    <3>1. bound \in [Nodes -> 0..2] /\ p[1] \in Nodes /\ p[2] \in 0..2
      BY <1>1, <1>4 DEF Types, Rounds
    <3>. QED
      BY <1>3, <3>1
  <2>2. proc' \in [Processes -> {"off", "boot", "listen", "deaf", "run", "ended", "done"}]
    BY <1>1, <1>3 DEF Types
  <2>. QED
    BY <1>1, <1>2, <2>1, <2>2 DEF Types
<1>6. /\ \A q \in Processes : q # p => proc'[q] = proc[q]
      /\ proc'[p] = state
  BY <1>1, <1>3 DEF Types
<1>7. BoundNow'
  BY <1>1, <1>2, <1>3, <1>4 DEF RoundInv, Order, BoundNow, Types
<1>8. EndLast' /\ EndsUnderWay' = EndsUnderWay
  <2>1. OverStays
    BY <1>2, <1>6 DEF OverStays, Over
  <2>. QED
    BY <1>2, <2>1, EndLastKept DEF RoundInv, Order
<1>9. Order' /\ StoppedAfterWork' /\ Finished \subseteq Finished'
  BY <1>2, <1>3, <1>5, <1>6, <1>7, <1>8, ProcessKept DEF Over
<1>. QED
  BY <1>2, <1>5, <1>8, <1>9, QuietStep DEF RoundInv

LEMMA SendMessageInv ==
  ASSUME RoundInv, NEW p \in Processes, SendMessage(p)
  PROVE  RoundInv'
<1>1. Types
  BY DEF RoundInv, Order
<1>2. /\ proc[p] = "run"
      /\ pipe' = [pipe EXCEPT ![p] = IF p \in connected THEN Append(@, "message") ELSE @]
      /\ UNCHANGED <<host, step, round, todo, count, commands, proc, bound, end_signal, backlog>>
  BY DEF SendMessage, Sends, testbedVars, serverVars, procVars
<1>3. /\ pipe[p] \in Seq({"message", "END"}) /\ "message" \in {"message", "END"}
      /\ \A i \in 1..Len(pipe[p]) : pipe[p][i] # "END"
  BY <1>1, <1>2 DEF RoundInv, Order, EndLast, Types, Over
<1>4. /\ pipe'[p] \in Seq({"message", "END"})
      /\ \A i \in 1..Len(pipe'[p]) : pipe'[p][i] # "END"
  <2>1. pipe'[p] = pipe[p] \/ pipe'[p] = Append(pipe[p], "message")
    BY <1>1, <1>2 DEF Types
  <2>2. CASE pipe'[p] = Append(pipe[p], "message")
    BY <1>3, <2>2, AppendProperties
  <2>. QED
    BY <1>3, <2>1, <2>2
<1>5. \A q \in Processes : q # p => pipe'[q] = pipe[q]
  BY <1>1, <1>2 DEF Types
<1>6. Types'
  <2>1. pipe' \in [Processes -> Seq({"message", "END"})]
    BY <1>1, <1>2, <1>4, <1>5 DEF Types
  <2>. QED
    BY <1>1, <1>2, <2>1 DEF Types
<1>7. EndLast' /\ EndsUnderWay' \subseteq EndsUnderWay
  BY <1>2, <1>4, <1>5 DEF RoundInv, Order, EndLast, EndsUnderWay
<1>8. BoundNow'
  BY <1>2 DEF RoundInv, Order, BoundNow
<1>9. Order' /\ StoppedAfterWork' /\ Finished \subseteq Finished'
  BY <1>2, <1>6, <1>7, <1>8, ProcessKept
<1>. QED
  BY <1>2, <1>6, <1>7, <1>9, QuietStep DEF RoundInv

\* A node that ends is counted from now on, and its END is what is counted of it.
LEMMA FinishInv ==
  ASSUME RoundInv, NEW p \in Processes, Finish(p)
  PROVE  RoundInv'
<1>1. Types
  BY DEF RoundInv, Order
<1>2. /\ proc[p] = "run" /\ proc' = [proc EXCEPT ![p] = "ended"]
      /\ pipe' = [pipe EXCEPT ![p] = IF p \in connected THEN Append(@, "END") ELSE @]
      /\ UNCHANGED <<host, step, round, todo, count, commands, bound, end_signal, backlog>>
  BY DEF Finish, Sends, testbedVars, serverVars
<1>3. /\ pipe[p] \in Seq({"message", "END"}) /\ "END" \in {"message", "END"}
      /\ \A i \in 1..Len(pipe[p]) : pipe[p][i] # "END"
  BY <1>1, <1>2 DEF RoundInv, Order, EndLast, Types, Over
<1>4. /\ pipe'[p] \in Seq({"message", "END"})
      /\ \A i \in 1..Len(pipe'[p]) : pipe'[p][i] = "END" => i = Len(pipe'[p])
  <2>1. pipe'[p] = pipe[p] \/ pipe'[p] = Append(pipe[p], "END")
    BY <1>1, <1>2 DEF Types
  <2>2. CASE pipe'[p] = Append(pipe[p], "END")
    BY <1>3, <2>2, AppendProperties
  <2>. QED
    BY <1>3, <2>1, <2>2
<1>5. /\ \A q \in Processes : q # p => pipe'[q] = pipe[q] /\ proc'[q] = proc[q]
      /\ proc'[p] = "ended"
  BY <1>1, <1>2 DEF Types
<1>6. Types'
  <2>1. pipe' \in [Processes -> Seq({"message", "END"})]
    BY <1>1, <1>2, <1>4, <1>5 DEF Types
  <2>2. proc' \in [Processes -> {"off", "boot", "listen", "deaf", "run", "ended", "done"}]
    BY <1>1, <1>2 DEF Types
  <2>. QED
    BY <1>1, <1>2, <2>1, <2>2 DEF Types
<1>7. EndLast' /\ EndsUnderWay' \subseteq EndsUnderWay \cup {p}
  BY <1>4, <1>5 DEF RoundInv, Order, EndLast, EndsUnderWay, Over
\* It runs in this very round, if the testbed is apart.
<1>8. p[1] \in Nodes /\ (Apart => p = <<p[1], round>>)
  <2>1. p[1] \in Nodes /\ p[2] \in Rounds /\ p[2] <= round /\ p = <<p[1], p[2]>>
    BY <1>2, UpNow DEF RoundInv
  <2>2. Apart => ~(round = 2 /\ p[2] = 1)
    BY <1>2, <2>1 DEF RoundInv, Order, FirstOver, Over
  <2>3. Apart => p[2] = round
    BY <1>1, <2>1, <2>2 DEF Types, Rounds
  <2>. QED
    BY <2>1, <2>3
<1>9. BoundNow'
  BY <1>2 DEF RoundInv, Order, BoundNow
<1>10. Order' /\ StoppedAfterWork' /\ Finished \subseteq Finished'
  BY <1>2, <1>5, <1>6, <1>7, <1>8, <1>9, ProcessKept DEF Over
<1>11. Apart => p[1] \notin Finished /\ p[1] \in Finished'
  BY <1>2, <1>5, <1>8 DEF Finished, Ended, Over
<1>12. ASSUME Apart PROVE Cardinality(Finished') >= Cardinality(Finished) + 1
  <2>1. Finished' \subseteq Nodes /\ Finished \cup {p[1]} \subseteq Finished'
    BY <1>10, <1>11, <1>12 DEF Finished, Ended
  <2>2. /\ Cardinality(Finished \cup {p[1]}) <= Cardinality(Finished')
        /\ Cardinality(Finished') \in Nat
    BY <2>1, NodeSets
  <2>3. IsFiniteSet(Finished) /\ Cardinality(Finished) \in Nat
    BY SetTypes, NodeSets
  <2>4. Cardinality(Finished \cup {p[1]}) = Cardinality(Finished) + 1
    BY <1>11, <1>12, <2>3, FS_AddElement
  <2>. QED
    BY <2>2, <2>3, <2>4
<1>13. Counted'
  <2>1. IsFiniteSet(EndsUnderWay) /\ Cardinality(EndsUnderWay) \in Nat
    BY SetTypes, ProcessSets
  <2>2. Cardinality(EndsUnderWay \cup {p}) <= Cardinality(EndsUnderWay) + 1
    <3>1. Cardinality(EndsUnderWay \cup {p})
            = IF p \in EndsUnderWay THEN Cardinality(EndsUnderWay) ELSE Cardinality(EndsUnderWay) + 1
      BY <2>1, FS_AddElement
    <3>. QED
      BY <2>1, <3>1
  <2>3. EndsUnderWay \cup {p} \subseteq Processes
    BY DEF EndsUnderWay
  <2>4. /\ Cardinality(EndsUnderWay') \in Nat /\ Cardinality(EndsUnderWay \cup {p}) \in Nat
        /\ Cardinality(EndsUnderWay') <= Cardinality(EndsUnderWay \cup {p})
    BY <1>7, <2>3, ProcessSets
  <2>5. Len(backlog) \in Nat /\ Waited \in Nat /\ Waited' = Waited
    BY <1>1, <1>2 DEF Types, Waited
  <2>6. Total' <= Total + 1 /\ Total \in Nat /\ Total' \in Nat
    BY <1>2, <2>1, <2>2, <2>4, <2>5 DEF Total
  <2>7. Cardinality(Finished) \in Nat /\ Cardinality(Finished') \in Nat
    <3>1. Finished' \subseteq Nodes
      BY DEF Finished, Ended
    <3>. QED
      BY <3>1, SetTypes, NodeSets
  <2>. QED
    BY <1>2, <1>12, <2>6, <2>7 DEF RoundInv, Counted, Before, Apart
<1>14. AllOver'
  <2>1. Apart => Before
    BY <1>8, <1>11 DEF RoundInv, AllOver
  <2>. QED
    BY <1>2, <2>1 DEF AllOver, Before, Apart
<1>. QED
  BY <1>10, <1>13, <1>14 DEF RoundInv

LEMMA ExitInv ==
  ASSUME RoundInv, NEW p \in Processes, Exit(p)
  PROVE  RoundInv'
<1>1. Types
  BY DEF RoundInv, Order
<1>2. /\ proc[p] = "ended" /\ proc' = [proc EXCEPT ![p] = "done"]
      /\ bound' = [bound EXCEPT ![p[1]] = 0]
      /\ UNCHANGED <<host, step, round, todo, count, commands, end_signal, backlog>>
  BY DEF Exit, testbedVars, serverVars
<1>3. PICK k \in 0..Len(pipe[p]) : pipe' = [pipe EXCEPT ![p] = SubSeq(@, 1, k)]
  BY DEF Exit
<1>4. /\ pipe'[p] \in Seq({"message", "END"}) /\ Len(pipe'[p]) = k
      /\ \A i \in 1..k : pipe'[p][i] = pipe[p][i] /\ i \in 1..Len(pipe[p])
  <2>1. pipe[p] \in Seq({"message", "END"}) /\ pipe'[p] = SubSeq(pipe[p], 1, k)
    BY <1>1, <1>3 DEF Types
  <2>. QED
    BY <2>1, SubSeqProperties
<1>5. /\ \A q \in Processes : q # p => pipe'[q] = pipe[q] /\ proc'[q] = proc[q]
      /\ proc'[p] = "done"
  BY <1>1, <1>2, <1>3 DEF Types
<1>6. Types'
  <2>1. pipe' \in [Processes -> Seq({"message", "END"})]
    BY <1>1, <1>3, <1>4, <1>5 DEF Types
  <2>2. proc' \in [Processes -> {"off", "boot", "listen", "deaf", "run", "ended", "done"}]
    BY <1>1, <1>2 DEF Types
  <2>3. bound' \in [Nodes -> 0..2]
    <3>1. p[1] \in Nodes /\ 0 \in 0..2 /\ bound \in [Nodes -> 0..2]
      BY <1>1 DEF Processes, Types
    <3>. QED
      BY <1>2, <3>1
  <2>. QED
    BY <1>1, <1>2, <2>1, <2>2, <2>3 DEF Types
<1>7. EndLast' /\ EndsUnderWay' \subseteq EndsUnderWay
  <2>1. ASSUME NEW i \in 1..Len(pipe'[p]), pipe'[p][i] = "END" PROVE i = Len(pipe'[p]) /\ p \in EndsUnderWay
    <3>1. pipe[p][i] = "END" /\ i \in 1..Len(pipe[p])
      BY <1>4, <2>1
    <3>2. i = Len(pipe[p]) /\ Len(pipe[p]) \in Nat
      BY <1>1, <3>1 DEF RoundInv, Order, EndLast, Types
    <3>. QED
      BY <1>3, <1>4, <2>1, <3>1, <3>2 DEF EndsUnderWay
  <2>. QED
    BY <1>5, <2>1 DEF RoundInv, Order, EndLast, EndsUnderWay, Over
<1>8. BoundNow'
  BY <1>1, <1>2 DEF RoundInv, Order, BoundNow, Types, Rounds
<1>9. Order' /\ StoppedAfterWork' /\ Finished \subseteq Finished'
  BY <1>2, <1>5, <1>6, <1>7, <1>8, ProcessKept DEF Over
<1>. QED
  BY <1>2, <1>6, <1>7, <1>9, QuietStep DEF RoundInv

\* An END that the switch has handled is under way no more: it waits for term_wait.
LEMMA SwitchHandlesInv ==
  ASSUME RoundInv, NEW p \in Processes, SwitchHandles(p)
  PROVE  RoundInv'
<1>. DEFINE q == pipe[p]
<1>1. Types
  BY DEF RoundInv, Order
<1>2. /\ q # <<>> /\ pipe' = [pipe EXCEPT ![p] = Tail(@)]
      /\ Head(q) = "END" => backlog' = Append(backlog, "END")
      /\ Head(q) # "END" => backlog' = backlog \/ (~Apart /\ backlog' = Append(backlog, "contact"))
      /\ UNCHANGED <<host, step, round, todo, count, commands, proc, bound, end_signal>>
  BY DEF SwitchHandles, Forwarded, Apart, testbedVars, serverVars, procVars
<1>3. /\ pipe'[p] = Tail(q) /\ Tail(q) \in Seq({"message", "END"}) /\ Len(Tail(q)) = Len(q) - 1
      /\ Len(q) \in Nat \ {0} /\ Head(q) = q[1]
      /\ \A i \in 1..Len(Tail(q)) : Tail(q)[i] = q[i + 1]
  <2>1. q \in Seq({"message", "END"}) /\ q # <<>>
    BY <1>1, <1>2 DEF Types
  <2>2. Head(q) = q[1] /\ Len(q) \in Nat /\ Len(q) # 0
    BY <2>1
  <2>3. Tail(q) \in Seq({"message", "END"}) /\ Len(Tail(q)) = Len(q) - 1
        /\ \A i \in 1..Len(Tail(q)) : Tail(q)[i] = q[i + 1]
    BY <2>1, HeadTailProperties, Zenon
  <2>4. pipe'[p] = Tail(q)
    BY <1>1, <1>2 DEF Types
  <2>. QED
    BY <2>2, <2>3, <2>4
<1>4. \A w \in Processes : w # p => pipe'[w] = pipe[w]
  BY <1>1, <1>2 DEF Types
<1>5. Types'
  <2>1. pipe' \in [Processes -> Seq({"message", "END"})]
    BY <1>1, <1>2, <1>3 DEF Types
  <2>2. backlog' \in Seq({"contact", "END"})
    <3>1. /\ backlog \in Seq({"contact", "END"})
          /\ "END" \in {"contact", "END"} /\ "contact" \in {"contact", "END"}
      BY <1>1 DEF Types
    <3>. QED
      BY <1>2, <3>1, AppendProperties
  <2>. QED
    BY <1>1, <1>2, <2>1, <2>2 DEF Types
<1>6. ASSUME NEW i \in 1..Len(pipe'[p]), pipe'[p][i] = "END"
      PROVE  i = Len(pipe'[p]) /\ proc[p] \in Over /\ p \in EndsUnderWay /\ q[1] # "END"
  <2>1. i + 1 \in 1..Len(q) /\ q[i + 1] = "END" /\ 1 \in 1..Len(q)
    BY <1>3, <1>6
  <2>2. i + 1 = Len(q) /\ proc[p] \in Over /\ (q[1] = "END" => 1 = Len(q))
    BY <2>1 DEF RoundInv, Order, EndLast
  <2>. QED
    BY <1>3, <1>6, <2>1, <2>2 DEF EndsUnderWay
<1>7. EndLast' /\ EndsUnderWay' \subseteq EndsUnderWay
  BY <1>2, <1>4, <1>6 DEF RoundInv, Order, EndLast, EndsUnderWay
<1>8. BoundNow'
  BY <1>2 DEF RoundInv, Order, BoundNow
<1>9. Order' /\ StoppedAfterWork' /\ Finished \subseteq Finished'
  BY <1>2, <1>5, <1>7, <1>8, ProcessKept
<1>10. CASE Head(q) # "END"
  <2>1. CASE backlog' = backlog
    BY <1>2, <1>5, <1>7, <1>9, <2>1, QuietStep DEF RoundInv
  <2>2. CASE ~Apart
    BY <1>2, <1>9, <2>2 DEF RoundInv, Counted, AllOver, Apart
  <2>. QED
    BY <1>2, <1>10, <2>1, <2>2
<1>11. CASE Head(q) = "END"
  <2>1. p \in EndsUnderWay /\ EndsUnderWay' \subseteq EndsUnderWay \ {p}
    <3>1. q[1] = "END" /\ 1 \in 1..Len(q)
      BY <1>3, <1>11
    <3>2. p \in EndsUnderWay
      BY <3>1 DEF EndsUnderWay
    <3>3. p \notin EndsUnderWay'
      BY <1>6, <3>1 DEF EndsUnderWay
    <3>. QED
      BY <1>7, <3>2, <3>3
  <2>2. IsFiniteSet(EndsUnderWay) /\ Cardinality(EndsUnderWay) \in Nat
    BY SetTypes, ProcessSets
  <2>3. Cardinality(EndsUnderWay \ {p}) = Cardinality(EndsUnderWay) - 1
    BY <2>1, <2>2, FS_RemoveElement
  <2>4. /\ Cardinality(EndsUnderWay') \in Nat
        /\ Cardinality(EndsUnderWay') <= Cardinality(EndsUnderWay \ {p})
    BY <2>1, SetTypes, ProcessSets
  <2>5. Len(backlog) \in Nat /\ Len(backlog') = Len(backlog) + 1
    <3>1. backlog \in Seq({"contact", "END"}) /\ "END" \in {"contact", "END"}
      BY <1>1 DEF Types
    <3>. QED
      BY <1>2, <1>11, <3>1, AppendProperties
  <2>6. Waited \in Nat /\ Waited' = Waited
    BY <1>1, <1>2 DEF Types, Waited
  <2>7. Total' <= Total /\ Total \in Nat /\ Total' \in Nat
    BY <2>2, <2>3, <2>4, <2>5, <2>6 DEF Total
  <2>8. /\ Cardinality(Finished) \in Nat /\ Cardinality(Finished') \in Nat
        /\ Cardinality(Finished) <= Cardinality(Finished')
    <3>1. Finished' \subseteq Nodes
      BY DEF Finished, Ended
    <3>. QED
      BY <1>9, <3>1, NodeSets
  <2>9. Counted'
    BY <1>2, <2>7, <2>8 DEF RoundInv, Counted, Before, Apart
  <2>10. AllOver'
    <3>1. Finished' \subseteq Nodes
      BY DEF Finished, Ended
    <3>. QED
      BY <1>2, <1>9, <2>1, <3>1 DEF RoundInv, AllOver, Before, Apart
  <2>. QED
    BY <1>9, <2>9, <2>10 DEF RoundInv
<1>. QED
  BY <1>10, <1>11

\* A log that is opened, and a step that changes nothing.
LEMMA StutterInv ==
  ASSUME RoundInv, (\E p \in Processes : SwitchOpens(p)) \/ UNCHANGED vars
  PROVE  RoundInv'
<1>1. UNCHANGED <<host, step, round, todo, count, commands, procVars, pipe, backlog>>
  BY DEF SwitchOpens, vars, testbedVars, serverVars, flowVars
<1>2. Types'
  BY <1>1 DEF RoundInv, Order, Types, procVars
<1>3. Order' /\ StoppedAfterWork' /\ EndsUnderWay' = EndsUnderWay /\ Ended(round)' = Ended(round)
  BY <1>1, <1>2, TestbedKept
<1>4. Finished' = Finished
  BY <1>1, <1>3 DEF Finished
<1>. QED
  BY <1>1, <1>2, <1>3, <1>4, QuietStep DEF RoundInv

-----------------------------------------------------------------------------
LEMMA StepInv == RoundInv /\ [Next]_vars => RoundInv'
<1>. SUFFICES ASSUME RoundInv, [Next]_vars PROVE RoundInv'
  OBVIOUS
<1>1. CASE Testbed
  BY <1>1, CommandInv, SendStartInv, SendEndInv, TermWaitInv, NextCallInv, WaitOverInv, CollectInv
     DEF Testbed, Servers
<1>2. CASE \E m \in Nodes \cup {Switch} : ListeningServer(m)
  BY <1>2, ListeningServerInv DEF Servers
<1>3. CASE \E p \in Processes : Process(p) \/ SendMessage(p)
  BY <1>3, BootInv, SendMessageInv, FinishInv, ExitInv, SwitchHandlesInv, StutterInv DEF Process
<1>. QED
  BY <1>1, <1>2, <1>3, StutterInv DEF Next

\* A process that runs is one of this round.
LEMMA RunsNow ==
  ASSUME Order, Apart, NEW p \in Processes, proc[p] = "run"
  PROVE  p[2] = round
<1>1. p[1] \in Nodes /\ p[2] \in Rounds /\ p[2] <= round /\ p = <<p[1], p[2]>>
  BY UpNow
<1>2. ~(round = 2 /\ p[2] = 1)
  BY <1>1 DEF Order, FirstOver, Over
<1>. QED
  BY <1>1, <1>2 DEF Order, Types, Rounds

-----------------------------------------------------------------------------
(* What is in the logs when they are read, as long as the testbed runs on  *)
(* a machine of its own: term_wait counts the ENDs that a switch has       *)
(* handled, and END is behind everything else in the pipe.                 *)

Log == [round : Nat, lines : Nat]

LogTypes ==
  /\ sent \in [Processes -> Nat] /\ log \in [Nodes -> Log]
  /\ results \in [Rounds -> [Nodes -> Log]]
  /\ opened \subseteq connected /\ connected \subseteq Processes

Sleeping == {"off", "boot"}
Silent == {"off", "boot", "listen", "deaf"}

\* Nothing comes of a process before it runs, nor of one that has missed the switch.
Mute ==
  \A p \in Processes :
    /\ proc[p] \in Sleeping => p \notin connected
    /\ p \notin connected => pipe[p] = <<>>
    /\ proc[p] \in Silent => sent[p] = 0 /\ pipe[p] = <<>>

\* The run loop of p is over, and the switch has handled its END.
OnRecord(p) == proc[p] \in Over /\ p \in opened /\ pipe[p] = <<>>
Logged == {n \in Nodes : OnRecord(<<n, round>>)}

\* No more connections reach the testbed than ENDs have been handled.
Heard == IF Before THEN Waited + Len(backlog) <= Cardinality(Logged) ELSE Logged = Nodes
FirstLogged == round = 2 => \A n \in Nodes : OnRecord(<<n, 1>>)
Signaled == \A p \in end_signal : OnRecord(p)

Bit(b) == IF b THEN 1 ELSE 0

\* What a process has sent is in its log or still in its pipe.
Account(p) ==
  p \in connected =>
    IF p \notin opened THEN Len(pipe[p]) = sent[p] + Bit(proc[p] \in Over)
    ELSE step # "done" =>
           /\ log[p[1]].round = round
           /\ log[p[1]].lines + Len(pipe[p]) = sent[p] + Bit(proc[p] \in Over)
Accounts == \A n \in Nodes : Account(<<n, round>>)

Read ==
  \A r \in Rounds : results[r] # NoResults =>
    /\ r < round \/ (r = round /\ step = "done")
    /\ \A n \in Nodes : results[r][n] = [round |-> r, lines |-> sent[<<n, r>>] + 1]

LogParts == LogTypes /\ Mute /\ Heard /\ FirstLogged /\ Signaled /\ Accounts /\ Read
LogInv == Apart => LogParts


LEMMA InitLog == Init => LogInv
<1>. SUFFICES ASSUME Init, Apart PROVE LogParts
  BY DEF LogInv
<1>1. LogTypes
  <2>1. NoLog \in Log /\ NoResults \in [Nodes -> Log]
    BY DEF NoLog, NoResults, Log
  <2>2. log \in [Nodes -> Log]
    <3>1. PICK k \in OldLines : log = [n \in Nodes |-> [round |-> 0, lines |-> k]]
      BY DEF Init
    <3>. QED
      BY <3>1, OldLinesAssumption DEF Log
  <2>. QED
    BY <2>1, <2>2 DEF Init, LogTypes
<1>2. /\ round = 1 /\ step = "command" /\ connected = {} /\ end_signal = {} /\ backlog = <<>>
      /\ \A q \in Processes : pipe[q] = <<>> /\ sent[q] = 0
      /\ \A r \in Rounds : results[r] = NoResults
  BY DEF Init
<1>3. Cardinality(Logged) \in Nat
  <2>1. Logged \subseteq Nodes
    BY DEF Logged
  <2>. QED
    BY <2>1, NodeSets
<1>4. Heard
  BY <1>2, <1>3 DEF Heard, Before, Waited
<1>5. Mute /\ FirstLogged /\ Signaled
  <2>1. Mute
    BY <1>2 DEF Mute
  <2>2. FirstLogged /\ Signaled
    BY <1>2 DEF FirstLogged, Signaled
  <2>. QED
    BY <2>1, <2>2
<1>6. Accounts /\ Read
  BY <1>2 DEF Accounts, Account, Read
<1>. QED
  BY <1>1, <1>4, <1>5, <1>6 DEF LogParts

\* Whatever is on record stays there.
LEMMA LoggedGrow ==
  ASSUME round' = round, \A n \in Nodes : OnRecord(<<n, round>>) => OnRecord(<<n, round>>)'
  PROVE  /\ Logged \subseteq Logged' /\ Logged' \subseteq Nodes
         /\ Cardinality(Logged) \in Nat /\ Cardinality(Logged') \in Nat
         /\ Cardinality(Logged) <= Cardinality(Logged')
<1>1. Logged \subseteq Logged' /\ Logged' \subseteq Nodes
  BY DEF Logged
<1>. QED
  BY <1>1, NodeSets

\* A step of the testbed or of a listening server leaves pipes and logs alone.
LEMMA ServerStep ==
  ASSUME RoundInv, RoundInv', LogParts,
         UNCHANGED <<host, round, results, connected, pipe, sent, opened, log>>,
         \A q \in Processes :
           /\ proc'[q] \in Over <=> proc[q] \in Over
           /\ proc'[q] \in Sleeping => proc[q] \in Sleeping
           /\ proc'[q] \in Silent => proc[q] \in Silent,
         step' = "done" <=> step = "done", Signaled', Heard'
  PROVE  LogParts'
<1>1. \A q \in Processes : OnRecord(q)' <=> OnRecord(q)
  BY DEF OnRecord
<1>2. LogTypes' /\ Mute'
  BY DEF LogParts, LogTypes, Mute
<1>3. round \in Rounds /\ \A n \in Nodes : <<n, round>> \in Processes /\ <<n, 1>> \in Processes
  BY DEF RoundInv, Order, Types, Processes, Rounds
<1>4. FirstLogged'
  BY <1>1, <1>3 DEF LogParts, FirstLogged
<1>5. Accounts'
  <2>1. ASSUME NEW n \in Nodes PROVE Account(<<n, round>>)'
    <3>1. Account(<<n, round>>) /\ (proc'[<<n, round>>] \in Over <=> proc[<<n, round>>] \in Over)
      BY <1>3 DEF LogParts, Accounts
    <3>2. Bit(proc'[<<n, round>>] \in Over) = Bit(proc[<<n, round>>] \in Over)
      BY <3>1 DEF Bit
    <3>. QED
      BY <3>1, <3>2 DEF Account
  <2>. QED
    BY <2>1 DEF Accounts
<1>6. Read'
  BY DEF LogParts, Read
<1>. QED
  BY <1>2, <1>4, <1>5, <1>6 DEF LogParts

\* A process of the first round is on record in the second, so that it has nothing
\* more to say.
LEMMA Current ==
  ASSUME RoundInv, LogParts, NEW p \in Processes, proc[p] # "off", ~OnRecord(p)
  PROVE  p[2] = round /\ p[1] \in Nodes /\ p = <<p[1], round>>
<1>1. p[2] <= round /\ p[1] \in Nodes /\ p[2] \in Rounds /\ p = <<p[1], p[2]>> /\ round \in Rounds
  BY UpNow DEF RoundInv, Order, Types
<1>2. ~(round = 2 /\ p[2] = 1)
  BY <1>1 DEF LogParts, FirstLogged
<1>. QED
  BY <1>1, <1>2 DEF Rounds

\* A process whose log may have been read sends nothing more.
LEMMA ReadIsOver ==
  ASSUME RoundInv, LogParts, NEW r \in Rounds, r < round \/ (step = "done" /\ r = round), NEW n \in Nodes
  PROVE  OnRecord(<<n, r>>)
<1>1. CASE r < round
  <2>1. r = 1 /\ round = 2
    BY <1>1 DEF RoundInv, Order, Types, Rounds
  <2>. QED
    BY <2>1 DEF LogParts, FirstLogged
<1>2. CASE step = "done" /\ r = round
  BY <1>2 DEF LogParts, Heard, Before, Logged
<1>. QED
  BY <1>1, <1>2

\* A step of the process p or of the switch process that serves it.
LEMMA ProcessStep ==
  ASSUME RoundInv, RoundInv', LogParts, LogTypes', NEW p \in Processes,
         UNCHANGED <<host, step, round, count, results, end_signal>>,
         \A q \in Processes : q # p =>
           /\ proc'[q] = proc[q] /\ pipe'[q] = pipe[q] /\ sent'[q] = sent[q]
           /\ q \in opened' <=> q \in opened
           /\ q \in connected' <=> q \in connected,
         \A n \in Nodes : n # p[1] \/ p[2] # round => log'[n] = log[n],
         OnRecord(p) => OnRecord(p)',
         sent'[p] = sent[p] \/ proc[p] \notin Over,
         /\ proc'[p] \in Sleeping => p \notin connected'
         /\ p \notin connected' => pipe'[p] = <<>>
         /\ proc'[p] \in Silent => sent'[p] = 0 /\ pipe'[p] = <<>>,
         \/ backlog' = backlog
         \/ /\ ~OnRecord(p) /\ OnRecord(p)' /\ p[2] = round /\ Len(backlog') = Len(backlog) + 1,
         p[2] = round => Account(p)'
  PROVE  LogParts'
<1>1. \A q \in Processes : q # p => (OnRecord(q)' <=> OnRecord(q))
  BY DEF OnRecord
<1>2. \A q \in Processes : OnRecord(q) => OnRecord(q)'
  BY <1>1
<1>3. round \in Rounds /\ \A n \in Nodes : \A r \in Rounds : <<n, r>> \in Processes
  BY DEF RoundInv, Order, Types, Processes, Rounds
<1>4. p[1] \in Nodes /\ p = <<p[1], p[2]>>
  BY DEF Processes
<1>5. Mute'
  BY DEF LogParts, Mute
<1>6. FirstLogged' /\ Signaled'
  <2>1. 1 \in Rounds /\ end_signal \subseteq Processes
    BY DEF Rounds, RoundInv, Order, Types
  <2>. QED
    BY <1>2, <1>3, <2>1 DEF LogParts, FirstLogged, Signaled
<1>7. Heard'
  <2>1. /\ Logged \subseteq Logged' /\ Logged' \subseteq Nodes
        /\ Cardinality(Logged) \in Nat /\ Cardinality(Logged') \in Nat
        /\ Cardinality(Logged) <= Cardinality(Logged')
    <3>1. \A n \in Nodes : OnRecord(<<n, round>>) => OnRecord(<<n, round>>)'
      BY <1>2, <1>3
    <3>. QED
      BY <3>1, LoggedGrow
  <2>2. Waited' = Waited /\ Waited \in Nat /\ Len(backlog) \in Nat /\ Len(backlog') \in Nat
    <3>1. Types /\ Types'
      BY DEF RoundInv, Order
    <3>2. Len(backlog) \in Nat /\ Len(backlog') \in Nat /\ count \in Nat
      BY <3>1 DEF Types
    <3>. QED
      BY <3>2 DEF Waited
  <2>3. CASE ~Before
    <3>1. Logged = Nodes
      BY <2>3 DEF LogParts, Heard
    <3>2. Logged' = Nodes
      BY <2>1, <3>1
    <3>3. ~Before'
      BY <2>3 DEF Before
    <3>. QED
      BY <3>2, <3>3 DEF Heard
  <2>4. CASE Before /\ backlog' = backlog
    BY <2>1, <2>2, <2>4 DEF LogParts, Heard, Before
  <2>5. CASE Before /\ ~OnRecord(p) /\ OnRecord(p)' /\ p[2] = round /\ Len(backlog') = Len(backlog) + 1
    <3>1. p[1] \notin Logged /\ p[1] \in Logged'
      BY <1>4, <2>5 DEF Logged
    <3>2. IsFiniteSet(Logged) /\ Logged \cup {p[1]} \subseteq Logged' /\ Logged \subseteq Nodes
      <4>1. Logged \subseteq Nodes
        BY DEF Logged
      <4>. QED
        BY <2>1, <3>1, <4>1, NodeSets
    <3>3. Cardinality(Logged \cup {p[1]}) = Cardinality(Logged) + 1
      BY <3>1, <3>2, FS_AddElement
    <3>4. Cardinality(Logged \cup {p[1]}) <= Cardinality(Logged')
      BY <2>1, <3>2, NodeSets
    <3>. QED
      BY <2>1, <2>2, <2>5, <3>3, <3>4 DEF LogParts, Heard, Before
  <2>. QED
    BY <2>3, <2>4, <2>5
<1>8. Accounts'
  <2>1. ASSUME NEW n \in Nodes PROVE Account(<<n, round>>)'
    <3>1. CASE p = <<n, round>>
      <4>1. p[2] = round
        BY <3>1
      <4>. QED
        BY <3>1, <4>1
    <3>2. CASE p # <<n, round>>
      <4>1. log'[n] = log[n]
        BY <1>4, <3>2
      <4>2. Account(<<n, round>>) /\ <<n, round>> \in Processes
        BY <1>3 DEF LogParts, Accounts
      <4>3. /\ proc'[<<n, round>>] = proc[<<n, round>>] /\ pipe'[<<n, round>>] = pipe[<<n, round>>]
            /\ sent'[<<n, round>>] = sent[<<n, round>>] /\ (<<n, round>> \in opened' <=> <<n, round>> \in opened)
            /\ (<<n, round>> \in connected' <=> <<n, round>> \in connected)
        BY <3>2, <4>2
      <4>4. <<n, round>>[1] = n
        OBVIOUS
      <4>. QED
        BY <4>1, <4>2, <4>3, <4>4 DEF Account
    <3>. QED
      BY <3>1, <3>2
  <2>2. round' = round
    OBVIOUS
  <2>. QED
    BY <2>1, <2>2 DEF Accounts
<1>9. Read'
  <2>1. ASSUME NEW r \in Rounds, results[r] # NoResults, NEW n \in Nodes
        PROVE  sent'[<<n, r>>] = sent[<<n, r>>]
    <3>1. r < round \/ (step = "done" /\ r = round)
      BY <2>1 DEF LogParts, Read
    <3>2. proc[<<n, r>>] \in Over /\ <<n, r>> \in Processes
      BY <1>3, <3>1, ReadIsOver DEF OnRecord
    <3>. QED
      BY <3>2
  <2>. QED
    BY <2>1 DEF LogParts, Read
<1>. QED
  BY <1>5, <1>6, <1>7, <1>8, <1>9 DEF LogParts


\* The testbed's own machine has no port that a contact could reach: nothing but
\* the END of a node waits for it to be counted.
LEMMA NotContacted ==
  ASSUME RoundInv, Apart, NEW m \in Servers
  PROVE  m # host
BY HostsAssumption DEF Apart, RoundInv, Order, Types, Servers

LEMMA SameHeard ==
  ASSUME LogParts, UNCHANGED <<round, proc, opened, pipe, backlog>>, Waited' = Waited, Before' <=> Before
  PROVE  Heard'
<1>1. Logged' = Logged
  BY DEF Logged, OnRecord
<1>. QED
  BY <1>1 DEF LogParts, Heard

LEMMA CommandLog ==
  ASSUME RoundInv, RoundInv', LogParts, NEW m \in Servers, Command(m)
  PROVE  LogParts'
<1>1. UNCHANGED <<host, step, round, results, count, proc, end_signal, connected, pipe, sent, opened, log, backlog>>
  <2>1. Contacts("command", m) \/ Contacts("exit", m)
    BY DEF Command
  <2>. QED
    BY <2>1 DEF Contacts, Command, procVars, flowVars
<1>2. Heard'
  BY <1>1, SameHeard DEF Waited, Before
<1>3. Signaled'
  BY <1>1 DEF LogParts, Signaled, OnRecord
<1>. QED
  BY <1>1, <1>2, <1>3, ServerStep

LEMMA SendStartLog ==
  ASSUME RoundInv, RoundInv', LogParts, Apart, NEW m \in Servers, SendStart(m)
  PROVE  LogParts'
<1>1. UNCHANGED <<host, step, round, results, count, end_signal, connected, pipe, sent, opened, log>>
  BY DEF SendStart, Contacts
<1>2. /\ backlog' = backlog
      /\ proc' = proc \/ (Waits(m) /\ proc' = [proc EXCEPT ![<<m, bound[m]>>] = "run"])
  BY NotContacted DEF SendStart
<1>3. Types
  BY DEF RoundInv, Order
<1>4. \A q \in Processes : proc'[q] = proc[q] \/ (proc[q] = "listen" /\ proc'[q] = "run")
  <2>1. CASE proc' = proc
    BY <2>1
  <2>2. CASE Waits(m) /\ proc' = [proc EXCEPT ![<<m, bound[m]>>] = "run"]
    <3>1. proc[<<m, bound[m]>>] = "listen"
      BY <2>2 DEF Waits
    <3>2. \A q \in Processes : proc'[q] = IF q = <<m, bound[m]>> THEN "run" ELSE proc[q]
      BY <1>3, <2>2 DEF Types
    <3>. QED
      BY <3>1, <3>2
  <2>. QED
    BY <1>2, <2>1, <2>2
<1>5. \A q \in Processes :
        /\ proc'[q] \in Over <=> proc[q] \in Over
        /\ proc'[q] \in Sleeping => proc[q] \in Sleeping
        /\ proc'[q] \in Silent => proc[q] \in Silent
        /\ OnRecord(q)' <=> OnRecord(q)
  BY <1>1, <1>4 DEF Over, Sleeping, Silent, OnRecord
<1>6. Heard'
  <2>1. Logged' = Logged
    BY <1>1, <1>3, <1>5 DEF Logged, Processes, Types
  <2>. QED
    BY <1>1, <1>2, <2>1 DEF LogParts, Heard, Before, Waited
<1>7. Signaled'
  BY <1>1, <1>3, <1>5 DEF LogParts, Signaled, Types
<1>. QED
  BY <1>1, <1>5, <1>6, <1>7, ServerStep

\* END goes to nodes that are on record only.
LEMMA SendEndLog ==
  ASSUME RoundInv, RoundInv', LogParts, Apart, NEW m \in Servers, SendEnd(m)
  PROVE  LogParts'
<1>1. /\ step = "end"
      /\ UNCHANGED <<host, step, round, results, count, proc, connected, pipe, sent, opened, log>>
  BY DEF SendEnd, Contacts
<1>2. /\ backlog' = backlog
      /\ end_signal' = end_signal \/ (/\ m \in Nodes /\ bound[m] # 0
                                      /\ end_signal' = end_signal \cup {<<m, bound[m]>>})
  BY NotContacted DEF SendEnd
<1>3. Heard'
  BY <1>1, <1>2, SameHeard DEF Waited, Before
<1>4. ASSUME m \in Nodes, bound[m] # 0 PROVE OnRecord(<<m, bound[m]>>)
  <2>1. bound[m] \in 1..2 /\ bound[m] <= round /\ round \in 1..2
    BY <1>4 DEF RoundInv, Order, Types, BoundNow, Rounds
  <2>2. CASE bound[m] = round
    BY <1>1, <1>4, <2>2 DEF LogParts, Heard, Before, Logged
  <2>3. CASE bound[m] = 1 /\ round = 2
    BY <1>4, <2>3 DEF LogParts, FirstLogged
  <2>. QED
    BY <2>1, <2>2, <2>3
<1>5. Signaled'
  <2>1. \A q \in end_signal' : OnRecord(q)
    BY <1>2, <1>4 DEF LogParts, Signaled
  <2>. QED
    BY <1>1, <2>1 DEF Signaled, OnRecord
<1>. QED
  BY <1>1, <1>3, <1>5, ServerStep

LEMMA TermWaitLog ==
  ASSUME RoundInv, RoundInv', LogParts, TermWait
  PROVE  LogParts'
<1>1. /\ step = "wait" /\ backlog # <<>> /\ backlog' = Tail(backlog) /\ count' = count + 1
      /\ UNCHANGED <<host, step, round, results, proc, end_signal, connected, pipe, sent, opened, log>>
  BY DEF TermWait, procVars
<1>2. Heard'
  <2>1. backlog \in Seq({"contact", "END"}) /\ count \in Nat
    BY DEF RoundInv, Order, Types
  <2>2. Len(backlog) \in Nat \ {0} /\ Len(backlog') = Len(backlog) - 1
    BY <1>1, <2>1
  <2>3. Logged' = Logged
    BY <1>1 DEF Logged, OnRecord
  <2>. QED
    BY <1>1, <2>1, <2>2, <2>3 DEF LogParts, Heard, Before, Waited
<1>3. Signaled'
  BY <1>1 DEF LogParts, Signaled, OnRecord
<1>. QED
  BY <1>1, <1>2, <1>3, ServerStep

\* term_wait has counted as many ENDs as there are nodes, hence that of every node.
LEMMA WaitOverLog ==
  ASSUME RoundInv, RoundInv', LogParts, WaitOver
  PROVE  LogParts'
<1>1. /\ count >= Cardinality(Nodes) /\ step = "wait" /\ step' = "end"
      /\ UNCHANGED <<host, round, results, proc, end_signal, connected, pipe, sent, opened, log>>
  BY DEF WaitOver, AllCounted, GoesOn, procVars, flowVars
<1>2. Logged' = Logged
  BY <1>1 DEF Logged, OnRecord
<1>3. Logged = Nodes
  <2>1. /\ Cardinality(Logged) <= Cardinality(Nodes)
        /\ Cardinality(Logged) = Cardinality(Nodes) => Logged = Nodes
        /\ Cardinality(Logged) \in Nat /\ Cardinality(Nodes) \in Nat
    <3>1. Logged \subseteq Nodes
      BY DEF Logged
    <3>. QED
      BY <3>1, NodeSets
  <2>2. Len(backlog) \in Nat /\ count \in Nat
    BY DEF RoundInv, Order, Types
  <2>3. count + Len(backlog) <= Cardinality(Logged)
    BY <1>1 DEF LogParts, Heard, Before, Waited
  <2>. QED
    BY <1>1, <2>1, <2>2, <2>3
<1>4. Heard'
  BY <1>1, <1>2, <1>3 DEF Heard, Before
<1>5. Signaled'
  BY <1>1 DEF LogParts, Signaled, OnRecord
<1>. QED
  BY <1>1, <1>4, <1>5, ServerStep

LEMMA NextCallLog ==
  ASSUME RoundInv, RoundInv', LogParts, NextCall
  PROVE  LogParts'
<1>1. PICK s \in {"command", "start", "end", "exit"}, s2 \in {"start", "wait", "results", "exit"} :
        /\ GoesOn(s, s2)
        /\ s \in {"command", "start"} <=> s2 \in {"start", "wait"}
  BY DEF NextCall
<1>2. /\ step = s /\ step' = s2
      /\ UNCHANGED <<host, round, results, proc, end_signal, connected, pipe, sent, opened, log, backlog>>
      /\ s2 = "wait" => count' = 0
  BY <1>1 DEF GoesOn, procVars, flowVars
<1>3. Waited' = Waited /\ (Before' <=> Before)
  BY <1>1, <1>2 DEF Waited, Before
<1>4. Heard'
  BY <1>2, <1>3, SameHeard
<1>5. Signaled'
  BY <1>2 DEF LogParts, Signaled, OnRecord
<1>. QED
  BY <1>2, <1>4, <1>5, ServerStep

LEMMA ListeningServerLog ==
  ASSUME RoundInv, RoundInv', LogParts, NEW m \in Servers, ListeningServer(m)
  PROVE  LogParts'
<1>1. UNCHANGED <<host, step, round, results, count, end_signal, connected, pipe, sent, opened, log, backlog>>
  BY DEF ListeningServer, testbedVars, flowVars
<1>2. Types
  BY DEF RoundInv, Order
<1>3. \A q \in Processes : proc'[q] = proc[q] \/ (proc[q] = "off" /\ proc'[q] = "boot")
  <2>. DEFINE c == Head(commands[m])
  <2>1. CASE c # 0 /\ m \in Nodes
    <3>1. proc' = [proc EXCEPT ![<<m, c>>] = "boot"]
      BY <2>1 DEF ListeningServer
    <3>2. commands[m] \in Seq(0..2) /\ commands[m] # <<>>
      BY <1>2 DEF ListeningServer, Types
    <3>3. 1 \in 1..Len(commands[m]) /\ c = commands[m][1]
      BY <3>2
    <3>4. proc[<<m, c>>] = "off"
      BY <2>1, <3>3 DEF RoundInv, Order, Commanded
    <3>5. \A q \in Processes : proc'[q] = IF q = <<m, c>> THEN "boot" ELSE proc[q]
      BY <1>2, <3>1 DEF Types
    <3>. QED
      BY <3>4, <3>5
  <2>2. CASE ~(c # 0 /\ m \in Nodes)
    BY <2>2 DEF ListeningServer
  <2>. QED
    BY <2>1, <2>2
<1>4. \A q \in Processes :
        /\ proc'[q] \in Over <=> proc[q] \in Over
        /\ proc'[q] \in Sleeping => proc[q] \in Sleeping
        /\ proc'[q] \in Silent => proc[q] \in Silent
        /\ OnRecord(q)' <=> OnRecord(q)
  BY <1>1, <1>3 DEF Over, Sleeping, Silent, OnRecord
<1>5. Heard'
  <2>1. Logged' = Logged
    BY <1>1, <1>2, <1>4 DEF Logged, Processes, Types
  <2>. QED
    BY <1>1, <2>1 DEF LogParts, Heard, Before, Waited
<1>6. Signaled'
  BY <1>1, <1>2, <1>4 DEF LogParts, Signaled, Types
<1>. QED
  BY <1>1, <1>4, <1>5, <1>6, ServerStep

\* The results of a round are read when every log has its END, and the next round
\* begins with empty ones.
LEMMA CollectLog ==
  ASSUME RoundInv, RoundInv', LogParts, Apart, Collect
  PROVE  LogParts'
<1>1. /\ step = "results" /\ results' = [results EXCEPT ![round] = log] /\ log' = NoResults
      /\ UNCHANGED <<host, count, proc, end_signal, connected, backlog, pipe, sent, opened>>
      /\ \/ round = 1 /\ step' = "command" /\ round' = 2
         \/ round = 2 /\ step' = "done" /\ round' = 2
  BY DEF Collect, procVars
<1>2. Types /\ LogTypes
  BY DEF RoundInv, Order, LogParts
<1>3. Logged = Nodes
  BY <1>1 DEF LogParts, Heard, Before
<1>4. \A q \in Processes : OnRecord(q)' <=> OnRecord(q)
  BY <1>1 DEF OnRecord
<1>5. \A n \in Nodes : \A r \in Rounds : <<n, r>> \in Processes
  BY DEF Processes
<1>6. 1 \in Rounds /\ 2 \in Rounds /\ round \in Rounds
  BY <1>2 DEF Types, Rounds
<1>7. LogTypes'
  <2>1. NoResults \in [Nodes -> Log]
    BY DEF NoLog, NoResults, Log
  <2>2. results' \in [Rounds -> [Nodes -> Log]]
    BY <1>1, <1>2, <1>6 DEF LogTypes
  <2>. QED
    BY <1>1, <1>2, <2>1, <2>2 DEF LogTypes
<1>8. Mute' /\ Signaled'
  BY <1>1 DEF LogParts, Mute, Signaled, OnRecord
<1>9. FirstLogged'
  <2>1. \A n \in Nodes : OnRecord(<<n, 1>>)
    BY <1>1, <1>3 DEF Logged, LogParts, FirstLogged
  <2>. QED
    BY <1>4, <1>5, <1>6, <2>1 DEF FirstLogged
<1>10. Heard'
  <2>1. CASE step' = "done"
    <3>1. round' = round
      BY <1>1, <2>1
    <3>2. \A n \in Nodes : OnRecord(<<n, round>>)'
      BY <1>3, <1>4, <1>5, <1>6, <3>1 DEF Logged
    <3>. QED
      BY <2>1, <3>2 DEF Heard, Before, Logged
  <2>2. CASE step' = "command"
    <3>1. backlog = <<>>
      BY <1>1 DEF RoundInv, AllOver, Before, Apart
    <3>2. Logged' \subseteq Nodes
      BY DEF Logged
    <3>3. Cardinality(Logged') \in Nat
      BY <3>2, NodeSets
    <3>. QED
      BY <1>1, <2>2, <3>1, <3>3 DEF Heard, Before, Waited
  <2>. QED
    BY <1>1, <2>1, <2>2
<1>11. Accounts'
  <2>1. CASE step' = "done"
    <3>1. round' = round
      BY <1>1, <2>1
    <3>2. \A n \in Nodes : OnRecord(<<n, round>>)'
      BY <1>3, <1>4, <1>5, <1>6, <3>1 DEF Logged
    <3>. QED
      BY <2>1, <3>2 DEF Accounts, Account, OnRecord
  <2>2. CASE round = 1 /\ round' = 2
    <3>1. ASSUME NEW n \in Nodes PROVE <<n, 2>> \notin connected
      <4>1. proc[<<n, 2>>] = "off" /\ <<n, 2>> \in Processes
        BY <1>5, <1>6, <2>2 DEF RoundInv, Order, Later
      <4>. QED
        BY <4>1 DEF LogParts, Mute, Sleeping
    <3>. QED
      BY <1>1, <2>2, <3>1 DEF Accounts, Account
  <2>. QED
    BY <1>1, <2>1, <2>2
<1>12. Read'
  <2>1. ASSUME NEW n \in Nodes
        PROVE  log[n] = [round |-> round, lines |-> sent[<<n, round>>] + 1]
    <3>. DEFINE p == <<n, round>>
    <3>1. OnRecord(p) /\ Account(p) /\ p \in Processes /\ p[1] = n
      BY <1>3, <1>5, <1>6 DEF Logged, LogParts, Accounts
    <3>2. p \in connected /\ p \in opened /\ Len(pipe[p]) = 0 /\ Bit(proc[p] \in Over) = 1
      BY <1>2, <3>1 DEF OnRecord, LogTypes, Bit
    <3>3. log[n].round = round /\ log[n].lines + 0 = sent[p] + 1
      BY <1>1, <3>1, <3>2 DEF Account
    <3>4. log[n] \in Log /\ sent[p] \in Nat
      BY <1>2, <3>1 DEF LogTypes
    <3>. QED
      BY <3>3, <3>4 DEF Log
  <2>2. results'[round] = log /\ \A r \in Rounds : r # round => results'[r] = results[r]
    BY <1>2, <1>6, <1>1 DEF LogTypes
  <2>3. ASSUME NEW r \in Rounds, results'[r] # NoResults
        PROVE  /\ r < round' \/ (r = round' /\ step' = "done")
               /\ \A n \in Nodes : results'[r][n] = [round |-> r, lines |-> sent[<<n, r>>] + 1]
    <3>1. CASE r = round
      BY <1>1, <2>1, <2>2, <3>1
    <3>2. CASE r # round
      <4>1. /\ r < round \/ (r = round /\ step = "done")
            /\ \A n \in Nodes : results[r][n] = [round |-> r, lines |-> sent[<<n, r>>] + 1]
        BY <2>2, <2>3, <3>2 DEF LogParts, Read
      <4>2. r < round'
        BY <1>1, <1>6, <3>2, <4>1 DEF Rounds
      <4>. QED
        BY <2>2, <3>2, <4>1, <4>2
    <3>. QED
      BY <3>1, <3>2
  <2>. QED
    BY <1>1, <2>3 DEF Read
<1>. QED
  BY <1>7, <1>8, <1>9, <1>10, <1>11, <1>12 DEF LogParts


\* A process that the switch serves is up; one that is up and not on record is of this
\* round.
LEMMA BootLog ==
  ASSUME RoundInv, RoundInv', LogParts, NEW p \in Processes, Boot(p)
  PROVE  LogParts'
<1>1. Types /\ LogTypes
  BY DEF RoundInv, Order, LogParts
<1>2. /\ proc[p] = "boot"
      /\ UNCHANGED <<host, step, round, count, results, end_signal, pipe, sent, opened, log, backlog>>
      /\ connected' = connected \/ connected' = connected \cup {p}
  BY DEF Boot, testbedVars, flowVars
<1>3. PICK state \in {"listen", "deaf"} : proc' = [proc EXCEPT ![p] = state]
  BY DEF Boot
<1>4. \A q \in Processes : proc'[q] = IF q = p THEN state ELSE proc[q]
  BY <1>1, <1>3 DEF Types
<1>5. /\ p \notin connected /\ p \notin opened /\ ~OnRecord(p)
      /\ sent[p] = 0 /\ pipe[p] = <<>>
  BY <1>1, <1>2 DEF LogParts, Mute, LogTypes, OnRecord, Over, Sleeping, Silent
<1>6. LogTypes'
  BY <1>1, <1>2 DEF LogTypes
<1>7. Account(p)'
  <2>1. Len(pipe[p]) = 0 /\ Bit(proc'[p] \in Over) = 0
    BY <1>3, <1>4, <1>5 DEF Bit, Over
  <2>. QED
    BY <1>2, <1>5, <2>1 DEF Account
<1>. QED
  BY <1>2, <1>4, <1>5, <1>6, <1>7, ProcessStep DEF Sleeping

LEMMA SendMessageLog ==
  ASSUME RoundInv, RoundInv', LogParts, NEW p \in Processes, SendMessage(p)
  PROVE  LogParts'
<1>1. Types /\ LogTypes
  BY DEF RoundInv, Order, LogParts
<1>2. /\ proc[p] = "run" /\ sent' = [sent EXCEPT ![p] = @ + 1]
      /\ pipe' = [pipe EXCEPT ![p] = IF p \in connected THEN Append(@, "message") ELSE @]
      /\ UNCHANGED <<host, step, round, count, results, proc, end_signal, connected, opened, log, backlog>>
  BY DEF SendMessage, Sends, testbedVars, procVars
<1>3. /\ \A q \in Processes : q # p => pipe'[q] = pipe[q] /\ sent'[q] = sent[q]
      /\ pipe'[p] = IF p \in connected THEN Append(pipe[p], "message") ELSE pipe[p]
      /\ sent'[p] = sent[p] + 1 /\ sent[p] \in Nat
      /\ pipe[p] \in Seq({"message", "END"})
  BY <1>1, <1>2 DEF Types, LogTypes
<1>4. proc[p] \notin Over /\ proc[p] \notin Silent /\ proc[p] \notin Sleeping /\ ~OnRecord(p)
  BY <1>2 DEF Over, Silent, Sleeping, OnRecord
<1>5. LogTypes'
  <2>1. sent' \in [Processes -> Nat]
    BY <1>1, <1>2, <1>3 DEF LogTypes
  <2>. QED
    BY <1>1, <1>2, <2>1 DEF LogTypes
<1>6. ASSUME p[2] = round PROVE Account(p)'
  <2>1. Account(p) /\ Bit(proc[p] \in Over) = 0
    BY <1>2, <1>4, <1>6, Current DEF LogParts, Accounts, Bit
  <2>2. p \in connected => Len(pipe'[p]) = Len(pipe[p]) + 1 /\ Len(pipe[p]) \in Nat
    BY <1>3
  <2>3. ASSUME p \in connected, p \in opened, step # "done"
        PROVE  log[p[1]].round = round /\ log[p[1]].lines + Len(pipe'[p]) = sent'[p] + 0
    <3>1. log[p[1]].round = round /\ log[p[1]].lines + Len(pipe[p]) = sent[p] + 0
      BY <2>1, <2>3 DEF Account
    <3>2. log[p[1]].lines \in Nat
      BY <1>1 DEF LogTypes, Log, Processes
    <3>3. /\ Len(pipe'[p]) = Len(pipe[p]) + 1 /\ Len(pipe[p]) \in Nat
          /\ sent'[p] = sent[p] + 1 /\ sent[p] \in Nat
      BY <1>3, <2>2, <2>3
    <3>. QED
      BY ONLY <3>1, <3>2, <3>3
  <2>4. ASSUME p \in connected, p \notin opened PROVE Len(pipe'[p]) = sent'[p] + 0
    BY <1>3, <2>1, <2>2, <2>4 DEF Account
  <2>. QED
    BY <1>2, <2>1, <2>3, <2>4 DEF Account
<1>7. p \notin connected => pipe[p] = <<>>
  BY DEF LogParts, Mute
<1>. QED
  BY <1>2, <1>3, <1>4, <1>5, <1>6, <1>7, ProcessStep

LEMMA FinishLog ==
  ASSUME RoundInv, RoundInv', LogParts, NEW p \in Processes, Finish(p)
  PROVE  LogParts'
<1>1. Types /\ LogTypes
  BY DEF RoundInv, Order, LogParts
<1>2. /\ proc[p] = "run" /\ proc' = [proc EXCEPT ![p] = "ended"]
      /\ pipe' = [pipe EXCEPT ![p] = IF p \in connected THEN Append(@, "END") ELSE @]
      /\ UNCHANGED <<host, step, round, count, results, end_signal, connected, sent, opened, log, backlog>>
  BY DEF Finish, Sends, testbedVars
<1>3. /\ \A q \in Processes : q # p => pipe'[q] = pipe[q] /\ proc'[q] = proc[q]
      /\ pipe'[p] = IF p \in connected THEN Append(pipe[p], "END") ELSE pipe[p]
      /\ proc'[p] = "ended" /\ sent[p] \in Nat /\ pipe[p] \in Seq({"message", "END"})
  BY <1>1, <1>2 DEF Types, LogTypes
<1>4. /\ proc[p] \notin Over /\ ~OnRecord(p) /\ proc'[p] \notin Sleeping /\ proc'[p] \notin Silent
      /\ proc'[p] \in Over
  BY <1>2, <1>3 DEF Over, Silent, Sleeping, OnRecord
<1>5. LogTypes'
  BY <1>1, <1>2 DEF LogTypes
<1>6. ASSUME p[2] = round PROVE Account(p)'
  <2>1. Account(p) /\ Bit(proc[p] \in Over) = 0 /\ Bit(proc'[p] \in Over) = 1
    BY <1>2, <1>4, <1>6, Current DEF LogParts, Accounts, Bit
  <2>2. p \in connected => Len(pipe'[p]) = Len(pipe[p]) + 1 /\ Len(pipe[p]) \in Nat
    BY <1>3
  <2>3. ASSUME p \in connected, p \in opened, step # "done"
        PROVE  log[p[1]].round = round /\ log[p[1]].lines + Len(pipe'[p]) = sent[p] + 1
    <3>1. log[p[1]].round = round /\ log[p[1]].lines + Len(pipe[p]) = sent[p] + 0
      BY <2>1, <2>3 DEF Account
    <3>2. log[p[1]].lines \in Nat
      BY <1>1 DEF LogTypes, Log, Processes
    <3>3. Len(pipe'[p]) = Len(pipe[p]) + 1 /\ Len(pipe[p]) \in Nat /\ sent[p] \in Nat
      BY <1>3, <2>2, <2>3
    <3>. QED
      BY ONLY <3>1, <3>2, <3>3
  <2>4. ASSUME p \in connected, p \notin opened PROVE Len(pipe'[p]) = sent[p] + 1
    BY <1>3, <2>1, <2>2, <2>4 DEF Account
  <2>. QED
    BY <1>2, <2>1, <2>3, <2>4 DEF Account
<1>7. p \notin connected => pipe[p] = <<>>
  BY DEF LogParts, Mute
<1>. QED
  BY <1>2, <1>3, <1>4, <1>5, <1>6, <1>7, ProcessStep

\* A process that END has reached has nothing left in its pipe that it could lose.
LEMMA ExitLog ==
  ASSUME RoundInv, RoundInv', LogParts, NEW p \in Processes, Exit(p)
  PROVE  LogParts'
<1>1. Types /\ LogTypes
  BY DEF RoundInv, Order, LogParts
<1>2. /\ proc[p] = "ended" /\ p \in end_signal /\ proc' = [proc EXCEPT ![p] = "done"]
      /\ UNCHANGED <<host, step, round, count, results, end_signal, connected, sent, opened, log, backlog>>
  BY DEF Exit, testbedVars
<1>3. OnRecord(p)
  BY <1>2 DEF LogParts, Signaled
<1>4. pipe' = pipe
  <2>1. PICK k \in 0..Len(pipe[p]) : pipe' = [pipe EXCEPT ![p] = SubSeq(@, 1, k)]
    BY DEF Exit
  <2>2. pipe[p] = <<>> /\ k = 0
    BY <1>3, <2>1 DEF OnRecord
  <2>3. SubSeq(pipe[p], 1, k) = <<>>
    BY <2>2
  <2>. QED
    BY <1>1, <2>1, <2>2, <2>3 DEF Types
<1>5. \A q \in Processes : proc'[q] = IF q = p THEN "done" ELSE proc[q]
  BY <1>1, <1>2 DEF Types
<1>6. /\ proc[p] \in Over /\ proc'[p] \in Over /\ proc'[p] \notin Sleeping /\ proc'[p] \notin Silent
  BY <1>2, <1>5 DEF Over, Silent, Sleeping
<1>7. LogTypes'
  BY <1>1, <1>2 DEF LogTypes
<1>8. OnRecord(p)'
  BY <1>2, <1>3, <1>4, <1>6 DEF OnRecord
<1>9. ASSUME p[2] = round PROVE Account(p)'
  <2>1. p[1] \in Nodes /\ p = <<p[1], round>>
    BY <1>9 DEF Processes
  <2>2. Account(p) /\ Bit(proc'[p] \in Over) = Bit(proc[p] \in Over)
    BY <1>6, <2>1 DEF LogParts, Accounts, Bit
  <2>. QED
    BY <1>2, <1>4, <2>2 DEF Account
<1>10. p \notin connected => pipe[p] = <<>>
  BY DEF LogParts, Mute
<1>. QED
  BY <1>2, <1>4, <1>5, <1>6, <1>7, <1>8, <1>9, <1>10, ProcessStep

LEMMA SwitchOpensLog ==
  ASSUME RoundInv, RoundInv', LogParts, NEW p \in Processes, SwitchOpens(p)
  PROVE  LogParts'
<1>1. Types /\ LogTypes
  BY DEF RoundInv, Order, LogParts
<1>2. /\ p \in connected /\ p \notin opened /\ opened' = opened \cup {p}
      /\ log' = [log EXCEPT ![p[1]] = [round |-> p[2], lines |-> 0]]
      /\ UNCHANGED <<host, step, round, count, results, proc, end_signal, connected, pipe, sent, backlog>>
  BY DEF SwitchOpens, Emptied, testbedVars, procVars
<1>3. ~OnRecord(p) /\ proc[p] \notin Sleeping
  BY <1>2 DEF OnRecord, LogParts, Mute
<1>4. p[2] = round /\ p[1] \in Nodes /\ p = <<p[1], round>> /\ round \in Nat
  BY <1>1, <1>3, Current DEF Sleeping, Types, Rounds
<1>5. /\ \A n \in Nodes : n # p[1] => log'[n] = log[n]
      /\ log'[p[1]] = [round |-> round, lines |-> 0]
  BY <1>1, <1>2, <1>4 DEF LogTypes
<1>6. LogTypes'
  <2>1. log' \in [Nodes -> Log]
    BY <1>1, <1>2, <1>4 DEF LogTypes, Log
  <2>. QED
    BY <1>1, <1>2, <2>1 DEF LogTypes
<1>7. Account(p)'
  <2>1. Account(p)
    BY <1>4 DEF LogParts, Accounts
  <2>2. Len(pipe[p]) = sent[p] + Bit(proc[p] \in Over) /\ Len(pipe[p]) \in Nat
    BY <1>1, <1>2, <2>1 DEF Account, Types
  <2>3. p \in opened' /\ log'[p[1]].round = round /\ log'[p[1]].lines = 0
    BY <1>2, <1>5
  <2>. QED
    BY <1>2, <2>2, <2>3 DEF Account
<1>8. /\ p \notin connected => pipe[p] = <<>>
      /\ proc[p] \in Silent => sent[p] = 0 /\ pipe[p] = <<>>
  BY DEF LogParts, Mute
<1>. QED
  BY <1>2, <1>3, <1>5, <1>6, <1>7, <1>8, ProcessStep

\* Handling END puts its node on record: it is the last message of its pipe.
LEMMA SwitchHandlesLog ==
  ASSUME RoundInv, RoundInv', LogParts, Apart, NEW p \in Processes, SwitchHandles(p)
  PROVE  LogParts'
<1>. DEFINE q == pipe[p]
<1>1. Types /\ LogTypes
  BY DEF RoundInv, Order, LogParts
<1>2. /\ p \in opened /\ q # <<>> /\ pipe' = [pipe EXCEPT ![p] = Tail(@)]
      /\ log' = IF log[p[1]].round = p[2] THEN [log EXCEPT ![p[1]].lines = @ + 1] ELSE log
      /\ backlog' = IF Head(q) = "END" THEN Append(backlog, "END") ELSE backlog
      /\ UNCHANGED <<host, step, round, count, results, proc, end_signal, connected, sent, opened>>
  BY DEF SwitchHandles, Forwarded, Apart, testbedVars, procVars
<1>3. /\ \A u \in Processes : u # p => pipe'[u] = pipe[u]
      /\ pipe'[p] = Tail(q) /\ q \in Seq({"message", "END"})
      /\ Len(q) \in Nat \ {0} /\ Len(pipe'[p]) = Len(q) - 1 /\ Head(q) = q[1] /\ 1 \in 1..Len(q)
  <2>1. q \in Seq({"message", "END"}) /\ pipe'[p] = Tail(q) /\ \A u \in Processes : u # p => pipe'[u] = pipe[u]
    BY <1>1, <1>2 DEF Types
  <2>2. Len(q) \in Nat /\ Len(q) # 0 /\ Head(q) = q[1] /\ Len(Tail(q)) = Len(q) - 1
    BY <1>2, <2>1
  <2>. QED
    BY <2>1, <2>2
<1>4. ~OnRecord(p) /\ proc[p] \notin Sleeping /\ p \in connected /\ proc[p] \notin Silent
  BY <1>1, <1>2 DEF OnRecord, LogParts, Mute, LogTypes
<1>5. p[2] = round /\ p[1] \in Nodes /\ p = <<p[1], round>>
  BY <1>4, Current DEF Sleeping
<1>6. LogTypes'
  <2>1. log' \in [Nodes -> Log]
    <3>1. log[p[1]] \in Log /\ [log[p[1]] EXCEPT !.lines = @ + 1] \in Log
      BY <1>1, <1>5 DEF LogTypes, Log
    <3>2. log' = log \/ log' = [log EXCEPT ![p[1]] = [log[p[1]] EXCEPT !.lines = @ + 1]]
      BY <1>2
    <3>. QED
      BY <1>1, <1>5, <3>1, <3>2 DEF LogTypes
  <2>. QED
    BY <1>1, <1>2, <2>1 DEF LogTypes
<1>7. \A n \in Nodes : n # p[1] => log'[n] = log[n]
  BY <1>1, <1>2 DEF LogTypes
<1>8. Account(p)'
  <2>1. ASSUME step # "done"
        PROVE  log'[p[1]].round = round /\ log'[p[1]].lines + Len(pipe'[p]) = sent[p] + Bit(proc[p] \in Over)
    <3>1. Account(p)
      BY <1>5 DEF LogParts, Accounts
    <3>2. log[p[1]].round = round /\ log[p[1]].lines + Len(q) = sent[p] + Bit(proc[p] \in Over)
      BY <1>2, <1>4, <2>1, <3>1 DEF Account
    <3>3. log[p[1]] \in Log /\ log'[p[1]] = [log[p[1]] EXCEPT !.lines = @ + 1]
      BY <1>1, <1>2, <1>5, <3>2 DEF LogTypes
    <3>4. log'[p[1]].round = round /\ log'[p[1]].lines = log[p[1]].lines + 1 /\ log[p[1]].lines \in Nat
      BY <3>2, <3>3 DEF Log
    <3>5. log'[p[1]].lines + Len(pipe'[p]) = log[p[1]].lines + Len(q)
      BY <1>3, <3>4
    <3>. QED
      BY <3>2, <3>4, <3>5
  <2>. QED
    BY <1>2, <2>1 DEF Account
<1>9. ASSUME Head(q) = "END"
      PROVE  OnRecord(p)' /\ Len(backlog') = Len(backlog) + 1
  <2>1. Len(q) = 1 /\ proc[p] \in Over
    <3>1. pipe[p][1] = "END" /\ 1 \in 1..Len(pipe[p])
      BY <1>3, <1>9
    <3>2. EndLast
      BY DEF RoundInv, Order
    <3>. QED
      BY <3>1, <3>2 DEF EndLast
  <2>2. pipe'[p] = <<>>
    <3>1. pipe'[p] \in Seq({"message", "END"}) /\ Len(pipe'[p]) = 0
      BY <1>2, <1>3, <2>1
    <3>. QED
      BY <3>1, EmptySeq
  <2>3. backlog \in Seq({"contact", "END"}) /\ "END" \in {"contact", "END"} /\ backlog' = Append(backlog, "END")
    BY <1>1, <1>2, <1>9 DEF Types
  <2>4. Len(backlog') = Len(backlog) + 1
    BY <2>3, AppendProperties
  <2>. QED
    BY <1>2, <2>1, <2>2, <2>4 DEF OnRecord
<1>10. backlog' = backlog \/ (OnRecord(p)' /\ Len(backlog') = Len(backlog) + 1)
  BY <1>2, <1>9
<1>. QED
  BY <1>2, <1>3, <1>4, <1>5, <1>6, <1>7, <1>8, <1>10, ProcessStep

LEMMA StutterLog ==
  ASSUME LogParts, UNCHANGED vars
  PROVE  LogParts'
<1>1. /\ UNCHANGED <<host, step, round, count, results, proc, end_signal, connected>>
      /\ UNCHANGED <<pipe, sent, opened, log, backlog>>
  BY DEF vars, testbedVars, procVars, flowVars
<1>2. LogTypes' /\ Mute' /\ Read'
  BY <1>1 DEF LogParts, LogTypes, Mute, Read
<1>3. Heard' /\ FirstLogged' /\ Signaled'
  BY <1>1 DEF LogParts, Heard, Before, Waited, Logged, FirstLogged, Signaled, OnRecord
<1>4. Accounts'
  BY <1>1 DEF LogParts, Accounts, Account
<1>. QED
  BY <1>2, <1>3, <1>4 DEF LogParts

LEMMA StepLog == RoundInv /\ RoundInv' /\ LogInv /\ [Next]_vars => LogInv'
<1>1. [Next]_vars => host' = host
  BY DEF Next, Testbed, Command, SendStart, SendEnd, Contacts, TermWait, NextCall, WaitOver, GoesOn, Collect,
         ListeningServer, Process, Boot, SendMessage, Finish, Exit, SwitchOpens, SwitchHandles, vars
<1>. SUFFICES ASSUME RoundInv, RoundInv', LogParts, Apart, [Next]_vars PROVE LogParts'
  BY <1>1 DEF LogInv, Apart
<1>2. CASE Testbed
  BY <1>2, CommandLog, SendStartLog, SendEndLog, TermWaitLog, NextCallLog, WaitOverLog, CollectLog
     DEF Testbed, Servers
<1>3. CASE \E m \in Nodes \cup {Switch} : ListeningServer(m)
  BY <1>3, ListeningServerLog DEF Servers
<1>4. CASE \E p \in Processes : Process(p) \/ SendMessage(p)
  BY <1>4, BootLog, SendMessageLog, FinishLog, ExitLog, SwitchOpensLog, SwitchHandlesLog DEF Process
<1>. QED
  BY <1>2, <1>3, <1>4, StutterLog DEF Next

-----------------------------------------------------------------------------
\* END never reaches a node whose run loop is not over, for any number of nodes,
\* whatever starts late and whoever misses START, as long as only nodes connect to
\* the testbed: connections are as good as nodes for term_wait.
THEOREM NoneStoppedEarly == Spec => []StoppedAfterWork
<1>1. RoundInv => StoppedAfterWork
  BY DEF RoundInv
<1>. QED
  BY <1>1, InitInv, StepInv, PTL DEF Spec

\* The nodes of the two rounds never run at the same time, although nothing but the
\* count of connections keeps them apart, as long as only nodes connect to the testbed.
THEOREM OneAtATime == Spec => []OneAlgorithm
<1>1. RoundInv => OneAlgorithm
  <2>1. ASSUME RoundInv, Apart, NEW p \in Processes, NEW q \in Processes, proc[p] = "run", proc[q] = "run"
        PROVE  p[2] = q[2]
    <3>1. p[2] = round /\ q[2] = round
      BY <2>1, RunsNow DEF RoundInv
    <3>. QED
      BY <3>1
  <2>. QED
    BY <2>1 DEF OneAlgorithm
<1>. QED
  BY <1>1, InitInv, StepInv, PTL DEF Spec

\* When the results of a round are collected, every log holds exactly what its node
\* has sent in that round and its END, for any number of nodes, whatever starts late,
\* as long as only nodes connect to the testbed.
THEOREM LogsRead == Spec => []LogsComplete
<1>1. LogInv => LogsComplete
  BY DEF LogInv, LogParts, Read, LogsComplete
<1>. QED
  BY <1>1, InitInv, InitLog, StepInv, StepLog, PTL DEF Spec

=============================================================================
