------------------------------- MODULE TestRun -------------------------------
(***************************************************************************)
(* A whole test: main of src/testbed.cpp, the listening server of every    *)
(* machine, the node processes it starts, and the switch process that      *)
(* connects them.  The test has two rounds, one per algorithm; the node    *)
(* processes of a round are new, the switch process of the first round     *)
(* stays.  Messages between nodes are only counted here: what matters is   *)
(* when processes start and end, who answers at a port, and what the logs  *)
(* hold when the results are collected.                                    *)
(***************************************************************************)
EXTENDS Integers, Sequences, FiniteSets, FiniteSetsExt

CONSTANTS
  Nodes,      \* the compute nodes of the test
  Switch,     \* the machine of their switch
  Hosts,      \* machines the testbed may run on; not that of the switch, which needs its port
  Patience,   \* subset of BOOLEAN: do the sleeps last as long as they are meant to?
  Work,       \* how many messages a node sends at most in a round: a bound for TLC
  OldLines    \* how long a log of an earlier test may be, 0 if there is none

ASSUME NodesAssumption == Nodes \subseteq Nat /\ IsFiniteSet(Nodes)
ASSUME SwitchAssumption == Switch \in Nat \ Nodes
ASSUME HostsAssumption == Switch \notin Hosts
ASSUME PatienceAssumption == Patience \subseteq BOOLEAN
ASSUME WorkAssumption == Work \in Nat
ASSUME OldLinesAssumption == OldLines \subseteq Nat

VARIABLES
  host, patient,   \* the environment of this test: the machine of the testbed, number 44,
                   \* which is that of a node in a test with 36 of them; the sleeps
  step, round,     \* what main of the testbed is doing, in which round
  todo,            \* contact_servers: the machines it has not contacted yet
  count,           \* term_wait: the connections it has counted
  backlog,         \* connections to the testbed that it has not accepted yet
  results,         \* results[r]: the logs as get_results found them
  commands,        \* commands[m]: connections that m's listening server has not accepted
  acceptor,        \* acceptor[m]: what the accepting process of that server does
  switch,          \* the round whose ./switch accepts connections, or 0
  opened,          \* the node processes for which a switch process has opened a log
  proc,            \* proc[<<n, r>>]: the node process of machine n in round r
  bound,           \* bound[n]: the round of the process that has n's port, or 0
  connected,       \* the node processes that have reached a switch
  pipe,            \* pipe[n, r]: what the process has sent and no switch has handled
  sent,            \* sent[<<n, r>>]: how many messages it has sent
  end_signal,      \* the node processes that have got END
  log              \* log[n]: the file with n's number

testbedVars == <<step, round, todo, count, results>>
serverVars == <<commands, acceptor, switch>>
procVars == <<proc, bound, connected, end_signal>>
flowVars == <<pipe, sent, opened, log, backlog>>
vars == <<host, patient, testbedVars, serverVars, procVars, flowVars>>

Rounds == 1..2
Processes == Nodes \X Rounds

\* Machines contact_servers goes through.  Faulty form: the last switch is forgotten.
NodesOnly == Nodes
Machines == Nodes \cup {Switch}

\* A log: the round of the process that has written it, and its number of messages.
NoLog == [round |-> 0, lines |-> 0]
NoResults == [n \in Nodes |-> NoLog]

\* The sleeps of a testbed on a compute machine are not looked at twice: the patient
\* test is one of the others, and nothing more is said of it.
Init ==
  /\ host \in Hosts /\ patient \in Patience /\ (host \in Nodes => ~patient)
  /\ step = "command" /\ round = 1 /\ todo = Machines /\ count = 0
  /\ backlog = <<>> /\ results = [r \in Rounds |-> NoResults]
  /\ commands = [m \in Nodes \cup {Switch} |-> <<>>]
  /\ acceptor = [m \in Nodes \cup {Switch} |-> "accepting"]
  /\ switch = 0 /\ opened = {}
  /\ proc = [p \in Processes |-> "off"]
  /\ bound = [n \in Nodes |-> 0]
  /\ connected = {} /\ end_signal = {}
  /\ pipe = [p \in Processes |-> <<>>] /\ sent = [p \in Processes |-> 0]
  /\ log \in {[n \in Nodes |-> [round |-> 0, lines |-> k]] : k \in OldLines}

-----------------------------------------------------------------------------
(* The testbed.                                                            *)

\* contact_servers goes through the machines in ascending order.
Contacts(s, m) ==
  /\ step = s /\ todo # {} /\ m = Min(todo)
  /\ todo' = todo \ {m}
  /\ UNCHANGED <<host, patient, step, round, count, results>>

\* "0", "1" or EXIT to a listening server.
Command(m) ==
  /\ \/ Contacts("command", m) /\ commands' = [commands EXCEPT ![m] = Append(@, round)]
     \/ Contacts("exit", m) /\ commands' = [commands EXCEPT ![m] = Append(@, 0)]
  /\ UNCHANGED <<acceptor, switch, procVars, flowVars>>

\* sleep(20), and sleep(5) in the nodes: meanwhile all node processes get ready.
Ready == \A n \in Nodes : proc[<<n, round>>] \notin {"off", "boot"}

\* Does a node that waits for START answer at m's port?
Waits(m) == IF m \in Nodes /\ bound[m] # 0 THEN proc[<<m, bound[m]>>] = "listen" ELSE FALSE

\* START to whoever answers at m's port: a node that waits starts to run.  On its own
\* machine the testbed itself answers.  A switch process takes START for the number
\* of a node, 0, and ends; another one accepts in its place.
SendStart(m) ==
  /\ Contacts("start", m)
  /\ patient => Ready
  /\ \/ /\ m = host
        /\ backlog' = Append(backlog, "contact")
        /\ UNCHANGED proc
     \/ /\ m # host /\ Waits(m)
        /\ proc' = [proc EXCEPT ![<<m, bound[m]>>] = "run"]
        /\ UNCHANGED backlog
     \/ /\ m # host /\ ~Waits(m)
        /\ UNCHANGED <<proc, backlog>>
  /\ UNCHANGED <<serverVars, bound, connected, end_signal, pipe, sent, opened, log>>

SendEnd(m) ==
  /\ Contacts("end", m)
  /\ backlog' = IF m = host THEN Append(backlog, "contact") ELSE backlog
  /\ end_signal' = IF m \in Nodes \ {host} /\ bound[m] # 0
                   THEN end_signal \cup {<<m, bound[m]>>} ELSE end_signal
  /\ UNCHANGED <<serverVars, proc, bound, connected, pipe, sent, opened, log>>

\* term_wait counts connections until there are as many as nodes.  Faulty form: it
\* stops one too early.
AllButOne == count >= Cardinality(Nodes) - 1
AllCounted == count >= Cardinality(Nodes)

TermWait ==
  /\ step = "wait" /\ backlog # <<>>
  /\ ~AllCounted
  /\ count' = count + 1
  /\ backlog' = Tail(backlog)
  /\ UNCHANGED <<host, patient, step, round, todo, results, serverVars, procVars>>
  /\ UNCHANGED <<pipe, sent, opened, log>>

\* main goes on: s2 is what follows s, and contacts all machines if it is a call of
\* contact_servers.
GoesOn(s, s2) ==
  /\ step = s /\ step' = s2
  /\ todo' = IF s2 \in {"start", "end", "exit"} THEN Machines ELSE {}
  /\ count' = IF s2 = "wait" THEN 0 ELSE count
  /\ UNCHANGED <<host, patient, round, results, serverVars, procVars, flowVars>>

NextCall ==
  /\ todo = {}
  /\ \/ GoesOn("command", "start") \/ GoesOn("start", "wait")
     \/ round = 1 /\ GoesOn("end", "results")
     \/ round = 2 /\ (GoesOn("end", "exit") \/ GoesOn("exit", "results"))
WaitOver == AllCounted /\ GoesOn("wait", "end")

\* get_results reads every log, clear_logs removes them.  The second round follows
\* the first.
Collect ==
  /\ step = "results"
  /\ results' = [results EXCEPT ![round] = log]
  /\ log' = NoResults
  /\ \/ round = 1 /\ step' = "command" /\ round' = 2 /\ todo' = Machines
     \/ round = 2 /\ step' = "done" /\ UNCHANGED <<round, todo>>
  /\ UNCHANGED <<host, patient, count, serverVars, procVars, backlog, pipe, sent, opened>>

Testbed ==
  \/ \E m \in Nodes \cup {Switch} : Command(m) \/ SendStart(m) \/ SendEnd(m)
  \/ TermWait \/ NextCall \/ WaitOver \/ Collect

-----------------------------------------------------------------------------
(* The listening server of machine m.  The process that accepts a command  *)
(* carries it out, its child accepts the next.  After EXIT, accept fails   *)
(* for that child; the test of its result is on an unsigned, so that it    *)
(* forks for ever and never accepts again.                                 *)

ListeningServer(m) ==
  /\ acceptor[m] = "accepting" /\ commands[m] # <<>>
  /\ commands' = [commands EXCEPT ![m] = Tail(@)]
  /\ LET c == Head(commands[m])
     IN  /\ acceptor' = [acceptor EXCEPT ![m] = IF c = 0 THEN "forking" ELSE @]
         /\ proc' = IF c # 0 /\ m \in Nodes THEN [proc EXCEPT ![<<m, c>>] = "boot"] ELSE proc
         \* A second ./switch does not get the port: the first one keeps it.
         /\ switch' = IF c # 0 /\ m = Switch /\ switch = 0 THEN c ELSE switch
  /\ UNCHANGED <<host, patient, testbedVars, bound, connected, end_signal, flowVars>>

-----------------------------------------------------------------------------
(* The node process of machine p[1] in round p[2].                         *)

\* Before it is up, a node sleeps: time for the last one on its machine to end and
\* for the switch to come up.
Slept(p) ==
  /\ switch # 0
  /\ p[2] = 2 => proc[<<p[1], 1>>] \in {"done", "deaf"}

\* connectHost, and the accept thread's bind: without the port it listens where
\* nobody calls.
Boot(p) ==
  /\ proc[p] = "boot"
  /\ patient => Slept(p)
  /\ connected' = IF switch # 0 THEN connected \cup {p} ELSE connected
  /\ IF p[1] # host /\ bound[p[1]] = 0
     THEN /\ bound' = [bound EXCEPT ![p[1]] = p[2]]
          /\ proc' = [proc EXCEPT ![p] = "listen"]
     ELSE /\ proc' = [proc EXCEPT ![p] = "deaf"]
          /\ UNCHANGED bound
  /\ UNCHANGED <<host, patient, testbedVars, serverVars, end_signal, flowVars>>

Sends(p, m) == pipe' = [pipe EXCEPT ![p] = IF p \in connected THEN Append(@, m) ELSE @]

SendMessage(p) ==
  /\ proc[p] = "run" /\ sent[p] < Work
  /\ sent' = [sent EXCEPT ![p] = @ + 1]
  /\ Sends(p, "message")
  /\ UNCHANGED <<host, patient, testbedVars, serverVars, procVars, opened, log, backlog>>

\* run is over, and END goes to the testbed.
Finish(p) ==
  /\ proc[p] = "run"
  /\ proc' = [proc EXCEPT ![p] = "ended"]
  /\ Sends(p, "END")
  /\ UNCHANGED <<host, patient, testbedVars, serverVars, bound, connected, end_signal, sent>>
  /\ UNCHANGED <<opened, log, backlog>>

\* END has come: close_me, and the process ends.  What its send thread has not
\* written is lost.
Exit(p) ==
  /\ proc[p] = "ended" /\ p \in end_signal
  /\ proc' = [proc EXCEPT ![p] = "done"]
  /\ bound' = [bound EXCEPT ![p[1]] = 0]
  /\ \E k \in 0..Len(pipe[p]) : pipe' = [pipe EXCEPT ![p] = SubSeq(@, 1, k)]
  /\ UNCHANGED <<host, patient, testbedVars, serverVars, connected, end_signal, sent>>
  /\ UNCHANGED <<opened, log, backlog>>

-----------------------------------------------------------------------------
(* The switch process that serves p.                                       *)

\* It reads the number of the node and opens the log, which empties the file.  Faulty
\* form: it goes on writing at the end of the file.
Continued(r, l) == [round |-> r, lines |-> l.lines]
Emptied(r, l) == [round |-> r, lines |-> 0]

SwitchOpens(p) ==
  /\ p \in connected \ opened
  /\ opened' = opened \cup {p}
  /\ log' = [log EXCEPT ![p[1]] = Emptied(p[2], @)]
  /\ UNCHANGED <<host, patient, testbedVars, serverVars, procVars, pipe, sent, backlog>>

\* A message between nodes may be for the one on the testbed's machine, where the
\* testbed has the port.
Forwarded ==
  {backlog} \cup (IF host \in Nodes THEN {Append(backlog, "contact")} ELSE {})

\* A message is logged before it is forwarded: END to the testbed.  A file that is
\* removed meanwhile takes the line with it.
SwitchHandles(p) ==
  /\ p \in opened /\ pipe[p] # <<>>
  /\ pipe' = [pipe EXCEPT ![p] = Tail(@)]
  /\ log' = IF log[p[1]].round = p[2] THEN [log EXCEPT ![p[1]].lines = @ + 1] ELSE log
  /\ IF Head(pipe[p]) = "END" THEN backlog' = Append(backlog, "END")
     ELSE backlog' \in Forwarded
  /\ UNCHANGED <<host, patient, testbedVars, serverVars, procVars, sent, opened>>

-----------------------------------------------------------------------------
Process(p) == Boot(p) \/ Finish(p) \/ Exit(p) \/ SwitchOpens(p) \/ SwitchHandles(p)

Next ==
  \/ Testbed
  \/ \E m \in Nodes \cup {Switch} : ListeningServer(m)
  \/ \E p \in Processes : Process(p) \/ SendMessage(p)

Spec == Init /\ [][Next]_vars

\* Every process runs; the run loop of a node ends after 60000 ticks.
Fairness ==
  /\ WF_vars(Testbed)
  /\ \A m \in Nodes \cup {Switch} : WF_vars(ListeningServer(m))
  /\ \A p \in Processes : WF_vars(Process(p)) /\ WF_vars(Finish(p))

FairSpec == Spec /\ Fairness

-----------------------------------------------------------------------------
(* Properties.                                                             *)

\* The testbed runs on a machine of its own: nothing but the END of a node reaches it.
Apart == host \notin Nodes

\* Whatever starts late: when the results of a round are collected, every node has
\* run in that round, and its log holds exactly what it has sent in it, END included.
LogsComplete ==
  Apart =>
    \A r \in Rounds : results[r] # NoResults =>
      \A n \in Nodes : results[r][n] = [round |-> r, lines |-> sent[<<n, r>>] + 1]

\* No node is told to stop while it runs: the testbed has heard the END of this
\* very round.
StoppedAfterWork ==
  Apart => \A p \in end_signal : proc[p] \in {"ended", "done"}

\* The two algorithms never run at the same time, not even on different machines.
OneAlgorithm ==
  Apart => \A p, q \in Processes : proc[p] = "run" /\ proc[q] = "run" => p[2] = q[2]

\* With sleeps that last long enough the test comes to its end, and no node process
\* is left: none misses START or waits for an END that has come and gone.
Completes ==
  Apart /\ patient ~> step = "done" /\ \A p \in Processes : proc[p] = "done"

=============================================================================
