----------------------------- MODULE TestbedFiles -----------------------------
(***************************************************************************)
(* What src/testbed.cpp makes of files: read_config turns config.txt into  *)
(* the schedules that write_config hands to the nodes, and get_results     *)
(* turns the logs of the switch processes into the figures of a round.     *)
(* Both read line by line, and both depend on where a line ends.  One      *)
(* process does one after the other; the files are the input.              *)
(***************************************************************************)
EXTENDS Integers, Sequences, FiniteSets, SequencesExt, FiniteSetsExt

CONSTANTS
  Indices,   \* the numbers of the compute nodes, as config.txt counts them
  Settings,  \* the values of res_alloc_time
  Times,     \* the times of requests
  Inputs,    \* the files: [config_txt, terminated, logs], see InputsAssumption
  MaxAgain   \* how often a request is stored again at most: a bound for TLC

ASSUME IndicesAssumption == Indices \subseteq 1..36
ASSUME AgainAssumption == MaxAgain \in Nat
ASSUME TimesAssumption == Settings \subseteq Nat /\ Times \subseteq Nat

VARIABLES
  config_txt,   \* the lines of config.txt
  terminated,   \* does its last line end with a newline?
  logs,         \* logs[m]: what the switches log for m in the round, message by message
  step,         \* read, block (between request_start and request_end), open, log, done
  unread,       \* lines of the open file that getline has not returned yet
  buffer,       \* the line it has returned last
  eof,          \* it has met the end of the file
  c,            \* the configuration
  config_file,  \* machine -> the lines of its config file
  todo,         \* machines whose log is still to be read
  msg_count,    \* d->msg_count
  total_length

inputVars == <<config_txt, terminated, logs>>
fileVars == <<unread, buffer, eof>>
countVars == <<msg_count, total_length>>
vars == <<inputVars, step, fileVars, c, config_file, todo, countVars>>

-----------------------------------------------------------------------------
(* Lines.                                                                  *)

\* trans: the machine of the i-th compute node.  Every fifth machine is a switch.
Trans(i) == i + (i - 1) \div 4
Machines == {Trans(i) : i \in Indices}

Blank == [is |-> "blank"]      \* an empty line or one that begins with #
Start == [is |-> "start"]      \* request_start
End == [is |-> "end"]          \* request_end
Setting == [is : {"setting"}, value : Settings]                  \* res_alloc_time
Request == [is : {"request"}, node : Indices, value : Times]     \* (node,time)
ConfigLine == {Blank, Start, End} \cup Setting \cup Request

\* What a switch process logs of a message: the line of the buffer, which ends at the
\* first 0, and the line of its length.  The time in the buffer may hold the byte 10,
\* which ends a line: what follows it is one more line.
Record == [control : BOOLEAN, split : BOOLEAN, length : Nat]
ASSUME InputsAssumption ==
  \A f \in Inputs : /\ f.config_txt \in Seq(ConfigLine) \ {<<>>}
                    /\ f.terminated \in BOOLEAN
                    /\ f.logs \in [Machines -> Seq(Record)]

First(r) == [is |-> IF r.control THEN "control" ELSE "message", value |-> 0]
Rest == [is |-> "rest", value |-> 0]
Length(r) == [is |-> "length", value |-> r.length]
RecordLines(r) == IF r.split THEN <<First(r), Rest, Length(r)>> ELSE <<First(r), Length(r)>>
LogLines(log) == FlattenSeq([i \in DOMAIN log |-> RecordLines(log[i])])

\* getline on a file whose last line ends with a newline or does not: the end is met
\* with the last line, or with one more call, which returns an empty line.  After that
\* the string is left as it is.
GetLine(whole) ==
  \/ /\ unread # <<>>
     /\ buffer' = Head(unread) /\ unread' = Tail(unread)
     /\ eof' = (Len(unread) = 1 /\ ~whole)
  \/ /\ unread = <<>> /\ ~eof
     /\ buffer' = Blank /\ eof' = TRUE
     /\ UNCHANGED unread
  \/ /\ eof
     /\ UNCHANGED fileVars

-----------------------------------------------------------------------------
\* The file is open and its first line read.
Init ==
  /\ \E f \in Inputs :
       config_txt = f.config_txt /\ terminated = f.terminated /\ logs = f.logs
  /\ step = "read"
  /\ buffer = Head(config_txt) /\ unread = Tail(config_txt)
  /\ eof = (Len(config_txt) = 1 /\ ~terminated)
  /\ c = [alloc_time |-> 0, reqlist |-> [m \in Machines |-> <<>>]]
  /\ config_file = <<>>
  /\ todo = Machines
  /\ msg_count = 0 /\ total_length = 0

\* read_config outside of a block: settings are stored, other lines have no effect.
ReadLine ==
  /\ step = "read" /\ ~eof
  /\ step' = IF buffer = Start THEN "block" ELSE step
  /\ c' = IF buffer.is = "setting" THEN [c EXCEPT !.alloc_time = buffer.value] ELSE c
  /\ GetLine(terminated)
  /\ UNCHANGED <<inputVars, config_file, todo, countVars>>

\* The request goes to the end of its node's list.  Faulty form: to its front.
Prepended(s, t) == <<t>> \o s
Appended(s, t) == Append(s, t)

\* read_config between request_start and request_end: requests are stored.  What is
\* not a request is taken for one of node 0, which has no file.  The end of the file is
\* not looked for: a request in its last line is then stored without end.
ReadRequest ==
  /\ step = "block" /\ buffer # End
  /\ eof /\ buffer.is = "request" => Len(c.reqlist[Trans(buffer.node)]) < MaxAgain
  /\ c' = IF buffer.is = "request"
          THEN [c EXCEPT !.reqlist[Trans(buffer.node)] = Appended(@, buffer.value)] ELSE c
  /\ GetLine(terminated)
  /\ UNCHANGED <<inputVars, step, config_file, todo, countVars>>

\* Faulty form: request_end is not recognised.
NeverEnds == FALSE
BlockEnds == buffer = End

EndBlock ==
  /\ step = "block" /\ BlockEnds
  /\ step' = "read"
  /\ UNCHANGED <<inputVars, fileVars, c, config_file, todo, countVars>>

\* read_config has met the end of the file.  The round (module TestRun) leaves the logs.
WriteConfig ==
  /\ step = "read" /\ eof
  /\ step' = "open"
  /\ config_file' = [m \in Machines |-> <<c.alloc_time>> \o c.reqlist[m]]
  /\ UNCHANGED <<inputVars, fileVars, c, todo, countVars>>

-----------------------------------------------------------------------------
(* get_results.                                                            *)

Remaining(m) == todo \ {m}

OpenLog(m) ==
  /\ step = "open" /\ m = Min(todo)
  /\ todo' = Remaining(m)
  /\ step' = "log"
  /\ LET lines == LogLines(logs[m])
     IN  IF lines = <<>>
         THEN buffer' = Blank /\ eof' = TRUE /\ unread' = <<>>
         ELSE buffer' = Head(lines) /\ eof' = FALSE /\ unread' = Tail(lines)
  /\ UNCHANGED <<inputVars, c, config_file, countVars>>

\* strtol of a line that should be a length: taken as 0 when it is none.
Number(lines) == IF lines = <<>> THEN 0 ELSE Head(lines).value

\* Faulty form: control messages count too.
Anything(b) == TRUE
Counts(b) == b.is # "control"

\* A line and the next one, which should be its length.  The kind of a control message
\* is looked up in the byte that holds the sender, so that none is ever taken for a
\* request, and no critical section is recorded.
ReadPair ==
  /\ step = "log" /\ ~eof
  /\ msg_count' = IF Counts(buffer) THEN msg_count + 1 ELSE msg_count
  /\ total_length' = IF Counts(buffer) THEN total_length + Number(unread) ELSE total_length
  /\ IF Len(unread) <= 1
     THEN buffer' = Blank /\ eof' = TRUE /\ unread' = <<>>
     ELSE buffer' = unread[2] /\ unread' = Tail(Tail(unread)) /\ UNCHANGED eof
  /\ UNCHANGED <<inputVars, step, c, config_file, todo>>

CloseLog ==
  /\ step = "log" /\ eof
  /\ step' = IF todo = {} THEN "done" ELSE "open"
  /\ UNCHANGED <<inputVars, fileVars, c, config_file, todo, countVars>>

Next ==
  \/ ReadLine \/ ReadRequest \/ EndBlock \/ WriteConfig
  \/ \E m \in Machines : OpenLog(m)
  \/ ReadPair \/ CloseLog

Spec == Init /\ [][Next]_vars

\* One process, which runs.
FairSpec == Spec /\ WF_vars(Next)

\* The figures of a round.
avg_length == IF msg_count = 0 THEN 0 ELSE total_length \div msg_count

-----------------------------------------------------------------------------
(* Properties.                                                             *)

\* Line i of config.txt is between a request_start and its request_end.
InBlock(i) ==
  \E s \in 1..(i - 1) :
    /\ config_txt[s] = Start /\ \A k \in (s + 1)..i : config_txt[k] # End

\* The lines of config.txt that ask for m, and the rank of one of them.
Asking(m) ==
  {i \in DOMAIN config_txt :
     InBlock(i) /\ config_txt[i].is = "request" /\ Trans(config_txt[i].node) = m}
Rank(S, i) == Cardinality({j \in S : j <= i})

\* A node's file holds its requests and those only, in the order of config.txt,
\* however blocks, comments and settings are mixed.
ScheduleWritten ==
  config_file # <<>> =>
    \A m \in Machines :
      /\ Len(config_file[m]) = 1 + Cardinality(Asking(m))
      /\ \A i \in Asking(m) : config_file[m][1 + Rank(Asking(m), i)] = config_txt[i].value

\* If every request_start is followed by a request_end, the test gets to its results.
Closed == \A s \in DOMAIN config_txt : config_txt[s] = Start =>
            \E e \in DOMAIN config_txt : e > s /\ config_txt[e] = End
ReadsToTheEnd == Closed ~> step = "done"

Splits == \E m \in Machines : \E i \in DOMAIN logs[m] : logs[m][i].split

\* The messages in the logs, each by its place, and their bytes.
Messages(m) == {i \in DOMAIN logs[m] : ~logs[m][i].control}
Sent == UNION {{<<m, i>> : i \in Messages(m)} : m \in Machines}
Bytes == UNION {{<<s, b>> : b \in 1..logs[s[1]][s[2]].length} : s \in Sent}

\* As long as no time in the logs holds a byte 10, the number of messages in the results
\* is that of the messages sent, and so is their average length.  Such a byte shifts the
\* reading by a line: lengths are then taken for messages, and messages for lengths, but
\* the number of messages is still not too low.
CountRight ==
  step = "done" =>
    /\ msg_count >= Cardinality(Sent)
    /\ ~Splits => /\ msg_count = Cardinality(Sent)
                  /\ avg_length = IF Sent = {} THEN 0
                                  ELSE Cardinality(Bytes) \div Cardinality(Sent)

=============================================================================
