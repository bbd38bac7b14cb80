# AOSproject: specifications, model checking and proofs

The repository implements two algorithms for distributed mutual exclusion, runs them on the machines
`net01` to `net45`, and measures them. This directory holds TLA+ modules of the system, configurations
for the model checker TLC, and proofs for TLAPS.

* `tlc -config <run>.cfg <MC module>` repeats a run (`PROJECT.json` lists the module of each).
* `tlapm <module>_proofs.tla` repeats the proofs of a module.

## 1. The system

| component | source | state | operations |
|---|---|---|---|
| MAKNode, Maekawa's algorithm ("algorithm 0") | `node/MAKNode.*` | `seq`, the lock (`is_locked`, `locked_for`), `waiting_queue`, `response_map`, `inquiry_list`, `is_inCS` | `send_request`, six message handlers, `finishCS` |
| LAKNode, the token algorithm ("algorithm 1") | `node/LAKNode.*` | `seq`, `token_holder`, `has_token`, `token_list`, `acked_node`, `expt_resp`, `is_inCS` | `send_request`, six message handlers, `finishCS` |
| Node, base class of both | `node/Node.*`, `node/main.cpp` | `m_message_queue` with its lock, the START and END flags, quorum and schedule | `start`, `send`, `receive`, `get_message`, reading of the files |
| NodeNetwork | `node/NodeNetwork.*` | one `Socket` to the switch, one accept thread | `start`, `send`, `close_me`, `AcceptThread::run` |
| Socket | `socket/*` | `m_messages`, `m_thread_running`, the descriptor | send thread, receive thread, `disconnect` |
| vswitch | `vswitch.cpp` | one process per connected node, its log file, `net_status` | bind, accept and fork, read, log, drop, delay, forward |
| testbed, preparation | `testbed.cpp` | the configuration, grid, quorum list, files, machines contacted | `read_config`, `QuorumAssignment`, `write_quorums`, `write_config`, `contact_servers` |
| testbed, rounds | `testbed.cpp` | the connections counted | commands, START, `term_wait`, END, EXIT, `get_results`, `clear_logs` |
| testbed, evaluation | `testbed.cpp` | counters, list of critical sections | `get_results`, `get_conflict`, `get_runtime`, `get_wait` |
| listenserver | `listenserver/lserver.cpp` | a tree of processes | start a node or a switch, EXIT |
| Thread, MutexLock | `thread/*` | none of their own | pthread wrappers |
| legacy | `dumpswitch`, `listenserver_old`, `socket_old` | | not used any more |

**How the parts interact.** The testbed writes a quorum file and a configuration file for each machine,
contacts the listening servers, which start a node or a switch, sends START to the nodes, and counts
their END messages. A node is two threads that matter here: the run loop, which handles messages and
counts time in ticks of a millisecond, and the accept thread, which appends what it reads to
`m_message_queue`. Everything a node sends goes through the queue of its `Socket`, in order, to one
process of a switch, which opens a new connection to the accept thread of the addressee for every message.
Messages between the same two nodes therefore stay in order; messages of different nodes do not.

**Behaviours that are hard.** Each node is requester and arbiter (or holder and relay) at once, so a
message about an old request meets a new one; a node changes its own lock without a message; time
schedules make requests overlap; a switch may delay (`net_status` 2) or drop (`net_status` 3); a handler
decides on what it has counted rather than on who has answered; `operator<` compares numbers of which
some are never set; containers are read at `begin()` when they are empty. In the rest of the program:
threads that disconnect the same socket and join each other, one of which may still read it when it is deleted; messages cut
in two by a stream, whose second half is taken for a message; a mutex that is freed and taken again without pause; flags that are
set early, a port or a log file that still belongs to a process of the round before, a count of connections
taken for a count of nodes, line by line reading of files that hold arbitrary bytes.
`PROJECT.json` lists these hazards at their lines, with the properties that cover each, or the reason why none does.

**What makes each component correct.**

* *MAKNode*: the lock of a node is consistent with its queue; answers come from the quorum; a node enters
  with every lock of its quorum; no two nodes are in the section; a lock is only given back by its holder;
  waiting requests stay queued; every request is served and every section ends.
* *LAKNode*: one token, never lost; only its holder is in the section; what the holder collects is served;
  nobody goes on taking an old holder for the holder; every message is parsed.
* *network*: in order between two nodes, nothing repeated, nothing lost but by an unreliable switch; and what happens to a
  stream that is cut does not touch the messages of others.
* *Socket*: whenever the connection breaks, what has been written is a beginning of what was sent; no
  message of a healthy connection is lost by closing it; no thread waits for itself; the process ends.
* *testbed, preparation*: quorums intersect and are mutual; the machines contacted are those of the test;
  each node's file has the requests meant for it, in order.
* *testbed, rounds, with listenserver*: no node is stopped while it runs; the rounds do not overlap; the
  logs are complete when they are read; the test comes to its end and leaves no node behind.
* *testbed, evaluation*: messages are counted right.

## 2. The modules

| module | models | role |
|---|---|---|
| `SwitchNet` | the network as the run loops see it | abstract specification (`NetSpec`); extended by both node modules |
| `RequestOrder` | `Message::operator<`, `*begin()`, `*rbegin()` | shared by both node modules |
| `MAKNode` | `MAKNode.cpp` | composed with `SwitchNet` |
| `LAKNode` | `LAKNode.cpp` | composed with `SwitchNet` |
| `CutNet` | `SwitchNet` and what remains of it when a switch process reads less than a message | abstract specification (`CutSpec`); extends `SwitchNet` |
| `Transport` | queues, threads, streams, switch processes and connections between two run loops | implements `CutNet`, and `SwitchNet` where nothing is cut |
| `SocketThreads` | `Socket.cpp`, one node process with its three threads | on its own: the threads that `Transport` takes for one `Write` |
| `TestRun` | `main` of the testbed, listening servers, node and switch processes over two rounds | on its own |
| `Setup` | `QuorumAssignment`, `write_config`, `contact_servers` of the testbed | its quorums are what `Peers` stands for |
| `TestbedFiles` | `read_config`, `get_results` of the testbed | on its own |
| `MCMAK`, `MCLAK`, `MCTransport`, `MCSetup`, `MCTestbedFiles` | | values of the constants for TLC |
| `Shared_proofs` | | lemmas about `SwitchNet`, `RequestOrder` and counting |
| `MAKNode_proofs`, `LAKNode_proofs`, `Transport_proofs`, `SocketThreads_proofs`, `TestRun_proofs`, `Setup_proofs`, `TestbedFiles_proofs` | | theorems |

The composition has three levels: the algorithms use only what `SwitchNet` promises (the theorems
`UsesNet` of both node modules: every step of a node is a step of `NetNext`), and `Transport` provides it where `recv` returns whole
messages (theorem `WholeMessages`). Where it does not, `Transport` provides `CutNet` (`ImplementsNet`, checked with fairness by
TLC, and proved for the safety part as `Refinement`).

### SwitchNet

`outq[n]` is all that `n` has sent and its switch process has not handled: `m_messages` of the socket and
the TCP stream. `mailbox[n]` is `m_message_queue`. `Forward(n)` is one round of the loop of
`vswitch.cpp:handle` and of `AcceptThread::run`; `Drop(n)` is the branch for an unreliable network, which is
why nothing guarantees delivery when `NetStatus = 3`. The delay of a congested switch happens in the process
that forwards, so it keeps the order and is only a longer wait. Messages to 255 (log entries) never
leave the switch and are left out. A message whose addressee is no machine of the test (0) is discarded.
Every node has a switch process of its own, since `vswitch` forks for every connection.

### MAKNode and LAKNode

A node's run loop is one thread, so each handler is one action, from its first statement to its
last, and the messages a handler sends are appended to `outq` in the order of the code, following the
iteration order of `std::set` (`Peers[n]` is ascending). The loop handles messages, then perhaps ends the
critical section, then perhaps starts a request. Which tick a message arrives in is open (transit takes
any time), the length of the section and the schedule are inputs, so between two messages the loop may
pass those points with either outcome; the order within one tick adds no constraint.

| code | MAKNode | LAKNode |
|---|---|---|
| the schedule fires | `SendRequest` | `SendRequest` |
| `receive_request` | `ReceiveRequest` | `ReceiveRequest` |
| `receive_locked`, `receive_failed`, `receive_inquiry` | `ReceiveLocked`, `ReceiveFailed`, `ReceiveInquiry` | |
| `receive_relinquish`, `receive_release` | `ReceiveRelinquish`, `ReceiveRelease` | `ReceiveRelease` |
| `receive_ack`, `receive_token`, `receive_receive`, `receive_relay` | | `ReceiveAck`, `ReceiveToken`, `ReceiveReceive`, `ReceiveRelay` |
| `finishCS` | `FinishCS`, `FinishCSHangs` | `FinishCS` |
| `string_message` does not return | | `ReceiveTokenHangs` |

Abstractions, and what they keep:

* A request is the pair `<<seq, from>>`, which is all `operator<` looks at. A message is a record.
* `num_req` counts a node's requests and nothing reads it; in MAKNode it equals `seq - 1` and is left out.
* Undefined behaviour is what the build of the `makefile` (g++ on Linux) does. `erase(begin())` of an empty `std::set`
  does not return (`FinishCSHangs`, `hung`); `begin()` of an empty one yields the node id 0 (`Stray`); an
  uninitialised `seq` may be any number, so `ReceiveInquiry` inserts at any place of the list, or not at
  all when the sender is on it.
* LAKNode's list of requests is a function from the request to the last number of its string, because of
  two things `string_message` does: a RELAY's `relay` overwrites its `seq`, and the loop ends only when
  the last number has one digit (`Parsed`).
* The run loop's last tick (60000) is not modelled: a test in which it comes early is another question.

### Transport

What `SwitchNet` has in two variables is here in the places where the program has it.

| state | code |
|---|---|
| `msgs[n]` | `m_messages` of the node's `Socket` |
| `stream[n]`, `rest[n]` | the TCP stream to the node's switch process; `rest` is how many bytes of a message come first whose beginning has been read |
| `held[n]` | the message in the buffer of `handle` (`vswitch.cpp`) |
| `backlog[t]` | connections in the queue of `listen(m_socket,3)` of `t` |
| `queue[t]` | `m_message_queue` of `t` |
| `started`, `listening` | `m_start_signaled`; the accept thread has reached `accept` |
| `exited`, `dead` | the node's switch process has called `exit`; the node has been killed by SIGPIPE |

| action | code |
|---|---|
| `Listen`, `Start` | `AcceptThread::run` up to `accept`; START |
| `Send`, `Write` | `Node::send` down to `Socket::send`; the send thread |
| `WriteLost`, `Killed` | the send thread writes to a switch process that is gone: the first write may succeed, a later one kills the node |
| `Recv` | `recv` in `handle`, from the first byte of a message on: all of it, or as much as has come |
| `RecvRest`, `Exit` | `recv` gets bytes left of a message, perhaps with the beginning of the next one behind them; the first byte is 46 |
| `NotForwarded`, `Drop` | a control message or END; an unreliable switch |
| `Connect`, `Refused` | `forward` |
| `Accept`, `GetMessage` | `AcceptThread::run`; `Node::get_message` |

A message is 1024 bytes, and `handle` takes whatever one `recv` returns for a message (`vswitch.cpp:90`). `Recv` may return any
number of bytes of one: behind the text, within it, or within the header, where the addressee is there and the rest is not the sender's, so that the message
handed on is `Garbled`. What is left is read next (`RecvRest`), as a message of its own, in one or in several pieces. Only the header and the text
of the 1024 bytes are the sender's: `NodeNetwork.cpp:101` copies 1014 bytes from a string that is shorter, so that the rest
is whatever was in memory behind it. Its first byte is therefore any addressee: a node, to whom garbage is forwarded (`vswitch.cpp:109-152`), a
control id, or 46, at which the process exits (`vswitch.cpp:133-137`). A process that exits takes its node with it, at the next write or the
one after that, and with the node its accept queue.

`Cut` are the nodes whose stream may be cut in this way, `Early` those whose START comes before the others listen. `CutNet`
says what is promised nevertheless: for a node in `Cut` the network may also put garbage in front of what is under way or in place of a message
(`Garble`), swallow messages (`Swallow`) or take the node down (`Die`), and messages to such a node may find nobody (`Miss`); all the others'
messages stay whole and in order, are not repeated, and do not stay under way for ever. The refinement maps `outq[n]` to
`held[n] \o stream[n] \o msgs[n]` and `mailbox[t]` to `queue[t] \o backlog[t]`, and a node in `Early` counts as one whose switch has
`net_status` 3: a refused connection is a `Drop`. The run loops are abstract: they send and take messages when they like, so that what a node
makes of garbage is not looked at. The `recv` of the accept thread and of `term_wait`, on a connection of one message, is taken to return it whole.

### SocketThreads

One node process with `main`, the send thread and the receive thread. `pc` says what each of them does next,
one step per statement that another thread can come between; `lock` is `m_queue_lock`, `fd` the descriptor,
`joiner` and `joined` what `pthread_join` knows of. `disconnect` is modelled once (`Disconnect` to `Unset`)
for all three callers: `close_me` in main, a failed `write` in the send thread, a `read` that ends in the
receive thread. Library behaviour that matters:

* `pthread_join` of oneself, of a thread that waits for the caller, or of one that another waits for returns at once
  (glibc), which `Thread::join` ignores (`Refused`);
* after `shutdown`, or after the peer has gone, `write` raises SIGPIPE, which ends the process (`killed`); after
  `close` it fails. That another file could get the number of a closed descriptor is left out: after start the
  process opens only connections of the accept thread.
* the mutex is not recursive: the send thread, which calls `disconnect` with the lock in its hands, waits for itself at
  `Clear` (`SendStuck`).

The peer is one switch process, which reads until it dies (`SwitchDies`, only if `faulty`); the testbed answers the node's END
with `DisconnectSignal`. `m_socket` is
set to -1 before the listener is read from the socket and told (`Socket.cpp:162-167`): two steps, `Unset` and `Notify`, between which `main` may find
-1, return from `disconnect` at once and delete the socket (`Delete`, `NodeNetwork.cpp:216-217`). `Exit` is the end of main (`pc["main"] = "done"`), after which the process
is gone.

What the model shows: where the connection has broken before `main` disconnects, the receive thread may read the listener from a
socket that `main` has deleted. `DeletedUnused` says that this is the only use of it after the deletion.


### TestRun

A test from the first command to the last result. `Testbed` follows `main` from `sleep` to `sleep`: `Command`
("0" or "1" to every listening server), `SendStart`, `TermWait`, `SendEnd`, `Collect` (`get_results` and
`clear_logs`), a second round, and EXIT before the last `Collect`. `ListeningServer(m)` is the accepting process of
machine `m`; `Boot`, `SendMessage`, `Finish` and `Exit` are a node process, `SwitchOpens` and `SwitchHandles` the process
of the switch that serves it. What the nodes say to each other is only counted.

The state that makes it hard is what outlives a process: `bound[n]`, the port of machine `n`, which only one
process can have (the second one is `deaf`: its `bind` fails, which is printed, and nobody can reach it);
`switch`, the `./switch` that has the port of the switch, which is still the first round's in the second; `log[n]`,
emptied by whoever opens it; `backlog`, the connections to the testbed that it has not accepted, whoever they are of. END is
sent by a node to the testbed through its switch, so that `pipe` carries it behind the node's messages.

`patient` says whether the `sleep`s of testbed and nodes are long enough for what they wait for. All safety properties are
checked for both values; only `Completes` assumes it. The testbed may run on a compute machine (`host`): it then has
the port, and the switch forwards to it what is meant for that machine (`Forwarded`), which `term_wait` counts like its own contacts and
the ENDs (`testbed.cpp:716`). Nothing is then claimed: every property is stated for a testbed that is `Apart`, and for the other case only
sleeps that are not long enough are looked at, since these allow everything the others do. Machines run one switch here; the run of
the testbed on the machine of a switch is excluded, since the two use one port. `OldLines` is the length of logs that an earlier test may have left.

Nobody notices, and the model has it all the same: after EXIT the accepting child of a
listening server forks for ever (`accept` returns -1 into an `unsigned`, `lserver.cpp:100`).

### Setup

One process, so the steps are in the order of `main`. `AssignQuorum` makes one quorum, `ContactNext` is one
round of the loop in `contact_servers`. Node indices and machine numbers are kept apart as in the code
(`Trans`). File names, times of requests and sockets are left out; failures to connect are only
printed by the code and change nothing. `config.txt` is the input.

### TestbedFiles

A file is a sequence of lines, and `GetLine` is `getline` with its end-of-file flag: a last line without a newline
sets it at once, one with a newline only with the next call, and after it the string keeps its value. `ReadLine`,
`ReadRequest`, `EndBlock` and `WriteConfig` are `read_config` and what `write_config` makes of the requests;
`OpenLog`, `ReadPair` and `CloseLog` are `get_results`. A logged message is two lines, or three when the time in
it has the byte 10 (once: a time with two such bytes is left out).

What the model shows without a property: between `request_start` and `request_end` the end of the file is not looked
for, so that without `request_end` the loop never ends and stores the last request again and again (`testbed.cpp:73`);
`get_results` looks for the kind of a control message in `buffer[1]`, which holds the sender's id
(`testbed.cpp:608`), so that no critical section is ever recorded and every test reports that mutual exclusion was
maintained. `get_conflict`, which never gets two sections to compare, is therefore not modelled.

## 3. Runs

The number of requests is bounded by `Schedule`, that of messages by `Budget`, `Count` and `Work`, the length of
files by `MaxLines` and `MaxRecords`, endless storing by `MaxAgain`; nothing else is bounded. The quorums are the ones
`QuorumAssignment` makes for 2, 3 and 4 nodes: each other's only peer; one common node; and a square where
opposite corners share two arbiters that do not compete with them. `lak_handover` has the grid of five machines, without the last, which
asks for nothing: a row of three, so that two nodes of a quorum have a third one in common.

*Spaced* means that a node asks again only when its own last request is over: in LAKNode, when no REQUEST or RELAY of it is under way or collected
and no TOKEN comes to it (`Pending`). What the others do is not restricted: they may ask at any moment of its request, its section or
a hand-over. It restricts the schedule, not the code; only `lak_long` uses it.

| run | instance | states | shows |
|---|---|---|---|
| `mak_three` | 3 nodes, node 2 asks twice, the others once, overlapping; the switch of node 3 loses any message | 153100 | `TypeOK`, `LockInv`, `QueueIssued`, `AnswersFromQuorum`, `EntryAnswered` (a LOCK of every other member on record, unless the node has counted one of its own): they rest neither on delivery nor on spacing |
| `mak_corners` | 4 nodes, opposite corners ask once | 1903 | `Mutex`, `RelinquishFromHolder`, `UnprocessedStay`, `SectionEnds`, `Served` |
| `lak_peers` | 4 nodes, the two peers of the first holder ask once, overlapping | 372139 | `TypeOK`, `Mutex`, `SectionHasToken`, `CollectedInSection`, `NeverUnsatisfied` |
| `lak_handover` | 4 nodes, two peers with a peer in common; the first holder asks twice, the other once, at any time | 260135 | `TokenSurvives`, `OneToken`, `NobodyMisled` |
| `lak_long` | 2 nodes, 12 requests each, each node's own spaced | 82002 | `RequestServed` for numbers of one digit; `CollectedServed` until a parser hangs |
| `transport` | 2 nodes, 2 messages and 1, to anyone; one switch drops and its stream is cut anywhere, with anything behind the cut | 245570 | `TypeOK`; `ImplementsNet`: the refinement of `CutNet`, fairness included |
| `socket` | 2 messages and END; a switch process that lives, and one that may die at any moment | 3206 | `TypeOK`, `InOrder`, `NothingLost`, `DeletedUnused`, `Ends`, `HangsOnlyAtWrite` |
| `test_run` | 2 nodes, their switch, 1 message per round; testbed apart or on a node; sleeps long enough or not | 729772 | `LogsComplete`, `StoppedAfterWork`, `OneAlgorithm`, `Completes` |
| `setup_all` | 0 to 36 nodes, every setting of the network | 6660 | all of Setup's properties |
| `testbed_files` | every `config.txt` of up to 4 lines for 2 nodes, all logs of up to 2 messages each | 166560 | `ScheduleWritten`, `ReadsToTheEnd`, `CountRight` |
| `mak_mutex`, `lak_mutex` | see *Disagreements* | | |

Why these bounds are enough.

* In `mak_three` every pair of requests meets, with a common arbiter that competes; one node has an old and a
  new request in the queues at the same time, RELEASEs cross REQUESTs, a queue runs empty under `finishCS`, and
  any message of one node may be missing. In `mak_corners` the cycle of waiting (each corner has one of the
  two locks) arises and is broken by INQUIRE and RELINQUISH.
* In `lak_peers` one of the two asks a machine at the far corner that has never heard of a holder, so that requests
  are answered with ACK and relayed; requests reach a node that holds the token in its section, one that
  holds it idly, one that has just given it away and one that has never had it. In `lak_handover` the holder comes
  back during and after its section and the other's, requests chase the token or are collected, and the RELEASE of the old and the RECEIVE of the new holder
  reach their common peer through two switches, in both orders. In `lak_long` both nodes compete all the time, and the numbers reach two digits, where
  `ReceiveTokenHangs` fires.
* In `transport` the backlog is 1, so that it is full as soon as one message waits and two switches compete for it. `MaxRest`, the
  bytes left of a message, is 2 instead of 1023: nothing left, the last piece, and a piece with another behind it. The node whose stream is whole sends two
  messages, so that they could change places, and the other one's garbage gets between them.
* In `socket` the queue is empty, has one and has several messages when the connection breaks, the break comes at
  every step of each thread, and two or three threads are in `disconnect` at once.
* In `test_run` two nodes are the least for which one can be late and the other not, and two rounds are
  all there are. For a testbed that is `Apart` a third node adds no new relation: `term_wait` compares a number with a number, and the proof covers any number.
* In `testbed_files` four lines are the least in which a block, a setting and a comment or a second block mix; the two
  nodes have a switch between them (machines 4 and 6), which `Trans` must skip.

`CHECK_DEADLOCK FALSE` is set everywhere because a test is over when the schedules are exhausted and the network
is empty; that nobody is left waiting before that is what the liveness properties say.

Limits of these results. They hold for the instances named, and for several of them TLC finds a counterexample
on another instance:

* `Mutex` of MAKNode fails for overlapping requests of competitors that arbitrate for each other
  (`mak_mutex`), and for spaced requests at the corners: an INQUIRE about a finished section is kept, and
  answered with a RELINQUISH during the next request (`MAKNode.cpp:212`). `Served` fails for two nodes with two
  overlapping requests each: both wait, and no node hangs. It holds for two nodes with three spaced requests each.
* On the instance of `mak_mutex`, two nodes with one request each, `UnprocessedStay` fails (`finishCS` erases the
  first entry of the queue, which may be another node's waiting request, `MAKNode.cpp:305`), and `SectionEnds` fails
  (a node whose own request was erased that way enters with an empty queue, and the erase does not
  return). With two overlapping requests each, and on the instance of `mak_three`, a node counts its own answer:
  `receive_relinquish` (`MAKNode.cpp:239`) sends the LOCK for the node's own request to itself, which then stands
  in for a peer's. `EntryAnswered` excepts that case.
* `RelinquishFromHolder` fails for repeated requests of two competitors behind common arbiters, and for three competitors
  with two common arbiters. `Mutex` fails for three competitors that share one arbiter with each of the others: a
  LOCK that was given back stays in `response_map`. What the corners have in common, two competitors with one request each, is the
  hypothesis of the theorems of `MAKNode_proofs`.
* `Mutex` of LAKNode fails with 2 nodes and 3 requests each, with 3 nodes and 2 requests each, and with 4 nodes of
  which all but the first holder ask (`lak_mutex`); `SectionHasToken` fails with 3 nodes and 2 requests each.
* `OneToken` fails with 2 nodes and 2 overlapping requests each, with 3 nodes and 1 request each (also when each node's requests are
  spaced and there are 2), and on the instance of
  `lak_peers`: a node answers a RELAY with a TOKEN whether it has the token or not, and each of several RELAYs of one
  request with one.
* `RequestServed` fails with 3 nodes, and on the instance of `lak_handover`: a relayed request brings the token, with an empty list, to the relay, and the
  node that asked gets nothing. It is stated for numbers below 9 because `receive_request` may
  raise the number of a request by one, and on a TOKEN that ends with a number of two digits the parser of its receiver hangs.
* `CollectedServed` fails with 3 nodes and one request each, and with 2 nodes and 2 overlapping requests each: the list
  that comes with the token is dropped.
* `NobodyMisled` fails on the instance of `lak_peers`, where there may be two tokens.
* Without `Apart` TLC finds `LogsComplete` and `StoppedAfterWork` violated, and with three nodes `OneAlgorithm`: a testbed on a compute machine counts
  what is sent to that machine.

### Disagreements between the source and what it says

| run | line | what happens |
|---|---|---|
| `mak_mutex` | `MAKNode.cpp:86` | a node takes its own lock over from the peer it has granted it to |
| `lak_mutex` | `LAKNode.cpp:261` | a node without the token, or asked by several relays, sends a TOKEN to each |

Each run checks one property that quotes a comment of the repository (see the definitions and
`PROJECT.json`). Others are plain from reading or fall out of a model without a run of their own: the late INQUIRE above; a
TOKEN that ends with a number of two digits is never parsed (`LAKNode.cpp:439`, `ReceiveTokenHangs`); `write_config` tests
`if( c.reliable = 0)` (`testbed.cpp:286`), an assignment, so that no switch is ever given the net_status 3 that
`config.txt:14` promises for an unreliable network (`NetStatusOf` in Setup); and what *TestbedFiles* says of the evaluation.

### Fairness

* MAKNode, LAKNode: `Handle(n)`, `Finish(n)` (`FinishCS(n)` in LAKNode) and `Switch(n)` are weakly fair: the run loop
  polls the mailbox and the timer in every tick, and the switch process blocks in `recv` only when there is
  nothing to read. On an unreliable network weak fairness of `Switch` forces no delivery, since `Drop` is one of its steps;
  the liveness runs use a reliable one. The schedule is an input, so starting a request is not fair.
* Transport: threads and switch processes are weakly fair. `Connect` is strongly fair: it waits for room in a
  backlog which another switch may take first, and the kernel lets a blocked `connect` in sooner or later. What the run loops
  send and take is not fair. `FairCutSpec` promises delivery for the nodes outside `Cut` only.
* SocketThreads: every thread, the switch process and the testbed are weakly fair, and nothing is assumed of the mutex: the send thread frees it and
  takes it again without pause (`Socket.cpp:199`), so that `main`, in `Socket::send`, may never get it. `Ends` says so: the process ends, or
  `main` stays in its run loop for ever although the mutex is free again and again. It waits nowhere else for ever, since whoever needs the
  mutex in `disconnect` has cleared `m_thread_running` before, which ends the send thread.
* TestRun: every process is weakly fair, `Finish` included: the run loop ends after 60000 ticks whatever
  happens (`MAKNode.cpp:43`).
* TestbedFiles, Setup: one process, which runs.

## 4. Proofs

Everything below holds for all values of the constants that meet the assumptions: node ids are positive,
a node's peers are nodes in ascending order without the node itself, schedules are natural numbers,
`NetStatus` is 1, 2 or 3, node 1 takes part (LAKNode), sizes are natural numbers (Setup), times and lengths are natural numbers and at most 36 machines are nodes (TestbedFiles), addressees outside the nodes are none of
them, the backlog and the length of a message are positive (Transport), the number of messages is natural (SocketThreads), there are
finitely many nodes, the switch is none of them and the testbed does not run on its machine (TestRun). The proofs do not assume
that membership is mutual or that quorums intersect; only the theorems about what the code does not keep for everyone have a
hypothesis: `Apart` in `MAKNode_proofs` and `Neighbours` in `LAKNode_proofs`, about quorums and schedules, and `Cut = {}` in `WholeMessages`. `TestPrepared`
has `EnoughMachines`: no test has more than the 36 nodes that `net01` to `net45` can hold.

* **MAKNode, `TypeCorrect` and `LockConsistent`.** Neither `TypeOK` nor `LockInv` is inductive alone. An
  INQUIRE goes to `locked_for[n][2]`, which is a node only if a lock that is given away has a holder:
  that is `LockInv`. And `HolderQueued` needs `begin()` of a queue that is not empty to be one of its
  members: that is the type of the queue, with `BeginInQueue` (`operator<` has a least element in every
  such set). `IInv` is therefore both together, with the contents of the network stated by `NetHolds`
  (every envelope is of a set `E`, every mailbox of a set `Box[n]`), which has one lemma per way of changing
  the network. There is one lemma per action.
* **`QueuesIssued`, `AnswersOfQuorum`.** A queue is filled from messages, and a map of answers too, so the invariant
  says the same of the messages under way: a REQUEST on its way to `n` is one its owner has sent, to a quorum
  `n` is in; an answer on its way to `n` comes from `n`'s quorum or from `n` itself. `JInv` is
  `NetHolds(Sound(seq), Boxes(seq))`, `QueueIssued` and `AnswersFromQuorum`; it is kept because `seq` only grows.
* **`EntryAfterAnswers`** (an action property). The code counts: as many answers as peers, and no FAIL. By
  `AnswersFromQuorum` the answers come from the peers or the node itself; two finite sets, one inside the other and of
  equal size, are the same set, so if the node itself is not among them every peer is.
* **`MutualExclusion`, `LockFromItsHolder`** (`MAKNode_proofs`). The code keeps these two only for some quorums and
  schedules (section 3). The theorems say for which: `Apart` is two competitors, `First` and `Second` in the order of their
  requests, that ask once each, are not in each other's quorum and have at least one common arbiter. The quorums may have any size,
  the other nodes may be any, and messages may be lost. `mak_corners` is an instance (`First = 1`, `Second = 4`, arbiters 2 and 3).
  With one request each there are few messages, and their order turns out not to matter: the invariant counts, for every pair of
  nodes and every kind, the messages under way (`Way`), and `Duel` says for every node `p` which numbers go with which state of `p` and
  of the two competitors (`Local(p)`). First never gives a lock back, so a LOCK on its way to First, or on First's record, means that
  `p` is locked for it (`FirstHolds`); a LOCK of Second means so as long as no FAIL has reached Second (`SecondHolds`), because
  Second gives a lock back only after a FAIL, and a FAIL on record keeps it out of the section until it has a LOCK in its place. When First
  is done, some common arbiter gives First no answer any more and Second one LOCK at most, so that neither enters twice (`Settled`). In the section a competitor has the LOCK of every arbiter, hence of the
  common ones, and one arbiter cannot be locked for both. Each handler is described once in these terms (a `View`: what
  it takes, what it adds, what becomes of the node), and one lemma per handler shows that `Local` of every node is kept.
  TLC checked the invariant on five instances, some of them with message loss, before it was proved.
* **LAKNode, `TypeCorrect`.** `IInv` adds to the types that the network holds typed messages, and that
  `token_list` only has numbers a TOKEN may carry, so that the last entry (`Final`) exists. A RELAY is
  sent only when the holder is known, which makes its addressee a node.
* **`TokenNeverLost`.** `Somewhere(n)`, the token's being at `n`, in `n`'s mailbox or in `n`'s stream, is kept by each
  step for one node or passed to another. Every handler that clears `has_token` sends a TOKEN in the same step,
  and a TOKEN leaves a mailbox only for `has_token`, for another TOKEN, or for `hung`. It is proved with
  `IInv`, which says that the addressee is a node, so that the switch does not discard it.
* **`OneTokenForTwo`, `MutexForTwo`, `TokenInSection`** (LAKNode). For any number of requests the code keeps these three only where no request is
  relayed (section 3). `Neighbours` is the smallest such case with contention: node 1, the first holder, and `Partner` are in each other's
  quorum, nobody else asks, each of the two asks again only when its own last request is over, and the network loses nothing. The two may ask at any moment of
  each other's requests, sections and hand-overs, and any number of times; the quorums may have any size and have common members, and
  the other nodes may be any; `lak_long` is an instance. A node always asks whom it takes for the holder, the other one, and the question is whether the request can come there
  at a bad moment: before the token has, in the section, or after the token has gone again. The invariant `TurnInv` answers it by
  the line from each to the other (`Line`: what has arrived, and behind it what is still in the sender's stream). `LinesOK` says
  what may be in it (`Words`) and in which order (`Ordered`): news first, then the token, then RELEASEs, and a REQUEST last, so that a request that chases the
  token cannot overtake it. `PhaseOK` says what else holds: one of the two has the token and both know it, and it may have collected the
  other's request, if it is in its section and nothing is on the way to it (`Holds`); the token is in the line to one of them, who is still the one that waits (`Passing`); or the parser of
  the new holder has not returned (`Swallowed`), after which nobody has the token. `OthersOK` says that the other nodes hear news only and have nothing to say.
  So a REQUEST comes to a node with the token, or to one whose parser hangs, and no RELAY is ever sent, each of which may make a token elsewhere. TLC checked the
  invariant on three instances before it was proved.
* **`NoneLeftBehind`** has no hypothesis about quorums: `SectionHasToken` is enough, because a request is put
  on the list only in the section, and `finishCS` and each handover empty it. It is stated with `[]SectionHasToken` on the left;
  with `TokenInSection` it holds for the two neighbours without it.
* **`UsesNet`** (MAKNode and LAKNode). `Spec => NetSpec`: a handler consumes the head of the mailbox and appends one burst to
  the stream, even where the code sends in several loops.
* **Transport, `TypeCorrect`, `Refinement`, `WholeMessages`.** `Refinement` is `Spec => Net!CutSpec`, `WholeMessages` is
  `Spec => Net!NetSpec` for `Cut = {}`. Moving a message from `msgs` to
  `stream` or from there to `held` leaves the concatenation unchanged; handing it to a connection takes it from its
  head and appends it to the mailbox in one step. A message of a node whose stream may be cut is garbled in place, or garbage appears in front of it, while the
  switch process holds nothing (`Garble`). The steps that lose a message need to know whose it can be: `AllSound` says that a
  switch process that is gone has left nothing behind, that nothing is left to read of a stream that is whole, and that everybody listens once a node
  that is neither in `Cut` nor in `Early` has been started, so that a refused connection is the `Drop` of an early node, or goes to a node that was killed (`Miss`).
* **SocketThreads, `SentInOrder`.** `InOrder` says nothing of the queue, so the invariant `OrderInv` says what the send
  thread will write next: while the descriptor is open and the peer alive, the queue continues where the stream
  ends, without gaps, up to the message sent last. That `disconnect` empties the queue does no harm because whoever is at `clear` has
  closed the descriptor before (`ClearsClosed`); nobody else touches the queue between the test and the write because
  the send thread holds the lock then (`WriterHolds`); END is the last message sent (`EndIsLast`).
* **`NoMessageLost`.** `Drains`: as long as the switch lives, nothing ends before everything is read. A connection ends in
  three ways: `main` has seen the testbed's signal, which answers the node's END, which is its last message (so
  the queue and the stream are empty); a read fails or a write fails, which, as the peer lives, needs a closed descriptor; and a thread sees `m_thread_running` cleared. Each
  begins with the first, so `Ending` implies `Drained`, and the `clear` of the queue clears nothing.
* **`DeletedLast`.** `main` may get to the deletion past a refused join: a thread that somebody else waits for cannot be
  joined. `JoinOrder` says who waits for whom: who has been let in to wait stays until the other is done (`Waits`); a send thread
  in `disconnect` has the lock and gets no further than `clear`, where it waits for that lock (`SendLeaves`); and so
  `main` gets past the send thread only when that one has ended, since the only other thread that could wait for it, and make
  `main`'s join be refused, is the receive thread, and that has ended, or is waited for by the send thread, when `main` gets there (`Passed`).
  Of the receive thread `UseInv` says the rest: it is past its last join when `m_socket` is -1, so that a `main` that returns early deletes the socket under it at most
  when it is about to read the listener (`LastLook`); and as long as the switch process lives it is `main` that ends the connection
  (`MainFirst`), so that the receive thread is joined before the deletion.
* **TestRun, `NoneStoppedEarly`**, with `Apart`. `term_wait` counts connections, so the invariant counts them: what has been
  counted, the connections waiting, and the ENDs still in a pipe together are at most as many as the nodes
  of this round whose run loop is over (`Counted`). When the count reaches the number of nodes, both sides are equal and
  every node has finished (`AllOver`): two finite sets again. It needs that nothing of an earlier round
  is under way when a round begins, that END is the last message of a process, and that no process runs before its
  START (`Order`: which processes are in which state at which step of `main`).
* **`OneAtATime`**, from the same invariant and with `Apart`: the second round begins only when every node of the first is over (`FirstOver`).
* **`LogsRead`**, with `Apart`. That a log is complete when it is read is known to nobody: `term_wait` knows how many nodes have
  connected. `LogInv` follows each line: once a switch has opened a node's log, the log is of this round, and its lines with what is still
  in the node's pipe are what the node has sent, END included (`Accounts`). A node is on record when its run loop is over and its pipe
  empty, so that its log is complete; connections to the testbed come only of such nodes (`Signaled`), and the number counted is
  at most that of the nodes on record (`Logged`, `Heard`), so that the full number is all of them. When the second round
  begins, every process of the first is on record (`FirstLogged`) and what was read then stays true (`Read`).
* **Setup, `QuorumsMeet` and `MembershipMutual`.** `GridInv` says that the i-th quorum made is that of the i-th cell
  of the grid, that is of node i. For cells `(r, c)` and `(s, d)` with `r <= s`, the cell `(r, d)` is not
  after `(s, d)`, hence filled, and in the row of the one and the column of the other. Mutuality is that
  two nodes are in each other's quorum exactly when they share a row or a column, because different
  cells have different numbers. The first proves for any number of nodes what the algorithms rely on and
  TLC checks up to 36.
* **`TestPrepared`** (Setup). `contact_servers` goes through machine numbers, and the quorum files through node numbers. `Trans` maps node
  `i` to the `i`-th number that is no multiple of five, so the invariant says how far the loop is in those terms (`Contacting`): after
  machine `m` as many nodes have been contacted as there are non-multiples of five up to `m`, which is `m - m \div 5`, and every
  machine up to `m`, switch or not, has been contacted. When the count reaches the number of nodes, the last of these machines is a node, and only the switch
  of that node is still to come (`Contacted`). That each has a
  quorum file uses `GridInv` and that the grid has room for every node: its side squared is at least their number.
* **`SchedulesRight`** (TestbedFiles). `read_config` has no line number, so the invariant `ReadInv` recovers it from the length of what is
  unread (`Located`): the loop has dealt with the lines before `Past`, and is inside the inner loop exactly when a `request_start` above is still open
  (`Nested`). `Stored` says that the list of each node holds the requests for it among the lines dealt with, the one of rank `r` (the
  number of such lines up to it) at place `r`. If the file ends inside a block the loop never leaves it (`Stuck`), and
  nothing is written.
* **`MessagesCounted`** (TestbedFiles). `get_results` takes lines two at a time. `LogLinesFacts` says what the lines of a log are like:
  a line that begins a record is followed by one that does not, and there are as many message lines as messages; if no record is split, line `2i - 1` is the
  `i`-th record and line `2i` its length. With that, `CountInv` compares the two counters, at each line, with the messages read so far and with
  the set of their bytes (`Counted`). A pair of lines holds at most one message line, and it counts one if it does, so the number is never too low. The
  lines of a log are a recursive function of it (`FlattenSeq`); since the induction theorems cannot be used, its existence and its property are each shown by looking at
  the smallest number for which they fail (`SmallestElement`, from the library's theorem that `<` is well-founded).

Only model-checked:

* liveness, which is out of the prover's reach: `Served`, `SectionEnds`, `RequestServed`, `CollectedServed`, `Ends`,
  `HangsOnlyAtWrite`, `Completes`, `ReadsToTheEnd`, and the fairness part of `ImplementsNet`;
* what the theorems with a hypothesis leave out: LAKNode's `Mutex`, `SectionHasToken` and `NeverUnsatisfied` on `lak_peers`, and `OneToken` and
  `NobodyMisled` on `lak_handover`, where requests overlap and some are relayed; the code keeps them there and loses them with one more node or
  request, so that no theorem for all sizes covers these runs.

The other invariants and safety action properties of the runs that pass are stated by a theorem, those the code does not keep for everyone
under the hypothesis named above; `UnprocessedStay` of MAKNode is checked by TLC only.

## 5. Not modelled, and what could come next

Not modelled, and why:

* `dumpswitch`, `listenserver_old`, `socket_old`: superseded, nothing starts or links them.
* `get_conflict`, `get_runtime`, `get_wait` and the branches of `get_results` behind `testbed.cpp:608`: no log of this program takes
  them, so that the list of sections is always the single empty one.
* The last tick (60000) of the run loop in MAKNode and LAKNode: after it nothing is promised. It is `Finish` in TestRun. Requests
  scheduled at time 0, at equal times or after the end never fire; the schedule is an input of the models.
* A process of a listening server that has carried out its command goes on reading from a closed connection; nobody
  waits for it and it changes nothing.
* `Thread` and `MutexLock` as such: what they do is in the joins and the lock of SocketThreads.
* The constructor of `Socket` for accepted connections, its getters, the answers of a switch to its node (only printed), the node's own
  log file, printing, delays of a congested switch (a longer wait).
* Scripts, build files and sample data have no logic.

What could come next: the list in a TOKEN as a sequence of numbers (`message_string` and `string_message`) against
the abstraction that LAKNode uses (`Token`, `Parsed`); what a node makes of a garbled message; a testbed whose own `recv` is cut; for LAKNode's two neighbours,
a network that loses messages, and pairs that are not in each other's quorum.
