------------------------------- MODULE MAKNode -------------------------------
(***************************************************************************)
(* The run loop of src/node/MAKNode.cpp: Maekawa's quorum based mutual     *)
(* exclusion.  A node is at once a requester and an arbiter with one lock. *)
(* It asks the other members of its quorum for their lock (REQUEST),       *)
(* enters the critical section when all of them have answered and none of  *)
(* the answers on record is a FAIL, and gives the locks back with RELEASE; *)
(* INQUIRE and RELINQUISH take a lock back from a requester that waits.    *)
(* A node is one thread: each action is one handler of the run loop, from  *)
(* its first statement to its last.  A request may fire at any tick of     *)
(* the loop (time_schedule is an input) and the critical section ends at   *)
(* any later tick (CS_time is an input).                                   *)
(***************************************************************************)
EXTENDS SwitchNet, RequestOrder, SequencesExt

CONSTANTS
  Schedule,   \* Schedule[n]: how many requests the time_schedule of n holds
  Spaced      \* TRUE: a time_schedule starts a request only when the last one is over

ASSUME ScheduleAssumption == Schedule \in [Nodes -> Nat]
ASSUME SpacedAssumption == Spaced \in BOOLEAN

VARIABLES
  seq,            \* seq[n]: number of n's next request
  is_locked,      \* is_locked[n]: n's lock is given away
  locked_for,     \* locked_for[n]: the request it is given to, <<seq, node>>
  waiting_queue,  \* waiting_queue[n]: the requests n knows to be unfinished
  is_inCS,        \* is_inCS[n]: n is in the critical section
  response_map,   \* response_map[n]: node -> its last answer, LOCK or FAIL
  inquiry_list,   \* inquiry_list[n]: the senders of the INQUIREs n keeps, in set order
  hung            \* hung[n]: n's thread is stuck inside a library call

arbiterVars == <<is_locked, locked_for, waiting_queue>>
requesterVars == <<is_inCS, response_map, inquiry_list>>
nodeVars == <<seq, arbiterVars, requesterVars, hung>>
vars == <<netVars, nodeVars>>

-----------------------------------------------------------------------------
(* Requests and messages.                                                  *)

NoLock == <<-1, -1>>

\* What *begin() of an empty waiting_queue yields in this build: the node id is
\* read from the high half of the set's size, 0; the number is never used.
Stray == <<0, 0>>

\* The request the schedule starts next.  Faulty forms: the pair written the wrong
\* way round; the number incremented before it is used.
SwappedRequest(n) == <<n, seq[n]>>
AheadRequest(n) == <<seq[n] + 1, n>>
OwnRequest(n) == <<seq[n], n>>

\* The request that holds the lock of a node whose queue is q.  Faulty form: the
\* lock is not handed on.
Unlocked(q) == NoLock
NextHolder(q) == IF q = {} THEN NoLock ELSE Begin(q)

Request(r) == [type |-> "REQUEST", from |-> r[2], seq |-> r[1]]
Reply(t, n) == [type |-> t, from |-> n]

Init ==
  /\ NetInit
  /\ seq = [n \in Nodes |-> 1]
  /\ is_locked = [n \in Nodes |-> FALSE]
  /\ locked_for = [n \in Nodes |-> NoLock]
  /\ waiting_queue = [n \in Nodes |-> {}]
  /\ is_inCS = [n \in Nodes |-> FALSE]
  /\ response_map = [n \in Nodes |-> <<>>]
  /\ inquiry_list = [n \in Nodes |-> <<>>]
  /\ hung = [n \in Nodes |-> FALSE]

-----------------------------------------------------------------------------
(* The arbiter.                                                            *)

\* The environment's side of a spaced schedule: n's last request is over.
Over(n) == ~is_inCS[n] /\ \A r \in waiting_queue[n] : r[2] # n

\* The schedule fires: n queues its own request and takes its own lock for it,
\* whoever holds that lock, then asks the rest of the quorum.
SendRequest(n) ==
  /\ ~hung[n]
  /\ seq[n] <= Schedule[n]
  /\ Spaced => Over(n)
  /\ LET r == OwnRequest(n)
     IN  /\ waiting_queue' = [waiting_queue EXCEPT ![n] = @ \cup {r}]
         /\ locked_for' = [locked_for EXCEPT ![n] = r]
         /\ Emit(n, ToPeers(n, Request(r)))
  /\ seq' = [seq EXCEPT ![n] = @ + 1]
  /\ is_locked' = [is_locked EXCEPT ![n] = TRUE]
  /\ UNCHANGED <<requesterVars, hung>>

\* n takes a message of type t out of its m_message_queue.
Receives(n, t) == ~hung[n] /\ mailbox[n] # <<>> /\ Head(mailbox[n]).type = t

\* A locked node answers FAIL unless the new request is the first of the queue;
\* then it inquires of the holder of its lock, or, when it is itself the holder,
\* hands the lock over at once.
ReceiveRequest(n) ==
  /\ Receives(n, "REQUEST")
  /\ LET msg == Head(mailbox[n])
         r == <<msg.seq, msg.from>>
         wq == waiting_queue[n] \cup {r}
         grant == ~is_locked[n] \/ (Begin(wq) = r /\ locked_for[n][2] = n)
         inquire == ~grant /\ Begin(wq) = r
     IN  /\ waiting_queue' = [waiting_queue EXCEPT ![n] = wq]
         /\ is_locked' = [is_locked EXCEPT ![n] = TRUE]
         /\ locked_for' = [locked_for EXCEPT ![n] = IF grant THEN r ELSE @]
         /\ \/ grant /\ Consume(n, To(msg.from, Reply("LOCK", n)))
            \/ inquire /\ Consume(n, To(locked_for[n][2], Reply("INQUIRE", n)))
            \/ ~grant /\ ~inquire /\ Consume(n, To(msg.from, Reply("FAIL", n)))
  /\ UNCHANGED <<seq, requesterVars, hung>>

\* The holder gives the lock back: it goes to the first request of the queue,
\* also when that is n's own, and to the stray entry when the queue is empty.
ReceiveRelinquish(n) ==
  /\ Receives(n, "RELINQUISH")
  /\ LET first == IF waiting_queue[n] = {} THEN Stray ELSE Begin(waiting_queue[n])
     IN  /\ locked_for' = [locked_for EXCEPT ![n] = first]
         /\ Consume(n, To(first[2], Reply("LOCK", n)))
  /\ is_locked' = [is_locked EXCEPT ![n] = TRUE]
  /\ UNCHANGED <<seq, waiting_queue, requesterVars, hung>>

\* The queue without the first request of node m, if there is one.  Faulty form:
\* the first request of the queue goes, whoever sent it.
WithoutFirst(q, m) == q \ {Begin(q)}
Without(q, m) ==
  LET own == {r \in q : r[2] = m} IN IF own = {} THEN q ELSE q \ {Begin(own)}

\* The first request of the sender leaves the queue; the lock goes to the first
\* request that is left, with a LOCK when that is another node's.
ReceiveRelease(n) ==
  /\ Receives(n, "RELEASE")
  /\ LET wq == Without(waiting_queue[n], Head(mailbox[n]).from)
     IN  /\ waiting_queue' = [waiting_queue EXCEPT ![n] = wq]
         /\ is_locked' = [is_locked EXCEPT ![n] = @ /\ wq # {}]
         /\ locked_for' = [locked_for EXCEPT ![n] = NextHolder(wq)]
         /\ Consume(n, IF wq = {} \/ Begin(wq)[2] = n
                       THEN <<>> ELSE To(Begin(wq)[2], Reply("LOCK", n)))
  /\ UNCHANGED <<seq, requesterVars, hung>>

-----------------------------------------------------------------------------
(* The requester.                                                          *)

Answered(n) == DOMAIN response_map[n]

\* response_map after the answer m: the sender's entry is added or replaced.
Recorded(n, m) ==
  [x \in Answered(n) \cup {m.from} |-> IF x = m.from THEN m.type ELSE response_map[n][x]]

NoFail(rm) == \A x \in DOMAIN rm : rm[x] # "FAIL"

\* The test for entering the critical section.  Faulty form: one answer short.
EntersEarly(n, rm) == Cardinality(DOMAIN rm) >= Len(Peers[n]) - 1 /\ NoFail(rm)
Enters(n, rm) == Cardinality(DOMAIN rm) = Len(Peers[n]) /\ NoFail(rm)

\* accessCS is entered with as many answers on record as n has peers and no
\* FAIL among them; it does nothing when n is in the critical section already.
ReceiveLocked(n) ==
  /\ Receives(n, "LOCK")
  /\ LET rm == Recorded(n, Head(mailbox[n]))
     IN  /\ response_map' = [response_map EXCEPT ![n] = rm]
         /\ is_inCS' = [is_inCS EXCEPT ![n] = @ \/ Enters(n, rm)]
  /\ Consume(n, <<>>)
  /\ UNCHANGED <<seq, arbiterVars, inquiry_list, hung>>

\* A RELINQUISH to every node on the list.  Faulty forms: the list is only
\* cleared; the locks nobody inquired for are given back too.
NoRelinquish(n) == <<>>
RelinquishAll(n) == ToPeers(n, Reply("RELINQUISH", n))
Relinquishes(n) ==
  [i \in 1..Len(inquiry_list[n]) |->
     [to |-> inquiry_list[n][i], msg |-> Reply("RELINQUISH", n)]]

\* A FAIL is recorded and every INQUIRE on the list is answered.
ReceiveFailed(n) ==
  /\ Receives(n, "FAIL")
  /\ response_map' = [response_map EXCEPT ![n] = Recorded(n, Head(mailbox[n]))]
  /\ Consume(n, Relinquishes(n))
  /\ inquiry_list' = [inquiry_list EXCEPT ![n] = <<>>]
  /\ UNCHANGED <<seq, arbiterVars, is_inCS, hung>>

\* An INQUIRE is ignored in the critical section, answered when a FAIL is on
\* record and kept otherwise.  inquiry_list is sorted by seq, which the parser
\* leaves uninitialised in an INQUIRE: the entry lands anywhere in the list, or
\* is lost as equal to an earlier one of the same sender.
ReceiveInquiry(n) ==
  /\ Receives(n, "INQUIRE")
  /\ LET from == Head(mailbox[n]).from
     IN  \/ /\ is_inCS[n]
            /\ Consume(n, <<>>)
            /\ UNCHANGED inquiry_list
         \/ /\ ~is_inCS[n] /\ ~NoFail(response_map[n])
            /\ Consume(n, To(from, Reply("RELINQUISH", n)))
            /\ UNCHANGED inquiry_list
         \/ /\ ~is_inCS[n] /\ NoFail(response_map[n])
            /\ Consume(n, <<>>)
            /\ \/ \E i \in 1..(Len(inquiry_list[n]) + 1) :
                    inquiry_list' = [inquiry_list EXCEPT ![n] = InsertAt(@, i, from)]
               \/ /\ \E i \in 1..Len(inquiry_list[n]) : inquiry_list[n][i] = from
                  /\ UNCHANGED inquiry_list
  /\ UNCHANGED <<seq, arbiterVars, is_inCS, response_map, hung>>

\* The critical section ends: the first request of n's own queue, whoever sent
\* it, is taken for the finished one.  If a request is left, n's lock goes to
\* the first: a request of n's own is sent to the quorum again.
FinishCS(n) ==
  /\ ~hung[n] /\ is_inCS[n]
  /\ waiting_queue[n] # {}
  /\ response_map' = [response_map EXCEPT ![n] = <<>>]
  /\ inquiry_list' = [inquiry_list EXCEPT ![n] = <<>>]
  /\ is_inCS' = [is_inCS EXCEPT ![n] = FALSE]
  /\ LET wq == waiting_queue[n] \ {Begin(waiting_queue[n])}
         released == ToPeers(n, Reply("RELEASE", n))
     IN  /\ waiting_queue' = [waiting_queue EXCEPT ![n] = wq]
         /\ is_locked' = [is_locked EXCEPT ![n] = wq # {}]
         /\ locked_for' = [locked_for EXCEPT ![n] = NextHolder(wq)]
         /\ \/ wq = {} /\ Emit(n, released)
            \/ /\ wq # {} /\ Begin(wq)[2] = n
               /\ Emit(n, released \o ToPeers(n, Request(Begin(wq))))
            \/ /\ wq # {} /\ Begin(wq)[2] # n
               /\ Emit(n, released \o To(Begin(wq)[2], Reply("LOCK", n)))
  /\ UNCHANGED <<seq, hung>>

\* finishCS with an empty queue: erase(begin()) of an empty std::set does not
\* return in this build.  What precedes the erase has been done.
FinishCSHangs(n) ==
  /\ ~hung[n] /\ is_inCS[n]
  /\ waiting_queue[n] = {}
  /\ is_locked' = [is_locked EXCEPT ![n] = FALSE]
  /\ locked_for' = [locked_for EXCEPT ![n] = NoLock]
  /\ response_map' = [response_map EXCEPT ![n] = <<>>]
  /\ inquiry_list' = [inquiry_list EXCEPT ![n] = <<>>]
  /\ hung' = [hung EXCEPT ![n] = TRUE]
  /\ UNCHANGED <<netVars, seq, waiting_queue, is_inCS>>

-----------------------------------------------------------------------------
Handle(n) ==
  \/ ReceiveRequest(n) \/ ReceiveRelinquish(n) \/ ReceiveRelease(n)
  \/ ReceiveLocked(n) \/ ReceiveFailed(n) \/ ReceiveInquiry(n)

Finish(n) == FinishCS(n) \/ FinishCSHangs(n)

NodeStep(n) == SendRequest(n) \/ Handle(n) \/ Finish(n)

Switch(n) == SwitchStep(n) /\ UNCHANGED nodeVars

Next == \E n \in Nodes : NodeStep(n) \/ Switch(n)

Spec == Init /\ [][Next]_vars

\* The run loop polls the mailbox and the timer for ever, and every switch
\* process keeps reading: none of them stops while it has something to do.
\* When the schedule fires is an input, so no fairness for SendRequest.
Fairness ==
  \A n \in Nodes : WF_vars(Handle(n)) /\ WF_vars(Finish(n)) /\ WF_vars(Switch(n))

FairSpec == Spec /\ Fairness

-----------------------------------------------------------------------------
(* Properties.                                                             *)

Requests == UNION {(1..Schedule[n]) \X {n} : n \in Nodes}

Message ==
  {Request(r) : r \in Requests}
    \cup [type : {"LOCK", "FAIL", "INQUIRE", "RELINQUISH", "RELEASE"}, from : Nodes]

Answers == UNION {[S -> {"LOCK", "FAIL"}] : S \in SUBSET Nodes}

\* Every variable of MAKNode.h and of the network holds a value of its type, and
\* no request has a number beyond the schedule's.
TypeOK ==
  /\ outq \in [Nodes -> Seq([to : Nodes \cup {0}, msg : Message])]
  /\ mailbox \in [Nodes -> Seq(Message)]
  /\ seq \in [Nodes -> Nat]
  /\ \A n \in Nodes : seq[n] \in 1..(Schedule[n] + 1)
  /\ is_locked \in [Nodes -> BOOLEAN]
  /\ locked_for \in [Nodes -> Requests \cup {NoLock, Stray}]
  /\ waiting_queue \in [Nodes -> SUBSET Requests]
  /\ is_inCS \in [Nodes -> BOOLEAN]
  /\ response_map \in [Nodes -> Answers]
  /\ inquiry_list \in [Nodes -> Seq(Nodes)]
  /\ hung \in [Nodes -> BOOLEAN]

\* A request never waits at a node whose lock is free (it would get neither LOCK
\* nor FAIL): only a hung node has requests in its queue and a free lock.
NoIdleLock == \A n \in Nodes : waiting_queue[n] # {} /\ ~hung[n] => is_locked[n]

\* The lock of a node is held by a request of the node's queue, so that some
\* RELEASE will hand it on; a stray holder is left only by a RELINQUISH that
\* found the queue empty.
HolderQueued ==
  \A n \in Nodes : is_locked[n] => locked_for[n] \in waiting_queue[n] \cup {Stray}

\* is_locked and locked_for, which the handlers of MAKNode.cpp assign apart from
\* each other, agree: a free lock has no holder.
FreeHasNoHolder == \A n \in Nodes : ~is_locked[n] => locked_for[n] = NoLock

LockInv == NoIdleLock /\ HolderQueued /\ FreeHasNoHolder

\* A queue only holds requests that their owner has sent, and of owners in whose
\* quorum the node is, whatever was queued again, erased or sent twice.
QueueIssued ==
  \A n \in Nodes : \A r \in waiting_queue[n] :
    r[1] < seq[r[2]] /\ n \in PeerSet(r[2]) \cup {r[2]}

\* The answers a node counts come from its own quorum: no LOCK or FAIL of
\* another node ever gets into response_map.
AnswersFromQuorum ==
  \A n \in Nodes : Answered(n) \subseteq PeerSet(n) \cup {n}

\* A node that enters the critical section has a LOCK of every other member of
\* its quorum, unless it has counted a LOCK of its own, which receive_relinquish may send it.
EntryAnswered ==
  [][\A n \in Nodes : ~is_inCS[n] /\ is_inCS'[n] /\ n \notin Answered(n)' =>
       \A p \in PeerSet(n) : p \in Answered(n)' /\ response_map'[n][p] = "LOCK"]_vars

\* A RELINQUISH is handled by a node whose lock the sender still holds: the lock
\* is never taken from a third node because of a late RELINQUISH.
RelinquishFromHolder ==
  \A n \in Nodes : Receives(n, "RELINQUISH") => locked_for[n][2] = Head(mailbox[n]).from

\* A node with a request of its own in its queue gets into the critical section,
\* unless a node hangs: no request is lost, and the nodes do not wait for each
\* other for ever.
Served ==
  \A n \in Nodes : (\E r \in waiting_queue[n] : r[2] = n)
                     ~> (is_inCS[n] \/ \E m \in Nodes : hung[m])

-----------------------------------------------------------------------------
(* What the source says of the program, and the code keeps on some         *)
(* instances only.                                                         *)

\* MAKNode.h, "mutual exclusion": no two nodes are in the critical section at
\* the same time.
Mutex == \A m, n \in Nodes : is_inCS[m] /\ is_inCS[n] => m = n

\* The constructor of MAKNode, "for the requests haven't been processed": as long
\* as a node's request is in its own queue, the nodes that have queued it keep it
\* until its owner's RELEASE is handled.
UnprocessedStay ==
  [][\A n \in Nodes : \A r \in waiting_queue[n] \ waiting_queue'[n] :
       r \in waiting_queue[r[2]] => r[2] = n]_vars

\* finishCS, "send release message after finish CS": a critical section ends.
SectionEnds == \A n \in Nodes : is_inCS[n] ~> ~is_inCS[n]

=============================================================================
