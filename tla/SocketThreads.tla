---------------------------- MODULE SocketThreads ----------------------------
(***************************************************************************)
(* One node process and its Socket: the main thread (Node::start and the   *)
(* run loop), the send thread and the receive thread, the mutex of         *)
(* m_messages, the descriptor, and the end of the process.  Any of the     *)
(* three threads may call Socket::disconnect, which joins the other two.   *)
(* The peer is the switch process of the node; the testbed answers the     *)
(* node's END with an END of its own.                                      *)
(***************************************************************************)
EXTENDS Integers, Sequences

CONSTANTS
  Count,    \* how many messages the run loop sends
  Faults    \* subset of BOOLEAN: may the connection fail, may the switch process die?

ASSUME CountAssumption == Count \in Nat
ASSUME FaultsAssumption == Faults \subseteq BOOLEAN

VARIABLES
  faulty,              \* the environment of this run
  pc,                  \* what each thread does next
  lock,                \* who holds m_queue_lock
  m_messages,          \* the queue the send thread writes from
  sent,                \* the number of the next message given to Socket::send
  m_socket,            \* is m_socket other than -1?
  fd,                  \* the descriptor: open, shut down or closed
  m_thread_running,
  joiner,              \* joiner[t]: the thread that waits, or has waited, for the end of t
  joined,              \* the threads whose end has been waited for
  stream,              \* what is written and not read by the switch yet
  received,            \* what the switch has read
  peer,                \* is the switch process alive?
  m_disconnect_signaled,
  killed               \* SIGPIPE has ended the process

queueVars == <<m_messages, sent>>
socketVars == <<m_socket, fd, m_thread_running>>
joinVars == <<joiner, joined>>
peerVars == <<stream, received, peer, m_disconnect_signaled>>
vars == <<faulty, pc, lock, queueVars, socketVars, joinVars, peerVars, killed>>

Threads == {"main", "send", "receive"}
Nobody == "nobody"

\* Messages are numbered as they are sent: 0 is the node's id, which onConnect
\* sends, and the last one is END.
Last == Count + 1

\* The process lives until main returns or a signal ends it.
Alive == pc["main"] # "done" /\ ~killed

At(t, step) == Alive /\ pc[t] = step
Goes(t, step) == pc' = [pc EXCEPT ![t] = step]

Init ==
  /\ faulty \in Faults
  /\ pc = [t \in Threads |-> IF t = "main" THEN "connect" ELSE "done"]
  /\ lock = Nobody
  /\ m_messages = <<>> /\ sent = 1
  /\ m_socket = FALSE /\ fd = "closed" /\ m_thread_running = FALSE
  /\ joiner = [t \in Threads |-> Nobody] /\ joined = {}
  /\ stream = <<>> /\ received = <<>>
  /\ peer = TRUE /\ m_disconnect_signaled = FALSE /\ killed = FALSE

-----------------------------------------------------------------------------
(* The main thread: Node::start.                                           *)

\* connectHost: onConnect queues the id before the threads are created.  Without
\* a connection there are no threads, and the node goes on all the same.
Connect ==
  /\ At("main", "connect")
  /\ m_socket' = TRUE /\ fd' = "open"
  /\ \/ /\ pc' = [t \in Threads |-> IF t = "main" THEN "run" ELSE "test"]
        /\ m_messages' = <<0>>
        /\ m_thread_running' = TRUE
     \/ /\ faulty
        /\ Goes("main", "run")
        /\ UNCHANGED <<m_messages, m_thread_running>>
  /\ UNCHANGED <<faulty, lock, sent, joinVars, peerVars, killed>>

\* END is the last message.  Faulty form: one message is sent after it.
AfterEnd == sent > Last
AtEnd == sent = Last

\* Socket::send, called by the run loop and, for the last message, by
\* send_end_signal.
Send ==
  /\ At("main", "run") /\ lock = Nobody
  /\ m_messages' = Append(m_messages, sent)
  /\ sent' = sent + 1
  /\ Goes("main", IF AtEnd THEN "wait" ELSE "run")
  /\ UNCHANGED <<faulty, lock, socketVars, joinVars, peerVars, killed>>

\* Node::start waits for the END of the testbed before close_me.  Faulty form: it
\* does not.
NoWait == TRUE
EndSignaled == m_disconnect_signaled

Close ==
  /\ At("main", "wait") /\ EndSignaled
  /\ Goes("main", "disconnect")
  /\ UNCHANGED <<faulty, lock, queueVars, socketVars, joinVars, peerVars, killed>>

-----------------------------------------------------------------------------
(* The send thread.  It holds the lock from the test of the queue until    *)
(* after the write, and keeps it when the write has failed.                *)

SendTest ==
  /\ At("send", "test")
  /\ Goes("send", IF m_thread_running THEN "lock" ELSE "done")
  /\ UNCHANGED <<faulty, lock, queueVars, socketVars, joinVars, peerVars, killed>>

SendLock ==
  /\ At("send", "lock") /\ lock = Nobody
  /\ lock' = "send"
  /\ Goes("send", IF m_messages = <<>> THEN "unlock" ELSE "write")
  /\ UNCHANGED <<faulty, queueVars, socketVars, joinVars, peerVars, killed>>

\* What is left of the queue.  Faulty form: pop is forgotten.
Kept(q) == q
Popped(q) == Tail(q)

\* write: to a live peer it succeeds; to one that has gone it may succeed once
\* more, fail, or raise SIGPIPE, as it does after shutdown; after close it fails.
Write ==
  /\ At("send", "write")
  /\ m_messages' = Popped(m_messages)
  /\ \/ /\ fd = "open"
        /\ stream' = IF peer THEN Append(stream, Head(m_messages)) ELSE stream
        /\ Goes("send", "unlock")
        /\ UNCHANGED killed
     \/ /\ fd = "closed" \/ (fd = "open" /\ ~peer)
        /\ Goes("send", "disconnect")
        /\ UNCHANGED <<stream, killed>>
     \/ /\ fd = "shut" \/ (fd = "open" /\ ~peer)
        /\ killed' = TRUE
        /\ UNCHANGED <<pc, stream>>
  /\ UNCHANGED <<faulty, lock, sent, socketVars, joinVars, received, peer, m_disconnect_signaled>>

\* Faulty form: the lock is not released.
KeptLock == lock
Released == Nobody
SendUnlock ==
  /\ At("send", "unlock")
  /\ lock' = Released
  /\ Goes("send", "test")
  /\ UNCHANGED <<faulty, queueVars, socketVars, joinVars, peerVars, killed>>

-----------------------------------------------------------------------------
(* The receive thread.  The answers of the switch are printed and change   *)
(* nothing: only that read fails or finds the end of the stream matters.   *)

ReceiveTest ==
  /\ At("receive", "test")
  /\ Goes("receive", IF m_thread_running THEN "read" ELSE "done")
  /\ UNCHANGED <<faulty, lock, queueVars, socketVars, joinVars, peerVars, killed>>

ReadFails ==
  /\ At("receive", "read") /\ (fd # "open" \/ ~peer)
  /\ Goes("receive", "disconnect")
  /\ UNCHANGED <<faulty, lock, queueVars, socketVars, joinVars, peerVars, killed>>

-----------------------------------------------------------------------------
(* Socket::disconnect, called by thread t.                                 *)

Disconnect(t) ==
  /\ At(t, "disconnect")
  /\ Goes(t, IF m_socket THEN "shutdown" ELSE "notify")
  /\ UNCHANGED <<faulty, lock, queueVars, socketVars, joinVars, peerVars, killed>>

Shutdown(t) ==
  /\ At(t, "shutdown")
  /\ fd' = IF fd = "open" THEN "shut" ELSE fd
  /\ Goes(t, "close")
  /\ UNCHANGED <<faulty, lock, queueVars, m_socket, m_thread_running, joinVars, peerVars, killed>>

CloseDescriptor(t) ==
  /\ At(t, "close")
  /\ fd' = "closed" /\ m_thread_running' = FALSE
  /\ Goes(t, "joinReceive")
  /\ UNCHANGED <<faulty, lock, queueVars, m_socket, joinVars, peerVars, killed>>

\* pthread_join(other) returns at once when other is t itself or waits for t, when
\* it has been joined, and when another thread waits for it.
Refused(t, other) == other = t \/ joiner[t] = other \/ joiner[other] # Nobody
Join(t, other, step, next) ==
  /\ At(t, step)
  /\ \/ /\ Refused(t, other) /\ joiner[other] # t
        /\ Goes(t, next)
        /\ UNCHANGED joinVars
     \/ /\ ~Refused(t, other)
        /\ joiner' = [joiner EXCEPT ![other] = t]
        /\ UNCHANGED <<pc, joined>>
     \/ /\ joiner[other] = t /\ pc[other] = "done"
        /\ joined' = joined \cup {other}
        /\ Goes(t, next)
        /\ UNCHANGED joiner
  /\ UNCHANGED <<faulty, lock, queueVars, socketVars, peerVars, killed>>

\* Faulty form: the send thread is not waited for.
JoinReceiveOnly(t) == Join(t, "receive", "joinReceive", "clear")
Joins(t) ==
  \/ Join(t, "receive", "joinReceive", "joinSend")
  \/ Join(t, "send", "joinSend", "clear")

\* Faulty form: the lock stays taken.
TakenBy(t) == t
FreedBy(t) == Nobody
Clear(t) ==
  /\ At(t, "clear") /\ lock = Nobody
  /\ m_messages' = <<>>
  /\ lock' = FreedBy(t)
  /\ Goes(t, "unset")
  /\ UNCHANGED <<faulty, sent, socketVars, joinVars, peerVars, killed>>

Unset(t) ==
  /\ At(t, "unset")
  /\ m_socket' = FALSE
  /\ Goes(t, "notify")
  /\ UNCHANGED <<faulty, lock, queueVars, fd, m_thread_running, joinVars, peerVars, killed>>

\* The listener is read from the socket and told, by every caller; onDisconnect does
\* nothing.  The send and the receive thread end then, the send thread with the lock.
Notify(t) ==
  /\ At(t, "notify")
  /\ Goes(t, IF t = "main" THEN "delete" ELSE "done")
  /\ UNCHANGED <<faulty, lock, queueVars, socketVars, joinVars, peerVars, killed>>

Disconnecting(t) ==
  \/ Disconnect(t) \/ Shutdown(t) \/ CloseDescriptor(t) \/ Joins(t)
  \/ Clear(t) \/ Unset(t) \/ Notify(t)

\* The rest of close_me: main deletes the socket, closes the log file and returns,
\* which ends the process.
Delete ==
  /\ At("main", "delete")
  /\ Goes("main", "exit")
  /\ UNCHANGED <<faulty, lock, queueVars, socketVars, joinVars, peerVars, killed>>

Exit ==
  /\ At("main", "exit")
  /\ Goes("main", "done")
  /\ UNCHANGED <<faulty, lock, queueVars, socketVars, joinVars, peerVars, killed>>

-----------------------------------------------------------------------------
(* The other end.                                                          *)

SwitchRead ==
  /\ peer /\ stream # <<>>
  /\ received' = Append(received, Head(stream))
  /\ stream' = Tail(stream)
  /\ UNCHANGED <<faulty, pc, lock, queueVars, socketVars, joinVars, peer, m_disconnect_signaled, killed>>

SwitchDies ==
  /\ faulty /\ peer
  /\ peer' = FALSE /\ stream' = <<>>
  /\ UNCHANGED <<faulty, pc, lock, queueVars, socketVars, joinVars, received, m_disconnect_signaled, killed>>

\* The testbed, which has got this node's END through the switch, sends END to the
\* accept thread.
DisconnectSignal ==
  /\ Alive /\ Last \in {received[i] : i \in DOMAIN received}
  /\ ~m_disconnect_signaled
  /\ m_disconnect_signaled' = TRUE
  /\ UNCHANGED <<faulty, pc, lock, queueVars, socketVars, joinVars, stream, received, peer, killed>>

-----------------------------------------------------------------------------
Main == Connect \/ Send \/ Close \/ Disconnecting("main") \/ Delete \/ Exit
SendThread == SendTest \/ SendLock \/ Write \/ SendUnlock \/ Disconnecting("send")
ReceiveThread == ReceiveTest \/ ReadFails \/ Disconnecting("receive")

Next == Main \/ SendThread \/ ReceiveThread \/ SwitchRead \/ SwitchDies \/ DisconnectSignal

Spec == Init /\ [][Next]_vars

\* The scheduler runs every thread.  Nothing is said about the mutex: the send thread
\* frees it and takes it again without pause, and who waits for it may never get it.
Fairness ==
  /\ WF_vars(Main) /\ WF_vars(SendThread) /\ WF_vars(ReceiveThread)
  /\ WF_vars(SwitchRead) /\ WF_vars(DisconnectSignal)

FairSpec == Spec /\ Fairness

-----------------------------------------------------------------------------
(* Properties.                                                             *)

Steps == {"connect", "run", "wait", "test", "lock", "write", "unlock", "read", "disconnect",
          "shutdown", "close", "joinReceive", "joinSend", "clear", "unset", "notify",
          "delete", "exit", "done"}

TypeOK ==
  /\ faulty \in BOOLEAN
  /\ pc \in [Threads -> Steps]
  /\ lock \in Threads \cup {Nobody}
  /\ m_messages \in Seq(0..Last) /\ sent \in 1..(Last + 1)
  /\ m_socket \in BOOLEAN /\ fd \in {"open", "shut", "closed"} /\ m_thread_running \in BOOLEAN
  /\ joiner \in [Threads -> Threads \cup {Nobody}] /\ joined \subseteq Threads
  /\ stream \in Seq(0..Last) /\ received \in Seq(0..Last)
  /\ peer \in BOOLEAN /\ m_disconnect_signaled \in BOOLEAN /\ killed \in BOOLEAN

Written == received \o stream

\* What the switch reads is what the node sent, from the first message on, in order,
\* without gaps or repetitions, whenever a connection breaks.
InOrder == \A i \in DOMAIN Written : Written[i] = i - 1

\* As long as the switch process lives, every message that Socket::send was given is
\* with the switch, on its way to it or in the queue: disconnect, which empties the
\* queue, finds it empty, and SIGPIPE never strikes.
NothingLost ==
  ~faulty /\ pc["main"] # "connect" =>
    ~killed /\ Len(Written) + Len(m_messages) = sent

\* When main has deleted the socket, no other thread uses it any more; but where the
\* connection broke first, the receive thread, which has set m_socket to -1, may still
\* have to read the listener from it.
DeletedUnused ==
  pc["main"] \in {"exit", "done"} =>
    /\ pc["send"] = "done"
    /\ pc["receive"] = "done" \/ (faulty /\ pc["receive"] = "notify")

\* As long as the switch process lives, the node process ends, although main and the
\* receive thread disconnect the same socket at the same time and each joins the
\* other or itself; unless Socket::send waits for the mutex for ever, which the send
\* thread frees again and again.
Ends ==
  ~faulty => \/ <>(pc["main"] = "done")
             \/ <>[](pc["main"] = "run") /\ []<>(lock = Nobody)

\* The send thread has called disconnect with the lock in its hands.
SendStuck == lock = "send" /\ pc["send"] \notin {"write", "unlock"}

\* If the switch process dies after it has forwarded END, the node process ends all
\* the same, unless the send thread's write has failed.
HangsOnlyAtWrite == m_disconnect_signaled ~> (pc["main"] = "done" \/ killed \/ SendStuck)

=============================================================================
