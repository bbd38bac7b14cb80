------------------------- MODULE SocketThreads_proofs -------------------------
(***************************************************************************)
(* The messages of a socket, for any number of them, in every interleaving *)
(* of its threads, whether or not the switch process dies: what the switch *)
(* reads is what the node has sent, without gaps; as long as the switch    *)
(* process lives nothing is lost; and who may still use the socket when    *)
(* main has deleted it.                                                    *)
(***************************************************************************)
EXTENDS SocketThreads, SequenceTheorems, TLAPS

\* The messages of s are the k-th and the following ones.
Numbered(s, k) == \A i \in 1..Len(s) : s[i] = k + i - 1

Order == Numbered(received, 0) /\ Numbered(stream, Len(received))

\* As long as the connection works, the queue goes on where the stream ends.
Whole ==
  peer /\ fd = "open" /\ pc["send"] # "done" =>
    /\ Numbered(m_messages, Len(received) + Len(stream))
    /\ Len(received) + Len(stream) + Len(m_messages) = sent

\* The send thread holds the lock while it writes, so that nobody clears the queue
\* under its hands.
WriterHolds ==
  /\ pc["send"] = "write" => lock = "send" /\ (killed \/ m_messages # <<>>)
  /\ pc["send"] = "unlock" => lock = "send"

\* disconnect clears the queue of a descriptor that is not open any more.
ClearsClosed ==
  \A t \in Threads : pc[t] \in {"close", "joinReceive", "joinSend", "clear", "unset"} => fd # "open"

\* Nothing happens before the connection is made, and it is made once.
ConnectsFirst ==
  pc["main"] = "connect" =>
    /\ pc["send"] = "done" /\ pc["receive"] = "done"
    /\ m_messages = <<>> /\ stream = <<>> /\ received = <<>> /\ sent = 1

\* The run loop is over when END has been sent.
EndIsLast == pc["main"] \in {"connect", "run"} => sent <= Last

OrderInv ==
  TypeOK /\ Order /\ Whole /\ WriterHolds /\ ClearsClosed /\ ConnectsFirst /\ EndIsLast

-----------------------------------------------------------------------------
LEMMA InitInv == Init => OrderInv
<1>. SUFFICES ASSUME Init PROVE OrderInv
  OBVIOUS
<1>1. TypeOK
  <2>1. pc \in [Threads -> Steps] /\ joiner \in [Threads -> Threads \cup {Nobody}]
    BY DEF Init, Threads, Steps, Nobody
  <2>2. m_messages \in Seq(0..Last) /\ stream \in Seq(0..Last) /\ received \in Seq(0..Last)
    BY DEF Init
  <2>3. sent \in 1..(Last + 1)
    BY CountAssumption DEF Init, Last
  <2>. QED
    BY <2>1, <2>2, <2>3, FaultsAssumption DEF Init, TypeOK, Nobody
<1>2. Order /\ Whole /\ WriterHolds /\ ClearsClosed /\ ConnectsFirst
  BY DEF Init, Order, Numbered, Whole, WriterHolds, ClearsClosed, ConnectsFirst, Threads
<1>3. EndIsLast
  BY CountAssumption DEF Init, EndIsLast, Last
<1>. QED
  BY <1>1, <1>2, <1>3 DEF OrderInv

\* A step that leaves the messages alone keeps them in order, as long as the thread
\* that takes it does not get to a place where it would have to hold something.
LEMMA MovesInv ==
  ASSUME OrderInv, NEW t \in Threads, NEW step \in Steps, Goes(t, step),
         pc[t] \notin {"connect", "done"}, step \notin {"connect", "run"},
         t = "send" /\ step = "write" => lock' = "send" /\ m_messages # <<>>, killed' = killed,
         t = "send" /\ step = "unlock" => lock' = "send",
         pc["send"] \in {"write", "unlock"} /\ t # "send" => lock' = lock,
         step \in {"close", "joinReceive", "joinSend", "clear", "unset"} => fd' # "open",
         fd' = fd \/ fd' # "open",
         UNCHANGED <<queueVars, peerVars>>, TypeOK'
  PROVE  OrderInv'
<1>1. pc' = [pc EXCEPT ![t] = step] /\ pc \in [Threads -> Steps]
  BY DEF Goes, OrderInv, TypeOK
<1>2. UNCHANGED <<m_messages, sent, stream, received, peer>>
  BY DEF queueVars, peerVars
<1>3. Order' /\ Whole'
  <2>1. pc'["send"] # "done" => pc["send"] # "done"
    BY <1>1 DEF Threads
  <2>. QED
    BY <1>2, <2>1 DEF OrderInv, Order, Whole, Numbered
<1>4. WriterHolds'
  BY <1>1, <1>2 DEF OrderInv, WriterHolds, Threads
<1>5. ClearsClosed'
  BY <1>1 DEF OrderInv, ClearsClosed
<1>6. ConnectsFirst' /\ EndIsLast'
  BY <1>1, <1>2 DEF OrderInv, ConnectsFirst, EndIsLast, Threads
<1>. QED
  BY <1>3, <1>4, <1>5, <1>6 DEF OrderInv

-----------------------------------------------------------------------------
(* The steps of the main thread.                                           *)

LEMMA ConnectInv == OrderInv /\ Connect => OrderInv'
<1>. SUFFICES ASSUME OrderInv, Connect PROVE OrderInv'
  OBVIOUS
<1>1. pc["main"] = "connect" /\ pc \in [Threads -> Steps] /\ UNCHANGED <<faulty, lock, sent, joinVars, peerVars, killed>>
  BY DEF Connect, At, OrderInv, TypeOK
<1>2. m_messages = <<>> /\ stream = <<>> /\ received = <<>> /\ sent = 1
      /\ pc["send"] = "done" /\ pc["receive"] = "done"
  BY <1>1 DEF OrderInv, ConnectsFirst
<1>3. \/ m_messages' = <<0>> /\ pc' = [t \in Threads |-> IF t = "main" THEN "run" ELSE "test"]
      \/ m_messages' = <<>> /\ pc' = [pc EXCEPT !["main"] = "run"]
  BY <1>2 DEF Connect, Goes
<1>4. TypeOK'
  <2>1. pc' \in [Threads -> Steps]
    BY <1>1, <1>3 DEF Threads, Steps
  <2>2. m_messages' \in Seq(0..Last)
    <3>1. 0 \in 0..Last
      BY CountAssumption DEF Last
    <3>2. <<0>> \in Seq(0..Last) /\ <<>> \in Seq(0..Last)
      BY <3>1
    <3>. QED
      BY <1>3, <3>2
  <2>. QED
    BY <1>1, <2>1, <2>2 DEF OrderInv, TypeOK, Connect, joinVars, peerVars
<1>5. Order' /\ Whole'
  <2>1. stream' = <<>> /\ received' = <<>> /\ sent' = 1
    BY <1>1, <1>2 DEF peerVars
  <2>2. CASE m_messages' = <<0>>
    <3>1. Len(m_messages') = 1 /\ m_messages'[1] = 0
      BY <2>2
    <3>. QED
      BY <2>1, <3>1 DEF Order, Whole, Numbered
  <2>3. CASE pc' = [pc EXCEPT !["main"] = "run"]
    <3>1. pc'["send"] = "done"
      BY <1>1, <1>2, <2>3 DEF Threads
    <3>. QED
      BY <2>1, <3>1 DEF Order, Whole, Numbered
  <2>. QED
    BY <1>3, <2>2, <2>3
<1>6. WriterHolds' /\ ClearsClosed' /\ ConnectsFirst'
  BY <1>1, <1>2, <1>3 DEF WriterHolds, ClearsClosed, ConnectsFirst, Threads
<1>7. EndIsLast'
  BY <1>1 DEF OrderInv, EndIsLast
<1>. QED
  BY <1>4, <1>5, <1>6, <1>7 DEF OrderInv

LEMMA SendInv == OrderInv /\ Send => OrderInv'
<1>. SUFFICES ASSUME OrderInv, Send PROVE OrderInv'
  OBVIOUS
<1>. DEFINE step == IF AtEnd THEN "wait" ELSE "run"
<1>1. /\ pc["main"] = "run" /\ lock = Nobody
      /\ m_messages' = Append(m_messages, sent) /\ sent' = sent + 1
      /\ pc' = [pc EXCEPT !["main"] = step]
      /\ UNCHANGED <<faulty, lock, socketVars, joinVars, peerVars, killed>>
  BY DEF Send, At, Goes
<1>2. TypeOK
  BY DEF OrderInv
<1>3. sent \in 1..Last /\ Last \in Nat
  BY <1>1, <1>2, CountAssumption DEF OrderInv, EndIsLast, TypeOK, Last
<1>4. AtEnd => sent = Last
  BY DEF AtEnd
<1>5. TypeOK'
  <2>1. pc' \in [Threads -> Steps]
    BY <1>1, <1>2 DEF TypeOK, Steps
  <2>2. m_messages' \in Seq(0..Last) /\ sent' \in 1..(Last + 1)
    BY <1>1, <1>2, <1>3, AppendProperties DEF TypeOK
  <2>. QED
    BY <1>1, <1>2, <2>1, <2>2 DEF TypeOK, socketVars, joinVars, peerVars
<1>6. Order' /\ Whole'
  <2>1. pc'["send"] = pc["send"]
    BY <1>1, <1>2 DEF TypeOK, Threads
  <2>2. UNCHANGED <<stream, received, peer, fd>>
    BY <1>1 DEF peerVars, socketVars
  <2>3. /\ Len(m_messages') = Len(m_messages) + 1
        /\ \A i \in 1..Len(m_messages) : m_messages'[i] = m_messages[i]
        /\ m_messages'[Len(m_messages) + 1] = sent
    BY <1>1, <1>2, AppendProperties DEF TypeOK
  <2>4. Len(m_messages) \in Nat /\ Len(received) \in Nat /\ Len(stream) \in Nat
    BY <1>2, LenProperties DEF TypeOK
  <2>5. Order'
    BY <2>2 DEF OrderInv, Order, Numbered
  <2>6. ASSUME peer, fd = "open", pc["send"] # "done"
        PROVE  /\ Numbered(m_messages', Len(received) + Len(stream))
               /\ Len(received) + Len(stream) + Len(m_messages') = sent'
    <3>1. /\ Numbered(m_messages, Len(received) + Len(stream))
          /\ Len(received) + Len(stream) + Len(m_messages) = sent
      BY <2>6 DEF OrderInv, Whole
    <3>2. ASSUME NEW i \in 1..Len(m_messages')
          PROVE  m_messages'[i] = Len(received) + Len(stream) + i - 1
      <4>1. CASE i \in 1..Len(m_messages)
        BY <2>3, <3>1, <4>1 DEF Numbered
      <4>2. CASE i = Len(m_messages) + 1
        BY <2>3, <2>4, <3>1, <4>2
      <4>. QED
        BY <2>3, <2>4, <3>2, <4>1, <4>2
    <3>. QED
      BY <1>1, <1>3, <2>3, <2>4, <3>1, <3>2 DEF Numbered
  <2>7. Whole'
    BY <2>1, <2>2, <2>6 DEF Whole
  <2>. QED
    BY <2>5, <2>7
<1>7. WriterHolds' /\ ClearsClosed' /\ ConnectsFirst'
  <2>1. \A t \in Threads : t # "main" => pc'[t] = pc[t]
    BY <1>1, <1>2 DEF TypeOK
  <2>2. pc'["main"] \in {"wait", "run"}
    BY <1>1, <1>2 DEF TypeOK, Threads
  <2>3. fd' = fd
    BY <1>1 DEF socketVars
  <2>. QED
    BY <1>1, <2>1, <2>2, <2>3 DEF OrderInv, WriterHolds, ClearsClosed, ConnectsFirst, Threads, Nobody
<1>8. EndIsLast'
  <2>1. CASE AtEnd
    <3>1. pc'["main"] = "wait"
      BY <1>1, <1>2, <2>1 DEF TypeOK, Threads
    <3>. QED
      BY <3>1 DEF EndIsLast
  <2>2. CASE ~AtEnd
    <3>1. sent < Last
      BY <1>3, <2>2 DEF AtEnd
    <3>. QED
      BY <1>1, <1>3, <3>1 DEF EndIsLast
  <2>. QED
    BY <2>1, <2>2
<1>. QED
  BY <1>5, <1>6, <1>7, <1>8 DEF OrderInv

LEMMA CloseInv == OrderInv /\ (Close \/ Delete \/ Exit) => OrderInv'
<1>. SUFFICES ASSUME OrderInv, Close \/ Delete \/ Exit PROVE OrderInv'
  OBVIOUS
<1>1. PICK step \in {"disconnect", "exit", "done"} :
        /\ pc["main"] \in {"wait", "delete", "exit"} /\ Goes("main", step)
        /\ UNCHANGED <<faulty, lock, queueVars, socketVars, joinVars, peerVars, killed>>
  BY DEF Close, Delete, Exit, At
<1>2. TypeOK'
  BY <1>1 DEF OrderInv, TypeOK, Goes, Steps, queueVars, socketVars, joinVars, peerVars
<1>. QED
  BY <1>1, <1>2, MovesInv DEF Threads, Steps, socketVars

-----------------------------------------------------------------------------
(* The steps of the send and the receive thread.                           *)

LEMMA SendTestInv == OrderInv /\ SendTest => OrderInv'
<1>. SUFFICES ASSUME OrderInv, SendTest PROVE OrderInv'
  OBVIOUS
<1>1. PICK step \in {"lock", "done"} :
        /\ pc["send"] = "test" /\ Goes("send", step)
        /\ UNCHANGED <<faulty, lock, queueVars, socketVars, joinVars, peerVars, killed>>
  BY DEF SendTest, At
<1>2. TypeOK'
  BY <1>1 DEF OrderInv, TypeOK, Goes, Steps, queueVars, socketVars, joinVars, peerVars
<1>. QED
  BY <1>1, <1>2, MovesInv DEF Threads, Steps, socketVars

LEMMA SendLockInv == OrderInv /\ SendLock => OrderInv'
<1>. SUFFICES ASSUME OrderInv, SendLock PROVE OrderInv'
  OBVIOUS
<1>1. PICK step \in {"unlock", "write"} :
        /\ pc["send"] = "lock" /\ lock' = "send" /\ Goes("send", step)
        /\ step = "write" => m_messages # <<>>
        /\ UNCHANGED <<faulty, queueVars, socketVars, joinVars, peerVars, killed>>
  BY DEF SendLock, At
<1>2. TypeOK'
  BY <1>1 DEF OrderInv, TypeOK, Goes, Steps, Threads, queueVars, socketVars, joinVars, peerVars
<1>. QED
  BY <1>1, <1>2, MovesInv DEF Threads, Steps, socketVars

LEMMA SendUnlockInv == OrderInv /\ SendUnlock => OrderInv'
<1>. SUFFICES ASSUME OrderInv, SendUnlock PROVE OrderInv'
  OBVIOUS
<1>1. /\ pc["send"] = "unlock" /\ lock' = Nobody /\ Goes("send", "test")
      /\ UNCHANGED <<faulty, queueVars, socketVars, joinVars, peerVars, killed>>
  BY DEF SendUnlock, At, Released
<1>2. TypeOK'
  BY <1>1 DEF OrderInv, TypeOK, Goes, Steps, queueVars, socketVars, joinVars, peerVars
<1>. QED
  BY <1>1, <1>2, MovesInv DEF Threads, Steps, socketVars

\* What is written is the head of the queue, and the next one that the stream lacks.
LEMMA WriteInv == OrderInv /\ Write => OrderInv'
<1>. SUFFICES ASSUME OrderInv, Write PROVE OrderInv'
  OBVIOUS
<1>1. /\ pc["send"] = "write" /\ m_messages' = Tail(m_messages)
      /\ UNCHANGED <<faulty, lock, sent, socketVars, joinVars, received, peer, m_disconnect_signaled>>
      /\ ~killed
  BY DEF Write, At, Alive, Popped
<1>2. TypeOK /\ m_messages # <<>> /\ lock = "send"
  BY <1>1 DEF OrderInv, WriterHolds
<1>. DEFINE q == m_messages
<1>3. /\ q \in Seq(0..Last) /\ Head(q) \in 0..Last /\ Tail(q) \in Seq(0..Last)
      /\ Len(q) \in Nat \ {0} /\ Head(q) = q[1] /\ Len(Tail(q)) = Len(q) - 1
      /\ \A i \in 1..Len(Tail(q)) : Tail(q)[i] = q[i + 1]
  <2>1. q \in Seq(0..Last) /\ q # <<>>
    BY <1>2 DEF TypeOK
  <2>2. Head(q) = q[1] /\ Len(q) \in Nat /\ Len(q) # 0
    BY <2>1
  <2>3. Head(q) \in 0..Last /\ Tail(q) \in Seq(0..Last) /\ Len(Tail(q)) = Len(q) - 1
        /\ \A i \in 1..Len(Tail(q)) : Tail(q)[i] = q[i + 1]
    BY <2>1, HeadTailProperties, Zenon
  <2>. QED
    BY <2>1, <2>2, <2>3
<1>4. stream \in Seq(0..Last) /\ Len(stream) \in Nat /\ Len(received) \in Nat
  BY <1>2, LenProperties DEF TypeOK
<1>5. \/ pc' = [pc EXCEPT !["send"] = "unlock"]
      \/ pc' = [pc EXCEPT !["send"] = "disconnect"]
      \/ pc' = pc /\ killed'
  BY DEF Write, Goes
<1>6. pc'["send"] = "write" => m_messages # <<>>
  BY <1>2
<1>7. stream' = stream \/ (fd = "open" /\ peer /\ stream' = Append(stream, Head(m_messages)))
  BY DEF Write
<1>8. TypeOK'
  <2>1. stream' \in Seq(0..Last)
    BY <1>3, <1>4, <1>7, AppendProperties
  <2>2. pc' \in [Threads -> Steps]
    BY <1>2, <1>5 DEF TypeOK, Steps
  <2>3. killed' \in BOOLEAN
    BY <1>2 DEF Write, TypeOK
  <2>. QED
    BY <1>1, <1>2, <1>3, <2>1, <2>2, <2>3 DEF TypeOK, socketVars, joinVars
<1>9. Order' /\ Whole'
  <2>1. CASE stream' = stream /\ ~(fd = "open" /\ peer)
    BY <1>1, <2>1 DEF OrderInv, Order, Whole, socketVars
  <2>2. CASE fd = "open" /\ peer /\ stream' = Append(stream, Head(q))
    <3>1. Numbered(q, Len(received) + Len(stream)) /\ Len(received) + Len(stream) + Len(q) = sent
      BY <1>1, <2>2 DEF OrderInv, Whole
    <3>2. /\ Len(stream') = Len(stream) + 1 /\ stream'[Len(stream) + 1] = Head(q)
          /\ \A i \in 1..Len(stream) : stream'[i] = stream[i]
      BY <1>3, <1>4, <2>2, AppendProperties
    <3>3. Head(q) = Len(received) + Len(stream)
      BY <1>3, <1>4, <3>1 DEF Numbered
    <3>4. Numbered(stream', Len(received))
      <4>1. ASSUME NEW i \in 1..Len(stream') PROVE stream'[i] = Len(received) + i - 1
        <5>1. CASE i \in 1..Len(stream)
          BY <3>2, <5>1 DEF OrderInv, Order, Numbered
        <5>2. CASE i = Len(stream) + 1
          BY <1>4, <3>2, <3>3, <5>2
        <5>. QED
          BY <1>4, <3>2, <4>1, <5>1, <5>2
      <4>. QED
        BY <4>1 DEF Numbered
    <3>5. Numbered(m_messages', Len(received) + Len(stream'))
      <4>1. ASSUME NEW i \in 1..Len(Tail(q)) PROVE Tail(q)[i] = Len(received) + Len(stream) + 1 + i - 1
        <5>1. i + 1 \in 1..Len(q) /\ Tail(q)[i] = q[i + 1]
          BY <1>3, <4>1
        <5>2. q[i + 1] = Len(received) + Len(stream) + (i + 1) - 1
          BY <3>1, <5>1 DEF Numbered
        <5>. QED
          BY <1>4, <5>1, <5>2
      <4>. QED
        <5>1. Len(received) + Len(stream') = Len(received) + Len(stream) + 1
          BY <1>4, <3>2
        <5>. QED
          BY <1>1, <4>1, <5>1 DEF Numbered
    <3>6. Len(received) + Len(stream') + Len(m_messages') = sent
      BY <1>1, <1>3, <1>4, <3>1, <3>2
    <3>. QED
      BY <1>1, <3>4, <3>5, <3>6 DEF OrderInv, Order, Whole
  <2>. QED
    BY <1>7, <2>1, <2>2 DEF Write
<1>10. WriterHolds' /\ ClearsClosed' /\ ConnectsFirst' /\ EndIsLast'
  <2>1. \A t \in Threads : t # "send" => pc'[t] = pc[t]
    BY <1>2, <1>5 DEF TypeOK
  <2>2. pc'["send"] \in {"unlock", "disconnect"} \/ (pc'["send"] = "write" /\ killed')
    BY <1>1, <1>2, <1>5 DEF TypeOK, Threads
  <2>3. UNCHANGED <<lock, fd, sent, received>>
    BY <1>1 DEF socketVars
  <2>. QED
    BY <1>1, <1>2, <2>1, <2>2, <2>3
       DEF OrderInv, WriterHolds, ClearsClosed, ConnectsFirst, EndIsLast, Threads
<1>. QED
  BY <1>8, <1>9, <1>10 DEF OrderInv

LEMMA ReceiveThreadInv == OrderInv /\ (ReceiveTest \/ ReadFails) => OrderInv'
<1>. SUFFICES ASSUME OrderInv, ReceiveTest \/ ReadFails PROVE OrderInv'
  OBVIOUS
<1>1. PICK step \in {"read", "done", "disconnect"} :
        /\ pc["receive"] \in {"test", "read"} /\ Goes("receive", step)
        /\ UNCHANGED <<faulty, lock, queueVars, socketVars, joinVars, peerVars, killed>>
  BY DEF ReceiveTest, ReadFails, At
<1>2. TypeOK'
  BY <1>1 DEF OrderInv, TypeOK, Goes, Steps, queueVars, socketVars, joinVars, peerVars
<1>. QED
  BY <1>1, <1>2, MovesInv DEF Threads, Steps, socketVars

-----------------------------------------------------------------------------
(* disconnect, whoever calls it.                                           *)

\* All of it but the clearing of the queue and the wait for a thread leaves the
\* queue and the lock alone.
LEMMA DisconnectInv ==
  ASSUME OrderInv, NEW t \in Threads,
         Disconnect(t) \/ Shutdown(t) \/ CloseDescriptor(t) \/ Unset(t) \/ Notify(t)
  PROVE  OrderInv'
<1>1. PICK step \in {"shutdown", "done", "close", "joinReceive", "notify", "delete"} :
        /\ pc[t] \in {"disconnect", "shutdown", "close", "unset", "notify"} /\ Goes(t, step)
        /\ step \in {"close", "joinReceive"} => fd' # "open"
        /\ fd' = fd \/ (fd' # "open" /\ fd' \in {"shut", "closed"})
        /\ UNCHANGED <<faulty, lock, queueVars, joinVars, peerVars, killed>>
  BY DEF Disconnect, Shutdown, CloseDescriptor, Unset, Notify, At, socketVars
<1>2. TypeOK'
  <2>1. m_socket' \in BOOLEAN /\ m_thread_running' \in BOOLEAN
    BY DEF Disconnect, Shutdown, CloseDescriptor, Unset, Notify, OrderInv, TypeOK, socketVars
  <2>2. fd' \in {"open", "shut", "closed"} /\ pc' \in [Threads -> Steps]
    BY <1>1 DEF OrderInv, TypeOK, Goes, Steps
  <2>. QED
    BY <1>1, <2>1, <2>2 DEF OrderInv, TypeOK, queueVars, joinVars, peerVars
<1>. QED
  BY <1>1, <1>2, MovesInv DEF Steps

LEMMA JoinInv ==
  ASSUME OrderInv, NEW t \in Threads, Joins(t)
  PROVE  OrderInv'
<1>1. PICK other \in Threads, step \in {"joinReceive", "joinSend"}, next \in {"joinSend", "clear"} :
        Join(t, other, step, next)
  BY DEF Joins, Threads
<1>2. /\ pc[t] = step
      /\ UNCHANGED <<faulty, lock, queueVars, socketVars, peerVars, killed>>
  BY <1>1 DEF Join, At
<1>3. \/ Goes(t, next) /\ joinVars' = joinVars
      \/ pc' = pc /\ joiner' = [joiner EXCEPT ![other] = t] /\ joined' = joined
      \/ Goes(t, next) /\ joined' = joined \cup {other} /\ joiner' = joiner
  BY <1>1 DEF Join, joinVars
<1>4. TypeOK'
  <2>1. pc' \in [Threads -> Steps]
    BY <1>3 DEF OrderInv, TypeOK, Goes, Steps
  <2>2. joiner' \in [Threads -> Threads \cup {Nobody}]
    <3>1. joiner' = joiner \/ joiner' = [joiner EXCEPT ![other] = t]
      BY <1>3 DEF joinVars
    <3>. QED
      BY <3>1 DEF OrderInv, TypeOK
  <2>3. joined' \subseteq Threads
    BY <1>3 DEF OrderInv, TypeOK, joinVars
  <2>. QED
    BY <1>2, <2>1, <2>2, <2>3 DEF OrderInv, TypeOK, queueVars, socketVars, peerVars
<1>5. CASE Goes(t, next)
  <2>1. fd # "open" /\ fd' = fd
    BY <1>2 DEF OrderInv, ClearsClosed, socketVars
  <2>. QED
    BY <1>2, <1>4, <1>5, <2>1, MovesInv DEF Steps
<1>6. CASE pc' = pc
  BY <1>2, <1>4, <1>6
     DEF OrderInv, Order, Whole, WriterHolds, ClearsClosed, ConnectsFirst, EndIsLast,
         queueVars, socketVars, peerVars
<1>. QED
  BY <1>3, <1>5, <1>6

\* disconnect may throw messages away, but then nothing is written any more.
LEMMA ClearInv ==
  ASSUME OrderInv, NEW t \in Threads, Clear(t)
  PROVE  OrderInv'
<1>1. /\ pc[t] = "clear" /\ lock = Nobody /\ m_messages' = <<>> /\ lock' = Nobody
      /\ pc' = [pc EXCEPT ![t] = "unset"]
      /\ UNCHANGED <<faulty, sent, socketVars, joinVars, peerVars, killed>>
  BY DEF Clear, At, FreedBy, Goes
<1>2. TypeOK /\ fd # "open" /\ fd' = fd
  BY <1>1 DEF OrderInv, ClearsClosed, socketVars
<1>3. TypeOK'
  <2>1. pc' \in [Threads -> Steps] /\ m_messages' \in Seq(0..Last)
    BY <1>1, <1>2 DEF TypeOK, Steps
  <2>. QED
    BY <1>1, <1>2, <2>1 DEF TypeOK, socketVars, joinVars, peerVars
<1>4. \A u \in Threads : u # t => pc'[u] = pc[u]
  BY <1>1, <1>2 DEF TypeOK
<1>5. pc'[t] = "unset"
  BY <1>1, <1>2 DEF TypeOK
<1>6. Order' /\ Whole' /\ ClearsClosed' /\ EndIsLast'
  BY <1>1, <1>2, <1>4, <1>5 DEF OrderInv, Order, Whole, ClearsClosed, EndIsLast, Threads, peerVars
<1>7. WriterHolds'
  BY <1>1, <1>4, <1>5 DEF OrderInv, WriterHolds, Threads, Nobody
<1>8. ConnectsFirst'
  BY <1>1, <1>4, <1>5 DEF OrderInv, ConnectsFirst, Threads, peerVars
<1>. QED
  BY <1>3, <1>6, <1>7, <1>8 DEF OrderInv

-----------------------------------------------------------------------------
(* The switch process.                                                     *)

LEMMA SwitchReadInv == OrderInv /\ SwitchRead => OrderInv'
<1>. SUFFICES ASSUME OrderInv, SwitchRead PROVE OrderInv'
  OBVIOUS
<1>1. /\ stream # <<>> /\ received' = Append(received, Head(stream)) /\ stream' = Tail(stream)
      /\ UNCHANGED <<faulty, pc, lock, queueVars, socketVars, joinVars, peer, m_disconnect_signaled, killed>>
  BY DEF SwitchRead
<1>2. TypeOK /\ received \in Seq(0..Last) /\ stream \in Seq(0..Last)
  BY DEF OrderInv, TypeOK
<1>3. /\ Head(stream) \in 0..Last /\ Tail(stream) \in Seq(0..Last)
      /\ Len(Tail(stream)) = Len(stream) - 1
      /\ \A i \in 1..Len(Tail(stream)) : Tail(stream)[i] = stream[i + 1]
  BY <1>1, <1>2, HeadTailProperties, Zenon
<1>4. Head(stream) = stream[1] /\ Len(stream) \in Nat /\ Len(stream) # 0 /\ Len(received) \in Nat
  BY <1>1, <1>2
<1>5. /\ received' \in Seq(0..Last) /\ Len(received') = Len(received) + 1
      /\ received'[Len(received) + 1] = Head(stream)
      /\ \A i \in 1..Len(received) : received'[i] = received[i]
  BY <1>1, <1>2, <1>3, AppendProperties
<1>6. TypeOK'
  BY <1>1, <1>2, <1>3, <1>5 DEF TypeOK, queueVars, socketVars, joinVars
<1>7. Order'
  <2>1. Head(stream) = Len(received)
    BY <1>4 DEF OrderInv, Order, Numbered
  <2>2. ASSUME NEW i \in 1..Len(received') PROVE received'[i] = i - 1
    <3>1. CASE i \in 1..Len(received)
      BY <1>5, <3>1 DEF OrderInv, Order, Numbered
    <3>2. CASE i = Len(received) + 1
      BY <1>4, <1>5, <2>1, <3>2
    <3>. QED
      BY <1>4, <1>5, <2>2, <3>1, <3>2
  <2>3. ASSUME NEW i \in 1..Len(stream') PROVE stream'[i] = Len(received') + i - 1
    <3>1. i + 1 \in 1..Len(stream) /\ stream'[i] = stream[i + 1]
      BY <1>1, <1>3, <1>4, <2>3
    <3>2. stream[i + 1] = Len(received) + (i + 1) - 1
      BY <3>1 DEF OrderInv, Order, Numbered
    <3>. QED
      BY <1>4, <1>5, <3>1, <3>2
  <2>. QED
    BY <2>2, <2>3 DEF Order, Numbered
<1>8. Whole'
  <2>1. Len(received') + Len(stream') = Len(received) + Len(stream)
    BY <1>1, <1>3, <1>4, <1>5
  <2>. QED
    BY <1>1, <2>1 DEF OrderInv, Whole, queueVars, socketVars
<1>9. WriterHolds' /\ ClearsClosed' /\ ConnectsFirst' /\ EndIsLast'
  BY <1>1 DEF OrderInv, WriterHolds, ClearsClosed, ConnectsFirst, EndIsLast, queueVars, socketVars
<1>. QED
  BY <1>6, <1>7, <1>8, <1>9 DEF OrderInv

\* What is in the stream is lost with the switch process, and what comes after it
\* never follows.
LEMMA SwitchDiesInv == OrderInv /\ SwitchDies => OrderInv'
<1>. SUFFICES ASSUME OrderInv, SwitchDies PROVE OrderInv'
  OBVIOUS
<1>1. /\ peer' = FALSE /\ stream' = <<>>
      /\ UNCHANGED <<faulty, pc, lock, queueVars, socketVars, joinVars, received, m_disconnect_signaled, killed>>
  BY DEF SwitchDies
<1>2. TypeOK'
  <2>1. stream' \in Seq(0..Last)
    BY <1>1
  <2>2. peer' \in BOOLEAN
    BY <1>1
  <2>. QED
    BY <1>1, <2>1, <2>2 DEF OrderInv, TypeOK, queueVars, socketVars, joinVars
<1>3. Order' /\ Whole' /\ WriterHolds' /\ ClearsClosed' /\ ConnectsFirst' /\ EndIsLast'
  BY <1>1 DEF OrderInv, Order, Numbered, Whole, WriterHolds, ClearsClosed, ConnectsFirst, EndIsLast, queueVars, socketVars
<1>. QED
  BY <1>2, <1>3 DEF OrderInv

\* Nothing in the invariant depends on the flag of the accept thread.
LEMMA SignalInv == OrderInv /\ (DisconnectSignal \/ UNCHANGED vars) => OrderInv'
<1>. SUFFICES ASSUME OrderInv, DisconnectSignal \/ UNCHANGED vars PROVE OrderInv'
  OBVIOUS
<1>1. /\ m_disconnect_signaled' \in BOOLEAN
      /\ UNCHANGED <<faulty, pc, lock, m_messages, sent, socketVars, joinVars, stream, received, peer, killed>>
  BY DEF DisconnectSignal, vars, queueVars, peerVars, OrderInv, TypeOK
<1>. QED
  BY <1>1 DEF OrderInv, TypeOK, Order, Whole, WriterHolds, ClearsClosed, ConnectsFirst, EndIsLast,
              socketVars, joinVars

-----------------------------------------------------------------------------
LEMMA StepInv == OrderInv /\ [Next]_vars => OrderInv'
<1>. SUFFICES ASSUME OrderInv, [Next]_vars PROVE OrderInv'
  OBVIOUS
<1>1. ASSUME NEW t \in Threads, Disconnecting(t) PROVE OrderInv'
  BY <1>1, DisconnectInv, JoinInv, ClearInv DEF Disconnecting
<1>2. CASE Main
  BY <1>1, <1>2, ConnectInv, SendInv, CloseInv DEF Main, Threads
<1>3. CASE SendThread
  BY <1>1, <1>3, SendTestInv, SendLockInv, WriteInv, SendUnlockInv DEF SendThread, Threads
<1>4. CASE ReceiveThread
  BY <1>1, <1>4, ReceiveThreadInv DEF ReceiveThread, Threads
<1>. QED
  BY <1>2, <1>3, <1>4, SwitchReadInv, SwitchDiesInv, SignalInv DEF Next

\* The invariant is what Written says, put as two sequences.
LEMMA OrderImpliesInOrder == OrderInv => InOrder
<1>. SUFFICES ASSUME OrderInv PROVE InOrder
  OBVIOUS
<1>1. received \in Seq(0..Last) /\ stream \in Seq(0..Last)
  BY DEF OrderInv, TypeOK
<1>2. /\ Len(Written) = Len(received) + Len(stream) /\ DOMAIN Written = 1..Len(Written)
      /\ \A i \in 1..Len(Written) :
           Written[i] = IF i <= Len(received) THEN received[i] ELSE stream[i - Len(received)]
  BY <1>1, ConcatProperties DEF Written
<1>3. Len(received) \in Nat /\ Len(stream) \in Nat
  BY <1>1
<1>4. ASSUME NEW i \in DOMAIN Written PROVE Written[i] = i - 1
  <2>1. CASE i <= Len(received)
    BY <1>2, <1>3, <1>4, <2>1 DEF OrderInv, Order, Numbered
  <2>2. CASE i > Len(received)
    <3>1. i - Len(received) \in 1..Len(stream) /\ Written[i] = stream[i - Len(received)]
      BY <1>2, <1>3, <1>4, <2>2
    <3>2. stream[i - Len(received)] = Len(received) + (i - Len(received)) - 1
      BY <3>1 DEF OrderInv, Order, Numbered
    <3>. QED
      BY <1>2, <1>3, <1>4, <3>1, <3>2
  <2>. QED
    BY <1>2, <1>3, <1>4, <2>1, <2>2
<1>. QED
  BY <1>4 DEF InOrder

-----------------------------------------------------------------------------
(* Who waits for whom, and what is left when the socket is closed.         *)

\* What the send thread does in disconnect it does with the lock in its hands, so
\* that it gets to clear at most.
SendLeaves ==
  /\ pc["send"] \in {"disconnect", "shutdown", "close", "joinReceive", "joinSend", "clear"} => lock = "send"
  /\ pc["send"] # "unset"

\* A thread that has been let in to wait for another waits until that one has ended.
Waits ==
  /\ joiner["main"] = Nobody /\ joiner["send"] # "send" /\ joiner["receive"] # "receive"
  /\ pc["main"] = "connect" => joiner["send"] = Nobody /\ joiner["receive"] = Nobody
  /\ joiner["send"] = "main" => pc["main"] = "joinSend" \/ pc["send"] = "done"
  /\ joiner["send"] = "receive" => pc["receive"] = "joinSend" \/ pc["send"] = "done"
  /\ joiner["receive"] = "main" => pc["main"] = "joinReceive" \/ pc["receive"] = "done"
  /\ joiner["receive"] = "send" =>
       pc["send"] \in {"joinReceive", "joinSend", "clear"} /\ joiner["send"] # "receive"

\* Main gets past its two joins only behind the others; the receive thread may get past
\* the send thread when main waits for that one.
Passed ==
  /\ pc["main"] \in {"joinSend", "clear", "unset"} =>
       pc["receive"] = "done" \/ joiner["receive"] = "send"
  /\ pc["main"] \in {"clear", "unset", "notify", "delete", "exit", "done"} => pc["send"] = "done"
  /\ pc["receive"] = "clear" =>
       pc["send"] = "done" \/ joiner["send"] = "main" \/ joiner["receive"] = "send"
  /\ pc["receive"] = "unset" \/ ~m_socket => pc["send"] = "done" \/ joiner["send"] = "main"

JoinOrder == SendLeaves /\ Waits /\ Passed

\* Everything has been sent and read.
Drained == m_messages = <<>> /\ stream = <<>> /\ sent = Last + 1

Leaving == {"disconnect", "shutdown", "close", "joinReceive", "joinSend", "clear", "unset", "notify",
            "delete", "exit"}

\* The connection ends, or a thread has seen that it does.
Ending ==
  /\ pc["main"] # "connect"
  /\ \/ fd # "open" \/ ~m_thread_running \/ m_disconnect_signaled
     \/ pc["main"] \in Leaving \cup {"done"} \/ pc["send"] \in Leaving \cup {"done"} \/ pc["receive"] \in Leaving

\* As long as the switch process lives, nothing ends before everything is read.
Drains ==
  ~faulty =>
    /\ peer /\ ~killed /\ (Ending => Drained)
    /\ IF pc["main"] = "connect" THEN ~m_disconnect_signaled
       ELSE Len(received) + Len(stream) + Len(m_messages) = sent

LEMMA InitJoinOrder == Init => JoinOrder
BY DEF Init, JoinOrder, SendLeaves, Waits, Passed, Threads, Nobody

\* What a step of thread t that goes to step does to the places of the threads.
LEMMA GoesFacts ==
  ASSUME TypeOK, NEW t \in Threads, NEW step, Goes(t, step)
  PROVE  \A u \in Threads : pc'[u] = IF u = t THEN step ELSE pc[u]
BY DEF Goes, TypeOK

\* Outside disconnect nothing changes for those who wait.
LEMMA OrdinaryJoinOrder ==
  ASSUME TypeOK, JoinOrder, NEW t \in Threads, NEW step, Goes(t, step),
         pc[t] \in {"run", "wait", "test", "lock", "write", "unlock", "read"},
         step \in {"run", "wait", "test", "lock", "write", "unlock", "read", "disconnect"}
           \/ (step = "done" /\ t # "main"),
         t # "send" => lock' = lock,
         t = "send" /\ step = "disconnect" => lock' = "send",
         UNCHANGED <<m_socket, joiner>>
  PROVE  JoinOrder'
<1>1. \A u \in Threads : pc'[u] = IF u = t THEN step ELSE pc[u]
  BY GoesFacts
<1>2. /\ pc'["main"] = IF t = "main" THEN step ELSE pc["main"]
      /\ pc'["send"] = IF t = "send" THEN step ELSE pc["send"]
      /\ pc'["receive"] = IF t = "receive" THEN step ELSE pc["receive"]
  BY <1>1 DEF Threads
<1>3. SendLeaves'
  BY <1>2 DEF JoinOrder, SendLeaves, Threads
<1>4. Waits'
  BY <1>2 DEF JoinOrder, Waits, Threads
<1>5. Passed'
  BY <1>2 DEF JoinOrder, Passed, Threads
<1>. QED
  BY <1>3, <1>4, <1>5 DEF JoinOrder

LEMMA ThreadsJoinOrder ==
  ASSUME OrderInv, JoinOrder,
         Send \/ Close \/ Delete \/ Exit \/ SendTest \/ SendLock \/ Write \/ SendUnlock \/ ReceiveTest \/ ReadFails
  PROVE  JoinOrder'
<1>1. TypeOK
  BY DEF OrderInv
<1>2. UNCHANGED <<m_socket, joiner>>
  BY DEF Send, Close, Delete, Exit, SendTest, SendLock, Write, SendUnlock, ReceiveTest, ReadFails, socketVars, joinVars
<1>3. CASE Send \/ Close
  <2>1. PICK step \in {"run", "wait", "disconnect"} :
          Goes("main", step) /\ lock' = lock /\ pc["main"] \in {"run", "wait"}
    BY <1>3 DEF Send, Close, At
  <2>. QED
    BY <1>1, <1>2, <2>1, OrdinaryJoinOrder DEF Threads
<1>4. CASE SendTest \/ SendLock \/ SendUnlock
  <2>1. PICK step \in {"lock", "done", "unlock", "write", "test"} :
          Goes("send", step) /\ pc["send"] \in {"test", "lock", "unlock"}
    BY <1>4 DEF SendTest, SendLock, SendUnlock, At
  <2>. QED
    BY <1>1, <1>2, <2>1, OrdinaryJoinOrder DEF Threads
<1>5. CASE Write
  <2>1. pc["send"] = "write" /\ lock = "send" /\ lock' = lock
    BY <1>5 DEF Write, At, OrderInv, WriterHolds
  <2>2. \/ \E step \in {"unlock", "disconnect"} : Goes("send", step)
        \/ pc' = pc
    BY <1>5 DEF Write
  <2>3. CASE pc' = pc
    BY <1>2, <2>1, <2>3 DEF JoinOrder, SendLeaves, Waits, Passed
  <2>4. ASSUME NEW step \in {"unlock", "disconnect"}, Goes("send", step)
        PROVE  JoinOrder'
    BY <1>1, <1>2, <2>1, <2>4, OrdinaryJoinOrder DEF Threads
  <2>. QED
    BY <2>2, <2>3, <2>4
<1>7. CASE Delete \/ Exit
  <2>1. PICK step \in {"exit", "done"} :
          Goes("main", step) /\ lock' = lock /\ pc["main"] \in {"delete", "exit"}
    BY <1>7 DEF Delete, Exit, At
  <2>2. /\ pc'["main"] = step /\ pc'["send"] = pc["send"] /\ pc'["receive"] = pc["receive"]
    BY <1>1, <2>1, GoesFacts DEF Threads
  <2>. QED
    BY <1>2, <2>1, <2>2 DEF JoinOrder, SendLeaves, Waits, Passed
<1>6. CASE ReceiveTest \/ ReadFails
  <2>1. PICK step \in {"read", "done", "disconnect"} :
          Goes("receive", step) /\ lock' = lock /\ pc["receive"] \in {"test", "read"}
    BY <1>6 DEF ReceiveTest, ReadFails, At
  <2>. QED
    BY <1>1, <1>2, <2>1, OrdinaryJoinOrder DEF Threads
<1>. QED
  BY <1>3, <1>4, <1>5, <1>6, <1>7

\* The other processes leave locks and joins alone.
LEMMA OthersJoinOrder ==
  ASSUME JoinOrder, SwitchRead \/ SwitchDies \/ DisconnectSignal \/ UNCHANGED vars
  PROVE  JoinOrder'
<1>1. UNCHANGED <<pc, lock, m_socket, joiner>>
  BY DEF SwitchRead, SwitchDies, DisconnectSignal, vars, socketVars, joinVars
<1>. QED
  BY <1>1 DEF JoinOrder, SendLeaves, Waits, Passed

LEMMA ConnectJoinOrder ==
  ASSUME OrderInv, JoinOrder, Connect
  PROVE  JoinOrder'
<1>1. /\ pc["main"] = "connect" /\ m_socket' /\ UNCHANGED <<lock, joiner>>
      /\ pc["send"] = "done" /\ pc["receive"] = "done" /\ pc \in [Threads -> Steps]
  BY DEF Connect, At, joinVars, OrderInv, ConnectsFirst, TypeOK
<1>2. /\ pc'["main"] = "run" /\ pc'["send"] \in {"test", "done"} /\ pc'["receive"] \in {"test", "done"}
  BY <1>1 DEF Connect, Goes, Threads
<1>3. joiner["main"] = Nobody /\ joiner["send"] = Nobody /\ joiner["receive"] = Nobody
  BY <1>1 DEF JoinOrder, Waits
<1>. QED
  BY <1>1, <1>2, <1>3 DEF JoinOrder, SendLeaves, Waits, Passed, Nobody

\* disconnect but for its joins.
LEMMA LeavingJoinOrder ==
  ASSUME OrderInv, JoinOrder, NEW t \in Threads,
         Disconnect(t) \/ Shutdown(t) \/ CloseDescriptor(t) \/ Clear(t) \/ Unset(t) \/ Notify(t)
  PROVE  JoinOrder'
<1>1. TypeOK /\ (pc["send"] = "done" \/ pc["send"] # "done")
  BY DEF OrderInv
<1>2. joiner' = joiner /\ lock' = lock
  BY DEF Disconnect, Shutdown, CloseDescriptor, Clear, Unset, Notify, joinVars, FreedBy
<1>3. PICK step \in {"shutdown", "done", "close", "joinReceive", "unset", "notify", "delete"} :
        /\ Goes(t, step)
        /\ pc[t] \in {"disconnect", "shutdown", "close", "clear", "unset", "notify"}
        /\ step \in {"shutdown", "close", "joinReceive"} => pc[t] \in {"disconnect", "shutdown", "close"} /\ m_socket' = m_socket
        /\ step = "unset" => pc[t] = "clear" /\ lock = Nobody /\ m_socket' = m_socket
        /\ step = "notify" => (pc[t] = "unset" /\ ~m_socket') \/ (pc[t] = "disconnect" /\ ~m_socket /\ ~m_socket')
        /\ step \in {"delete", "done"} => pc[t] = "notify" /\ m_socket' = m_socket
        /\ step = "delete" <=> pc[t] = "notify" /\ t = "main"
        /\ step = "done" <=> pc[t] = "notify" /\ t # "main"
  BY <1>1 DEF Disconnect, Shutdown, CloseDescriptor, Clear, Unset, Notify, At, socketVars
<1>4. \A u \in Threads : pc'[u] = IF u = t THEN step ELSE pc[u]
  BY <1>1, <1>3, GoesFacts
<1>5. /\ pc'["main"] = IF t = "main" THEN step ELSE pc["main"]
      /\ pc'["send"] = IF t = "send" THEN step ELSE pc["send"]
      /\ pc'["receive"] = IF t = "receive" THEN step ELSE pc["receive"]
  BY <1>4 DEF Threads
<1>6. t = "main" \/ t = "send" \/ t = "receive"
  BY DEF Threads
<1>7. /\ t = "send" => step # "unset" /\ pc[t] # "clear" /\ pc[t] # "unset"
      /\ t = "main" /\ step \in {"unset", "notify", "delete", "done"} => pc["send"] = "done"
      /\ t = "receive" /\ step \in {"unset", "notify"} => pc["send"] = "done" \/ joiner["send"] = "main"
  <2>1. t = "send" => step # "unset" /\ pc[t] # "clear" /\ pc[t] # "unset"
    BY <1>3 DEF JoinOrder, SendLeaves, Nobody
  <2>2. ASSUME t = "main", step \in {"unset", "notify", "delete", "done"} PROVE pc["send"] = "done"
    BY <1>3, <2>2 DEF JoinOrder, Waits, Passed
  <2>3. ASSUME t = "receive", step \in {"unset", "notify"} PROVE pc["send"] = "done" \/ joiner["send"] = "main"
    <3>1. pc["receive"] = "clear" => lock = Nobody
      BY <1>3, <2>3
    <3>2. joiner["receive"] = "send" => lock = "send"
      BY DEF JoinOrder, SendLeaves, Waits
    <3>. QED
      BY <1>3, <2>3, <3>1, <3>2 DEF JoinOrder, Passed, Nobody
  <2>. QED
    BY <2>1, <2>2, <2>3
<1>8. SendLeaves'
  BY <1>2, <1>3, <1>5, <1>7 DEF JoinOrder, SendLeaves
<1>9. Waits'
  BY <1>2, <1>3, <1>5, <1>6, <1>7 DEF JoinOrder, Waits
<1>10. Passed'
  BY <1>2, <1>3, <1>5, <1>6, <1>7 DEF JoinOrder, Passed
<1>. QED
  BY <1>8, <1>9, <1>10 DEF JoinOrder

\* A join that is refused passes; one that is let in keeps its thread until the
\* other one has ended.
LEMMA JoinJoinOrder ==
  ASSUME OrderInv, JoinOrder, NEW t \in Threads, Joins(t)
  PROVE  JoinOrder'
<1>1. TypeOK
  BY DEF OrderInv
<1>2. UNCHANGED <<lock, m_socket>>
  BY DEF Joins, Join, socketVars
<1>3. t = "main" \/ t = "send" \/ t = "receive"
  BY DEF Threads
<1>4. joiner \in [Threads -> Threads \cup {Nobody}] /\ joiner[t] \in Threads \cup {Nobody}
  BY <1>1 DEF TypeOK
<1>5. PICK other \in {"receive", "send"}, step \in {"joinReceive", "joinSend"}, next \in {"joinSend", "clear"} :
        /\ other = "receive" => step = "joinReceive" /\ next = "joinSend"
        /\ other = "send" => step = "joinSend" /\ next = "clear"
        /\ Join(t, other, step, next)
  BY DEF Joins
<1>6. pc[t] = step
  BY <1>5 DEF Join, At
<1>7. CASE ~Refused(t, other) /\ joiner' = [joiner EXCEPT ![other] = t] /\ pc' = pc
  <2>1. joiner[other] = Nobody /\ joiner[t] # other /\ other # t
    BY <1>7 DEF Refused
  <2>2. /\ joiner'["main"] = joiner["main"]
        /\ joiner'["send"] = IF other = "send" THEN t ELSE joiner["send"]
        /\ joiner'["receive"] = IF other = "receive" THEN t ELSE joiner["receive"]
    BY <1>4, <1>7 DEF Threads
  <2>3. SendLeaves' /\ Passed'
    BY <1>2, <1>3, <1>5, <1>6, <1>7, <2>1, <2>2 DEF JoinOrder, SendLeaves, Passed, Nobody
  <2>4. Waits'
    <3>1. Nobody # "main" /\ Nobody # "send" /\ Nobody # "receive" /\ pc["main"] # "connect"
      BY <1>3, <1>5, <1>6 DEF Nobody, OrderInv, ConnectsFirst
    <3>2. CASE other = "receive"
      BY <1>3, <1>5, <1>6, <1>7, <2>1, <2>2, <3>1, <3>2 DEF JoinOrder, Waits
    <3>3. CASE other = "send"
      BY <1>3, <1>5, <1>6, <1>7, <2>1, <2>2, <3>1, <3>3 DEF JoinOrder, Waits
    <3>. QED
      BY <3>2, <3>3
  <2>. QED
    BY <2>3, <2>4 DEF JoinOrder
<1>8. CASE joiner' = joiner /\ Goes(t, next) /\ \/ Refused(t, other) /\ joiner[other] # t
                                                \/ joiner[other] = t /\ pc[other] = "done"
  <2>1. \A u \in Threads : pc'[u] = IF u = t THEN next ELSE pc[u]
    BY <1>1, <1>8, GoesFacts
  <2>2. /\ pc'["main"] = IF t = "main" THEN next ELSE pc["main"]
        /\ pc'["send"] = IF t = "send" THEN next ELSE pc["send"]
        /\ pc'["receive"] = IF t = "receive" THEN next ELSE pc["receive"]
    BY <2>1 DEF Threads
  <2>3. \/ other = t
        \/ pc[other] = "done" /\ joiner[other] = t
        \/ joiner[t] = other
        \/ joiner[other] # Nobody /\ joiner[other] # t
    BY <1>8 DEF Refused
  <2>4. t = "main" /\ other = "receive" => pc["receive"] = "done" \/ joiner["receive"] = "send"
    BY <1>4, <2>3 DEF JoinOrder, Waits, Threads, Nobody
  <2>5. t = "main" /\ other = "send" => pc["send"] = "done"
    <3>1. CASE t = "main" /\ other = "send" /\ pc["send"] # "done"
      <4>1. joiner["send"] = "receive"
        BY <1>4, <2>3, <3>1 DEF JoinOrder, Waits, Threads, Nobody
      <4>2. pc["receive"] = "joinSend" /\ joiner["receive"] # "send"
        BY <3>1, <4>1 DEF JoinOrder, Waits
      <4>3. pc["main"] = "joinSend"
        BY <1>5, <1>6, <3>1
      <4>. QED
        BY <4>2, <4>3 DEF JoinOrder, Passed
    <3>. QED
      BY <3>1
  <2>6. t = "receive" /\ other = "send" =>
          pc["send"] = "done" \/ joiner["send"] = "main" \/ joiner["receive"] = "send"
    BY <1>4, <2>3 DEF JoinOrder, Waits, Threads, Nobody
  <2>7. joiner[other] = t => pc[other] = "done" \/ other = t
    BY <1>8 DEF Refused
  <2>8. SendLeaves'
    BY <1>2, <1>3, <1>5, <1>6, <2>2 DEF JoinOrder, SendLeaves
  <2>9. Waits'
    BY <1>3, <1>5, <1>6, <1>8, <2>2, <2>7 DEF JoinOrder, Waits
  <2>10. Passed'
    BY <1>2, <1>3, <1>5, <1>6, <1>8, <2>2, <2>4, <2>5, <2>6 DEF JoinOrder, Passed
  <2>. QED
    BY <2>8, <2>9, <2>10 DEF JoinOrder
<1>. QED
  BY <1>5, <1>7, <1>8 DEF Join, joinVars

LEMMA StepJoinOrder == OrderInv /\ JoinOrder /\ [Next]_vars => JoinOrder'
<1>. SUFFICES ASSUME OrderInv, JoinOrder, [Next]_vars PROVE JoinOrder'
  OBVIOUS
<1>1. ASSUME NEW t \in Threads, Disconnecting(t) PROVE JoinOrder'
  BY <1>1, LeavingJoinOrder, JoinJoinOrder DEF Disconnecting
<1>2. CASE Main \/ SendThread \/ ReceiveThread
  BY <1>1, <1>2, ConnectJoinOrder, ThreadsJoinOrder DEF Main, SendThread, ReceiveThread, Threads
<1>. QED
  BY <1>2, OthersJoinOrder DEF Next

-----------------------------------------------------------------------------
(* What has been read when the connection ends.                            *)

LEMMA InitDrains == Init => Drains
<1>. SUFFICES ASSUME Init PROVE Drains
  OBVIOUS
<1>1. pc["main"] = "connect" /\ peer /\ ~killed /\ ~m_disconnect_signaled
  BY DEF Init, Threads
<1>. QED
  BY <1>1 DEF Drains, Ending

\* Once everything has been read there is nothing left to lose.
LEMMA StaysDrained ==
  ASSUME OrderInv, Drained, pc["main"] # "connect", ~killed, [Next]_vars
  PROVE  Drained' /\ UNCHANGED <<received, sent>> /\ killed' = killed
<1>1. /\ m_messages = <<>> /\ stream = <<>> /\ sent = Last + 1 /\ Last \in Nat
  BY CountAssumption DEF Drained, Last
<1>2. pc["main"] # "run"
  BY <1>1 DEF OrderInv, EndIsLast
<1>3. pc["send"] # "write"
  BY <1>1 DEF OrderInv, WriterHolds
<1>4. ~Connect /\ ~Send /\ ~Write /\ ~SwitchRead
  BY <1>1, <1>2, <1>3 DEF Connect, Send, Write, At, SwitchRead
<1>5. \A t \in Threads : Disconnecting(t) =>
        m_messages' = <<>> /\ UNCHANGED <<stream, received, sent, killed>>
  BY <1>1 DEF Disconnecting, Disconnect, Shutdown, CloseDescriptor, Joins, Join, Clear, Unset, Notify, queueVars, peerVars
<1>6. Close \/ Delete \/ Exit \/ SendTest \/ SendLock \/ SendUnlock \/ ReceiveTest \/ ReadFails \/ UNCHANGED vars =>
        m_messages' = <<>> /\ UNCHANGED <<stream, received, sent, killed>>
  BY <1>1 DEF Close, Delete, Exit, SendTest, SendLock, SendUnlock, ReceiveTest, ReadFails, vars, queueVars, peerVars
<1>7. SwitchDies \/ DisconnectSignal => m_messages' = <<>> /\ stream' = <<>> /\ UNCHANGED <<received, sent, killed>>
  BY <1>1 DEF SwitchDies, DisconnectSignal, queueVars
<1>8. m_messages' = <<>> /\ stream' = <<>> /\ UNCHANGED <<received, sent, killed>>
  BY <1>1, <1>4, <1>5, <1>6, <1>7 DEF Next, Main, SendThread, ReceiveThread, Threads
<1>. QED
  BY <1>1, <1>8 DEF Drained

\* Without a fault the peer lives on and no signal strikes: the descriptor is open
\* whenever there is something to write.
LEMMA StaysAlive ==
  ASSUME OrderInv, Drains, ~faulty, [Next]_vars
  PROVE  ~faulty' /\ peer' /\ ~killed' /\ (pc["send"] = "write" => fd = "open" /\ pc["main"] # "connect")
<1>1. peer /\ ~killed
  BY DEF Drains
<1>2. pc["send"] = "write" => fd = "open" /\ pc["main"] # "connect"
  <2>1. ASSUME pc["send"] = "write" PROVE m_messages # <<>> /\ pc["main"] # "connect"
    BY <1>1, <2>1 DEF OrderInv, WriterHolds, ConnectsFirst
  <2>. QED
    BY <2>1 DEF Drains, Ending, Drained
<1>3. Write => UNCHANGED <<faulty, peer, killed>>
  BY <1>1, <1>2 DEF Write, At
<1>4. \A t \in Threads : Disconnecting(t) => UNCHANGED <<faulty, peer, killed>>
  BY DEF Disconnecting, Disconnect, Shutdown, CloseDescriptor, Joins, Join, Clear, Unset, Notify, peerVars
<1>5. Main \/ SendThread \/ ReceiveThread \/ SwitchRead \/ DisconnectSignal \/ UNCHANGED vars =>
        UNCHANGED <<faulty, peer, killed>>
  BY <1>3, <1>4 DEF Main, Connect, Send, Close, Delete, Exit, SendThread, SendTest, SendLock, SendUnlock, ReceiveThread,
                    ReceiveTest, ReadFails, SwitchRead, DisconnectSignal, vars, peerVars, Threads
<1>6. ~SwitchDies
  BY DEF SwitchDies
<1>7. UNCHANGED <<faulty, peer, killed>>
  BY <1>5, <1>6 DEF Next
<1>8. faulty' = faulty /\ peer' = peer /\ killed' = killed
  BY <1>7
<1>. QED
  BY <1>1, <1>2, <1>8, Zenon

\* The connection is made once.
LEMMA ConnectedOnce ==
  ASSUME OrderInv, pc["main"] # "connect", [Next]_vars
  PROVE  pc'["main"] # "connect"
<1>1. pc \in [Threads -> Steps]
  BY DEF OrderInv, TypeOK
<1>2. \A t \in Threads, step \in Steps \ {"connect"} : Goes(t, step) => pc'["main"] # "connect"
  BY <1>1 DEF Goes, Threads
<1>3. ASSUME NEW t \in Threads, Disconnecting(t) PROVE pc'["main"] # "connect"
  BY <1>2, <1>3 DEF Disconnecting, Disconnect, Shutdown, CloseDescriptor, Joins, Join, Clear, Unset, Notify, Steps
<1>4. Main => pc'["main"] # "connect"
  <2>1. ~Connect
    BY DEF Connect, At
  <2>. QED
    BY <1>2, <1>3, <2>1 DEF Main, Send, Close, Delete, Exit, Threads, Steps
<1>5. SendThread => pc'["main"] # "connect"
  BY <1>2, <1>3 DEF SendThread, SendTest, SendLock, Write, SendUnlock, Threads, Steps
<1>6. ReceiveThread => pc'["main"] # "connect"
  BY <1>2, <1>3 DEF ReceiveThread, ReceiveTest, ReadFails, Threads, Steps
<1>7. SwitchRead \/ SwitchDies \/ DisconnectSignal \/ UNCHANGED vars => pc' = pc
  BY DEF SwitchRead, SwitchDies, DisconnectSignal, vars
<1>. QED
  BY <1>4, <1>5, <1>6, <1>7 DEF Next

\* The testbed answers an END that was the last of all messages.
LEMMA SignalDrained ==
  ASSUME OrderInv, Drains, ~faulty, DisconnectSignal
  PROVE  Drained /\ pc["main"] # "connect"
<1>1. PICK i \in DOMAIN received : received[i] = Last
  BY DEF DisconnectSignal
<1>2. /\ received \in Seq(0..Last) /\ stream \in Seq(0..Last) /\ m_messages \in Seq(0..Last)
      /\ sent \in 1..(Last + 1) /\ Last \in Nat
  BY CountAssumption DEF OrderInv, TypeOK, Last
<1>3. /\ Len(received) \in Nat /\ Len(stream) \in Nat /\ Len(m_messages) \in Nat /\ DOMAIN received = 1..Len(received)
  BY <1>2
<1>4. i \in 1..Len(received) /\ i - 1 = Last
  BY <1>1, <1>3 DEF OrderInv, Order, Numbered
<1>5. pc["main"] # "connect"
  <2>1. received # <<>>
    BY <1>4
  <2>. QED
    BY <2>1 DEF OrderInv, ConnectsFirst
<1>6. Len(received) + Len(stream) + Len(m_messages) = sent
  BY <1>5 DEF Drains
<1>7. Len(stream) = 0 /\ Len(m_messages) = 0 /\ sent = Last + 1
  BY <1>2, <1>3, <1>4, <1>6
<1>. QED
  BY <1>2, <1>5, <1>7, EmptySeq DEF Drained

\* The connection does not begin to end before everything has been read.
LEMMA NothingEnds ==
  ASSUME OrderInv, Drains, ~faulty, ~Ending, pc["main"] # "connect", [Next]_vars, ~DisconnectSignal
  PROVE  ~Ending'
<1>1. /\ fd = "open" /\ m_thread_running /\ ~m_disconnect_signaled /\ peer
      /\ pc["main"] \notin Leaving \cup {"done"} /\ pc["send"] \notin Leaving \cup {"done"}
      /\ pc["receive"] \notin Leaving
  BY DEF Ending, Drains
<1>2. \A t \in Threads : ~Disconnecting(t)
  BY <1>1 DEF Disconnecting, Disconnect, Shutdown, CloseDescriptor, Joins, Join, Clear, Unset, Notify, At, Leaving, Threads
<1>3. ~Close /\ ~Delete /\ ~Exit /\ ~ReadFails /\ ~Connect
  BY <1>1 DEF Leaving, Close, Delete, Exit, EndSignaled, ReadFails, Connect, At
<1>4. PICK t \in Threads, step \in {"run", "wait", "test", "lock", "write", "unlock", "read"} :
        Goes(t, step) \/ pc' = pc
  <2>1. CASE Send
    BY <2>1 DEF Send, Threads
  <2>2. CASE SendTest \/ SendLock \/ SendUnlock
    BY <1>1, <2>2 DEF SendTest, SendLock, SendUnlock, Threads
  <2>3. CASE Write
    BY <1>1, <2>3 DEF Write, Threads
  <2>4. CASE ReceiveTest
    BY <1>1, <2>4 DEF ReceiveTest, Threads
  <2>5. CASE SwitchRead \/ SwitchDies \/ UNCHANGED vars
    BY <2>5 DEF SwitchRead, SwitchDies, vars, Threads
  <2>. QED
    BY <1>2, <1>3, <2>1, <2>2, <2>3, <2>4, <2>5 DEF Next, Main, SendThread, ReceiveThread, Threads
<1>5. UNCHANGED <<fd, m_thread_running, m_disconnect_signaled>>
  BY <1>2, <1>3 DEF Next, Main, SendThread, ReceiveThread, Send, SendTest, SendLock, SendUnlock, Write, ReceiveTest,
                    SwitchRead, SwitchDies, vars, socketVars, peerVars, Threads
<1>6. pc \in [Threads -> Steps]
  BY DEF OrderInv, TypeOK
<1>. QED
  BY <1>1, <1>4, <1>5, <1>6 DEF Ending, Leaving, Goes, Threads

LEMMA StepDrains == OrderInv /\ OrderInv' /\ Drains /\ [Next]_vars => Drains'
<1>. SUFFICES ASSUME OrderInv, OrderInv', Drains, [Next]_vars, ~faulty' PROVE Drains'
  BY DEF Drains
<1>1. ~faulty
  BY DEF Next, Main, Connect, Send, Close, Delete, Exit, SendThread, SendTest, SendLock, Write, SendUnlock, ReceiveThread, ReceiveTest,
         ReadFails, Disconnecting, Disconnect, Shutdown, CloseDescriptor, Joins, Join, Clear, Unset, Notify,
         SwitchRead, SwitchDies, DisconnectSignal, vars
<1>2. peer /\ peer' /\ ~killed /\ ~killed'
  BY <1>1, StaysAlive DEF Drains
<1>3. CASE pc["main"] = "connect"
  <2>1. /\ m_messages = <<>> /\ received = <<>> /\ stream = <<>> /\ sent = 1
        /\ pc["send"] = "done" /\ pc["receive"] = "done" /\ ~m_disconnect_signaled
    BY <1>1, <1>3 DEF OrderInv, ConnectsFirst, Drains
  <2>2. CASE Connect
    <3>1. /\ m_messages' = <<0>> /\ fd' = "open" /\ m_thread_running' /\ ~m_disconnect_signaled'
          /\ received' = <<>> /\ stream' = <<>> /\ sent' = 1
          /\ pc' = [t \in Threads |-> IF t = "main" THEN "run" ELSE "test"]
      BY <1>1, <2>1, <2>2 DEF Connect, peerVars
    <3>2. Len(m_messages') = 1 /\ Len(received') = 0 /\ Len(stream') = 0
      BY <3>1
    <3>. QED
      BY <1>2, <3>1, <3>2 DEF Drains, Ending, Leaving, Threads
  <2>3. CASE ~Connect
    <3>1. \A t \in Threads : ~Disconnecting(t)
      BY <1>3, <2>1 DEF Disconnecting, Disconnect, Shutdown, CloseDescriptor, Joins, Join, Clear, Unset, Notify, At, Threads
    <3>2. ~Send /\ ~Close /\ ~Delete /\ ~Exit /\ ~SwitchRead /\ ~SwitchDies /\ ~DisconnectSignal
      BY <1>1, <1>3, <2>1 DEF Send, Close, Delete, Exit, SwitchRead, SwitchDies, DisconnectSignal, At
    <3>3. ~SendThread /\ ~ReceiveThread
      BY <2>1, <3>1 DEF SendThread, SendTest, SendLock, Write, SendUnlock, ReceiveThread, ReceiveTest, ReadFails, At, Threads
    <3>4. UNCHANGED vars
      BY <2>3, <3>1, <3>2, <3>3 DEF Next, Main, Threads
    <3>. QED
      BY <3>4, <1>1 DEF vars, queueVars, socketVars, peerVars, Drains, Ending, Drained
  <2>. QED
    BY <2>2, <2>3
<1>4. CASE pc["main"] # "connect"
  <2>1. pc'["main"] # "connect"
    BY <1>4, ConnectedOnce
  <2>2. CASE Ending \/ DisconnectSignal
    <3>1. Drained
      BY <1>1, <2>2, SignalDrained DEF Drains
    <3>2. Drained' /\ received' = received /\ sent' = sent
      BY <1>2, <1>4, <3>1, StaysDrained
    <3>3. Len(received) + Len(stream) + Len(m_messages) = sent
      BY <1>1, <1>4 DEF Drains
    <3>4. stream' = stream /\ m_messages' = m_messages
      BY <3>1, <3>2 DEF Drained
    <3>. QED
      BY <1>2, <2>1, <3>2, <3>3, <3>4 DEF Drains
  <2>3. CASE ~Ending /\ ~DisconnectSignal
    <3>1. ~Ending'
      BY <1>1, <1>4, <2>3, NothingEnds
    <3>2. fd' = "open" /\ pc'["send"] # "done"
      BY <2>1, <3>1 DEF Ending
    <3>3. Len(received') + Len(stream') + Len(m_messages') = sent'
      BY <1>2, <3>2 DEF OrderInv, Whole
    <3>. QED
      BY <1>2, <2>1, <3>1, <3>3 DEF Drains
  <2>. QED
    BY <2>2, <2>3
<1>. QED
  BY <1>3, <1>4

LEMMA DrainsLoseNothing == OrderInv /\ Drains => NothingLost
<1>. SUFFICES ASSUME OrderInv, Drains, ~faulty,
            pc["main"] # "connect"
     PROVE  ~killed /\ Len(Written) + Len(m_messages) = sent
  BY DEF NothingLost
<1>1. received \in Seq(0..Last) /\ stream \in Seq(0..Last) /\ sent \in Nat
  BY CountAssumption DEF OrderInv, TypeOK, Last
<1>2. Len(Written) = Len(received) + Len(stream)
  BY <1>1 DEF Written
<1>. QED
  BY <1>2 DEF Drains

-----------------------------------------------------------------------------
(* Who still uses the socket when main deletes it.                         *)

\* As long as the switch process lives it is main that ends the connection.
MainFirst ==
  ~faulty /\ pc["main"] \in {"run", "wait", "disconnect", "shutdown"} =>
    /\ fd = "open" /\ m_thread_running /\ m_socket
    /\ pc["send"] \in {"test", "lock", "write", "unlock"}
    /\ pc["receive"] \in {"test", "read"}

\* Whoever sets m_socket to -1, the receive thread is behind its last join then; main
\* is behind the receive thread, unless it found -1 already.
LastLook ==
  /\ ~m_socket => pc["receive"] \in {"notify", "done"}
  /\ pc["main"] \in {"clear", "unset", "notify", "delete", "exit", "done"} =>
       pc["receive"] = "done" \/ (faulty /\ pc["receive"] = "notify")

UseInv == MainFirst /\ LastLook

LEMMA InitUse == Init => UseInv
BY DEF Init, UseInv, MainFirst, LastLook, Threads

LEMMA ConnectUse ==
  ASSUME OrderInv, UseInv, Connect
  PROVE  UseInv'
<1>1. /\ pc["main"] = "connect" /\ m_socket' /\ fd' = "open" /\ faulty' = faulty
      /\ pc["receive"] = "done" /\ pc \in [Threads -> Steps]
  BY DEF Connect, At, OrderInv, ConnectsFirst, TypeOK
<1>2. pc'["main"] = "run"
  BY <1>1 DEF Connect, Goes, Threads
<1>3. ~faulty => m_thread_running' /\ pc'["send"] = "test" /\ pc'["receive"] = "test"
  BY DEF Connect, Threads
<1>. QED
  BY <1>1, <1>2, <1>3 DEF UseInv, MainFirst, LastLook

\* A step of a thread outside disconnect.
LEMMA OrdinaryUse ==
  ASSUME OrderInv, JoinOrder, Drains, UseInv,
         \/ Send \/ Close \/ Delete \/ Exit \/ SendTest \/ SendLock \/ Write \/ SendUnlock
         \/ ReceiveTest \/ ReadFails
  PROVE  UseInv'
<1>1. UNCHANGED <<faulty, m_socket, fd, m_thread_running>>
  BY DEF Send, Close, Delete, Exit, SendTest, SendLock, Write, SendUnlock, ReceiveTest, ReadFails, socketVars
<1>2. TypeOK
  BY DEF OrderInv
<1>3. CASE Send \/ Close \/ Delete \/ Exit
  <2>1. PICK step \in {"run", "wait", "disconnect", "exit", "done"} :
          /\ Goes("main", step) /\ pc["main"] \in {"run", "wait", "delete", "exit"}
          /\ step \in {"exit", "done"} <=> pc["main"] \in {"delete", "exit"}
    BY <1>3 DEF Send, Close, Delete, Exit, At
  <2>2. pc'["main"] = step /\ pc'["send"] = pc["send"] /\ pc'["receive"] = pc["receive"]
    BY <1>2, <2>1, GoesFacts DEF Threads
  <2>. QED
    BY <1>1, <2>1, <2>2 DEF UseInv, MainFirst, LastLook
<1>4. CASE SendTest \/ SendLock \/ SendUnlock
  <2>1. PICK step \in {"lock", "done", "unlock", "write", "test"} :
          Goes("send", step) /\ (step = "done" => ~m_thread_running)
    BY <1>4 DEF SendTest, SendLock, SendUnlock
  <2>2. pc'["main"] = pc["main"] /\ pc'["send"] = step /\ pc'["receive"] = pc["receive"]
    BY <1>2, <2>1, GoesFacts DEF Threads
  <2>. QED
    BY <1>1, <2>1, <2>2 DEF UseInv, MainFirst, LastLook
<1>5. CASE Write
  <2>1. PICK step \in {"unlock", "disconnect"} :
          (Goes("send", step) \/ pc' = pc) /\ (step = "disconnect" => fd # "open" \/ ~peer)
    BY <1>5 DEF Write
  <2>2. /\ pc'["main"] = pc["main"] /\ pc'["send"] \in {step, pc["send"]}
        /\ pc'["receive"] = pc["receive"]
    BY <1>2, <2>1, GoesFacts DEF Threads
  <2>. QED
    BY <1>1, <2>1, <2>2 DEF UseInv, MainFirst, LastLook, Drains
<1>6. CASE ReceiveTest \/ ReadFails
  <2>1. PICK step \in {"read", "done", "disconnect"} :
          /\ Goes("receive", step) /\ pc["receive"] \in {"test", "read"}
          /\ step = "done" => ~m_thread_running
          /\ step = "disconnect" => fd # "open" \/ ~peer
    BY <1>6 DEF ReceiveTest, ReadFails, At
  <2>2. pc'["main"] = pc["main"] /\ pc'["send"] = pc["send"] /\ pc'["receive"] = step
    BY <1>2, <2>1, GoesFacts DEF Threads
  <2>. QED
    BY <1>1, <2>1, <2>2 DEF UseInv, MainFirst, LastLook, Drains
<1>. QED
  BY <1>3, <1>4, <1>5, <1>6

\* disconnect: only main calls it as long as the switch process lives.
LEMMA DisconnectingUse ==
  ASSUME OrderInv, JoinOrder, UseInv, NEW t \in Threads, Disconnecting(t)
  PROVE  UseInv'
<1>1. TypeOK /\ faulty' = faulty
  BY DEF OrderInv, Disconnecting, Disconnect, Shutdown, CloseDescriptor, Joins, Join, Clear, Unset, Notify
<1>2. t = "main" \/ t = "send" \/ t = "receive"
  BY DEF Threads
<1>3. pc["main"] = "clear" /\ pc["receive"] # "done" => pc["send"] # "done"
  BY DEF JoinOrder, Passed, Waits
<1>4. CASE Disconnect(t) \/ Shutdown(t) \/ CloseDescriptor(t) \/ Notify(t)
  <2>1. PICK step \in {"shutdown", "notify", "close", "joinReceive", "delete", "done"} :
          /\ Goes(t, step) /\ m_socket' = m_socket
          /\ pc[t] \in {"disconnect", "shutdown", "close", "notify"}
          /\ step = "notify" => pc[t] = "disconnect" /\ ~m_socket
          /\ step \in {"delete", "done"} <=> pc[t] = "notify"
          /\ step = "delete" => t = "main"
          /\ step = "shutdown" => pc[t] = "disconnect"
          /\ step = "shutdown" => m_socket /\ UNCHANGED <<fd, m_thread_running>>
          /\ step \in {"close", "joinReceive"} => pc[t] \in {"shutdown", "close"}
    BY <1>4 DEF Disconnect, Shutdown, CloseDescriptor, Notify, At, socketVars
  <2>2. /\ pc'["main"] = IF t = "main" THEN step ELSE pc["main"]
        /\ pc'["send"] = IF t = "send" THEN step ELSE pc["send"]
        /\ pc'["receive"] = IF t = "receive" THEN step ELSE pc["receive"]
    BY <1>1, <2>1, GoesFacts DEF Threads
  <2>3. MainFirst'
    BY <1>1, <1>2, <2>1, <2>2 DEF UseInv, MainFirst
  <2>4. ~faulty /\ pc["main"] = "disconnect" => m_socket
    BY DEF UseInv, MainFirst
  <2>5. t = "main" /\ step = "done" => FALSE
    BY <1>1, <1>4, <2>2 DEF Disconnect, Shutdown, CloseDescriptor, Notify, Goes, TypeOK, Threads
  <2>6. LastLook'
    BY <1>1, <1>2, <2>1, <2>2, <2>4, <2>5 DEF UseInv, LastLook
  <2>. QED
    BY <2>3, <2>6 DEF UseInv
<1>5. CASE Joins(t)
  <2>1. UNCHANGED <<m_socket, fd, m_thread_running, lock>>
    BY <1>5 DEF Joins, Join, socketVars
  <2>2. CASE pc' = pc
    BY <1>1, <2>1, <2>2 DEF UseInv, MainFirst, LastLook
  <2>3. CASE pc' # pc
    <3>1. PICK step \in {"joinSend", "clear"} :
            Goes(t, step) /\ pc[t] \in {"joinReceive", "joinSend"} /\ (step = "clear" => pc[t] = "joinSend")
      BY <1>5, <2>3 DEF Joins, Join, At
    <3>2. /\ pc'["main"] = IF t = "main" THEN step ELSE pc["main"]
          /\ pc'["send"] = IF t = "send" THEN step ELSE pc["send"]
          /\ pc'["receive"] = IF t = "receive" THEN step ELSE pc["receive"]
      BY <1>1, <3>1, GoesFacts DEF Threads
    <3>3. MainFirst'
      BY <1>1, <1>2, <2>1, <3>1, <3>2 DEF UseInv, MainFirst
    <3>4. pc'["main"] = "clear" /\ t = "main" => pc'["receive"] = "done"
      <4>1. JoinOrder'
        BY <1>5, JoinJoinOrder
      <4>. QED
        BY <4>1 DEF JoinOrder, Passed, Waits
    <3>5. LastLook'
      BY <1>1, <1>2, <2>1, <3>1, <3>2, <3>4 DEF UseInv, LastLook
    <3>. QED
      BY <3>3, <3>5 DEF UseInv
  <2>. QED
    BY <2>2, <2>3
<1>6. CASE Clear(t) \/ Unset(t)
  <2>1. PICK step \in {"unset", "notify"} :
          /\ Goes(t, step) /\ UNCHANGED <<fd, m_thread_running>>
          /\ step = "unset" => pc[t] = "clear" /\ m_socket' = m_socket
          /\ step = "notify" => pc[t] = "unset" /\ m_socket' = FALSE
    BY <1>6 DEF Clear, Unset, At, socketVars
  <2>2. /\ pc'["main"] = IF t = "main" THEN step ELSE pc["main"]
        /\ pc'["send"] = IF t = "send" THEN step ELSE pc["send"]
        /\ pc'["receive"] = IF t = "receive" THEN step ELSE pc["receive"]
    BY <1>1, <2>1, GoesFacts DEF Threads
  <2>3. pc["send"] # "unset"
    BY DEF JoinOrder, SendLeaves
  <2>4. MainFirst'
    BY <1>1, <1>2, <2>1, <2>2, <2>3 DEF UseInv, MainFirst
  <2>5. LastLook'
    BY <1>1, <1>2, <2>1, <2>2, <2>3 DEF UseInv, LastLook
  <2>. QED
    BY <2>4, <2>5 DEF UseInv
<1>. QED
  BY <1>4, <1>5, <1>6 DEF Disconnecting

LEMMA StepUse == OrderInv /\ JoinOrder /\ Drains /\ UseInv /\ [Next]_vars => UseInv'
<1>. SUFFICES ASSUME OrderInv, JoinOrder, Drains, UseInv, [Next]_vars PROVE UseInv'
  OBVIOUS
<1>1. CASE SwitchRead \/ SwitchDies \/ DisconnectSignal \/ UNCHANGED vars
  <2>1. UNCHANGED <<faulty, pc, m_socket, fd, m_thread_running>>
    BY <1>1 DEF SwitchRead, SwitchDies, DisconnectSignal, vars, socketVars
  <2>. QED
    BY <2>1 DEF UseInv, MainFirst, LastLook
<1>2. CASE Main \/ SendThread \/ ReceiveThread
  BY <1>2, ConnectUse, OrdinaryUse, DisconnectingUse DEF Main, SendThread, ReceiveThread, Threads
<1>. QED
  BY <1>1, <1>2 DEF Next

-----------------------------------------------------------------------------
\* Every variable of a node's socket keeps its type, for any number of messages,
\* whatever happens to the connection: the run loop never sends after END.
THEOREM TypeCorrect == Spec => []TypeOK
<1>1. OrderInv => TypeOK
  BY DEF OrderInv
<1>. QED
  BY <1>1, InitInv, StepInv, PTL DEF Spec

\* What the switch has of a node's messages is always the first so many of them, in
\* the order in which Socket::send got them, also when disconnect empties the queue
\* in another thread, a write fails, or the switch process dies.
THEOREM SentInOrder == Spec => []InOrder
<1>. QED
  BY InitInv, StepInv, OrderImpliesInOrder, PTL DEF Spec

\* As long as the switch process lives, disconnect finds nothing to throw away and no
\* signal strikes: the node has END confirmed before it closes the connection, and
\* END is behind all other messages.
THEOREM NoMessageLost == Spec => []NothingLost
<1>1. OrderInv /\ Drains /\ [Next]_vars => OrderInv' /\ Drains'
  BY StepInv, StepDrains
<1>. QED
  BY <1>1, InitInv, InitDrains, DrainsLoseNothing, PTL DEF Spec

\* Whoever disconnects first, and whichever joins are refused, when main has deleted
\* the socket the other threads are done with it, but for the last look of the receive
\* thread at its listener where the connection broke first.
THEOREM DeletedLast == Spec => []DeletedUnused
<1>1. JoinOrder /\ UseInv => DeletedUnused
  BY DEF JoinOrder, Passed, UseInv, LastLook, DeletedUnused
<1>2. OrderInv /\ JoinOrder /\ Drains /\ UseInv /\ [Next]_vars =>
        OrderInv' /\ JoinOrder' /\ Drains' /\ UseInv'
  BY StepInv, StepJoinOrder, StepDrains, StepUse
<1>. QED
  BY <1>1, <1>2, InitInv, InitJoinOrder, InitDrains, InitUse, PTL DEF Spec

=============================================================================
