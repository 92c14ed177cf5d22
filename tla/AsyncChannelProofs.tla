-------------------------- MODULE AsyncChannelProofs --------------------------
(* Theorems about AsyncChannel, for every capacity and every number of      *)
(* operations.                                                              *)
EXTENDS AsyncChannel, TLAPS

\* What the provers need about task records.
LEMMA TaskFacts ==
  /\ PendingTask \in SendTasks /\ PendingTask \in RecvTasks
  /\ ReadyTask(0) \in SendTasks /\ ReadyTask(1) \in SendTasks
  /\ \A t \in SendTasks : Completed(t, 1) \in SendTasks
  /\ ReadyTask(Closed) \in RecvTasks
  /\ \A n \in Sends : ReadyTask(n) \in RecvTasks
  /\ \A t \in RecvTasks : Completed(t, Closed) \in RecvTasks
  /\ \A t \in RecvTasks, n \in Sends : Completed(t, n) \in RecvTasks
  /\ \A t \in SendTasks : [t EXCEPT !.cancelled = TRUE] \in SendTasks
  /\ \A t \in RecvTasks : [t EXCEPT !.cancelled = TRUE] \in RecvTasks
BY DEF Task, SendTasks, RecvTasks, Completed, PendingTask, ReadyTask

\* Popping the head of a queue.
LEMMA DropFacts ==
  ASSUME NEW S, NEW s \in Seq(S)
  PROVE  /\ DropHead(s) \in Seq(S)
         /\ s # <<>> => Head(s) \in S /\ Tail(s) \in Seq(S)
BY DEF DropHead

LEMMA TypeStep == TypeOK /\ [Next]_vars => TypeOK'
<1> SUFFICES ASSUME TypeOK, [Next]_vars PROVE TypeOK'
  OBVIOUS
<1>0. closed' \in BOOLEAN
  BY Zenon DEF TypeOK, Next, vars, Send, Recv, Close, CancelSend, CancelRecv,
     DriveServe, DriveBuffer
<1>1. CASE Send
  <2> DEFINE n == nsends'
  <2>0. n \in Sends /\ nsends' \in 0..MaxSends /\ UNCHANGED <<closed, nrecvs, phase>>
    BY <1>1, BoundsAssumption DEF Send, TypeOK, Sends
  <2>1. CASE SendRefused(n)
    BY <1>0, <2>0, <2>1, TaskFacts DEF SendRefused, TypeOK
  <2>2. CASE SendToReceiver(n)
    BY <1>0, <2>0, <2>2, TaskFacts DEF SendToReceiver, TypeOK, ReceiverWaits
  <2>3. CASE SendToBuffer(n)
    <3>1. pending_recvs' \in Seq(Recvs)
      BY <2>3, DropFacts DEF SendToBuffer, TypeOK
    <3>2. queue' \in Seq(Sends) /\ pending_sends' \in Seq(Sends)
      BY <2>0, <2>3 DEF SendToBuffer, TypeOK
    <3>3. sendTask' \in [Sends -> SendTasks] /\ recvTask' \in [Recvs -> RecvTasks]
      BY <2>3, TaskFacts DEF SendToBuffer, TypeOK
    <3>4. QED
      BY <1>0, <2>0, <3>1, <3>2, <3>3 DEF TypeOK
  <2>4. CASE SendWaits(n)
    <3>1. pending_recvs' \in Seq(Recvs)
      BY <2>4, DropFacts DEF SendWaits, TypeOK
    <3>2. queue' \in Seq(Sends) /\ pending_sends' \in Seq(Sends)
      BY <2>0, <2>4 DEF SendWaits, TypeOK
    <3>3. sendTask' \in [Sends -> SendTasks] /\ recvTask' \in [Recvs -> RecvTasks]
      BY <2>4, TaskFacts DEF SendWaits, TypeOK
    <3>4. QED
      BY <1>0, <2>0, <3>1, <3>2, <3>3 DEF TypeOK
  <2>5. QED
    BY <1>1, <2>1, <2>2, <2>3, <2>4 DEF Send
<1>2. CASE Recv
  <2> DEFINE r == nrecvs'
  <2>0. r \in Recvs /\ nrecvs' \in 0..MaxRecvs /\ UNCHANGED <<closed, nsends>>
    BY <1>2, BoundsAssumption DEF Recv, TypeOK, Recvs
  <2>1. CASE RecvBuffered(r)
    BY <1>0, <2>0, <2>1, TaskFacts DEF RecvBuffered, TypeOK
  <2>2. ASSUME RecvEmpty(r) PROVE pending_sends' \in Seq(Sends) /\ UNCHANGED <<queue, phase>>
    BY <2>2, DropFacts DEF RecvEmpty, TypeOK
  <2>3. CASE RecvEmpty(r) /\ RecvFromSender(r)
    BY <1>0, <2>0, <2>2, <2>3, TaskFacts, DropFacts
       DEF RecvFromSender, SenderWaits, TypeOK
  <2>4. CASE RecvEmpty(r) /\ RecvClosed(r)
    BY <1>0, <2>0, <2>2, <2>4, TaskFacts DEF RecvClosed, TypeOK
  <2>5. CASE RecvEmpty(r) /\ RecvWaits(r)
    BY <1>0, <2>0, <2>2, <2>5, TaskFacts DEF RecvWaits, TypeOK
  <2>6. QED
    BY <1>2, <2>1, <2>3, <2>4, <2>5 DEF Recv, RecvEmpty
<1>3. CASE Close
  BY <1>0, <1>3 DEF Close, TypeOK
<1>4. ASSUME NEW n \in Sends, CancelSend(n) PROVE TypeOK'
  BY <1>0, <1>4, TaskFacts DEF CancelSend, TypeOK
<1>5. ASSUME NEW r \in Recvs, CancelRecv(r) PROVE TypeOK'
  BY <1>0, <1>5, TaskFacts DEF CancelRecv, TypeOK
<1>6. CASE DriveServe
  <2> DEFINE r == Head(pending_recvs)
  <2>1. CASE ServeEnd
    BY <1>0, <1>6, <2>1 DEF DriveServe, ServeEnd, TypeOK
  <2>2. CASE pending_recvs # <<>>
    <3>0. r \in Recvs /\ Tail(pending_recvs) \in Seq(Recvs)
      BY <2>2, DropFacts DEF TypeOK
    <3>1. CASE ServeCancelled(r)
      BY <1>0, <1>6, <3>0, <3>1 DEF DriveServe, ServeCancelled, TypeOK
    <3>2. CASE ServeFromBuffer(r)
      BY <1>0, <1>6, <3>0, <3>2, TaskFacts, DropFacts DEF DriveServe, ServeFromBuffer, TypeOK
    <3>3. CASE ServeFromSender(r)
      BY <1>0, <1>6, <3>0, <3>3, TaskFacts, DropFacts
         DEF DriveServe, ServeFromSender, SenderWaits, TypeOK
    <3>4. CASE ServeClosed(r)
      BY <1>0, <1>6, <3>0, <3>4, TaskFacts, DropFacts DEF DriveServe, ServeClosed, TypeOK
    <3>5. CASE ServeNothing(r)
      BY <1>0, <1>6, <3>5, DropFacts DEF DriveServe, ServeNothing, TypeOK
    <3>6. CASE ServeEnd
      BY <2>1, <3>6
    <3>7. QED
      BY <1>6, <3>1, <3>2, <3>3, <3>4, <3>5, <3>6 DEF DriveServe
  <2>3. QED
    BY <1>6, <2>1, <2>2 DEF DriveServe
<1>7. CASE DriveBuffer
  <2> DEFINE n == Head(pending_sends)
  <2>1. CASE CanBuffer /\ BufferCancelled(n)
    BY <1>0, <1>7, <2>1, DropFacts DEF DriveBuffer, CanBuffer, BufferCancelled, TypeOK
  <2>2. CASE CanBuffer /\ BufferSend(n)
    BY <1>0, <1>7, <2>2, TaskFacts, DropFacts DEF DriveBuffer, CanBuffer, BufferSend, TypeOK
  <2>3. CASE BufferEnd
    BY <1>0, <1>7, <2>3 DEF DriveBuffer, BufferEnd, TypeOK
  <2>4. QED
    BY <1>7, <2>1, <2>2, <2>3 DEF DriveBuffer
<1>8. CASE UNCHANGED vars
  BY <1>8 DEF vars, TypeOK
<1>9. QED
  BY <1>1, <1>2, <1>3, <1>4, <1>5, <1>6, <1>7, <1>8 DEF Next

\* Every reachable state is well typed: the three queues only ever hold the
\* numbers of operations that were called.
THEOREM TypeCorrect == Spec => []TypeOK
<1>1. Init => TypeOK
  <2> SUFFICES ASSUME Init PROVE TypeOK
    OBVIOUS
  <2>1. closed \in BOOLEAN
    BY DEF Init
  <2>2. QED
    BY <2>1, TaskFacts, BoundsAssumption DEF Init, TypeOK
<1>2. QED
  BY <1>1, TypeStep, PTL DEF Spec
-----------------------------------------------------------------------------
(* The inductive invariant                                                 *)

Increasing(s) == \A i, j \in 1..Len(s) : i < j => s[i] < s[j]

\* Values are buffered and senders wait in the order of their sends, receivers in
\* the order of their calls.
Order ==
  /\ Increasing(queue) /\ Increasing(pending_sends) /\ Increasing(pending_recvs)
  /\ \A m \in Elements(queue), n \in Elements(pending_sends) : m < n
  /\ \A n \in Elements(queue) \cup Elements(pending_sends) : n <= nsends
  /\ \A r \in Elements(pending_recvs) : r <= nrecvs

\* A send that was not called has no outcome.  One that was called waits in its queue
\* just as long as it has none, unless it was cancelled.
SendsWait ==
  /\ \A n \in Sends : n > nsends => ~sendTask[n].completed
  /\ \A n \in Elements(pending_sends) : ~sendTask[n].completed
  /\ \A n \in 1..nsends : sendTask[n].completed \/ sendTask[n].cancelled \/ n \in Elements(pending_sends)

\* The same of a receive.
RecvsWait ==
  /\ \A r \in Recvs : r > nrecvs => ~recvTask[r].completed /\ ~recvTask[r].cancelled
  /\ \A r \in Elements(pending_recvs) : ~recvTask[r].completed
  /\ \A r \in 1..nrecvs : recvTask[r].completed \/ recvTask[r].cancelled \/ r \in Elements(pending_recvs)

Takes(r, n) == recvTask[r].completed /\ recvTask[r].value = n

\* An accepted value is in the buffer or with one receive, and only such a value is.
Once ==
  \A n \in Sends :
    /\ Accepted(n) => n \in Elements(queue) \/ \E r \in Recvs : Takes(r, n)
    /\ n \in Elements(queue) => Accepted(n) /\ \A r \in Recvs : ~Takes(r, n)
    /\ \A r \in Recvs : Takes(r, n) => Accepted(n)
    /\ \A r, s \in Recvs : Takes(r, n) /\ Takes(s, n) => r = s

\* Room in the buffer, and the end of the channel.
Room ==
  /\ Len(queue) <= Capacity
  /\ phase = "idle" /\ pending_sends # <<>> => Len(queue) = Capacity
  /\ closed /\ phase # "serve" => pending_recvs = <<>>

\* As long as no receive was cancelled, none waits beside a value, and values go to
\* receives in order.
InTurn ==
  NoRecvCancelled =>
    /\ pending_recvs # <<>> => queue = <<>> /\ pending_sends = <<>>
    /\ \A r \in Recvs, m \in Sends : Takes(r, m) =>
         /\ \A s \in Elements(pending_recvs) : r < s
         /\ \A n \in Elements(queue) \cup Elements(pending_sends) : m < n
         /\ \A s \in Recvs, n \in Sends : Takes(s, n) /\ r < s => m < n

IInv == TypeOK /\ Order /\ SendsWait /\ RecvsWait /\ Once /\ Room /\ InTurn

-----------------------------------------------------------------------------
(* Queues as sets                                                          *)

LEMMA EmptyQueue ==
  /\ Elements(<<>>) = {} /\ Increasing(<<>>)
  /\ \A S : \A s \in Seq(S) : Elements(s) \subseteq S /\ (s = <<>> <=> Elements(s) = {})
<1>1. Elements(<<>>) = {} /\ Increasing(<<>>)
  BY DEF Elements, Increasing
<1>2. ASSUME NEW S, NEW s \in Seq(S)
      PROVE  Elements(s) \subseteq S /\ (s = <<>> <=> Elements(s) = {})
  <2>1. s # <<>> => s[1] \in Elements(s)
    BY DEF Elements
  <2>2. Elements(s) \subseteq S
    BY DEF Elements
  <2>3. QED
    BY <1>1, <2>1, <2>2
<1>3. QED
  BY <1>1, <1>2

LEMMA AppendQueue ==
  ASSUME NEW k \in Nat, NEW s \in Seq(1..k), NEW e \in 1..k, Increasing(s),
         \A x \in Elements(s) : x < e
  PROVE  /\ Increasing(Append(s, e)) /\ Elements(Append(s, e)) = Elements(s) \cup {e}
         /\ Len(Append(s, e)) = Len(s) + 1
<1>1. Len(Append(s, e)) = Len(s) + 1 /\ Append(s, e)[Len(s) + 1] = e
      /\ \A i \in 1..Len(s) : Append(s, e)[i] = s[i] /\ s[i] \in Elements(s) /\ s[i] \in 1..k
  BY DEF Elements
<1>2. Increasing(Append(s, e))
  <2> SUFFICES ASSUME NEW i \in 1..(Len(s) + 1), NEW j \in 1..(Len(s) + 1), i < j
               PROVE  Append(s, e)[i] < Append(s, e)[j]
    BY <1>1 DEF Increasing
  <2>1. i \in 1..Len(s)
    OBVIOUS
  <2>2. CASE j \in 1..Len(s)
    BY <1>1, <2>1, <2>2 DEF Increasing
  <2>3. CASE j = Len(s) + 1
    BY <1>1, <2>1, <2>3
  <2>4. j \in 1..Len(s) \/ j = Len(s) + 1
    OBVIOUS
  <2>5. QED
    BY <2>2, <2>3, <2>4
<1>3. Elements(Append(s, e)) = Elements(s) \cup {e}
  <2>1. ASSUME NEW x \in Elements(Append(s, e)) PROVE x \in Elements(s) \cup {e}
    <3>1. PICK i \in 1..(Len(s) + 1) : x = Append(s, e)[i]
      BY <1>1, <2>1 DEF Elements
    <3>2. QED
      BY <1>1, <3>1
  <2>2. ASSUME NEW x \in Elements(s) PROVE x \in Elements(Append(s, e))
    <3>1. PICK i \in 1..Len(s) : x = s[i]
      BY <2>2 DEF Elements
    <3>2. i \in 1..Len(Append(s, e)) /\ x = Append(s, e)[i]
      BY <1>1, <3>1
    <3>3. QED
      BY <3>2 DEF Elements
  <2>3. e \in Elements(Append(s, e))
    BY <1>1 DEF Elements
  <2>4. QED
    BY <2>1, <2>2, <2>3
<1>4. QED
  BY <1>1, <1>2, <1>3

LEMMA TailQueue ==
  ASSUME NEW k \in Nat, NEW s \in Seq(1..k), s # <<>>, Increasing(s)
  PROVE  /\ Increasing(Tail(s)) /\ Head(s) \in Elements(s)
         /\ Elements(Tail(s)) = Elements(s) \ {Head(s)}
         /\ \A x \in Elements(Tail(s)) : Head(s) < x
         /\ Len(Tail(s)) = Len(s) - 1
<1>1. /\ Len(Tail(s)) = Len(s) - 1 /\ Len(s) \in Nat \ {0} /\ Head(s) = s[1]
      /\ \A i \in 1..(Len(s) - 1) : Tail(s)[i] = s[i + 1] /\ i + 1 \in 1..Len(s)
      /\ \A i \in 1..Len(s) : s[i] \in 1..k
  OBVIOUS
<1>2. Increasing(Tail(s))
  BY <1>1 DEF Increasing
<1>3. Head(s) \in Elements(s)
  BY <1>1 DEF Elements
<1>4. ASSUME NEW x \in Elements(Tail(s)) PROVE x \in Elements(s) /\ Head(s) < x /\ x # Head(s)
  <2>1. PICK i \in 1..(Len(s) - 1) : x = Tail(s)[i]
    BY <1>1, <1>4 DEF Elements
  <2>2. x = s[i + 1] /\ i + 1 \in 1..Len(s) /\ 1 \in 1..Len(s) /\ 1 < i + 1
    BY <1>1, <2>1
  <2>3. s[1] < s[i + 1]
    BY <2>2 DEF Increasing
  <2>4. s[1] \in 1..k /\ s[i + 1] \in 1..k
    BY <1>1, <2>2
  <2>5. QED
    BY <1>1, <2>2, <2>3, <2>4 DEF Elements
<1>5. ASSUME NEW x \in Elements(s), x # Head(s) PROVE x \in Elements(Tail(s))
  <2>1. PICK i \in 1..Len(s) : x = s[i]
    BY <1>5 DEF Elements
  <2>2. i - 1 \in 1..(Len(s) - 1)
    BY <1>1, <1>5, <2>1
  <2>3. x = Tail(s)[i - 1]
    BY <1>1, <2>1, <2>2
  <2>4. QED
    BY <1>1, <2>2, <2>3 DEF Elements
<1>6. QED
  BY <1>1, <1>2, <1>3, <1>4, <1>5

LEMMA DropQueue ==
  ASSUME NEW k \in Nat, NEW s \in Seq(1..k), Increasing(s)
  PROVE  /\ Increasing(DropHead(s))
         /\ Elements(DropHead(s)) = IF s = <<>> THEN {} ELSE Elements(s) \ {Head(s)}
         /\ s = <<>> => DropHead(s) = <<>>
<1>1. CASE s = <<>>
  BY <1>1, EmptyQueue DEF DropHead
<1>2. CASE s # <<>>
  BY <1>2, TailQueue DEF DropHead
<1>3. QED
  BY <1>1, <1>2

-----------------------------------------------------------------------------
(* What a step does to the values: nothing, it hands one to a receive, or  *)
(* it puts one into the buffer                                             *)

SameValues ==
  /\ \A n \in Sends : Accepted(n)' <=> Accepted(n)
  /\ \A r \in Recvs, n \in Sends : Takes(r, n)' <=> Takes(r, n)

HandsOver(r, n) ==
  /\ \A m \in Sends : Accepted(m)' <=> Accepted(m) \/ m = n
  /\ \A s \in Recvs, m \in Sends : Takes(s, m)' <=> Takes(s, m) \/ (s = r /\ m = n)

Buffers(n) ==
  /\ \A m \in Sends : Accepted(m)' <=> Accepted(m) \/ m = n
  /\ \A s \in Recvs, m \in Sends : Takes(s, m)' <=> Takes(s, m)

LEMMA SameOnce ==
  ASSUME Once, SameValues, Elements(queue') = Elements(queue)
  PROVE  Once'
BY Zenon DEF Once, SameValues

LEMMA HandOverOnce ==
  ASSUME Once, NEW r \in Recvs, NEW n \in Sends, HandsOver(r, n),
         Elements(queue') = Elements(queue) \ {n}, n \in Elements(queue) \/ ~Accepted(n)
  PROVE  Once'
<1>1. \A s \in Recvs : ~Takes(s, n)
  BY Zenon DEF Once
<1>2. \A m \in Sends : m \in Elements(queue)' <=> m \in Elements(queue) /\ m # n
  BY Zenon
<1>3. ASSUME NEW m \in Sends, m # n
      PROVE  /\ Accepted(m)' <=> Accepted(m)
             /\ \A s \in Recvs : Takes(s, m)' <=> Takes(s, m)
             /\ m \in Elements(queue)' <=> m \in Elements(queue)
  BY Zenon, <1>2, <1>3 DEF HandsOver
<1>4. /\ Accepted(n)' /\ n \notin Elements(queue)'
      /\ \A s \in Recvs : Takes(s, n)' <=> s = r
  BY Zenon, <1>1, <1>2 DEF HandsOver
<1>5. QED
  BY Zenon, <1>3, <1>4 DEF Once

LEMMA BufferOnce ==
  ASSUME Once, NEW n \in Sends, Buffers(n), ~Accepted(n),
         Elements(queue') = Elements(queue) \cup {n}
  PROVE  Once'
<1>1. \A s \in Recvs : ~Takes(s, n)
  BY Zenon DEF Once
<1>2. \A m \in Sends : m \in Elements(queue)' <=> m \in Elements(queue) \/ m = n
  BY Zenon
<1>3. ASSUME NEW m \in Sends, m # n
      PROVE  /\ Accepted(m)' <=> Accepted(m)
             /\ \A s \in Recvs : Takes(s, m)' <=> Takes(s, m)
             /\ m \in Elements(queue)' <=> m \in Elements(queue)
  BY Zenon, <1>2, <1>3 DEF Buffers
<1>4. /\ Accepted(n)' /\ n \in Elements(queue)'
      /\ \A s \in Recvs : ~Takes(s, n)'
  BY Zenon, <1>1, <1>2 DEF Buffers
<1>5. QED
  BY Zenon, <1>3, <1>4 DEF Once

\* Nobody has taken anything new: what comes to the queues must come after what was
\* taken, and a receive may wait only beside empty queues.
LEMMA SameTurn ==
  ASSUME InTurn, NoRecvCancelled' => NoRecvCancelled,
         \A r \in Recvs, n \in Sends : Takes(r, n)' <=> Takes(r, n),
         NoRecvCancelled /\ NoRecvCancelled' =>
           /\ pending_recvs' # <<>> => queue' = <<>> /\ pending_sends' = <<>>
           /\ \A r \in Recvs, m \in Sends : Takes(r, m) =>
                /\ \A s \in Elements(pending_recvs)' : s \in Elements(pending_recvs) \/ r < s
                /\ \A n \in Elements(queue)' \cup Elements(pending_sends)' :
                     n \in Elements(queue) \cup Elements(pending_sends) \/ m < n
  PROVE  InTurn'
<1> SUFFICES ASSUME NoRecvCancelled'
             PROVE  /\ pending_recvs' # <<>> => queue' = <<>> /\ pending_sends' = <<>>
                    /\ \A r \in Recvs, m \in Sends : Takes(r, m)' =>
                         /\ \A s \in Elements(pending_recvs)' : r < s
                         /\ \A n \in Elements(queue)' \cup Elements(pending_sends)' : m < n
                         /\ \A s \in Recvs, n \in Sends : Takes(s, n)' /\ r < s => m < n
  BY Zenon DEF InTurn
<1>1. NoRecvCancelled
  BY Zenon
<1>2. ASSUME NEW r \in Recvs, NEW m \in Sends, Takes(r, m)'
      PROVE  /\ \A s \in Elements(pending_recvs)' : r < s
             /\ \A n \in Elements(queue)' \cup Elements(pending_sends)' : m < n
             /\ \A s \in Recvs, n \in Sends : Takes(s, n)' /\ r < s => m < n
  <2>1. Takes(r, m)
    BY Zenon, <1>2
  <2>2. \A s \in Elements(pending_recvs)' : r < s
    BY Zenon, <1>1, <2>1 DEF InTurn
  <2>3. \A n \in Elements(queue)' \cup Elements(pending_sends)' : m < n
    BY Zenon, <1>1, <2>1 DEF InTurn
  <2>4. \A s \in Recvs, n \in Sends : Takes(s, n)' /\ r < s => m < n
    BY Zenon, <1>1, <2>1 DEF InTurn
  <2>5. QED
    BY Zenon, <2>2, <2>3, <2>4
<1>3. QED
  BY Zenon, <1>1, <1>2

\* The receive that takes a value is later than all that took one, and so is the value.
LEMMA HandOverTurn ==
  ASSUME InTurn, NoRecvCancelled' => NoRecvCancelled, NEW r \in Recvs, NEW n \in Sends,
         HandsOver(r, n),
         NoRecvCancelled /\ NoRecvCancelled' =>
           /\ pending_recvs' # <<>> => queue' = <<>> /\ pending_sends' = <<>>
           /\ \A s \in Recvs, m \in Sends : Takes(s, m) => s < r /\ m < n
           /\ \A s \in Elements(pending_recvs)' : s \in Elements(pending_recvs) /\ r < s
           /\ \A m \in Elements(queue)' \cup Elements(pending_sends)' :
                m \in Elements(queue) \cup Elements(pending_sends) /\ n < m
  PROVE  InTurn'
<1> SUFFICES ASSUME NoRecvCancelled'
             PROVE  /\ pending_recvs' # <<>> => queue' = <<>> /\ pending_sends' = <<>>
                    /\ \A s \in Recvs, m \in Sends : Takes(s, m)' =>
                         /\ \A u \in Elements(pending_recvs)' : s < u
                         /\ \A k \in Elements(queue)' \cup Elements(pending_sends)' : m < k
                         /\ \A u \in Recvs, k \in Sends : Takes(u, k)' /\ s < u => m < k
  BY Zenon DEF InTurn
<1>1. NoRecvCancelled
  BY Zenon
<1>2. ASSUME NEW s \in Recvs, NEW m \in Sends, Takes(s, m)'
      PROVE  /\ \A u \in Elements(pending_recvs)' : s < u
             /\ \A k \in Elements(queue)' \cup Elements(pending_sends)' : m < k
             /\ \A u \in Recvs, k \in Sends : Takes(u, k)' /\ s < u => m < k
  <2>1. CASE s = r /\ m = n
    <3>1. \A u \in Recvs, k \in Sends : Takes(u, k)' => u = r \/ u < r
      BY Zenon, <1>1 DEF HandsOver
    <3>2. \A u \in Recvs, k \in Sends : ~(Takes(u, k)' /\ r < u)
      BY <3>1 DEF Recvs
    <3>3. QED
      BY Zenon, <1>1, <2>1, <3>2
  <2>2. CASE Takes(s, m)
    <3>1. \A u \in Recvs, k \in Sends : Takes(u, k)' => Takes(u, k) \/ k = n
      BY Zenon DEF HandsOver
    <3>2. \A u \in Recvs, k \in Sends : Takes(u, k)' /\ s < u => m < k
      <4>1. m < n
        BY Zenon, <1>1, <2>2
      <4>2. \A u \in Recvs, k \in Sends : Takes(u, k) /\ s < u => m < k
        BY Zenon, <1>1, <2>2 DEF InTurn
      <4>3. QED
        BY Zenon, <3>1, <4>1, <4>2
    <3>3. QED
      BY Zenon, <1>1, <2>2, <3>2 DEF InTurn
  <2>3. QED
    BY Zenon, <1>2, <2>1, <2>2 DEF HandsOver
<1>3. QED
  BY Zenon, <1>1, <1>2

-----------------------------------------------------------------------------
(* What a step does to the operations: it changes one send, one receive    *)

\* What an invariant state says of the queues as sets.
LEMMA Members ==
  ASSUME IInv
  PROVE  /\ Elements(queue) \subseteq Sends /\ Elements(pending_sends) \subseteq Sends
         /\ Elements(pending_recvs) \subseteq Recvs
         /\ queue = <<>> <=> Elements(queue) = {}
         /\ pending_sends = <<>> <=> Elements(pending_sends) = {}
         /\ pending_recvs = <<>> <=> Elements(pending_recvs) = {}
<1>1. queue \in Seq(Sends) /\ pending_sends \in Seq(Sends) /\ pending_recvs \in Seq(Recvs)
  BY Zenon DEF IInv, TypeOK
<1>2. QED
  BY <1>1, EmptyQueue

\* complete_task on a task that was not cancelled.
LEMMA CompletedTask ==
  ASSUME NEW V, NEW t \in Task(V), ~t.cancelled, NEW v
  PROVE  Completed(t, v).completed /\ Completed(t, v).value = v /\ ~Completed(t, v).cancelled
<1>1. Completed(t, v) = [t EXCEPT !.completed = TRUE, !.value = v]
  BY Zenon DEF Completed
<1>2. QED
  BY <1>1 DEF Task

LEMMA RecvCompletes ==
  ASSUME IInv, NEW r \in Recvs, ~recvTask[r].cancelled, NEW v,
         recvTask' = [recvTask EXCEPT ![r] = Completed(@, v)]
  PROVE  /\ recvTask'[r].completed /\ recvTask'[r].value = v /\ ~recvTask'[r].cancelled
         /\ \A s \in Recvs : s # r => recvTask'[s] = recvTask[s]
         /\ NoRecvCancelled' => NoRecvCancelled
<1>1. recvTask[r] \in RecvTasks /\ recvTask \in [Recvs -> RecvTasks]
  BY Zenon DEF IInv, TypeOK
<1>2. recvTask'[r] = Completed(recvTask[r], v) /\ \A s \in Recvs : s # r => recvTask'[s] = recvTask[s]
  BY Zenon, <1>1
<1>3. recvTask'[r].completed /\ recvTask'[r].value = v /\ ~recvTask'[r].cancelled
  BY ZenonT(60), <1>1, <1>2, CompletedTask DEF RecvTasks
<1>4. QED
  BY Zenon, <1>2, <1>3 DEF NoRecvCancelled

LEMMA SendCompletes ==
  ASSUME IInv, NEW n \in Sends, ~sendTask[n].cancelled,
         sendTask' = [sendTask EXCEPT ![n] = Completed(@, 1)]
  PROVE  /\ sendTask'[n].completed /\ sendTask'[n].value = 1
         /\ \A m \in Sends : m # n => sendTask'[m] = sendTask[m]
<1>1. sendTask[n] \in SendTasks /\ sendTask \in [Sends -> SendTasks]
  BY Zenon DEF IInv, TypeOK
<1>2. sendTask'[n] = Completed(sendTask[n], 1) /\ \A m \in Sends : m # n => sendTask'[m] = sendTask[m]
  BY Zenon, <1>1
<1>3. QED
  BY ZenonT(60), <1>1, <1>2, CompletedTask DEF SendTasks

LEMMA SendSide ==
  ASSUME IInv, TypeOK', NEW n \in Sends, n <= nsends', nsends <= nsends',
         \A m \in 1..nsends' : m # n => m <= nsends,
         \A m \in Sends : m # n => sendTask'[m] = sendTask[m],
         Elements(pending_sends') \subseteq Elements(pending_sends) \cup {n},
         Elements(pending_sends) \subseteq Elements(pending_sends') \cup {n},
         sendTask'[n].completed \/ sendTask'[n].cancelled \/ n \in Elements(pending_sends'),
         n \in Elements(pending_sends') => ~sendTask'[n].completed
  PROVE  SendsWait'
<1>1. nsends' \in Nat /\ nsends \in Nat /\ 1..nsends' \subseteq Sends
  BY BoundsAssumption DEF IInv, TypeOK, Sends
<1>2. ASSUME NEW m \in Sends, m > nsends' PROVE ~sendTask'[m].completed
  <2>1. m # n /\ m > nsends
    BY <1>1, <1>2 DEF Sends
  <2>2. QED
    BY Zenon, <2>1 DEF IInv, SendsWait
<1>3. ASSUME NEW m \in Elements(pending_sends') PROVE ~sendTask'[m].completed
  BY Zenon, <1>3, Members DEF IInv, SendsWait
<1>4. ASSUME NEW m \in 1..nsends'
      PROVE  sendTask'[m].completed \/ sendTask'[m].cancelled \/ m \in Elements(pending_sends')
  <2>1. CASE m = n
    BY Zenon, <2>1
  <2>2. CASE m # n
    <3>1. m \in 1..nsends /\ m \in Sends
      BY <1>1, <2>2
    <3>2. QED
      BY Zenon, <2>2, <3>1 DEF IInv, SendsWait
  <2>3. QED
    BY Zenon, <2>1, <2>2
<1>5. QED
  BY Zenon, <1>2, <1>3, <1>4 DEF SendsWait

LEMMA RecvSide ==
  ASSUME IInv, TypeOK', NEW n \in Recvs, n <= nrecvs', nrecvs <= nrecvs',
         \A m \in 1..nrecvs' : m # n => m <= nrecvs,
         \A m \in Recvs : m # n => recvTask'[m] = recvTask[m],
         Elements(pending_recvs') \subseteq Elements(pending_recvs) \cup {n},
         Elements(pending_recvs) \subseteq Elements(pending_recvs') \cup {n},
         recvTask'[n].completed \/ recvTask'[n].cancelled \/ n \in Elements(pending_recvs'),
         n \in Elements(pending_recvs') => ~recvTask'[n].completed
  PROVE  RecvsWait'
<1>1. nrecvs' \in Nat /\ nrecvs \in Nat /\ 1..nrecvs' \subseteq Recvs
  BY BoundsAssumption DEF IInv, TypeOK, Recvs
<1>2. ASSUME NEW m \in Recvs, m > nrecvs' PROVE ~recvTask'[m].completed /\ ~recvTask'[m].cancelled
  <2>1. m # n /\ m > nrecvs
    BY <1>1, <1>2 DEF Recvs
  <2>2. QED
    BY Zenon, <2>1 DEF IInv, RecvsWait
<1>3. ASSUME NEW m \in Elements(pending_recvs') PROVE ~recvTask'[m].completed
  BY Zenon, <1>3, Members DEF IInv, RecvsWait
<1>4. ASSUME NEW m \in 1..nrecvs'
      PROVE  recvTask'[m].completed \/ recvTask'[m].cancelled \/ m \in Elements(pending_recvs')
  <2>1. CASE m = n
    BY Zenon, <2>1
  <2>2. CASE m # n
    <3>1. m \in 1..nrecvs /\ m \in Recvs
      BY <1>1, <2>2
    <3>2. QED
      BY Zenon, <2>2, <3>1 DEF IInv, RecvsWait
  <2>3. QED
    BY Zenon, <2>1, <2>2
<1>5. QED
  BY Zenon, <1>2, <1>3, <1>4 DEF RecvsWait

\* A completed task at n is accepted, one at r has taken.
LEMMA HandOverValues ==
  ASSUME NEW r \in Recvs, NEW n \in Sends,
         sendTask'[n].completed, sendTask'[n].value = 1,
         \A m \in Sends : m # n => sendTask'[m] = sendTask[m],
         recvTask'[r].completed, recvTask'[r].value = n, ~recvTask[r].completed,
         \A s \in Recvs : s # r => recvTask'[s] = recvTask[s]
  PROVE  HandsOver(r, n)
<1>1. \A m \in Sends : Accepted(m)' <=> Accepted(m) \/ m = n
  BY Zenon DEF Accepted
<1>2. \A s \in Recvs, m \in Sends : Takes(s, m)' <=> Takes(s, m) \/ (s = r /\ m = n)
  BY Zenon DEF Takes
<1>3. QED
  BY Zenon, <1>1, <1>2 DEF HandsOver

LEMMA BufferValues ==
  ASSUME NEW n \in Sends, sendTask'[n].completed, sendTask'[n].value = 1,
         \A m \in Sends : m # n => sendTask'[m] = sendTask[m], UNCHANGED recvTask
  PROVE  Buffers(n)
BY Zenon DEF Accepted, Takes, Buffers

-----------------------------------------------------------------------------
(* The sends                                                               *)

\* The send being called is later than all others and has no outcome yet.
LEMMA NewSend ==
  ASSUME IInv, TypeOK', Send, NEW n, n = nsends'
  PROVE  /\ n \in Sends /\ n = nsends + 1 /\ nsends \in Nat
         /\ ~sendTask[n].completed /\ ~Accepted(n)
         /\ \A m \in Elements(queue) \cup Elements(pending_sends) : m < n
         /\ \A r \in Recvs, m \in Sends : Takes(r, m) => m < n
         /\ UNCHANGED <<closed, nrecvs, phase>> /\ phase = "idle"
<1>1. /\ n \in Sends /\ n = nsends + 1 /\ nsends \in Nat
      /\ UNCHANGED <<closed, nrecvs, phase>> /\ phase = "idle"
  BY DEF IInv, TypeOK, Send, Sends
<1>2. \A m \in Sends : m >= n => ~sendTask[m].completed
  BY <1>1 DEF IInv, SendsWait, Sends
<1>3. ~sendTask[n].completed /\ ~Accepted(n)
  BY <1>1, <1>2 DEF Accepted, Sends
<1>4. \A m \in Elements(queue) \cup Elements(pending_sends) : m < n
  BY <1>1, Members DEF IInv, Order, Sends
<1>5. ASSUME NEW r \in Recvs, NEW m \in Sends, Takes(r, m) PROVE m < n
  <2>1. Accepted(m)
    BY Zenon, <1>5 DEF IInv, Once
  <2>2. QED
    BY <1>1, <1>2, <2>1 DEF Accepted, Sends
<1>6. QED
  BY Zenon, <1>1, <1>3, <1>4, <1>5

LEMMA SendRefusedKeeps ==
  ASSUME IInv, TypeOK', Send, NEW n, n = nsends', SendRefused(n)
  PROVE  IInv'
<1>1. /\ n \in Sends /\ n = nsends + 1 /\ nsends \in Nat /\ ~Accepted(n)
      /\ UNCHANGED <<closed, nrecvs, phase, queue, pending_sends, pending_recvs, recvTask>>
  BY Zenon, NewSend DEF SendRefused
<1>2. /\ sendTask'[n].completed /\ sendTask'[n].value = 0
      /\ \A m \in Sends : m # n => sendTask'[m] = sendTask[m]
  BY <1>1 DEF SendRefused, ReadyTask, IInv, TypeOK
<1>3. SameValues
  <2>1. ~Accepted(n)'
    BY <1>2 DEF Accepted
  <2>2. \A m \in Sends : Accepted(m)' <=> Accepted(m)
    BY Zenon, <1>1, <1>2, <2>1 DEF Accepted
  <2>3. QED
    BY Zenon, <1>1, <2>2 DEF SameValues, Takes
<1>4. Order'
  BY <1>1, Members DEF IInv, Order, Sends, Recvs
<1>5. SendsWait'
  BY <1>1, <1>2, NewSend, SendSide DEF Sends
<1>6. RecvsWait'
  BY Zenon, <1>1 DEF IInv, RecvsWait
<1>7. Once'
  BY Zenon, <1>1, <1>3, SameOnce DEF IInv
<1>8. Room'
  BY Zenon, <1>1 DEF IInv, Room
<1>9. InTurn'
  BY Zenon, <1>1 DEF IInv, InTurn, Takes, NoRecvCancelled
<1>10. QED
  BY Zenon, <1>4, <1>5, <1>6, <1>7, <1>8, <1>9 DEF IInv

LEMMA SendToReceiverKeeps ==
  ASSUME IInv, TypeOK', Send, NEW n, n = nsends', SendToReceiver(n)
  PROVE  IInv'
<1>0. PICK r : r = Head(pending_recvs)
  BY Zenon
<1>1. /\ n \in Sends /\ n = nsends + 1 /\ nsends \in Nat /\ ~Accepted(n)
      /\ UNCHANGED <<closed, nrecvs, phase, queue, pending_sends>> /\ pending_recvs # <<>>
      /\ ~recvTask[r].cancelled
  BY Zenon, <1>0, NewSend DEF SendToReceiver, ReceiverWaits
<1>2. /\ Increasing(pending_recvs') /\ r \in Elements(pending_recvs) /\ r \in Recvs
      /\ Elements(pending_recvs') = Elements(pending_recvs) \ {r}
      /\ \A s \in Elements(pending_recvs') : r < s
      /\ pending_recvs' # <<>> => pending_recvs # <<>>
  BY <1>0, <1>1, TailQueue, Members, BoundsAssumption DEF SendToReceiver, IInv, TypeOK, Order, Recvs
<1>3. /\ sendTask'[n].completed /\ sendTask'[n].value = 1
      /\ \A m \in Sends : m # n => sendTask'[m] = sendTask[m]
  BY <1>1 DEF SendToReceiver, ReadyTask, IInv, TypeOK
<1>4. /\ recvTask'[r].completed /\ recvTask'[r].value = n /\ ~recvTask[r].completed
      /\ \A s \in Recvs : s # r => recvTask'[s] = recvTask[s]
      /\ NoRecvCancelled' => NoRecvCancelled
  BY Zenon, <1>0, <1>1, <1>2, RecvCompletes DEF SendToReceiver, IInv, RecvsWait
<1>5. HandsOver(r, n)
  BY Zenon, <1>1, <1>2, <1>3, <1>4, HandOverValues
<1>6. Order'
  BY <1>1, <1>2, Members DEF IInv, Order, Sends, Recvs
<1>7. SendsWait'
  BY <1>1, <1>3, NewSend, SendSide DEF Sends
<1>8. RecvsWait'
  <2>1. r <= nrecvs' /\ nrecvs <= nrecvs' /\ \A m \in 1..nrecvs' : m <= nrecvs
    BY <1>1, <1>2 DEF IInv, Order, TypeOK
  <2>2. QED
    BY Zenon, <1>2, <1>4, <2>1, RecvSide
<1>9. Once'
  <2>1. Elements(queue') = Elements(queue) \ {n}
    BY <1>1, NewSend DEF Sends
  <2>2. QED
    BY Zenon, <1>1, <1>2, <1>5, <2>1, HandOverOnce DEF IInv
<1>10. Room'
  BY Zenon, <1>1, <1>2 DEF IInv, Room
<1>11. InTurn'
  <2>2. NoRecvCancelled => queue = <<>> /\ pending_sends = <<>>
    BY Zenon, <1>1 DEF IInv, InTurn
  <2>3. NoRecvCancelled => \A s \in Recvs, m \in Sends : Takes(s, m) => s < r /\ m < n
    BY Zenon, <1>2, NewSend DEF IInv, InTurn
  <2>4. NoRecvCancelled => Elements(queue') \cup Elements(pending_sends') = {}
    BY Zenon, <1>1, <2>2, EmptyQueue
  <2>5. QED
    BY Zenon, <1>1, <1>2, <1>4, <1>5, <2>2, <2>3, <2>4, HandOverTurn DEF IInv
<1>12. QED
  BY Zenon, <1>6, <1>7, <1>8, <1>9, <1>10, <1>11 DEF IInv

\* What becomes of the receive queue when a send does not hand its value over: its head
\* is dropped, if it has one, and that one was cancelled.
LEMMA SendPopsRecv ==
  ASSUME IInv, TypeOK', ~ReceiverWaits, pending_recvs' = DropHead(pending_recvs),
         UNCHANGED <<recvTask, nrecvs>>
  PROVE  /\ Increasing(pending_recvs') /\ Elements(pending_recvs') \subseteq Elements(pending_recvs)
         /\ pending_recvs = <<>> => pending_recvs' = <<>>
         /\ NoRecvCancelled => pending_recvs = <<>>
         /\ RecvsWait'
<1>1. /\ Increasing(pending_recvs')
      /\ pending_recvs = <<>> => pending_recvs' = <<>>
      /\ Elements(pending_recvs') = IF pending_recvs = <<>> THEN {}
                                    ELSE Elements(pending_recvs) \ {Head(pending_recvs)}
  BY DropQueue, BoundsAssumption DEF IInv, TypeOK, Order, Recvs
<1>2. CASE pending_recvs = <<>>
  BY Zenon, <1>1, <1>2, Members DEF IInv, RecvsWait
<1>3. CASE pending_recvs # <<>>
  <2>0. PICK r : r = Head(pending_recvs)
    BY Zenon
  <2>1. r \in Recvs /\ r \in Elements(pending_recvs) /\ recvTask[r].cancelled
    BY <1>3, <2>0, TailQueue, BoundsAssumption DEF IInv, TypeOK, Order, Recvs, ReceiverWaits
  <2>2. Elements(pending_recvs') = Elements(pending_recvs) \ {r}
    BY Zenon, <1>1, <1>3, <2>0
  <2>3. r <= nrecvs' /\ nrecvs <= nrecvs' /\ \A m \in 1..nrecvs' : m <= nrecvs
    BY <2>1 DEF IInv, Order, TypeOK
  <2>4. recvTask'[r].cancelled /\ r \notin Elements(pending_recvs')
        /\ Elements(pending_recvs) \subseteq Elements(pending_recvs') \cup {r}
        /\ Elements(pending_recvs') \subseteq Elements(pending_recvs) \cup {r}
    BY Zenon, <2>1, <2>2
  <2>5. RecvsWait'
    BY Zenon, <2>1, <2>3, <2>4, RecvSide
  <2>6. QED
    BY Zenon, <1>1, <1>3, <2>1, <2>2, <2>5 DEF NoRecvCancelled
<1>4. QED
  BY Zenon, <1>2, <1>3

LEMMA SendToBufferKeeps ==
  ASSUME IInv, TypeOK', Send, NEW n, n = nsends', SendToBuffer(n)
  PROVE  IInv'
<1>1. /\ n \in Sends /\ n = nsends + 1 /\ nsends \in Nat /\ ~Accepted(n)
      /\ UNCHANGED <<closed, nrecvs, phase, pending_sends, recvTask>> /\ phase = "idle"
  BY Zenon, NewSend DEF SendToBuffer
<1>2. /\ Increasing(pending_recvs') /\ Elements(pending_recvs') \subseteq Elements(pending_recvs)
      /\ pending_recvs = <<>> => pending_recvs' = <<>>
      /\ NoRecvCancelled => pending_recvs = <<>>
      /\ RecvsWait'
  BY Zenon, <1>1, SendPopsRecv DEF SendToBuffer
<1>3. /\ Increasing(queue') /\ Elements(queue') = Elements(queue) \cup {n}
      /\ Len(queue') = Len(queue) + 1 /\ Len(queue) \in Nat
  BY <1>1, NewSend, AppendQueue, BoundsAssumption DEF SendToBuffer, IInv, TypeOK, Order, Sends
<1>4. /\ sendTask'[n].completed /\ sendTask'[n].value = 1
      /\ \A m \in Sends : m # n => sendTask'[m] = sendTask[m]
  BY <1>1 DEF SendToBuffer, ReadyTask, IInv, TypeOK
\* No send waits: there is room.
<1>5. pending_sends = <<>> /\ Elements(pending_sends) = {}
  BY <1>1, Members, CapacityAssumption DEF SendToBuffer, IInv, Room
<1>6. Order'
  BY <1>1, <1>2, <1>3, <1>5, Members DEF IInv, Order, Sends, Recvs
<1>7. SendsWait'
  BY <1>1, <1>4, NewSend, SendSide DEF Sends
<1>8. Once'
  BY Zenon, <1>1, <1>3, <1>4, BufferValues, BufferOnce DEF IInv
<1>9. Room'
  BY <1>1, <1>2, <1>3, <1>5, CapacityAssumption DEF IInv, Room, SendToBuffer
<1>10. InTurn'
  <2>1. \A r \in Recvs, m \in Sends : Takes(r, m)' <=> Takes(r, m)
    BY Zenon, <1>1 DEF Takes
  <2>2. NoRecvCancelled' => NoRecvCancelled
    BY Zenon, <1>1 DEF NoRecvCancelled
  <2>3. QED
    BY Zenon, <1>1, <1>2, <1>3, <2>1, <2>2, NewSend, SameTurn DEF IInv
<1>11. QED
  BY Zenon, <1>2, <1>6, <1>7, <1>8, <1>9, <1>10 DEF IInv

LEMMA SendWaitsKeeps ==
  ASSUME IInv, TypeOK', Send, NEW n, n = nsends', SendWaits(n)
  PROVE  IInv'
<1>1. /\ n \in Sends /\ n = nsends + 1 /\ nsends \in Nat /\ ~Accepted(n)
      /\ UNCHANGED <<closed, nrecvs, phase, queue, recvTask>> /\ phase = "idle"
  BY Zenon, NewSend DEF SendWaits
<1>2. /\ Increasing(pending_recvs') /\ Elements(pending_recvs') \subseteq Elements(pending_recvs)
      /\ pending_recvs = <<>> => pending_recvs' = <<>>
      /\ NoRecvCancelled => pending_recvs = <<>>
      /\ RecvsWait'
  BY Zenon, <1>1, SendPopsRecv DEF SendWaits
<1>3. /\ Increasing(pending_sends') /\ Elements(pending_sends') = Elements(pending_sends) \cup {n}
  BY <1>1, NewSend, AppendQueue, BoundsAssumption DEF SendWaits, IInv, TypeOK, Order, Sends
<1>4. /\ ~sendTask'[n].completed
      /\ \A m \in Sends : m # n => sendTask'[m] = sendTask[m]
  BY <1>1 DEF SendWaits, PendingTask, IInv, TypeOK
<1>5. SameValues
  BY Zenon, <1>1, <1>4 DEF SameValues, Accepted, Takes
<1>6. Order'
  BY <1>1, <1>2, <1>3, NewSend, Members DEF IInv, Order, Sends, Recvs
<1>7. SendsWait'
  BY SMTT(60), <1>1, <1>3, <1>4, NewSend, SendSide DEF Sends
<1>8. Once'
  BY Zenon, <1>1, <1>5, SameOnce DEF IInv
<1>9. Room'
  BY <1>1, <1>2, CapacityAssumption DEF IInv, Room, SendWaits, TypeOK
<1>10. InTurn'
  <2>1. NoRecvCancelled' => NoRecvCancelled
    BY Zenon, <1>1 DEF NoRecvCancelled
  <2>2. QED
    BY Zenon, <1>1, <1>2, <1>3, <1>5, <2>1, NewSend, SameTurn DEF IInv, SameValues
<1>11. QED
  BY Zenon, <1>2, <1>6, <1>7, <1>8, <1>9, <1>10 DEF IInv

-----------------------------------------------------------------------------
(* The receives, close and cancellation                                    *)

\* The receive being called is later than all others and has no outcome yet.
LEMMA NewRecv ==
  ASSUME IInv, TypeOK', Recv, NEW r, r = nrecvs'
  PROVE  /\ r \in Recvs /\ r = nrecvs + 1 /\ nrecvs \in Nat
         /\ ~recvTask[r].completed /\ ~recvTask[r].cancelled
         /\ \A s \in Elements(pending_recvs) : s < r
         /\ \A s \in Recvs, m \in Sends : Takes(s, m) => s < r
         /\ UNCHANGED <<closed, nsends>> /\ phase = "idle"
<1>1. /\ r \in Recvs /\ r = nrecvs + 1 /\ nrecvs \in Nat
      /\ UNCHANGED <<closed, nsends>> /\ phase = "idle"
  BY DEF IInv, TypeOK, Recv, Recvs
<1>2. \A s \in Recvs : s >= r => ~recvTask[s].completed /\ ~recvTask[s].cancelled
  BY <1>1 DEF IInv, RecvsWait, Recvs
<1>3. ~recvTask[r].completed /\ ~recvTask[r].cancelled
  BY <1>1, <1>2 DEF Recvs
<1>4. \A s \in Elements(pending_recvs) : s < r
  BY <1>1, Members DEF IInv, Order, Recvs
<1>5. \A s \in Recvs, m \in Sends : Takes(s, m) => s < r
  BY <1>1, <1>2 DEF Takes, Recvs
<1>6. QED
  BY Zenon, <1>1, <1>3, <1>4, <1>5

LEMMA RecvBufferedKeeps ==
  ASSUME IInv, TypeOK', Recv, NEW r, r = nrecvs', RecvBuffered(r)
  PROVE  IInv'
<1>0. PICK n : n = Head(queue)
  BY Zenon
<1>1. /\ r \in Recvs /\ r = nrecvs + 1 /\ nrecvs \in Nat /\ ~recvTask[r].completed
      /\ UNCHANGED <<closed, nsends, pending_sends, pending_recvs, sendTask>>
      /\ queue # <<>> /\ phase' = "serve"
  BY Zenon, NewRecv DEF RecvBuffered
<1>2. /\ Increasing(queue') /\ n \in Elements(queue) /\ n \in Sends
      /\ Elements(queue') = Elements(queue) \ {n}
      /\ \A m \in Elements(queue') : n < m
      /\ Len(queue') = Len(queue) - 1 /\ Len(queue) \in Nat
  <2>1. queue \in Seq(1..MaxSends) /\ MaxSends \in Nat /\ Increasing(queue) /\ queue' = Tail(queue)
    BY Zenon, BoundsAssumption DEF RecvBuffered, IInv, TypeOK, Order, Sends
  <2>2. Len(queue) \in Nat
    BY <2>1
  <2>3. QED
    BY Zenon, <1>0, <1>1, <2>1, <2>2, TailQueue, Members
<1>3. /\ recvTask'[r].completed /\ recvTask'[r].value = n /\ ~recvTask'[r].cancelled
      /\ \A s \in Recvs : s # r => recvTask'[s] = recvTask[s]
  BY <1>0, <1>1 DEF RecvBuffered, ReadyTask, IInv, TypeOK
<1>4. HandsOver(r, n)
  <2>1. Accepted(n)
    BY Zenon, <1>2 DEF IInv, Once
  <2>2. \A s \in Recvs, m \in Sends : Takes(s, m)' <=> Takes(s, m) \/ (s = r /\ m = n)
    BY Zenon, <1>1, <1>3 DEF Takes
  <2>3. \A m \in Sends : Accepted(m)' <=> Accepted(m)
    BY Zenon, <1>1 DEF Accepted
  <2>4. QED
    BY Zenon, <2>1, <2>2, <2>3 DEF HandsOver
<1>5. Order'
  BY <1>1, <1>2, Members DEF IInv, Order, Sends, Recvs
<1>6. SendsWait'
  BY Zenon, <1>1 DEF IInv, SendsWait
<1>7. RecvsWait'
  BY <1>1, <1>3, NewRecv, RecvSide DEF Recvs
<1>8. Once'
  BY Zenon, <1>1, <1>2, <1>4, HandOverOnce DEF IInv
<1>9. Room'
  BY <1>1, <1>2, CapacityAssumption DEF IInv, Room
<1>10. InTurn'
  <2>1. NoRecvCancelled' => NoRecvCancelled
    BY Zenon, <1>1, <1>3, NewRecv DEF NoRecvCancelled
  <2>2. NoRecvCancelled => pending_recvs' = <<>> /\ Elements(pending_recvs') = {}
    BY Zenon, <1>1, Members DEF IInv, InTurn
  <2>3. NoRecvCancelled => \A s \in Recvs, m \in Sends : Takes(s, m) => s < r /\ m < n
    BY Zenon, <1>2, NewRecv DEF IInv, InTurn
  <2>4. \A m \in Elements(queue') \cup Elements(pending_sends') :
          m \in Elements(queue) \cup Elements(pending_sends) /\ n < m
    BY Zenon, <1>1, <1>2 DEF IInv, Order
  <2>5. QED
    BY Zenon, <1>1, <1>2, <1>4, <2>1, <2>2, <2>3, <2>4, HandOverTurn DEF IInv
<1>11. QED
  BY Zenon, <1>5, <1>6, <1>7, <1>8, <1>9, <1>10 DEF IInv

\* No send waits beside an empty buffer.
LEMMA EmptyBuffer ==
  ASSUME IInv, TypeOK', Recv, NEW r, r = nrecvs', RecvEmpty(r)
  PROVE  /\ queue = <<>> /\ pending_sends = <<>> /\ ~SenderWaits
         /\ UNCHANGED <<queue, phase, pending_sends>>
<1>1. queue = <<>> /\ UNCHANGED <<queue, phase>> /\ phase = "idle"
  BY Zenon, NewRecv DEF RecvEmpty
<1>2. Len(queue) # Capacity
  BY <1>1, CapacityAssumption
<1>3. pending_sends = <<>>
  BY Zenon, <1>1, <1>2 DEF IInv, Room
<1>4. QED
  BY Zenon, <1>1, <1>3 DEF RecvEmpty, DropHead, SenderWaits

LEMMA RecvClosedKeeps ==
  ASSUME IInv, TypeOK', Recv, NEW r, r = nrecvs', RecvEmpty(r), RecvClosed(r)
  PROVE  IInv'
<1>1. /\ r \in Recvs /\ r = nrecvs + 1 /\ nrecvs \in Nat /\ ~recvTask[r].completed
      /\ UNCHANGED <<closed, nsends, queue, phase, pending_sends, pending_recvs, sendTask>>
  BY Zenon, NewRecv, EmptyBuffer DEF RecvClosed
<1>2. /\ recvTask'[r].completed /\ recvTask'[r].value = Closed /\ ~recvTask'[r].cancelled
      /\ \A s \in Recvs : s # r => recvTask'[s] = recvTask[s]
  BY <1>1 DEF RecvClosed, ReadyTask, IInv, TypeOK
<1>3. SameValues
  <2>1. \A m \in Sends : m # Closed
    BY DEF Sends, Closed
  <2>2. QED
    BY Zenon, <1>1, <1>2, <2>1 DEF SameValues, Takes, Accepted
<1>4. Order'
  BY <1>1, Members DEF IInv, Order, Sends, Recvs
<1>5. SendsWait'
  BY Zenon, <1>1 DEF IInv, SendsWait
<1>6. RecvsWait'
  BY <1>1, <1>2, NewRecv, RecvSide DEF Recvs
<1>7. Once'
  BY Zenon, <1>1, <1>3, SameOnce DEF IInv
<1>8. Room'
  BY Zenon, <1>1 DEF IInv, Room
<1>9. InTurn'
  <2>1. NoRecvCancelled' => NoRecvCancelled
    BY Zenon, <1>1, <1>2, NewRecv DEF NoRecvCancelled
  <2>2. NoRecvCancelled /\ pending_recvs' # <<>> => queue' = <<>> /\ pending_sends' = <<>>
    BY Zenon, <1>1 DEF IInv, InTurn
  <2>3. QED
    BY Zenon, <1>1, <1>3, <2>1, <2>2, SameTurn DEF IInv, SameValues
<1>10. QED
  BY Zenon, <1>4, <1>5, <1>6, <1>7, <1>8, <1>9 DEF IInv

LEMMA RecvWaitsKeeps ==
  ASSUME IInv, TypeOK', Recv, NEW r, r = nrecvs', RecvEmpty(r), RecvWaits(r)
  PROVE  IInv'
<1>1. /\ r \in Recvs /\ r = nrecvs + 1 /\ nrecvs \in Nat /\ ~recvTask[r].completed
      /\ UNCHANGED <<closed, nsends, queue, phase, pending_sends, sendTask>>
      /\ queue = <<>> /\ pending_sends = <<>> /\ ~closed
  BY Zenon, NewRecv, EmptyBuffer DEF RecvWaits
<1>2. /\ ~recvTask'[r].completed
      /\ \A s \in Recvs : s # r => recvTask'[s] = recvTask[s]
  BY <1>1 DEF RecvWaits, PendingTask, IInv, TypeOK
<1>3. Increasing(pending_recvs') /\ Elements(pending_recvs') = Elements(pending_recvs) \cup {r}
  BY <1>1, NewRecv, AppendQueue, BoundsAssumption DEF RecvWaits, IInv, TypeOK, Order, Recvs
<1>4. SameValues
  BY Zenon, <1>1, <1>2 DEF SameValues, Takes, Accepted
<1>5. Order'
  BY <1>1, <1>3, NewRecv, Members DEF IInv, Order, Sends, Recvs
<1>6. SendsWait'
  BY Zenon, <1>1 DEF IInv, SendsWait
<1>7. RecvsWait'
  BY <1>1, <1>2, <1>3, NewRecv, RecvSide DEF Recvs
<1>8. Once'
  BY Zenon, <1>1, <1>4, SameOnce DEF IInv
<1>9. Room'
  BY Zenon, <1>1 DEF IInv, Room
<1>10. InTurn'
  <2>1. NoRecvCancelled' => NoRecvCancelled
    BY Zenon, <1>1, <1>2, NewRecv DEF NoRecvCancelled
  <2>2. queue' = <<>> /\ pending_sends' = <<>>
    BY Zenon, <1>1
  <2>3. \A s \in Recvs, m \in Sends : Takes(s, m) =>
          \A u \in Elements(pending_recvs') : u \in Elements(pending_recvs) \/ s < u
    BY Zenon, <1>3, NewRecv
  <2>4. QED
    BY Zenon, <1>1, <1>4, <2>1, <2>2, <2>3, SameTurn DEF IInv, SameValues
<1>11. QED
  BY Zenon, <1>5, <1>6, <1>7, <1>8, <1>9, <1>10 DEF IInv

LEMMA CloseKeeps ==
  ASSUME IInv, TypeOK', Close
  PROVE  IInv'
<1>1. /\ UNCHANGED <<queue, pending_sends, pending_recvs, sendTask, recvTask, nsends, nrecvs>>
      /\ phase' = "serve"
  BY Zenon DEF Close
<1>2. Order' /\ SendsWait' /\ RecvsWait'
  BY Zenon, <1>1 DEF IInv, Order, SendsWait, RecvsWait
<1>3. SameValues
  BY Zenon, <1>1 DEF SameValues, Accepted, Takes
<1>4. Once' /\ Room' /\ InTurn'
  <2>1. Once'
    BY Zenon, <1>1, <1>3, SameOnce DEF IInv
  <2>2. Room'
    BY <1>1 DEF IInv, Room
  <2>3. InTurn'
    BY Zenon, <1>1 DEF IInv, InTurn, Takes, NoRecvCancelled
  <2>4. QED
    BY Zenon, <2>1, <2>2, <2>3
<1>5. QED
  BY Zenon, <1>2, <1>4 DEF IInv

LEMMA CancelSendKeeps ==
  ASSUME IInv, TypeOK', NEW n \in Sends, CancelSend(n)
  PROVE  IInv'
<1>1. /\ UNCHANGED <<queue, pending_sends, pending_recvs, closed, recvTask, nsends, nrecvs, phase>>
      /\ n <= nsends
  BY Zenon DEF CancelSend
<1>2. /\ sendTask'[n].completed <=> sendTask[n].completed
      /\ sendTask'[n].value = sendTask[n].value /\ sendTask'[n].cancelled
      /\ \A m \in Sends : m # n => sendTask'[m] = sendTask[m]
  BY DEF CancelSend, IInv, TypeOK, SendTasks, Task
<1>3. SameValues
  BY Zenon, <1>1, <1>2 DEF SameValues, Accepted, Takes
<1>4. Order' /\ RecvsWait' /\ Room'
  BY Zenon, <1>1 DEF IInv, Order, RecvsWait, Room
<1>5. SendsWait'
  <2>1. nsends <= nsends' /\ \A m \in 1..nsends' : m <= nsends
    BY <1>1 DEF IInv, TypeOK
  <2>2. n \in Elements(pending_sends') => ~sendTask'[n].completed
    BY Zenon, <1>1, <1>2 DEF IInv, SendsWait
  <2>3. QED
    BY Zenon, <1>1, <1>2, <2>1, <2>2, SendSide
<1>6. Once'
  BY Zenon, <1>1, <1>3, SameOnce DEF IInv
<1>7. InTurn'
  BY Zenon, <1>1 DEF IInv, InTurn, Takes, NoRecvCancelled
<1>8. QED
  BY Zenon, <1>4, <1>5, <1>6, <1>7 DEF IInv

LEMMA CancelRecvKeeps ==
  ASSUME IInv, TypeOK', NEW r \in Recvs, CancelRecv(r)
  PROVE  IInv'
<1>1. /\ UNCHANGED <<queue, pending_sends, pending_recvs, closed, sendTask, nsends, nrecvs, phase>>
      /\ r <= nrecvs
  BY Zenon DEF CancelRecv
<1>2. /\ recvTask'[r].completed <=> recvTask[r].completed
      /\ recvTask'[r].value = recvTask[r].value /\ recvTask'[r].cancelled
      /\ \A s \in Recvs : s # r => recvTask'[s] = recvTask[s]
  BY DEF CancelRecv, IInv, TypeOK, RecvTasks, Task
<1>3. SameValues
  BY Zenon, <1>1, <1>2 DEF SameValues, Accepted, Takes
<1>4. Order' /\ SendsWait' /\ Room'
  BY Zenon, <1>1 DEF IInv, Order, SendsWait, Room
<1>5. RecvsWait'
  <2>1. nrecvs <= nrecvs' /\ \A m \in 1..nrecvs' : m <= nrecvs
    BY <1>1 DEF IInv, TypeOK
  <2>2. r \in Elements(pending_recvs') => ~recvTask'[r].completed
    BY Zenon, <1>1, <1>2 DEF IInv, RecvsWait
  <2>3. QED
    BY Zenon, <1>1, <1>2, <2>1, <2>2, RecvSide
<1>6. Once'
  BY Zenon, <1>1, <1>3, SameOnce DEF IInv
<1>7. InTurn'
  BY Zenon, <1>2 DEF InTurn, NoRecvCancelled
<1>8. QED
  BY Zenon, <1>4, <1>5, <1>6, <1>7 DEF IInv

-----------------------------------------------------------------------------
(* drive_async_channel                                                     *)

\* The head of the waiting receives, which the first loop pops.
LEMMA FirstRecv ==
  ASSUME IInv, TypeOK', DriveServe, pending_recvs # <<>>, NEW r, r = Head(pending_recvs)
  PROVE  /\ r \in Recvs /\ r \in Elements(pending_recvs) /\ ~recvTask[r].completed
         /\ UNCHANGED <<closed, nsends, nrecvs>> /\ phase = "serve"
         /\ r <= nrecvs' /\ nrecvs <= nrecvs' /\ \A s \in 1..nrecvs' : s <= nrecvs
         /\ pending_recvs' = Tail(pending_recvs) =>
              /\ Increasing(pending_recvs')
              /\ Elements(pending_recvs') = Elements(pending_recvs) \ {r}
<1>1. /\ pending_recvs \in Seq(1..MaxRecvs) /\ MaxRecvs \in Nat /\ Increasing(pending_recvs)
      /\ UNCHANGED <<closed, nsends, nrecvs>> /\ phase = "serve"
  BY Zenon, BoundsAssumption DEF IInv, TypeOK, Order, Recvs, DriveServe
<1>2. r \in Recvs /\ r \in Elements(pending_recvs) /\ ~recvTask[r].completed
  BY Zenon, <1>1, TailQueue, Members DEF IInv, RecvsWait
<1>3. r <= nrecvs' /\ nrecvs <= nrecvs' /\ \A s \in 1..nrecvs' : s <= nrecvs
  BY <1>1, <1>2 DEF IInv, Order, TypeOK
<1>4. QED
  BY Zenon, <1>1, <1>2, <1>3, TailQueue

\* The head of the waiting sends.
LEMMA FirstSend ==
  ASSUME IInv, TypeOK', UNCHANGED nsends, pending_sends # <<>>, NEW n, n = Head(pending_sends)
  PROVE  /\ n \in Sends /\ n \in Elements(pending_sends) /\ ~sendTask[n].completed /\ ~Accepted(n)
         /\ n <= nsends' /\ nsends <= nsends' /\ \A m \in 1..nsends' : m <= nsends
         /\ \A m \in Elements(queue) : m < n
         /\ pending_sends' = Tail(pending_sends) =>
              /\ Increasing(pending_sends')
              /\ Elements(pending_sends') = Elements(pending_sends) \ {n}
              /\ \A m \in Elements(pending_sends') : n < m
<1>1. pending_sends \in Seq(1..MaxSends) /\ MaxSends \in Nat /\ Increasing(pending_sends)
  BY Zenon, BoundsAssumption DEF IInv, TypeOK, Order, Sends
<1>2. n \in Sends /\ n \in Elements(pending_sends) /\ ~sendTask[n].completed /\ ~Accepted(n)
  BY Zenon, <1>1, TailQueue, Members DEF IInv, SendsWait, Accepted
<1>3. n <= nsends' /\ nsends <= nsends' /\ \A m \in 1..nsends' : m <= nsends
  BY <1>2 DEF IInv, Order, TypeOK
<1>4. \A m \in Elements(queue) : m < n
  BY Zenon, <1>2 DEF IInv, Order
<1>5. QED
  BY Zenon, <1>1, <1>2, <1>3, <1>4, TailQueue

\* What becomes of the send queue when its head, if it has one, was cancelled.
LEMMA DropsCancelledSend ==
  ASSUME IInv, TypeOK', ~SenderWaits, pending_sends' = DropHead(pending_sends),
         UNCHANGED <<sendTask, nsends>>
  PROVE  /\ Increasing(pending_sends') /\ Elements(pending_sends') \subseteq Elements(pending_sends)
         /\ pending_sends = <<>> => pending_sends' = <<>>
         /\ SendsWait'
<1>1. CASE pending_sends = <<>>
  <2>1. pending_sends' = pending_sends
    BY Zenon, <1>1 DEF DropHead
  <2>2. QED
    BY Zenon, <2>1 DEF IInv, SendsWait, Order
<1>2. CASE pending_sends # <<>>
  <2>0. PICK n : n = Head(pending_sends)
    BY Zenon
  <2>1. pending_sends' = Tail(pending_sends) /\ sendTask[n].cancelled
    BY Zenon, <1>2, <2>0 DEF DropHead, SenderWaits
  <2>2. /\ n \in Sends /\ n <= nsends' /\ nsends <= nsends' /\ \A m \in 1..nsends' : m <= nsends
        /\ Increasing(pending_sends') /\ Elements(pending_sends') = Elements(pending_sends) \ {n}
    BY Zenon, <1>2, <2>0, <2>1, FirstSend
  <2>3. sendTask'[n].cancelled /\ n \notin Elements(pending_sends')
        /\ Elements(pending_sends) \subseteq Elements(pending_sends') \cup {n}
        /\ Elements(pending_sends') \subseteq Elements(pending_sends) \cup {n}
        /\ Elements(pending_sends') \subseteq Elements(pending_sends)
    BY Zenon, <2>1, <2>2
  <2>4. SendsWait'
    BY Zenon, <2>2, <2>3, SendSide
  <2>5. QED
    BY Zenon, <1>2, <2>2, <2>3, <2>4
<1>3. QED
  BY Zenon, <1>1, <1>2

LEMMA ServeCancelledKeeps ==
  ASSUME IInv, TypeOK', DriveServe, pending_recvs # <<>>, NEW r, r = Head(pending_recvs),
         ServeCancelled(r)
  PROVE  IInv'
<1>1. /\ UNCHANGED <<closed, nsends, nrecvs, queue, pending_sends, sendTask, recvTask, phase>>
      /\ r \in Recvs /\ recvTask[r].cancelled /\ phase = "serve"
      /\ Increasing(pending_recvs') /\ Elements(pending_recvs') = Elements(pending_recvs) \ {r}
      /\ r <= nrecvs' /\ nrecvs <= nrecvs' /\ \A s \in 1..nrecvs' : s <= nrecvs
  BY Zenon, FirstRecv DEF ServeCancelled
<1>2. SameValues
  BY Zenon, <1>1 DEF SameValues, Accepted, Takes
<1>3. Order'
  BY Zenon, <1>1 DEF IInv, Order
<1>4. SendsWait'
  BY Zenon, <1>1 DEF IInv, SendsWait
<1>5. RecvsWait'
  <2>1. recvTask'[r].cancelled /\ r \notin Elements(pending_recvs')
        /\ Elements(pending_recvs) \subseteq Elements(pending_recvs') \cup {r}
        /\ Elements(pending_recvs') \subseteq Elements(pending_recvs) \cup {r}
    BY Zenon, <1>1
  <2>2. QED
    BY Zenon, <1>1, <2>1, RecvSide
<1>6. Once'
  BY Zenon, <1>1, <1>2, SameOnce DEF IInv
<1>7. Room'
  BY <1>1 DEF IInv, Room
<1>8. InTurn'
  BY Zenon, <1>1 DEF InTurn, NoRecvCancelled
<1>9. QED
  BY Zenon, <1>3, <1>4, <1>5, <1>6, <1>7, <1>8 DEF IInv

\* A value that a waiting receive gets from the buffer or from a waiting send: a receive
\* was cancelled, or it would not wait beside a value.
LEMMA ServedRecv ==
  ASSUME IInv, TypeOK', DriveServe, pending_recvs # <<>>, NEW r, r = Head(pending_recvs),
         ~recvTask[r].cancelled, NEW v, recvTask' = [recvTask EXCEPT ![r] = Completed(@, v)],
         pending_recvs' = Tail(pending_recvs)
  PROVE  /\ recvTask'[r].completed /\ recvTask'[r].value = v /\ ~recvTask[r].completed
         /\ \A s \in Recvs : s # r => recvTask'[s] = recvTask[s]
         /\ NoRecvCancelled' => NoRecvCancelled
         /\ queue # <<>> \/ pending_sends # <<>> => InTurn'
         /\ RecvsWait'
<1>1. /\ r \in Recvs /\ ~recvTask[r].completed
      /\ Elements(pending_recvs') = Elements(pending_recvs) \ {r}
      /\ r <= nrecvs' /\ nrecvs <= nrecvs' /\ \A s \in 1..nrecvs' : s <= nrecvs
  BY Zenon, FirstRecv
<1>2. /\ recvTask'[r].completed /\ recvTask'[r].value = v
      /\ \A s \in Recvs : s # r => recvTask'[s] = recvTask[s]
      /\ NoRecvCancelled' => NoRecvCancelled
  BY Zenon, <1>1, RecvCompletes
<1>3. RecvsWait'
  <2>1. r \notin Elements(pending_recvs')
        /\ Elements(pending_recvs) \subseteq Elements(pending_recvs') \cup {r}
        /\ Elements(pending_recvs') \subseteq Elements(pending_recvs) \cup {r}
    BY Zenon, <1>1
  <2>2. QED
    BY Zenon, <1>1, <1>2, <2>1, RecvSide
<1>4. queue # <<>> \/ pending_sends # <<>> => InTurn'
  BY Zenon, <1>2 DEF IInv, InTurn
<1>5. QED
  BY Zenon, <1>1, <1>2, <1>3, <1>4

LEMMA ServeFromBufferKeeps ==
  ASSUME IInv, TypeOK', DriveServe, pending_recvs # <<>>, NEW r, r = Head(pending_recvs),
         ServeFromBuffer(r)
  PROVE  IInv'
<1>0. PICK n : n = Head(queue)
  BY Zenon
<1>1. /\ UNCHANGED <<closed, nsends, nrecvs, pending_sends, sendTask, phase>>
      /\ queue # <<>> /\ queue' = Tail(queue) /\ r \in Recvs /\ phase = "serve"
      /\ Increasing(pending_recvs') /\ Elements(pending_recvs') = Elements(pending_recvs) \ {r}
  BY Zenon, FirstRecv DEF ServeFromBuffer
<1>2. /\ recvTask'[r].completed /\ recvTask'[r].value = n /\ ~recvTask[r].completed
      /\ \A s \in Recvs : s # r => recvTask'[s] = recvTask[s]
      /\ InTurn' /\ RecvsWait'
  BY Zenon, <1>0, <1>1, ServedRecv DEF ServeFromBuffer
<1>3. /\ Increasing(queue') /\ n \in Elements(queue) /\ n \in Sends
      /\ Elements(queue') = Elements(queue) \ {n}
      /\ Len(queue') = Len(queue) - 1 /\ Len(queue) \in Nat
  <2>1. queue \in Seq(1..MaxSends) /\ MaxSends \in Nat /\ Increasing(queue)
    BY Zenon, BoundsAssumption DEF IInv, TypeOK, Order, Sends
  <2>2. Len(queue) \in Nat
    BY <2>1
  <2>3. QED
    BY Zenon, <1>0, <1>1, <2>1, <2>2, TailQueue, Members
<1>4. HandsOver(r, n)
  <2>1. Accepted(n)
    BY Zenon, <1>3 DEF IInv, Once
  <2>2. \A s \in Recvs, m \in Sends : Takes(s, m)' <=> Takes(s, m) \/ (s = r /\ m = n)
    BY Zenon, <1>1, <1>2 DEF Takes
  <2>3. \A m \in Sends : Accepted(m)' <=> Accepted(m)
    BY Zenon, <1>1 DEF Accepted
  <2>4. QED
    BY Zenon, <2>1, <2>2, <2>3 DEF HandsOver
<1>5. Order'
  BY Zenon, <1>1, <1>3 DEF IInv, Order
<1>6. SendsWait'
  BY Zenon, <1>1 DEF IInv, SendsWait
<1>7. Once'
  BY Zenon, <1>1, <1>3, <1>4, HandOverOnce DEF IInv
<1>8. Room'
  BY <1>1, <1>3, CapacityAssumption DEF IInv, Room
<1>9. QED
  BY Zenon, <1>2, <1>5, <1>6, <1>7, <1>8 DEF IInv

LEMMA ServeFromSenderKeeps ==
  ASSUME IInv, TypeOK', DriveServe, pending_recvs # <<>>, NEW r, r = Head(pending_recvs),
         ServeFromSender(r)
  PROVE  IInv'
<1>0. PICK n : n = Head(pending_sends)
  BY Zenon
<1>1. /\ UNCHANGED <<closed, nsends, nrecvs, queue, phase>>
      /\ pending_sends # <<>> /\ ~sendTask[n].cancelled /\ r \in Recvs /\ phase = "serve"
      /\ Increasing(pending_recvs') /\ Elements(pending_recvs') = Elements(pending_recvs) \ {r}
  BY Zenon, <1>0, FirstRecv DEF ServeFromSender, SenderWaits
<1>2. /\ recvTask'[r].completed /\ recvTask'[r].value = n /\ ~recvTask[r].completed
      /\ \A s \in Recvs : s # r => recvTask'[s] = recvTask[s]
      /\ InTurn' /\ RecvsWait'
  BY Zenon, <1>0, <1>1, ServedRecv DEF ServeFromSender
<1>3. /\ n \in Sends /\ ~Accepted(n)
      /\ n <= nsends' /\ nsends <= nsends' /\ \A m \in 1..nsends' : m <= nsends
      /\ \A m \in Elements(queue) : m < n
      /\ Increasing(pending_sends') /\ Elements(pending_sends') = Elements(pending_sends) \ {n}
  BY Zenon, <1>0, <1>1, FirstSend DEF ServeFromSender
<1>4. /\ sendTask'[n].completed /\ sendTask'[n].value = 1
      /\ \A m \in Sends : m # n => sendTask'[m] = sendTask[m]
  BY Zenon, <1>0, <1>1, <1>3, SendCompletes DEF ServeFromSender
<1>5. HandsOver(r, n)
  BY Zenon, <1>1, <1>2, <1>3, <1>4, HandOverValues
<1>6. Order'
  BY Zenon, <1>1, <1>3 DEF IInv, Order
<1>7. SendsWait'
  <2>1. n \notin Elements(pending_sends')
        /\ Elements(pending_sends) \subseteq Elements(pending_sends') \cup {n}
        /\ Elements(pending_sends') \subseteq Elements(pending_sends) \cup {n}
    BY Zenon, <1>3
  <2>2. QED
    BY Zenon, <1>3, <1>4, <2>1, SendSide
<1>8. Once'
  <2>1. Elements(queue') = Elements(queue) \ {n}
    BY <1>1, <1>3, Members DEF Sends
  <2>2. QED
    BY Zenon, <1>1, <1>3, <1>5, <2>1, HandOverOnce DEF IInv
<1>9. Room'
  BY <1>1 DEF IInv, Room
<1>10. QED
  BY Zenon, <1>2, <1>6, <1>7, <1>8, <1>9 DEF IInv

LEMMA ServeClosedKeeps ==
  ASSUME IInv, TypeOK', DriveServe, pending_recvs # <<>>, NEW r, r = Head(pending_recvs),
         ServeClosed(r)
  PROVE  IInv'
<1>1. /\ UNCHANGED <<closed, nsends, nrecvs, queue, sendTask, phase>>
      /\ r \in Recvs /\ phase = "serve"
      /\ Increasing(pending_recvs') /\ Elements(pending_recvs') = Elements(pending_recvs) \ {r}
  BY Zenon, FirstRecv DEF ServeClosed
<1>2. /\ recvTask'[r].completed /\ recvTask'[r].value = Closed /\ ~recvTask[r].completed
      /\ \A s \in Recvs : s # r => recvTask'[s] = recvTask[s]
      /\ NoRecvCancelled' => NoRecvCancelled
      /\ RecvsWait'
  BY Zenon, <1>1, ServedRecv DEF ServeClosed
<1>3. /\ Increasing(pending_sends') /\ Elements(pending_sends') \subseteq Elements(pending_sends)
      /\ pending_sends = <<>> => pending_sends' = <<>>
      /\ SendsWait'
  BY Zenon, <1>1, DropsCancelledSend DEF ServeClosed
<1>4. SameValues
  <2>1. \A m \in Sends : m # Closed
    BY DEF Sends, Closed
  <2>2. QED
    BY Zenon, <1>1, <1>2, <2>1 DEF SameValues, Takes, Accepted
<1>5. Order'
  BY Zenon, <1>1, <1>3 DEF IInv, Order
<1>6. Once'
  BY Zenon, <1>1, <1>4, SameOnce DEF IInv
<1>7. Room'
  BY <1>1 DEF IInv, Room
<1>8. InTurn'
  <2>1. NoRecvCancelled => queue' = <<>> /\ pending_sends' = <<>>
    BY Zenon, <1>1, <1>3 DEF IInv, InTurn
  <2>2. QED
    BY Zenon, <1>1, <1>2, <1>3, <1>4, <2>1, SameTurn DEF IInv, SameValues
<1>9. QED
  BY Zenon, <1>2, <1>3, <1>5, <1>6, <1>7, <1>8 DEF IInv

\* The first loop ends: the receive at its head, if any, finds nothing, and the channel
\* is open; or no receive is left.
LEMMA ServeStopsKeeps ==
  ASSUME IInv, TypeOK', DriveServe,
         \/ ServeEnd
         \/ pending_recvs # <<>> /\ \E r \in {Head(pending_recvs)} : ServeNothing(r)
  PROVE  IInv'
<1>1. /\ UNCHANGED <<closed, nsends, nrecvs, queue, pending_recvs, sendTask, recvTask>>
      /\ phase' = "buffer" /\ closed => pending_recvs = <<>>
  BY Zenon DEF DriveServe, ServeEnd, ServeNothing
<1>2. /\ Increasing(pending_sends') /\ Elements(pending_sends') \subseteq Elements(pending_sends)
      /\ pending_sends = <<>> => pending_sends' = <<>>
      /\ SendsWait'
  <2>1. CASE ServeEnd
    <3>1. UNCHANGED pending_sends
      BY Zenon, <2>1 DEF ServeEnd
    <3>2. QED
      BY Zenon, <1>1, <3>1 DEF IInv, SendsWait, Order
  <2>2. CASE \E r \in {Head(pending_recvs)} : ServeNothing(r)
    BY Zenon, <1>1, <2>2, DropsCancelledSend DEF ServeNothing
  <2>3. QED
    BY Zenon, <2>1, <2>2
<1>3. SameValues
  BY Zenon, <1>1 DEF SameValues, Accepted, Takes
<1>4. Order' /\ RecvsWait'
  BY Zenon, <1>1, <1>2 DEF IInv, Order, RecvsWait
<1>5. Once'
  BY Zenon, <1>1, <1>3, SameOnce DEF IInv
<1>6. Room'
  BY <1>1 DEF IInv, Room, ServeEnd, ServeNothing
<1>7. InTurn'
  <2>1. NoRecvCancelled' => NoRecvCancelled
    BY Zenon, <1>1 DEF NoRecvCancelled
  <2>2. NoRecvCancelled /\ pending_recvs' # <<>> => queue' = <<>> /\ pending_sends' = <<>>
    BY Zenon, <1>1, <1>2 DEF IInv, InTurn
  <2>3. QED
    BY Zenon, <1>1, <1>2, <1>3, <2>1, <2>2, SameTurn DEF IInv, SameValues
<1>8. QED
  BY Zenon, <1>2, <1>4, <1>5, <1>6, <1>7 DEF IInv

LEMMA BufferCancelledKeeps ==
  ASSUME IInv, TypeOK', DriveBuffer, CanBuffer, NEW n, n = Head(pending_sends), BufferCancelled(n)
  PROVE  IInv'
<1>1. /\ UNCHANGED <<pending_recvs, closed, recvTask, nsends, nrecvs, queue, sendTask, phase>>
      /\ pending_sends # <<>> /\ phase = "buffer" /\ ~SenderWaits
      /\ pending_sends' = DropHead(pending_sends)
  BY Zenon DEF DriveBuffer, CanBuffer, BufferCancelled, SenderWaits, DropHead
<1>2. /\ Increasing(pending_sends') /\ Elements(pending_sends') \subseteq Elements(pending_sends)
      /\ pending_sends = <<>> => pending_sends' = <<>>
      /\ SendsWait'
  BY Zenon, <1>1, DropsCancelledSend
<1>3. SameValues
  BY Zenon, <1>1 DEF SameValues, Accepted, Takes
<1>4. Order' /\ RecvsWait'
  BY Zenon, <1>1, <1>2 DEF IInv, Order, RecvsWait
<1>5. Once'
  BY Zenon, <1>1, <1>3, SameOnce DEF IInv
<1>6. Room'
  BY <1>1 DEF IInv, Room
<1>7. InTurn'
  <2>1. NoRecvCancelled' => NoRecvCancelled
    BY Zenon, <1>1 DEF NoRecvCancelled
  <2>2. NoRecvCancelled => pending_recvs' = <<>>
    BY Zenon, <1>1 DEF IInv, InTurn
  <2>3. QED
    BY Zenon, <1>1, <1>2, <1>3, <2>1, <2>2, SameTurn DEF IInv, SameValues
<1>8. QED
  BY Zenon, <1>2, <1>4, <1>5, <1>6, <1>7 DEF IInv

LEMMA BufferSendKeeps ==
  ASSUME IInv, TypeOK', DriveBuffer, CanBuffer, NEW n, n = Head(pending_sends), BufferSend(n)
  PROVE  IInv'
<1>1. /\ UNCHANGED <<pending_recvs, closed, recvTask, nsends, nrecvs, phase>>
      /\ pending_sends # <<>> /\ phase = "buffer" /\ Len(queue) < Capacity
      /\ ~sendTask[n].cancelled /\ pending_sends' = Tail(pending_sends) /\ queue' = Append(queue, n)
  BY Zenon DEF DriveBuffer, CanBuffer, BufferSend
<1>2. /\ n \in Sends /\ n \in Elements(pending_sends) /\ ~Accepted(n)
      /\ n <= nsends' /\ nsends <= nsends' /\ \A m \in 1..nsends' : m <= nsends
      /\ \A m \in Elements(queue) : m < n
      /\ Increasing(pending_sends') /\ Elements(pending_sends') = Elements(pending_sends) \ {n}
      /\ \A m \in Elements(pending_sends') : n < m
  BY Zenon, <1>1, FirstSend
<1>3. /\ sendTask'[n].completed /\ sendTask'[n].value = 1
      /\ \A m \in Sends : m # n => sendTask'[m] = sendTask[m]
  BY Zenon, <1>1, <1>2, SendCompletes DEF BufferSend
<1>4. /\ Increasing(queue') /\ Elements(queue') = Elements(queue) \cup {n}
      /\ Len(queue') = Len(queue) + 1 /\ Len(queue) \in Nat
  <2>1. /\ queue \in Seq(1..MaxSends) /\ MaxSends \in Nat /\ Increasing(queue)
        /\ n \in 1..MaxSends
    BY Zenon, <1>2, BoundsAssumption DEF IInv, TypeOK, Order, Sends
  <2>2. Len(queue) \in Nat
    BY <2>1
  <2>3. QED
    BY SMTT(60), <1>1, <1>2, <2>1, <2>2, AppendQueue
<1>5. Order'
  BY Zenon, <1>1, <1>2, <1>4 DEF IInv, Order
<1>6. SendsWait'
  <2>1. n \notin Elements(pending_sends')
        /\ Elements(pending_sends) \subseteq Elements(pending_sends') \cup {n}
        /\ Elements(pending_sends') \subseteq Elements(pending_sends) \cup {n}
    BY Zenon, <1>2
  <2>2. QED
    BY Zenon, <1>2, <1>3, <2>1, SendSide
<1>7. RecvsWait'
  BY Zenon, <1>1 DEF IInv, RecvsWait
<1>8. Once'
  BY Zenon, <1>1, <1>2, <1>3, <1>4, BufferValues, BufferOnce DEF IInv
<1>9. Room'
  BY <1>1, <1>4, CapacityAssumption DEF IInv, Room
<1>10. InTurn'
  <2>1. NoRecvCancelled' => NoRecvCancelled
    BY Zenon, <1>1 DEF NoRecvCancelled
  <2>2. NoRecvCancelled => pending_recvs' = <<>>
    BY Zenon, <1>1 DEF IInv, InTurn
  <2>3. \A r \in Recvs, m \in Sends : Takes(r, m)' <=> Takes(r, m)
    BY Zenon, <1>1 DEF Takes
  <2>4. \A m \in Elements(queue') \cup Elements(pending_sends') :
          m \in Elements(queue) \cup Elements(pending_sends)
    BY Zenon, <1>2, <1>4
  <2>5. QED
    BY Zenon, <1>1, <2>1, <2>2, <2>3, <2>4, SameTurn DEF IInv
<1>11. QED
  BY Zenon, <1>5, <1>6, <1>7, <1>8, <1>9, <1>10 DEF IInv

LEMMA BufferEndKeeps ==
  ASSUME IInv, TypeOK', DriveBuffer, BufferEnd
  PROVE  IInv'
<1>1. /\ UNCHANGED <<queue, pending_sends, pending_recvs, closed, sendTask, recvTask, nsends, nrecvs>>
      /\ phase = "buffer" /\ phase' = "idle" /\ ~CanBuffer
  BY Zenon DEF DriveBuffer, BufferEnd
<1>2. SameValues
  BY Zenon, <1>1 DEF SameValues, Accepted, Takes
<1>3. Order' /\ SendsWait' /\ RecvsWait'
  BY Zenon, <1>1 DEF IInv, Order, SendsWait, RecvsWait
<1>4. Once'
  BY Zenon, <1>1, <1>2, SameOnce DEF IInv
<1>5. Room'
  <2>1. Len(queue) \in Nat
    BY DEF IInv, TypeOK
  <2>2. QED
    BY <1>1, <2>1, CapacityAssumption DEF IInv, Room, CanBuffer
<1>6. InTurn'
  BY Zenon, <1>1 DEF IInv, InTurn, Takes, NoRecvCancelled
<1>7. QED
  BY Zenon, <1>3, <1>4, <1>5, <1>6 DEF IInv

-----------------------------------------------------------------------------
(* Theorems                                                                *)

LEMMA InitHolds == Init => IInv
<1> SUFFICES ASSUME Init PROVE IInv
  OBVIOUS
<1>1. TypeOK
  <2>1. closed \in BOOLEAN
    BY DEF Init
  <2>2. QED
    BY <2>1, TaskFacts, BoundsAssumption DEF Init, TypeOK
<1>2. /\ Elements(queue) = {} /\ Elements(pending_sends) = {} /\ Elements(pending_recvs) = {}
      /\ Increasing(queue) /\ Increasing(pending_sends) /\ Increasing(pending_recvs)
      /\ pending_sends = <<>> /\ pending_recvs = <<>> /\ queue = <<>> /\ nsends = 0 /\ nrecvs = 0
  BY EmptyQueue DEF Init
<1>3. /\ \A n \in Sends : ~sendTask[n].completed
      /\ \A r \in Recvs : ~recvTask[r].completed /\ ~recvTask[r].cancelled
  BY DEF Init, PendingTask
<1>4. Order
  BY Zenon, <1>2 DEF Order
<1>5. SendsWait /\ RecvsWait
  BY <1>2, <1>3 DEF SendsWait, RecvsWait
<1>6. Once /\ InTurn
  BY Zenon, <1>2, <1>3 DEF Once, InTurn, Accepted, Takes
<1>7. Room
  BY <1>2, CapacityAssumption DEF Room
<1>8. QED
  BY Zenon, <1>1, <1>4, <1>5, <1>6, <1>7 DEF IInv

LEMMA NextKeeps == IInv /\ [Next]_vars => IInv'
<1> SUFFICES ASSUME IInv, [Next]_vars PROVE IInv'
  OBVIOUS
<1>0. TypeOK'
  BY Zenon, TypeStep DEF IInv
<1>1. CASE Send
  <2>0. PICK n : n = nsends'
    BY Zenon
  <2>1. SendRefused(n) \/ SendToReceiver(n) \/ SendToBuffer(n) \/ SendWaits(n)
    BY Zenon, <1>1, <2>0 DEF Send
  <2>2. QED
    BY Zenon, <1>0, <1>1, <2>0, <2>1, SendRefusedKeeps, SendToReceiverKeeps, SendToBufferKeeps,
       SendWaitsKeeps
<1>2. CASE Recv
  <2>0. PICK r : r = nrecvs'
    BY Zenon
  <2>1. RecvBuffered(r) \/ RecvEmpty(r)
    BY Zenon, <1>2, <2>0 DEF Recv
  <2>2. CASE RecvBuffered(r)
    BY Zenon, <1>0, <1>2, <2>0, <2>2, RecvBufferedKeeps
  <2>3. CASE RecvEmpty(r)
    <3>1. ~SenderWaits
      BY Zenon, <1>0, <1>2, <2>0, <2>3, EmptyBuffer
    <3>2. RecvClosed(r) \/ RecvWaits(r)
      BY Zenon, <2>3, <3>1 DEF RecvEmpty, RecvFromSender
    <3>3. QED
      BY Zenon, <1>0, <1>2, <2>0, <2>3, <3>2, RecvClosedKeeps, RecvWaitsKeeps
  <2>4. QED
    BY Zenon, <2>1, <2>2, <2>3
<1>3. CASE Close
  BY Zenon, <1>0, <1>3, CloseKeeps
<1>4. ASSUME NEW n \in Sends, CancelSend(n) PROVE IInv'
  BY Zenon, <1>0, <1>4, CancelSendKeeps
<1>5. ASSUME NEW r \in Recvs, CancelRecv(r) PROVE IInv'
  BY Zenon, <1>0, <1>5, CancelRecvKeeps
<1>6. CASE DriveServe
  <2>0. PICK r : r = Head(pending_recvs)
    BY Zenon
  <2>1. CASE ServeEnd
    BY Zenon, <1>0, <1>6, <2>1, ServeStopsKeeps
  <2>2. CASE pending_recvs # <<>> /\ ServeNothing(r)
    BY Zenon, <1>0, <1>6, <2>0, <2>2, ServeStopsKeeps
  <2>3. CASE /\ pending_recvs # <<>>
             /\ ServeCancelled(r) \/ ServeFromBuffer(r) \/ ServeFromSender(r) \/ ServeClosed(r)
    BY Zenon, <1>0, <1>6, <2>0, <2>3, ServeCancelledKeeps, ServeFromBufferKeeps,
       ServeFromSenderKeeps, ServeClosedKeeps
  <2>4. QED
    BY Zenon, <1>6, <2>0, <2>1, <2>2, <2>3 DEF DriveServe
<1>7. CASE DriveBuffer
  <2>0. PICK n : n = Head(pending_sends)
    BY Zenon
  <2>1. CASE CanBuffer /\ (BufferCancelled(n) \/ BufferSend(n))
    BY Zenon, <1>0, <1>7, <2>0, <2>1, BufferCancelledKeeps, BufferSendKeeps
  <2>2. CASE BufferEnd
    BY Zenon, <1>0, <1>7, <2>2, BufferEndKeeps
  <2>3. QED
    BY Zenon, <1>7, <2>0, <2>1, <2>2 DEF DriveBuffer
<1>8. CASE UNCHANGED vars
  <2>1. UNCHANGED <<queue, pending_sends, pending_recvs, closed, sendTask, recvTask, nsends, nrecvs, phase>>
    BY Zenon, <1>8 DEF vars
  <2>2. Order' /\ SendsWait' /\ RecvsWait' /\ Room'
    BY Zenon, <2>1 DEF IInv, Order, SendsWait, RecvsWait, Room
  <2>3. SameValues
    BY Zenon, <2>1 DEF SameValues, Accepted, Takes
  <2>4. Once'
    BY Zenon, <2>1, <2>3, SameOnce DEF IInv
  <2>5. InTurn'
    BY Zenon, <2>1 DEF IInv, InTurn, Takes, NoRecvCancelled
  <2>6. QED
    BY Zenon, <1>0, <2>2, <2>4, <2>5 DEF IInv
<1>9. QED
  BY Zenon, <1>1, <1>2, <1>3, <1>4, <1>5, <1>6, <1>7, <1>8 DEF Next

\* The inductive invariant: where every operation and every value is.
THEOREM Inductive == Spec => []IInv
<1>1. QED
  BY InitHolds, NextKeeps, PTL DEF Spec

\* Whatever is cancelled and whenever the channel is closed, an accepted value is in the
\* buffer until one receive, and only one, gets it (std_async_channel_send, recv,
\* drive_async_channel).
THEOREM NothingIsLost == Spec => []AcceptedIsDelivered
<1>1. IInv => AcceptedIsDelivered
  <2> SUFFICES ASSUME IInv PROVE AcceptedIsDelivered
    OBVIOUS
  <2>1. ASSUME NEW n \in Sends
        PROVE  /\ TakersOf(n) = {} <=> \A r \in Recvs : ~Takes(r, n)
               /\ \A r \in TakersOf(n) : r \in Recvs /\ Takes(r, n)
    BY Zenon DEF TakersOf, Takes
  <2>2. \A i, j \in 1..Len(queue) : queue[i] = queue[j] => i = j
    <3>1. /\ \A i, j \in 1..Len(queue) : i < j => queue[i] < queue[j]
          /\ \A i \in 1..Len(queue) : queue[i] \in 1..MaxSends
          /\ MaxSends \in Nat /\ Len(queue) \in Nat
      BY BoundsAssumption DEF IInv, Order, Increasing, TypeOK, Sends
    <3>2. QED
      BY <3>1
  <2>3. ASSUME NEW n \in Sends, Accepted(n)
        PROVE  /\ n \in Elements(queue) <=> TakersOf(n) = {}
               /\ \A r, s \in TakersOf(n) : r = s
    BY Zenon, <2>1, <2>3 DEF IInv, Once
  <2>4. ASSUME NEW n \in Sends, n \in Elements(queue) \/ TakersOf(n) # {} PROVE Accepted(n)
    BY Zenon, <2>1, <2>4 DEF IInv, Once
  <2>5. QED
    BY Zenon, <2>2, <2>3, <2>4 DEF AcceptedIsDelivered
<1>2. QED
  BY <1>1, Inductive, PTL

\* No operation is forgotten, and none waits for what is there
\* (drive_async_channel).
THEOREM EveryWaitHasAReason == Spec => []NobodyWaitsInVain
<1>1. IInv => NobodyWaitsInVain
  <2> SUFFICES ASSUME IInv PROVE NobodyWaitsInVain
    OBVIOUS
  <2>1. closed /\ phase = "idle" => \A r \in Elements(pending_recvs) : recvTask[r].cancelled
    <3>1. closed /\ phase = "idle" => pending_recvs = <<>>
      BY DEF IInv, Room
    <3>2. QED
      BY Zenon, <3>1, Members
  <2>2. QED
    BY Zenon, <2>1 DEF IInv, SendsWait, RecvsWait, Room, InTurn, NobodyWaitsInVain
<1>2. QED
  BY <1>1, Inductive, PTL

\* Values come out in the order they went in, as long as no receive was cancelled.
THEOREM ValuesKeepTheirOrder == Spec => []FifoWithoutCancelledReceives
<1>1. IInv => FifoWithoutCancelledReceives
  <2> SUFFICES ASSUME IInv, NoRecvCancelled PROVE FifoWithoutCancelledReceives
    BY Zenon DEF FifoWithoutCancelledReceives
  <2>1. ASSUME NEW r \in Recvs, NEW s \in Recvs, r < s,
               recvTask[r].completed, recvTask[r].value \in Sends,
               recvTask[s].completed, recvTask[s].value \in Sends
        PROVE  recvTask[r].value < recvTask[s].value
    BY ZenonT(60), <2>1 DEF IInv, InTurn, Takes
  <2>2. ASSUME NEW r \in Recvs, recvTask[r].completed,
               NEW n \in Elements(queue) \cup Elements(pending_sends)
        PROVE  recvTask[r].value < n
    <3>1. n \in Sends /\ recvTask[r].value \in {Closed, 0} \cup Sends
      BY Members DEF IInv, TypeOK, RecvTasks, Task
    <3>2. CASE recvTask[r].value \in Sends
      BY Zenon, <2>2, <3>2 DEF IInv, InTurn, Takes
    <3>3. CASE recvTask[r].value \in {Closed, 0}
      BY <3>1, <3>3 DEF Sends, Closed
    <3>4. QED
      BY Zenon, <3>1, <3>2, <3>3
  <2>3. QED
    BY Zenon, <2>1, <2>2 DEF FifoWithoutCancelledReceives
<1>2. QED
  BY <1>1, Inductive, PTL

\* "Closed" goes to a receive that is called, or that waited first in its queue.
LEMMA ClosedStep ==
  ASSUME IInv, Next, NoRecvCancelled, NEW r \in Recvs,
         recvTask'[r].value = Closed, recvTask[r].value # Closed
  PROVE  queue = <<>> /\ pending_sends = <<>>
<1>0. TypeOK' /\ recvTask \in [Recvs -> RecvTasks] /\ \A n \in Sends : n # Closed
  BY TypeStep DEF IInv, Sends, Closed, TypeOK
<1>1. recvTask' # recvTask
  BY Zenon
<1>2. CASE Send
  <2>0. PICK n : n = nsends'
    BY Zenon
  <2>1. SendToReceiver(n)
    BY Zenon, <1>1, <1>2, <2>0 DEF Send, SendRefused, SendToBuffer, SendWaits
  <2>2. PICK s : s = Head(pending_recvs)
    BY Zenon
  <2>3. recvTask' = [recvTask EXCEPT ![s] = Completed(@, n)] /\ ~recvTask[s].cancelled
        /\ pending_recvs # <<>>
    BY Zenon, <2>1, <2>2 DEF SendToReceiver, ReceiverWaits
  <2>4. s \in Recvs /\ n \in Sends
    BY <1>0, <1>2, <2>0, <2>2, <2>3, NewSend DEF IInv, TypeOK
  <2>5. recvTask'[r].value = recvTask[r].value \/ recvTask'[r].value = n
    BY Zenon, <2>3, <2>4, RecvCompletes
  <2>6. QED
    BY Zenon, <1>0, <2>4, <2>5
<1>3. CASE Recv
  <2>0. PICK s : s = nrecvs'
    BY Zenon
  <2>1. s \in Recvs
    BY Zenon, <1>0, <1>3, <2>0, NewRecv
  <2>2. CASE RecvBuffered(s)
    <3>1. recvTask' = [recvTask EXCEPT ![s] = ReadyTask(Head(queue))] /\ Head(queue) \in Sends
      BY <2>2 DEF RecvBuffered, IInv, TypeOK
    <3>2. recvTask'[r].value = recvTask[r].value \/ recvTask'[r].value = Head(queue)
      BY <1>0, <2>1, <3>1 DEF ReadyTask
    <3>3. QED
      BY Zenon, <1>0, <3>1, <3>2
  <2>3. CASE RecvEmpty(s)
    BY Zenon, <1>0, <1>3, <2>0, <2>3, EmptyBuffer
  <2>4. QED
    BY Zenon, <1>3, <2>0, <2>2, <2>3 DEF Recv
<1>4. ASSUME NEW s \in Recvs, CancelRecv(s) PROVE FALSE
  <2>1. recvTask' = [recvTask EXCEPT ![s].cancelled = TRUE]
    BY Zenon, <1>4 DEF CancelRecv
  <2>2. recvTask'[r].value = recvTask[r].value
    BY <1>0, <2>1 DEF RecvTasks, Task
  <2>3. QED
    BY Zenon, <2>2
<1>5. CASE DriveServe
  <2>1. pending_recvs # <<>>
    BY Zenon, <1>1, <1>5 DEF DriveServe, ServeEnd
  <2>2. QED
    BY Zenon, <2>1 DEF IInv, InTurn
<1>6. QED
  BY Zenon, <1>1, <1>2, <1>3, <1>4, <1>5 DEF Next, Close, CancelSend, DriveBuffer

\* A receive is told that the channel is closed only when nothing is left in it, as long
\* as no receive was cancelled (std_async_channel_recv, drive_async_channel).
THEOREM ClosedComesLast == Spec => ClosedMeansDrained
<1> DEFINE Drained ==
      \A r \in Recvs :
        /\ NoRecvCancelled
        /\ recvTask'[r].value = Closed
        /\ recvTask[r].value # Closed
        => queue = <<>> /\ \A n \in Elements(pending_sends) : sendTask[n].cancelled
<1>1. IInv /\ [Next]_vars => [Drained]_vars
  <2> SUFFICES ASSUME IInv, Next, NEW r \in Recvs, NoRecvCancelled,
                      recvTask'[r].value = Closed, recvTask[r].value # Closed
               PROVE  queue = <<>> /\ \A n \in Elements(pending_sends) : sendTask[n].cancelled
    BY Zenon
  <2>1. QED
    BY Zenon, ClosedStep, Members
<1>2. QED
  BY <1>1, Inductive, PTL DEF Spec, ClosedMeansDrained

=============================================================================
