----------------------------- MODULE AsyncChannel -----------------------------
(***************************************************************************)
(* The bounded channel of std.async (spectra.async.channel): a buffer of   *)
(* capacity Capacity, a queue of tasks that wait to send and a queue of    *)
(* tasks that wait to receive, all under the async task registry's lock.   *)
(*                                                                         *)
(* A send carries its own number as payload, so a value names the send it  *)
(* came from.  Send and receive operations are numbered in call order.     *)
(*                                                                         *)
(* drive_async_channel is two loops.  Each iteration is one step here, and *)
(* `phase' says which loop the holder of the registry lock is in: no other *)
(* operation can take a step until the loops are over and phase is "idle". *)
(***************************************************************************)
EXTENDS Integers, Sequences

CONSTANTS
  Capacity,   \* channel capacity: channel.new refuses values below 1
  MaxSends,   \* bound: number of channel.send calls
  MaxRecvs    \* bound: number of channel.recv calls

ASSUME CapacityAssumption == Capacity \in Nat \ {0}
ASSUME BoundsAssumption == MaxSends \in Nat /\ MaxRecvs \in Nat

VARIABLES
  queue,          \* buffered values
  pending_sends,  \* sends that wait for room
  pending_recvs,  \* receives that wait for a value
  closed,
  sendTask,       \* the task of each send, indexed by send number
  recvTask,       \* the task of each receive, indexed by receive number
  nsends, nrecvs, \* operations called so far
  phase           \* "idle", or the loop of drive_async_channel being run

vars == <<queue, pending_sends, pending_recvs, closed, sendTask, recvTask,
          nsends, nrecvs, phase>>

Sends == 1..MaxSends
Recvs == 1..MaxRecvs
Closed == -1          \* what a receive yields on a drained, closed channel

\* The fields of AsyncTask that a channel operation reads or writes.
Task(Value) == [completed : BOOLEAN, cancelled : BOOLEAN, value : Value]
SendTasks == Task({0, 1})
RecvTasks == Task({Closed, 0} \cup Sends)
PendingTask == [completed |-> FALSE, cancelled |-> FALSE, value |-> 0]
ReadyTask(v) == [completed |-> TRUE, cancelled |-> FALSE, value |-> v]

\* complete_task: a task cancelled meanwhile keeps its state.
Completed(task, v) ==
  IF task.cancelled THEN task ELSE [task EXCEPT !.completed = TRUE, !.value = v]

Init ==
  /\ queue = <<>>
  /\ pending_sends = <<>>
  /\ pending_recvs = <<>>
  /\ closed = FALSE
  /\ sendTask = [n \in Sends |-> PendingTask]
  /\ recvTask = [r \in Recvs |-> PendingTask]
  /\ nsends = 0
  /\ nrecvs = 0
  /\ phase = "idle"

-----------------------------------------------------------------------------
(* std_async_channel_send                                                  *)

SendRefused(n) ==
  /\ closed
  /\ sendTask' = [sendTask EXCEPT ![n] = ReadyTask(0)]
  /\ UNCHANGED <<queue, pending_sends, pending_recvs, recvTask>>

ReceiverWaits ==
  pending_recvs # <<>> /\ ~recvTask[Head(pending_recvs)].cancelled

\* The receive at the head of the waiting queue takes the value directly.
SendToReceiver(n) ==
  /\ ~closed
  /\ ReceiverWaits
  /\ recvTask' = [recvTask EXCEPT ![Head(pending_recvs)] = Completed(@, n)]
  /\ pending_recvs' = Tail(pending_recvs)
  /\ sendTask' = [sendTask EXCEPT ![n] = ReadyTask(1)]
  /\ UNCHANGED <<queue, pending_sends>>

\* A cancelled receive at the head is discarded, and only that one: the value
\* is then buffered, or the send waits, whoever is behind it.
DropHead(seq) == IF seq = <<>> THEN <<>> ELSE Tail(seq)

SendToBuffer(n) ==
  /\ ~closed
  /\ ~ReceiverWaits
  /\ Len(queue) < Capacity
  /\ pending_recvs' = DropHead(pending_recvs)
  /\ queue' = Append(queue, n)
  /\ sendTask' = [sendTask EXCEPT ![n] = ReadyTask(1)]
  /\ UNCHANGED <<pending_sends, recvTask>>

\* Mutant of SendWaits: push_front for push_back.
SendWaitsInFront(n) ==
  /\ ~closed
  /\ ~ReceiverWaits
  /\ Len(queue) >= Capacity
  /\ pending_recvs' = DropHead(pending_recvs)
  /\ pending_sends' = <<n>> \o pending_sends
  /\ sendTask' = [sendTask EXCEPT ![n] = PendingTask]
  /\ UNCHANGED <<queue, recvTask>>

SendWaits(n) ==
  /\ ~closed
  /\ ~ReceiverWaits
  /\ Len(queue) >= Capacity
  /\ pending_recvs' = DropHead(pending_recvs)
  /\ pending_sends' = Append(pending_sends, n)
  /\ sendTask' = [sendTask EXCEPT ![n] = PendingTask]
  /\ UNCHANGED <<queue, recvTask>>

Send ==
  /\ phase = "idle"
  /\ nsends < MaxSends
  /\ nsends' = nsends + 1
  /\ \/ SendRefused(nsends')
     \/ SendToReceiver(nsends')
     \/ SendToBuffer(nsends')
     \/ SendWaits(nsends')
  /\ UNCHANGED <<closed, nrecvs, phase>>

-----------------------------------------------------------------------------
(* std_async_channel_recv                                                  *)

\* Mutant of RecvBuffered: drive_async_channel is not called.
RecvBufferedUndriven(r) ==
  /\ queue # <<>>
  /\ recvTask' = [recvTask EXCEPT ![r] = ReadyTask(Head(queue))]
  /\ queue' = Tail(queue)
  /\ UNCHANGED <<pending_sends, pending_recvs, sendTask, phase>>

RecvBuffered(r) ==
  /\ queue # <<>>
  /\ recvTask' = [recvTask EXCEPT ![r] = ReadyTask(Head(queue))]
  /\ queue' = Tail(queue)
  /\ phase' = "serve"
  /\ UNCHANGED <<pending_sends, pending_recvs, sendTask>>

SenderWaits ==
  pending_sends # <<>> /\ ~sendTask[Head(pending_sends)].cancelled

\* The head of the waiting sends is popped even when it turns out cancelled.
RecvFromSender(r) ==
  LET n == Head(pending_sends) IN
  /\ SenderWaits
  /\ sendTask' = [sendTask EXCEPT ![n] = Completed(@, 1)]
  /\ recvTask' = [recvTask EXCEPT ![r] = ReadyTask(n)]
  /\ UNCHANGED pending_recvs

RecvClosed(r) ==
  /\ ~SenderWaits
  /\ closed
  /\ recvTask' = [recvTask EXCEPT ![r] = ReadyTask(Closed)]
  /\ UNCHANGED <<pending_recvs, sendTask>>

RecvWaits(r) ==
  /\ ~SenderWaits
  /\ ~closed
  /\ recvTask' = [recvTask EXCEPT ![r] = PendingTask]
  /\ pending_recvs' = Append(pending_recvs, r)
  /\ UNCHANGED sendTask

\* Mutant of RecvEmpty: "closed" is tested before the buffer.
RecvEmptyClosedFirst(r) ==
  /\ queue = <<>> \/ closed
  /\ pending_sends' = DropHead(pending_sends)
  /\ RecvFromSender(r) \/ RecvClosed(r) \/ RecvWaits(r)
  /\ UNCHANGED <<queue, phase>>

RecvEmpty(r) ==
  /\ queue = <<>>
  /\ pending_sends' = DropHead(pending_sends)
  /\ RecvFromSender(r) \/ RecvClosed(r) \/ RecvWaits(r)
  /\ UNCHANGED <<queue, phase>>

Recv ==
  /\ phase = "idle"
  /\ nrecvs < MaxRecvs
  /\ nrecvs' = nrecvs + 1
  /\ RecvBuffered(nrecvs') \/ RecvEmpty(nrecvs')
  /\ UNCHANGED <<closed, nsends>>

-----------------------------------------------------------------------------
(* std_async_channel_close, and cancel_task on the task of an operation    *)

Close ==
  /\ phase = "idle"
  /\ closed' = TRUE
  /\ phase' = "serve"
  /\ UNCHANGED <<queue, pending_sends, pending_recvs, sendTask, recvTask, nsends, nrecvs>>

\* cancel_task leaves the channel alone: the queues keep the task's number
\* until a later operation meets it.
CancelSend(n) ==
  /\ phase = "idle"
  /\ n <= nsends
  /\ sendTask' = [sendTask EXCEPT ![n].cancelled = TRUE]
  /\ UNCHANGED <<queue, pending_sends, pending_recvs, closed, recvTask, nsends, nrecvs, phase>>

CancelRecv(r) ==
  /\ phase = "idle"
  /\ r <= nrecvs
  /\ recvTask' = [recvTask EXCEPT ![r].cancelled = TRUE]
  /\ UNCHANGED <<queue, pending_sends, pending_recvs, closed, sendTask, nsends, nrecvs, phase>>

-----------------------------------------------------------------------------
(* drive_async_channel: one iteration of its first loop ...                *)

ServeCancelled(r) ==
  /\ recvTask[r].cancelled
  /\ pending_recvs' = Tail(pending_recvs)
  /\ UNCHANGED <<queue, pending_sends, sendTask, recvTask, phase>>

ServeFromBuffer(r) ==
  /\ ~recvTask[r].cancelled
  /\ queue # <<>>
  /\ recvTask' = [recvTask EXCEPT ![r] = Completed(@, Head(queue))]
  /\ queue' = Tail(queue)
  /\ pending_recvs' = Tail(pending_recvs)
  /\ UNCHANGED <<pending_sends, sendTask, phase>>

ServeFromSender(r) ==
  LET n == Head(pending_sends) IN
  /\ ~recvTask[r].cancelled
  /\ queue = <<>>
  /\ SenderWaits
  /\ sendTask' = [sendTask EXCEPT ![n] = Completed(@, 1)]
  /\ recvTask' = [recvTask EXCEPT ![r] = Completed(@, n)]
  /\ pending_sends' = Tail(pending_sends)
  /\ pending_recvs' = Tail(pending_recvs)
  /\ UNCHANGED <<queue, phase>>

ServeClosed(r) ==
  /\ ~recvTask[r].cancelled
  /\ queue = <<>>
  /\ ~SenderWaits
  /\ closed
  /\ recvTask' = [recvTask EXCEPT ![r] = Completed(@, Closed)]
  /\ pending_sends' = DropHead(pending_sends)
  /\ pending_recvs' = Tail(pending_recvs)
  /\ UNCHANGED <<queue, sendTask, phase>>

\* Nothing for the receive: it goes back to the front and the loop ends.
ServeNothing(r) ==
  /\ ~recvTask[r].cancelled
  /\ queue = <<>>
  /\ ~SenderWaits
  /\ ~closed
  /\ pending_sends' = DropHead(pending_sends)
  /\ phase' = "buffer"
  /\ UNCHANGED <<queue, pending_recvs, sendTask, recvTask>>

ServeEnd ==
  /\ pending_recvs = <<>>
  /\ phase' = "buffer"
  /\ UNCHANGED <<queue, pending_sends, pending_recvs, sendTask, recvTask>>

DriveServe ==
  /\ phase = "serve"
  /\ \/ /\ pending_recvs # <<>>
        /\ LET r == Head(pending_recvs) IN
             \/ ServeCancelled(r)
             \/ ServeFromBuffer(r)
             \/ ServeFromSender(r)
             \/ ServeClosed(r)
             \/ ServeNothing(r)
     \/ ServeEnd
  /\ UNCHANGED <<closed, nsends, nrecvs>>

(* ... and one iteration of its second loop, which refills the buffer.     *)
CanBuffer == Len(queue) < Capacity /\ pending_sends # <<>>

BufferCancelled(n) ==
  /\ sendTask[n].cancelled
  /\ pending_sends' = Tail(pending_sends)
  /\ UNCHANGED <<queue, sendTask, phase>>

\* Mutant of BufferSend: the send's cancellation is not tested.
BufferSendUnchecked(n) ==
  /\ queue' = Append(queue, n)
  /\ sendTask' = [sendTask EXCEPT ![n] = Completed(@, 1)]
  /\ pending_sends' = Tail(pending_sends)
  /\ UNCHANGED phase

BufferSend(n) ==
  /\ ~sendTask[n].cancelled
  /\ queue' = Append(queue, n)
  /\ sendTask' = [sendTask EXCEPT ![n] = Completed(@, 1)]
  /\ pending_sends' = Tail(pending_sends)
  /\ UNCHANGED phase

BufferEnd ==
  /\ ~CanBuffer
  /\ phase' = "idle"
  /\ UNCHANGED <<queue, pending_sends, sendTask>>

DriveBuffer ==
  /\ phase = "buffer"
  /\ \/ /\ CanBuffer
        /\ LET n == Head(pending_sends) IN BufferCancelled(n) \/ BufferSend(n)
     \/ BufferEnd
  /\ UNCHANGED <<pending_recvs, closed, recvTask, nsends, nrecvs>>

Next ==
  \/ Send
  \/ Recv
  \/ Close
  \/ \E n \in Sends : CancelSend(n)
  \/ \E r \in Recvs : CancelRecv(r)
  \/ DriveServe
  \/ DriveBuffer

Spec == Init /\ [][Next]_vars

-----------------------------------------------------------------------------
(* Properties                                                              *)

\* Type invariant: the queues hold numbers of operations that were called.
TypeOK ==
  /\ queue \in Seq(Sends)
  /\ pending_sends \in Seq(Sends)
  /\ pending_recvs \in Seq(Recvs)
  /\ closed \in BOOLEAN
  /\ sendTask \in [Sends -> SendTasks]
  /\ recvTask \in [Recvs -> RecvTasks]
  /\ nsends \in 0..MaxSends
  /\ nrecvs \in 0..MaxRecvs
  /\ phase \in {"idle", "serve", "buffer"}

Elements(seq) == {seq[i] : i \in 1..Len(seq)}

\* Receives that got value n.
TakersOf(n) == {r \in Recvs : recvTask[r].completed /\ recvTask[r].value = n}

Accepted(n) == sendTask[n].completed /\ sendTask[n].value = 1

\* A send whose task says "accepted" is, until a receive gets it, in the
\* buffer, and nowhere once a receive got it; and no other value is buffered or
\* received.  std_async_channel_send, recv and drive_async_channel neither lose,
\* duplicate nor invent a value, whatever is cancelled and whenever the channel
\* is closed.
AcceptedIsDelivered ==
  /\ \A n \in Sends : Accepted(n) =>
       /\ n \in Elements(queue) <=> TakersOf(n) = {}
       /\ \A r, s \in TakersOf(n) : r = s
       /\ \A i, j \in 1..Len(queue) : queue[i] = n /\ queue[j] = n => i = j
  /\ \A n \in Sends : n \in Elements(queue) \/ TakersOf(n) # {} => Accepted(n)

NoRecvCancelled == \A r \in Recvs : ~recvTask[r].cancelled

\* An operation that is neither completed nor cancelled is still in its waiting
\* queue: no pop in send, recv or drive_async_channel drops a live task.  Between two
\* operations a send waits only while the buffer is full, and, as long as no receive
\* was cancelled, a receive only while there is nothing to receive; once the channel
\* is closed no receive waits at all: drive_async_channel serves and refills after
\* every operation.
NobodyWaitsInVain ==
  /\ \A n \in 1..nsends : sendTask[n].completed \/ sendTask[n].cancelled \/ n \in Elements(pending_sends)
  /\ \A r \in 1..nrecvs : recvTask[r].completed \/ recvTask[r].cancelled \/ r \in Elements(pending_recvs)
  /\ closed /\ phase = "idle" => \A r \in Elements(pending_recvs) : recvTask[r].cancelled
  /\ Len(queue) <= Capacity
  /\ phase = "idle" /\ pending_sends # <<>> => Len(queue) = Capacity
  /\ NoRecvCancelled /\ phase = "idle" /\ pending_recvs # <<>> =>
       queue = <<>> /\ pending_sends = <<>>

\* As long as no receive was cancelled, values come out in the order they were
\* sent: an earlier receive holds an earlier value, and all that is buffered
\* or waiting is later than all that was received.
FifoWithoutCancelledReceives ==
  NoRecvCancelled =>
    /\ \A r, s \in Recvs :
         /\ r < s
         /\ recvTask[r].completed /\ recvTask[r].value \in Sends
         /\ recvTask[s].completed /\ recvTask[s].value \in Sends
         => recvTask[r].value < recvTask[s].value
    /\ \A r \in Recvs : recvTask[r].completed =>
         \A n \in Elements(queue) \cup Elements(pending_sends) : recvTask[r].value < n

\* As long as no receive was cancelled, "closed" (-1) is reported only when
\* nothing accepted or waiting is left.
ClosedMeansDrained ==
  [][\A r \in Recvs :
       /\ NoRecvCancelled
       /\ recvTask'[r].value = Closed
       /\ recvTask[r].value # Closed
       => queue = <<>> /\ \A n \in Elements(pending_sends) : sendTask[n].cancelled]_vars
=============================================================================
