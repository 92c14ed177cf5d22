------------------------ MODULE DistributedTraining ------------------------
(***************************************************************************)
(* Data-parallel training over TCP (ml_distributed_tcp.rs).  Every worker   *)
(* holds a replica of the parameters, submits the gradient of its next     *)
(* step and applies the average that comes back; the coordinator averages  *)
(* one gradient of every worker per step.  Connections break, workers      *)
(* reconnect and resubmit, and the coordinator repeats its last answer.    *)
(*                                                                         *)
(* Tensors are abstracted: an average is the number of its round, a        *)
(* replica is the sequence of averages applied to it, and a gradient is    *)
(* the replica it was computed from, with a loss that is finite or not.    *)
(* Everybody has the right version and token, so the checks of HELLO's     *)
(* fields never fail.  A connection is in conns from the time it is made:  *)
(* accept only adds what it finds.                                         *)
(***************************************************************************)
EXTENDS Integers, Sequences, FiniteSets

CONSTANTS
  Workers,
  Steps,
  MaxConns,   \* connections that exist at a time; names are used again
  Attempts,   \* ML_DIST_RECONNECT_ATTEMPTS
  MaxBreaks,  \* how often the network breaks a connection
  None

Conns == 1..MaxConns

ASSUME TrainingAssumption ==
  /\ Steps \in Nat \ {0} /\ Attempts \in Nat \ {0}
  /\ MaxBreaks \in Nat /\ MaxConns \in Nat
  /\ None \notin Workers \cup Nat \cup Seq(Nat)

VARIABLES
  coord,                      \* outcome of dist_coord_loop, "running" until it ends
  lost,                       \* the worker a WorkerLost failure names
  current_step, pending,      \* DistCoordState: pending_gradients is partial
  bindings,
  conns, worker_id,           \* the coordinator's connections and their ranks
  link,                       \* a connection is "open" or "cut"
  up, down,                   \* frames under way to the coordinator, to the worker
  wpc, stream,                \* a worker: where it is, and its connection
  attempts, acked_steps, replica,
  loss,                       \* of the replica, on the worker's shard
  breaks

coordVars == <<coord, lost, current_step, pending, bindings, conns, worker_id>>
netVars == <<link, up, down>>
workerVars == <<wpc, stream, attempts, acked_steps, replica, loss>>
vars == <<coordVars, netVars, workerVars, breaks>>

Hello(w) == [type |-> "HELLO", worker |-> w]
Assign == [type |-> "ASSIGN"]
Gradients(s, r, l) == [type |-> "GRADIENTS", step |-> s, replica |-> r, loss |-> l]
Ack(n) == [type |-> "ACK", round |-> n]
Done == [type |-> "DONE"]
Beat == [type |-> "HEARTBEAT"]

\* loss.is_finite() or not: training may diverge at any step, and a worker submits
\* what it computed without looking.
Losses == {"finite", "diverged"}

Init ==
  /\ coord = "running" /\ lost = None /\ current_step = 0
  /\ pending = [w \in Workers |-> None] /\ bindings = [w \in Workers |-> None]
  /\ conns = {} /\ worker_id = [t \in Conns |-> None]
  /\ link = [t \in Conns |-> "cut"]
  /\ up = [t \in Conns |-> <<>>] /\ down = [t \in Conns |-> <<>>]
  /\ wpc = [w \in Workers |-> "attach"] /\ stream = [w \in Workers |-> None]
  /\ attempts = [w \in Workers |-> 0] /\ acked_steps = [w \in Workers |-> 0]
  /\ replica = [w \in Workers |-> <<>>] /\ loss \in [Workers -> Losses]
  /\ breaks = 0

Running == coord = "running"
\* done_sent
DoneSent == current_step >= Steps

\* What is left of frames under way when a connection goes down.
Prefixes(s) == {SubSeq(s, 1, k) : k \in 0..Len(s)}

-----------------------------------------------------------------------------
(* A worker: dist_tcp_attach and dist_tcp_worker                           *)

\* The worker drops its stream.
Leave(w) ==
  /\ stream' = [stream EXCEPT ![w] = None]
  /\ link' = [link EXCEPT ![stream[w]] = "cut"]
  /\ down' = [down EXCEPT ![stream[w]] = <<>>]
  /\ UNCHANGED up

\* A name neither end uses.
Free(t) == t \notin conns /\ \A w \in Workers : stream[w] # t

\* Connects and writes HELLO, while the coordinator listens.
Connect(w, t) ==
  /\ wpc[w] = "attach" /\ attempts[w] < Attempts /\ Running
  /\ Free(t) /\ \A s \in Conns : Free(s) => t <= s
  /\ link' = [link EXCEPT ![t] = "open"]
  /\ up' = [up EXCEPT ![t] = <<Hello(w)>>]
  /\ conns' = conns \cup {t}
  /\ stream' = [stream EXCEPT ![w] = t]
  /\ attempts' = [attempts EXCEPT ![w] = @ + 1]
  /\ wpc' = [wpc EXCEPT ![w] = "assign"]
  /\ UNCHANGED <<coord, lost, current_step, pending, bindings, worker_id, down,
                 acked_steps, replica, loss, breaks>>

ConnectFails(w) ==
  /\ wpc[w] = "attach" /\ attempts[w] < Attempts /\ ~Running
  /\ attempts' = [attempts EXCEPT ![w] = @ + 1]
  /\ UNCHANGED <<coordVars, netVars, wpc, stream, acked_steps, replica, loss, breaks>>

\* Mutant of GiveUp: off by one, and no attempt is left to count.
GiveUpLate(w) ==
  /\ wpc[w] = "attach" /\ attempts[w] > Attempts
  /\ wpc' = [wpc EXCEPT ![w] = "gave up"]
  /\ UNCHANGED <<coordVars, netVars, stream, attempts, acked_steps, replica, loss, breaks>>

GiveUp(w) ==
  /\ wpc[w] = "attach" /\ attempts[w] = Attempts
  /\ wpc' = [wpc EXCEPT ![w] = "gave up"]
  /\ UNCHANGED <<coordVars, netVars, stream, attempts, acked_steps, replica, loss, breaks>>

\* dist_worker_read_frame: a frame, or nothing once the peer is gone.
Frames(w) == down[stream[w]]
Eof(w) == Frames(w) = <<>> /\ link[stream[w]] = "cut"
Read(w) ==
  /\ down' = [down EXCEPT ![stream[w]] = Tail(@)]
  /\ UNCHANGED <<link, up, stream>>

\* The attempt that gets its ASSIGN ends the attach; any other frame costs it.
ReadAssign(w) ==
  /\ wpc[w] = "assign" /\ Frames(w) # <<>> /\ Head(Frames(w)) = Assign
  /\ Read(w)
  /\ attempts' = [attempts EXCEPT ![w] = 0]
  /\ wpc' = [wpc EXCEPT ![w] = "submit"]
  /\ UNCHANGED <<coordVars, acked_steps, replica, loss, breaks>>

AttemptFails(w) ==
  /\ wpc[w] = "assign" /\ (Eof(w) \/ (Frames(w) # <<>> /\ Head(Frames(w)) # Assign))
  /\ Leave(w)
  /\ wpc' = [wpc EXCEPT ![w] = "attach"]
  /\ UNCHANGED <<coordVars, attempts, acked_steps, replica, loss, breaks>>

\* The gradient of the step after the last one acknowledged.  Bytes written to a
\* connection that is down are lost, or the write fails and the worker reattaches.
Submit(w) ==
  /\ wpc[w] = "submit"
  /\ up' = IF link[stream[w]] = "cut" THEN up
           ELSE [up EXCEPT ![stream[w]] = Append(@, Gradients(acked_steps[w] + 1, replica[w], loss[w]))]
  /\ wpc' = [wpc EXCEPT ![w] = "reply"]
  /\ UNCHANGED <<coordVars, link, down, stream, attempts, acked_steps, replica, loss, breaks>>

Reattach(w) ==
  /\ \/ wpc[w] = "submit" /\ link[stream[w]] = "cut"
     \/ wpc[w] = "reply" /\ Eof(w)
  /\ Leave(w)
  /\ wpc' = [wpc EXCEPT ![w] = "attach"]
  /\ UNCHANGED <<coordVars, attempts, acked_steps, replica, loss, breaks>>

\* ACK carries the average and no step: it is taken for the step submitted.  With
\* the new parameters the loss is another one.
ReadAck(w) ==
  /\ wpc[w] = "reply" /\ Frames(w) # <<>> /\ Head(Frames(w)).type = "ACK"
  /\ replica' = [replica EXCEPT ![w] = Append(@, Head(Frames(w)).round)]
  /\ \E l \in Losses : loss' = [loss EXCEPT ![w] = l]
  /\ acked_steps' = [acked_steps EXCEPT ![w] = @ + 1]
  /\ IF acked_steps[w] + 1 < Steps
     THEN Read(w) /\ wpc' = [wpc EXCEPT ![w] = "submit"]
     ELSE Leave(w) /\ wpc' = [wpc EXCEPT ![w] = "done"]
  /\ UNCHANGED <<coordVars, attempts, breaks>>

\* DONE ends the worker, and so does a frame of any other type, with an error.
ReadDone(w) ==
  /\ wpc[w] = "reply" /\ Frames(w) # <<>> /\ Head(Frames(w)).type # "ACK"
  /\ Leave(w)
  /\ IF Head(Frames(w)) = Done
     THEN wpc' = [wpc EXCEPT ![w] = "done"] /\ acked_steps' = [acked_steps EXCEPT ![w] = Steps]
     ELSE wpc' = [wpc EXCEPT ![w] = "confused"] /\ UNCHANGED acked_steps
  /\ UNCHANGED <<coordVars, attempts, replica, loss, breaks>>

\* The gradient or the update cannot be computed: the worker ends with an error.
WorkerFails(w) ==
  /\ \/ wpc[w] = "submit"
     \/ wpc[w] = "reply" /\ Frames(w) # <<>> /\ Head(Frames(w)).type = "ACK"
  /\ Leave(w)
  /\ wpc' = [wpc EXCEPT ![w] = "failed"]
  /\ UNCHANGED <<coordVars, attempts, acked_steps, replica, loss, breaks>>

\* A read that times out sends HEARTBEAT.  One per connection is enough: the
\* coordinator does nothing about the first that it would not do about the next.
Heartbeat(w) ==
  /\ wpc[w] \in {"assign", "reply"} /\ Frames(w) = <<>> /\ link[stream[w]] = "open"
  /\ \A i \in DOMAIN up[stream[w]] : up[stream[w]][i] # Beat
  /\ up' = [up EXCEPT ![stream[w]] = Append(@, Beat)]
  /\ UNCHANGED <<coordVars, link, down, workerVars, breaks>>

\* The network breaks a connection: of what is under way, a prefix still arrives.
Break(t) ==
  /\ link[t] = "open" /\ breaks < MaxBreaks
  /\ breaks' = breaks + 1
  /\ link' = [link EXCEPT ![t] = "cut"]
  /\ \E u \in Prefixes(up[t]), d \in Prefixes(down[t]) :
       up' = [up EXCEPT ![t] = u] /\ down' = [down EXCEPT ![t] = d]
  /\ UNCHANGED <<coordVars, workerVars>>

-----------------------------------------------------------------------------
(* The coordinator: dist_coord_loop and dist_coord_handle_frame            *)

\* dist_decode_frame: the types it knows.  HEARTBEAT is not one of them, so that the
\* branch of dist_coord_handle_frame for it is never reached: a heartbeat stays at the
\* front of the buffer, and what comes after it is not read.
Decodable(frame) == frame.type \in {"HELLO", "ASSIGN", "GRADIENTS", "ACK", "DONE"}

\* pop_frame finds a frame of this type at the front of t's buffer.
Pops(t, type) ==
  Running /\ t \in conns /\ up[t] # <<>> /\ Decodable(Head(up[t])) /\ Head(up[t]).type = type

\* The coordinator ends and drops its connections and its listener.
End(outcome) ==
  /\ coord' = outcome
  /\ conns' = {} /\ worker_id' = [t \in Conns |-> None]
  /\ bindings' = [w \in Workers |-> None] /\ pending' = [w \in Workers |-> None]
  /\ link' = [t \in Conns |-> "cut"] /\ up' = [t \in Conns |-> <<>>]
  /\ \E lasts \in [Conns -> UNION {Prefixes(down[t]) : t \in Conns}] :
       /\ \A t \in Conns : lasts[t] \in Prefixes(down[t])
       /\ down' = lasts
  /\ UNCHANGED <<current_step, workerVars, breaks>>

\* enqueue and flush
Deliverable(t) == link[t] = "open"
After(t, frame) == IF Deliverable(t) THEN Append(down[t], frame) ELSE down[t]

\* Mutant of Retire: the pending gradient stays.
RetireKeepsGradient(t) ==
  /\ Running /\ t \in conns /\ link[t] = "cut"
  /\ conns' = conns \ {t}
  /\ worker_id' = [worker_id EXCEPT ![t] = None]
  /\ bindings' = [w \in Workers |-> IF worker_id[t] = w /\ bindings[w] = t THEN None ELSE bindings[w]]
  /\ up' = [up EXCEPT ![t] = <<>>]
  /\ UNCHANGED <<coord, lost, current_step, pending, link, down, workerVars, breaks>>

\* dist_retire_conn(t): the rank is free, and its pending gradient is void.
Retire(t) ==
  /\ Running /\ t \in conns /\ link[t] = "cut"
  /\ conns' = conns \ {t}
  /\ worker_id' = [worker_id EXCEPT ![t] = None]
  /\ bindings' = [w \in Workers |-> IF worker_id[t] = w /\ bindings[w] = t THEN None ELSE bindings[w]]
  /\ pending' = [w \in Workers |-> IF worker_id[t] = w THEN None ELSE pending[w]]
  /\ up' = [up EXCEPT ![t] = <<>>]
  /\ UNCHANGED <<coord, lost, current_step, link, down, workerVars, breaks>>

\* HELLO: a connection that still holds the rank is retired first, with the rank's
\* pending gradient.
HandleHello(t) ==
  /\ Pops(t, "HELLO")
  /\ LET w == Head(up[t]).worker
         stale == {s \in conns : bindings[w] = s /\ s # t}
     IN /\ worker_id[t] \in {None, w}
        /\ conns' = conns \ stale
        /\ worker_id' = [s \in Conns |-> IF s = t THEN w ELSE IF s \in stale THEN None ELSE worker_id[s]]
        /\ bindings' = [bindings EXCEPT ![w] = t]
        /\ pending' = IF stale = {} THEN pending ELSE [pending EXCEPT ![w] = None]
        /\ link' = [s \in Conns |-> IF s \in stale THEN "cut" ELSE link[s]]
        /\ up' = [s \in Conns |-> IF s = t THEN Tail(up[t]) ELSE IF s \in stale THEN <<>> ELSE up[s]]
        /\ \E last \in UNION {Prefixes(down[s]) : s \in stale} \cup {<<>>} :
             /\ \A s \in stale : last \in Prefixes(down[s])
             /\ down' = [s \in Conns |-> IF s = t THEN After(t, Assign)
                                         ELSE IF s \in stale THEN last ELSE down[s]]
  /\ UNCHANGED <<coord, lost, current_step, workerVars, breaks>>

\* GRADIENTS is out of order: before HELLO, while one of the rank is pending, for a
\* step that is neither the last one nor the next.
OutOfOrder(t) ==
  LET w == worker_id[t]
      s == Head(up[t]).step
  IN \/ w = None
     \/ w # None /\ (pending[w] # None \/ s \notin {current_step, current_step + 1} \/ s < 1)

\* ... or it is in order and its loss is not finite.
Refused(t) == OutOfOrder(t) \/ Head(up[t]).loss # "finite"

\* A frame that dist_coord_handle_frame answers with a Protocol failure.
BadFrame(t) ==
  \/ Pops(t, "GRADIENTS") /\ Refused(t)
  \/ Pops(t, "HELLO") /\ worker_id[t] \notin {None, Head(up[t]).worker}
  \/ Pops(t, "ASSIGN") \/ Pops(t, "ACK") \/ Pops(t, "DONE")

\* Mutant of Replay: the frame is consumed and not answered.
ReplayUnanswered(t) ==
  /\ Pops(t, "GRADIENTS") /\ ~Refused(t) /\ Head(up[t]).step = current_step
  /\ up' = [up EXCEPT ![t] = Tail(@)]
  /\ UNCHANGED <<coordVars, link, down, workerVars, breaks>>

\* The last step again: its sender never saw the answer, which is repeated.
Replay(t) ==
  /\ Pops(t, "GRADIENTS") /\ ~Refused(t) /\ Head(up[t]).step = current_step
  /\ up' = [up EXCEPT ![t] = Tail(@)]
  /\ down' = [down EXCEPT ![t] = After(t, IF DoneSent THEN Done ELSE Ack(current_step))]
  /\ UNCHANGED <<coordVars, link, workerVars, breaks>>

\* Mutant of AllPresent: off by one in the number of gradients.
AllPresentButOne(w) == \A v, u \in Workers \ {w} : pending[v] = None /\ pending[u] = None => v = u

\* pending_gradients.len() = worker_count, with the gradient of w.
AllPresent(w) == \A v \in Workers \ {w} : pending[v] # None

\* The next step, with gradients of other ranks missing.
Contribute(t) ==
  /\ Pops(t, "GRADIENTS") /\ ~Refused(t) /\ Head(up[t]).step = current_step + 1
  /\ ~AllPresent(worker_id[t])
  /\ pending' = [pending EXCEPT ![worker_id[t]] = Head(up[t]).replica]
  /\ up' = [up EXCEPT ![t] = Tail(@)]
  /\ UNCHANGED <<coord, lost, current_step, bindings, conns, worker_id, link, down, workerVars, breaks>>

\* Mutant of LastRound: off by one.
LastRoundLate == current_step + 1 > Steps
\* current_step >= spec.steps, once it is advanced.
LastRound == current_step + 1 >= Steps

\* Mutant of NoGradients: they stay for the next round.
NoGradientsKept == pending
\* The gradients are taken out of pending_gradients.
NoGradients == [w \in Workers |-> None]

\* The last gradient of a round: average, and broadcast ACK, or DONE after the last
\* step, to every connection with a rank.
CompleteRound(t) ==
  /\ Pops(t, "GRADIENTS") /\ ~Refused(t) /\ Head(up[t]).step = current_step + 1
  /\ AllPresent(worker_id[t])
  /\ pending' = NoGradients
  /\ current_step' = current_step + 1
  /\ up' = [up EXCEPT ![t] = Tail(@)]
  /\ down' = [s \in Conns |->
       IF s \in conns /\ worker_id[s] # None
       THEN After(s, IF LastRound THEN Done ELSE Ack(current_step + 1))
       ELSE down[s]]
  /\ UNCHANGED <<coord, lost, bindings, conns, worker_id, link, workerVars, breaks>>

\* A rank was silent for silence_timeout.  That is long beside an iteration of the
\* loop: what the coordinator can decode, it has handled.
SilenceTimeout(w) ==
  /\ Running /\ ~DoneSent
  /\ \A t \in conns : up[t] # <<>> => ~Decodable(Head(up[t]))
  /\ End("WorkerLost") /\ lost' = w

\* deadline, or a failure of the poll.
Deadline == Running /\ End("Io") /\ UNCHANGED lost

\* After DONE the loop ends when no rank is bound, or when post_done_grace is over.
FinishUnbound ==
  /\ Running /\ DoneSent /\ \A w \in Workers : bindings[w] = None
  /\ End("ok") /\ UNCHANGED lost

FinishGrace == Running /\ DoneSent /\ End("ok") /\ UNCHANGED lost

-----------------------------------------------------------------------------
WorkerStep(w) ==
  \/ \E t \in Conns : Connect(w, t)
  \/ ConnectFails(w) \/ GiveUp(w) \/ ReadAssign(w) \/ AttemptFails(w)
  \/ Submit(w) \/ Reattach(w) \/ ReadAck(w) \/ ReadDone(w)

HandleFrame(t) ==
  IF BadFrame(t)
  THEN End("Protocol") /\ UNCHANGED lost
  ELSE HandleHello(t) \/ Replay(t) \/ Contribute(t) \/ CompleteRound(t)

Next ==
  \/ \E w \in Workers : WorkerStep(w) \/ WorkerFails(w) \/ Heartbeat(w) \/ SilenceTimeout(w)
  \/ \E t \in Conns : Break(t) \/ HandleFrame(t) \/ Retire(t)
  \/ Deadline \/ FinishUnbound \/ FinishGrace

Spec == Init /\ [][Next]_vars

-----------------------------------------------------------------------------
(* Properties                                                              *)

\* The averages of the first n rounds, in order.
Rounds(n) == [i \in 1..n |-> i]

\* Every replica has had the average of every round its worker was told of, once
\* and in order, however often connections broke, steps were resubmitted and
\* answers were repeated: the replicas of all workers agree (dist_tcp_worker).
ReplicasAgree ==
  \A w \in Workers :
    replica[w] = Rounds(IF wpc[w] = "done" THEN Steps - 1 ELSE acked_steps[w])

\* A gradient in a round was computed from the parameters that round is about: a
\* resubmitted or delayed gradient never mixes into another round.
RoundIsUniform ==
  \A w \in Workers : pending[w] # None => pending[w] = Rounds(current_step)

\* No worker is ahead of the coordinator, and none more than a step behind, so the
\* one cached answer is always the one a worker may ask for again (last_round).
LockStep ==
  \A w \in Workers : acked_steps[w] <= current_step /\ current_step <= acked_steps[w] + 1

\* A protocol failure of the coordinator has one cause, a gradient that came in order
\* with a loss that is not finite, and a worker never gets a frame it does not expect:
\* neither delayed frames of an old connection nor repeated ones are taken for a
\* violation (dist_coord_handle_frame, dist_tcp_worker).
OnlyDivergenceIsRefused ==
  [][/\ coord' = "Protocol" /\ Running =>
          \E t \in conns : Pops(t, "GRADIENTS") /\ ~OutOfOrder(t) /\ Head(up[t]).loss = "diverged"
     /\ \A w \in Workers : wpc'[w] # "confused"]_vars

\* A heartbeat is in the coordinator's buffers.
BeatUnderWay == \E t \in Conns : \E i \in DOMAIN up[t] : up[t][i] = Beat

\* Connections that break, at any moment and on either path, do not stop the
\* training: unless a timeout ends the run, or a loss that is not finite does, a worker
\* cannot compute or a heartbeat comes in between, every round is completed, within
\* the attempts that a worker has (dist_tcp_attach, dist_coord_handle_frame).
TrainingCompletes ==
  <>(DoneSent \/ coord \in {"Io", "WorkerLost", "Protocol"} \/ BeatUnderWay
     \/ \E w \in Workers : wpc[w] = "failed")

\* Once the coordinator has returned, whatever the outcome, every worker ends: it
\* gets its answer or finds nobody to connect to (dist_run_tcp joins them all).
WorkersEnd ==
  ~Running ~> \A w \in Workers : wpc[w] \in {"done", "failed", "gave up", "confused"}

\* A worker that is connected and sends HEARTBEAT is not declared lost.
LiveWorkerIsNotLost ==
  [][\A w \in Workers : SilenceTimeout(w) =>
       ~\E t \in conns : /\ bindings[w] = t /\ link[t] = "open"
                          /\ \E i \in DOMAIN up[t] : up[t][i] = Beat]_vars

\* A rank has one connection, the one it is bound to, and a pending gradient came
\* over it: a connection retired late cannot void the gradient of its successor
\* (dist_retire_conn).
OneConnectionPerRank ==
  \A w \in Workers :
    /\ \A t \in conns : worker_id[t] = w <=> bindings[w] = t
    /\ pending[w] # None => bindings[w] # None

-----------------------------------------------------------------------------
(* Fairness: workers and the coordinator's loop run.  Nothing says that a  *)
(* timeout fires, that a broken connection is noticed (the poll reports an  *)
(* edge once), or that a worker fails.                                     *)
FairSpec ==
  /\ Spec
  /\ \A w \in Workers : WF_vars(WorkerStep(w))
  /\ \A t \in Conns : WF_vars(HandleFrame(t))

=============================================================================
