---------------------------- MODULE BackgroundTasks ----------------------------
(***************************************************************************)
(* Blocking work run off the reactor: spawn_background_task_internal puts a*)
(* job on a bounded queue, worker threads run it and publish its outcome in*)
(* the task registry, while other threads cancel tasks and reset the whole *)
(* async state.  The registry lock is released between allocating the task,*)
(* queueing its job, checking for cancellation, running the work and       *)
(* publishing its outcome; each of these is an action.                     *)
(*                                                                         *)
(* Every task is spawned by a thread of its own, with a cancel hook that   *)
(* sets the token its work polls.                                          *)
(***************************************************************************)
EXTENDS Integers, Sequences, TaskTable

CONSTANTS
  Jobs,        \* the tasks spawned for jobs; a handle is never reused
  Workers,     \* the threads of one BackgroundWorkerQueue
  QueueBound,  \* capacity of the sync_channel
  NoJob        \* a worker without a job

ASSUME BackgroundAssumption ==
  QueueBound \in Nat /\ NoJob \notin Jobs

VARIABLES
  spawn,                                 \* how far the spawning thread of a task got
  hooks,                                 \* keys of background_cancel_hooks
  signalled,                             \* tasks whose token is set
  drained,                               \* hooks a reset took and has yet to run
  queue,
  wpc, job,                              \* the workers
  lost                                   \* tasks whose job a panic took along

backgroundVars == <<spawn, taskVars, hooks, signalled, drained, queue, wpc, job, lost>>

BackgroundInit ==
  /\ spawn = [t \in Jobs |-> "none"]
  /\ tasks = {} /\ completed = {} /\ failed = {} /\ cancelled = {}
  /\ hooks = {} /\ signalled = {} /\ drained = {}
  /\ queue = <<>>
  /\ wpc = [w \in Workers |-> "recv"]
  /\ job = [w \in Workers |-> NoJob]
  /\ lost = {}

-----------------------------------------------------------------------------
(* spawn_background_task_internal                                          *)

\* Under the lifecycle and registry locks.
AllocateTask(t) ==
  /\ spawn[t] = "none"
  /\ spawn' = [spawn EXCEPT ![t] = "allocated"]
  /\ tasks' = tasks \cup {t}
  /\ hooks' = hooks \cup {t}
  /\ UNCHANGED <<completed, failed, cancelled, signalled, drained, queue, wpc, job, lost>>

Queued == {queue[i] : i \in DOMAIN queue}
Alive == {w \in Workers : wpc[w] # "dead"}

\* try_send, with no lock; the caller learns the handle.
SendJob(t) ==
  /\ spawn[t] = "allocated"
  /\ Len(queue) < QueueBound /\ Alive # {}
  /\ spawn' = [spawn EXCEPT ![t] = "returned"]
  /\ queue' = Append(queue, t)
  /\ UNCHANGED <<taskVars, hooks, signalled, drained, wpc, job, lost>>

\* Mutant: the error return comes before the rollback.
SendRefusedAtOnce(t) ==
  /\ spawn[t] = "allocated"
  /\ Len(queue) >= QueueBound \/ Alive = {}
  /\ spawn' = [spawn EXCEPT ![t] = "failed"]
  /\ UNCHANGED <<taskVars, hooks, signalled, drained, queue, wpc, job, lost>>

\* The queue is full, or every worker is gone and the receiver with them.
SendRefused(t) ==
  /\ spawn[t] = "allocated"
  /\ Len(queue) >= QueueBound \/ Alive = {}
  /\ spawn' = [spawn EXCEPT ![t] = "refused"]
  /\ UNCHANGED <<taskVars, hooks, signalled, drained, queue, wpc, job, lost>>

\* Under the lifecycle and registry locks again.
RollBack(t) ==
  /\ spawn[t] = "refused"
  /\ spawn' = [spawn EXCEPT ![t] = "failed"]
  /\ hooks' = hooks \ {t}
  /\ tasks' = tasks \ {t}
  /\ completed' = completed \ {t} /\ failed' = failed \ {t} /\ cancelled' = cancelled \ {t}
  /\ UNCHANGED <<signalled, drained, queue, wpc, job, lost>>

-----------------------------------------------------------------------------
(* The workers                                                             *)

Receive(w) ==
  /\ wpc[w] = "recv" /\ queue # <<>>
  /\ job' = [job EXCEPT ![w] = Head(queue)]
  /\ queue' = Tail(queue)
  /\ wpc' = [wpc EXCEPT ![w] = "check"]
  /\ UNCHANGED <<spawn, taskVars, hooks, signalled, drained, lost>>

\* task_is_cancelled: also true of a task that is gone.
SkipCancelled(w) ==
  /\ wpc[w] = "check" /\ (job[w] \notin tasks \/ job[w] \in cancelled)
  /\ wpc' = [wpc EXCEPT ![w] = "recv"]
  /\ job' = [job EXCEPT ![w] = NoJob]
  /\ UNCHANGED <<spawn, taskVars, hooks, signalled, drained, queue, lost>>

StartWork(w) ==
  /\ wpc[w] = "check" /\ job[w] \in tasks \ cancelled
  /\ wpc' = [wpc EXCEPT ![w] = "work"]
  /\ UNCHANGED <<spawn, taskVars, hooks, signalled, drained, queue, job, lost>>

\* The work returned and the worker goes for its next job.
Return(w) ==
  /\ wpc[w] = "work"
  /\ wpc' = [wpc EXCEPT ![w] = "recv"]
  /\ job' = [job EXCEPT ![w] = NoJob]

\* Ok(value): complete_task.
WorkCompletes(w) ==
  LET t == job[w] IN
  /\ Return(w)
  /\ completed' = IF t \in tasks \ cancelled THEN completed \cup {t} ELSE completed
  /\ hooks' = IF t \in tasks THEN hooks \ {t} ELSE hooks
  /\ UNCHANGED <<spawn, tasks, failed, cancelled, signalled, drained, queue, lost>>

\* Mutant: an error of the work is dropped.
WorkFailsSilently(w) ==
  /\ Return(w)
  /\ UNCHANGED <<spawn, taskVars, hooks, signalled, drained, queue, lost>>

\* Err(()): fail_task, which does not look at the cancelled flag.
WorkFails(w) ==
  LET t == job[w] IN
  /\ Return(w)
  /\ completed' = IF t \in tasks THEN completed \cup {t} ELSE completed
  /\ failed' = IF t \in tasks THEN failed \cup {t} ELSE failed
  /\ hooks' = IF t \in tasks THEN hooks \ {t} ELSE hooks
  /\ UNCHANGED <<spawn, tasks, cancelled, signalled, drained, queue, lost>>

\* The work panics: nothing catches it, and it ends the worker thread.  With the
\* last worker goes the receiver, and with it the jobs in the queue.
WorkPanics(w) ==
  /\ wpc[w] = "work"
  /\ lost' = lost \cup {job[w]} \cup (IF Alive = {w} THEN Queued ELSE {})
  /\ wpc' = [wpc EXCEPT ![w] = "dead"]
  /\ job' = [job EXCEPT ![w] = NoJob]
  /\ queue' = IF Alive = {w} THEN <<>> ELSE queue
  /\ UNCHANGED <<spawn, taskVars, hooks, signalled, drained>>

-----------------------------------------------------------------------------
(* Other threads                                                           *)

\* cancel_task: the hook is taken and run under the registry lock.
CancelJob(t) ==
  /\ spawn[t] = "returned" /\ t \in tasks
  /\ cancelled' = cancelled \cup {t}
  /\ hooks' = hooks \ {t}
  /\ signalled' = signalled \cup (hooks \cap {t})
  /\ UNCHANGED <<spawn, tasks, completed, failed, drained, queue, wpc, job, lost>>

\* std.async.task.fail
FailJob(t) ==
  /\ spawn[t] = "returned" /\ t \in tasks
  /\ failed' = failed \cup {t}
  /\ UNCHANGED <<spawn, tasks, completed, cancelled, hooks, signalled, drained, queue, wpc, job,
                 lost>>

\* Mutant: the hooks are cleared with the other tables, and none is run.
ResetDropsHooks ==
  /\ hooks' = {}
  /\ tasks' = {} /\ completed' = {} /\ failed' = {} /\ cancelled' = {}
  /\ UNCHANGED <<spawn, signalled, drained, queue, wpc, job, lost>>

\* reset_async_state, under the lifecycle and registry locks.
ResetAsyncState ==
  /\ drained' = drained \cup hooks
  /\ hooks' = {}
  /\ tasks' = {} /\ completed' = {} /\ failed' = {} /\ cancelled' = {}
  /\ UNCHANGED <<spawn, signalled, queue, wpc, job, lost>>

\* reset_async_state runs the hooks it took once the locks are released.
RunDrained(t) ==
  /\ t \in drained
  /\ drained' = drained \ {t}
  /\ signalled' = signalled \cup {t}
  /\ UNCHANGED <<spawn, taskVars, hooks, queue, wpc, job, lost>>

Work(w) ==
  Receive(w) \/ SkipCancelled(w) \/ StartWork(w) \/ WorkCompletes(w) \/ WorkFails(w)

Spawn(t) == SendJob(t) \/ SendRefused(t) \/ RollBack(t)

BackgroundNext ==
  \/ \E t \in Jobs : AllocateTask(t) \/ Spawn(t) \/ CancelJob(t) \/ FailJob(t) \/ RunDrained(t)
  \/ \E w \in Workers : Work(w) \/ WorkPanics(w)
  \/ ResetAsyncState

BackgroundSpec == BackgroundInit /\ [][BackgroundNext]_backgroundVars

\* Threads are scheduled: a worker takes and finishes jobs (work returns), a
\* spawning thread and a reset run on to their end.
Fairness ==
  /\ \A w \in Workers : WF_backgroundVars(Work(w))
  /\ \A t \in Jobs : WF_backgroundVars(Spawn(t)) /\ WF_backgroundVars(RunDrained(t))

FairSpec == BackgroundSpec /\ Fairness

-----------------------------------------------------------------------------
(* Properties                                                              *)

Places == {"none", "allocated", "returned", "refused", "failed"}

BackgroundTypeOK ==
  /\ spawn \in [Jobs -> Places]
  /\ tasks \subseteq Jobs /\ hooks \subseteq tasks
  /\ completed \subseteq tasks /\ failed \subseteq tasks /\ cancelled \subseteq tasks
  /\ signalled \subseteq Jobs /\ drained \subseteq Jobs
  /\ queue \in Seq(Jobs)
  /\ wpc \in [Workers -> {"recv", "check", "work", "dead"}]
  /\ job \in [Workers -> Jobs \cup {NoJob}]
  /\ lost \subseteq Jobs

Pending == tasks \ (completed \cup failed \cup cancelled)
Running == {job[w] : w \in Workers} \ {NoJob}

\* What settles a task: its spawner, which is still to queue it or to roll it
\* back, or its job, in the queue or with a worker.
InHand(t) == spawn[t] \in {"allocated", "refused"} \/ t \in Queued \cup Running

\* A task that is neither completed, failed nor cancelled is in somebody's hand,
\* unless a panic of its work, or of the last worker, took its job along.
OnlyPanicsOrphan == \A t \in Pending : InHand(t) \/ t \in lost

\* Work never goes on unaware: while a worker runs a job, either cancelling its
\* task still reaches the job's token, or the token is set, or the reset that
\* took the hook is about to set it.
RunningWorkHearsCancel ==
  \A w \in Workers : wpc[w] = "work" =>
    job[w] \in (hooks \ cancelled) \cup signalled \cup drained

\* A refused spawn leaves nothing behind, whatever was reset meanwhile: no task,
\* no hook, and no job of it ever runs.
RefusedLeavesNothing ==
  \A t \in Jobs : spawn[t] = "failed" => t \notin tasks \cup hooks \cup Queued \cup Running

\* A token is set only for a task that was cancelled or reset away: a hook never
\* fires for a task that still waits for its work.
TokenMeansCancelled == signalled \cap Pending = {}

\* Every pending task is settled: its work is run, or it is cancelled, rolled
\* back or reset away; or its job is lost to a panic.
PendingIsSettled == \A t \in Jobs : t \in Pending ~> t \notin Pending \ lost

=============================================================================
