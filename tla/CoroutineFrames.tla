---------------------------- MODULE CoroutineFrames ----------------------------
(***************************************************************************)
(* The coroutine frame registry: generated coroutine frames, keyed by task,*)
(* that threads poll, cancel and drop while another thread may reset the   *)
(* whole async runtime.  Generated code runs without any lock, holding a   *)
(* raw pointer to its frame, so what keeps the frame alive and dropped at  *)
(* most once is the discipline of the registry modelled here.              *)
(*                                                                         *)
(* The map frames[t] of the code is split into one set or function per     *)
(* field, over the tasks in `present'.  The poll and drop callbacks are    *)
(* generated code: a poll may return any status.  A coroutine that polls   *)
(* its child does so through poll_coroutine_task like any other thread, so *)
(* each activation of poll_coroutine_task is one member of Threads.        *)
(***************************************************************************)
EXTENDS Integers

CONSTANTS
  Tasks,      \* handles of coroutine tasks; a handle is never reused
  Failable,   \* bound: the tasks that std.async.task.fail is called on
  Threads,    \* activations of poll_coroutine_task, cancel_coroutine_task, ...
  None,       \* no child, no task
  Dummy       \* the empty frame that mem::replace leaves in a record

ASSUME NoneAssumption == None \notin Tasks /\ Dummy \notin Tasks /\ None # Dummy

VARIABLES
  (* AsyncFrameRegistry *)
  present,             \* keys of frames
  state,               \* FrameRecord.state
  polling, drop_in_progress, cancel_requested,  \* records with the flag set
  child, parents,      \* who awaits whom
  wake_queue,
  asleep,              \* history: subscribed, neither polled nor handed to the reactor since
  (* the boxed frame built by generated code *)
  place,               \* who owns it
  drops,               \* calls of its drop callback
  (* AsyncTaskRegistry.tasks *)
  tasks, completed, failed, cancelled,
  (* the threads *)
  pc, on, held

frameVars == <<place, drops>>
taskVars == <<tasks, completed, failed, cancelled>>
threadVars == <<pc, on, held>>
vars == <<present, state, polling, drop_in_progress, cancel_requested, child, parents,
          frameVars, taskVars, wake_queue, asleep, threadVars>>

Terminal == {"Ready", "Failed", "Cancelled"}
States == {"Created", "Polling", "Pending"} \cup Terminal
\* A retired frame sits in FRAME_QUARANTINE, or was evicted from it.
Places == {"none", "registry", "taken", "retired"}
Labels == {"idle", "poll", "subscribed", "cancel", "drop", "complete_drop", "take_wakes"}

Init ==
  /\ present = {} /\ polling = {} /\ drop_in_progress = {} /\ cancel_requested = {}
  /\ state = [t \in Tasks |-> "Created"]
  /\ child = [t \in Tasks |-> None]
  /\ parents = [t \in Tasks |-> {}]
  /\ place = [t \in Tasks |-> "none"]
  /\ drops = [t \in Tasks |-> 0]
  /\ tasks = {} /\ completed = {} /\ failed = {} /\ cancelled = {}
  /\ wake_queue = {} /\ asleep = {}
  /\ pc = [th \in Threads |-> "idle"]
  /\ on = [th \in Threads |-> None]
  /\ held = [th \in Threads |-> None]

Goto(th, label) == pc' = [pc EXCEPT ![th] = label]

-----------------------------------------------------------------------------
(* create_coroutine_task_boxed                                             *)

Create(t) ==
  /\ place[t] = "none"
  /\ tasks' = tasks \cup {t}
  /\ present' = present \cup {t}
  /\ place' = [place EXCEPT ![t] = "registry"]
  /\ UNCHANGED <<state, polling, drop_in_progress, cancel_requested, child, parents,
                 drops, completed, failed, cancelled, wake_queue, asleep, threadVars>>

-----------------------------------------------------------------------------
(* poll_coroutine_task: begin_poll, the generated code, finish_poll        *)

\* A poll that begin_poll refuses (already polling, already terminal) returns
\* at once and changes nothing.
BeginPoll(th, t) ==
  /\ pc[th] = "idle"
  /\ t \in present
  /\ t \notin polling
  /\ state[t] \in {"Created", "Pending"}
  /\ polling' = polling \cup {t}
  /\ state' = [state EXCEPT ![t] = "Polling"]
  /\ asleep' = asleep \ {t}
  /\ on' = [on EXCEPT ![th] = t]
  /\ Goto(th, "poll")
  /\ UNCHANGED <<present, drop_in_progress, cancel_requested, child, parents,
                 frameVars, taskVars, wake_queue, held>>

\* parents after p stopped awaiting whatever it awaited.
Unlinked(p) ==
  [x \in Tasks |-> IF x = child[p] THEN parents[x] \ {p} ELSE parents[x]]

\* Mutant of Subscribe: the state of the child is not looked at.
SubscribeUnchecked(th, c) ==
  LET p == on[th] IN
  /\ pc[th] = "poll"
  /\ c \in present
  /\ p # c
  /\ child' = [child EXCEPT ![p] = c]
  /\ parents' = [Unlinked(p) EXCEPT ![c] = @ \cup {p}]
  /\ asleep' = asleep \cup {p}
  /\ Goto(th, "subscribed")
  /\ UNCHANGED <<present, state, polling, drop_in_progress, cancel_requested,
                 frameVars, taskVars, wake_queue, on, held>>

\* The generated code of p awaits c: subscribe_coroutine_child.  A child that
\* is already terminal wakes p at once.
Subscribe(th, c) ==
  LET p == on[th] IN
  /\ pc[th] = "poll"
  /\ c \in present
  /\ p # c
  /\ child' = [child EXCEPT ![p] = c]
  /\ parents' = [Unlinked(p) EXCEPT ![c] = @ \cup {p}]
  /\ wake_queue' = IF state[c] \in Terminal THEN wake_queue \cup {p} ELSE wake_queue
  /\ asleep' = asleep \cup {p}
  /\ Goto(th, "subscribed")
  /\ UNCHANGED <<present, state, polling, drop_in_progress, cancel_requested,
                 frameVars, taskVars, on, held>>

\* ... which ends with take_wakes, outside the registry lock: every queued
\* task is handed to the reactor.
SubscribeWakes(th) ==
  /\ pc[th] = "subscribed"
  /\ wake_queue' = {} /\ asleep' = asleep \ wake_queue
  /\ Goto(th, "poll")
  /\ UNCHANGED <<present, state, polling, drop_in_progress, cancel_requested, child, parents,
                 frameVars, taskVars, on, held>>

\* Mutant of FinishPending: a cancellation during the poll is not looked at.
FinishPendingAnyway(th) ==
  LET t == on[th] IN
  /\ pc[th] = "poll"
  /\ polling' = polling \ {t}
  /\ state' = [state EXCEPT ![t] = "Pending"]
  /\ completed' = completed \ {t}
  /\ Goto(th, "take_wakes")
  /\ UNCHANGED <<present, drop_in_progress, cancel_requested, child, parents,
                 frameVars, tasks, failed, cancelled, wake_queue, asleep, on, held>>

\* The generated code returned Pending and no cancellation came in meanwhile.
FinishPending(th) ==
  LET t == on[th] IN
  /\ pc[th] = "poll"
  /\ t \notin cancel_requested
  /\ polling' = polling \ {t}
  /\ state' = [state EXCEPT ![t] = "Pending"]
  /\ completed' = completed \ {t}
  /\ Goto(th, "take_wakes")
  /\ UNCHANGED <<present, drop_in_progress, cancel_requested, child, parents,
                 frameVars, tasks, failed, cancelled, wake_queue, asleep, on, held>>

\* Mutant of TakeFrame: the frame is not replaced by a dummy.
TakeFrameAgain(th, t) ==
  /\ drop_in_progress' = drop_in_progress \cup {t}
  /\ held' = [held EXCEPT ![th] = t]
  /\ place' = [place EXCEPT ![t] = "taken"]
  /\ Goto(th, "drop")

\* mem::replace: the record's frame moves into an AsyncFrameDrop.
TakeFrame(th, t) ==
  /\ drop_in_progress' = drop_in_progress \cup {t}
  /\ held' = [held EXCEPT ![th] = IF place[t] = "registry" THEN t ELSE Dummy]
  /\ place' = [place EXCEPT ![t] = IF @ = "registry" THEN "taken" ELSE @]
  /\ Goto(th, "drop")

\* finish_poll with a final status.  A flag of the task table is set only if a
\* reset has not removed the task meanwhile.
FinishFinal(th, status) ==
  LET t == on[th] IN
  /\ pc[th] = "poll"
  /\ polling' = polling \ {t}
  /\ state' = [state EXCEPT ![t] = status]
  /\ TakeFrame(th, t)
  /\ wake_queue' = wake_queue \cup parents[t]
  /\ parents' = [Unlinked(t) EXCEPT ![t] = {}]
  /\ child' = [child EXCEPT ![t] = None]
  /\ completed' = completed \cup ({t} \cap tasks)
  /\ asleep' = asleep \ {t}
  /\ UNCHANGED <<present, cancel_requested, drops, tasks, on>>

FinishReady(th) ==
  /\ on[th] \notin cancel_requested
  /\ FinishFinal(th, "Ready")
  /\ failed' = failed \ {on[th]}
  /\ cancelled' = cancelled \ {on[th]}

FinishFailed(th) ==
  /\ on[th] \notin cancel_requested
  /\ FinishFinal(th, "Failed")
  /\ failed' = failed \cup ({on[th]} \cap tasks)
  /\ UNCHANGED cancelled

\* The status of the generated code is overridden when a cancellation came in
\* while it ran; it may also be Cancelled by itself.
FinishCancelled(th) ==
  /\ FinishFinal(th, "Cancelled")
  /\ cancelled' = cancelled \cup ({on[th]} \cap tasks)
  /\ UNCHANGED failed

-----------------------------------------------------------------------------
(* The end of poll_coroutine_task and cancel_coroutine_task                *)

\* invoke_frame_drop: outside every lock; the frame goes to the quarantine.
InvokeDrop(th) ==
  /\ pc[th] = "drop"
  /\ drops' = [t \in Tasks |-> IF t = held[th] THEN drops[t] + 1 ELSE drops[t]]
  /\ place' = [t \in Tasks |-> IF t = held[th] THEN "retired" ELSE place[t]]
  /\ held' = [held EXCEPT ![th] = None]
  /\ Goto(th, "complete_drop")
  /\ UNCHANGED <<present, state, polling, drop_in_progress, cancel_requested, child, parents,
                 taskVars, wake_queue, asleep, on>>

\* Mutant of CompleteDrop: an early return before take_wakes.
CompleteDropReturns(th) ==
  /\ pc[th] = "complete_drop"
  /\ drop_in_progress' = drop_in_progress \ {on[th]}
  /\ on' = [on EXCEPT ![th] = None]
  /\ Goto(th, "idle")
  /\ UNCHANGED <<present, state, polling, cancel_requested, child, parents,
                 frameVars, taskVars, wake_queue, asleep, held>>

CompleteDrop(th) ==
  /\ pc[th] = "complete_drop"
  /\ drop_in_progress' = drop_in_progress \ {on[th]}
  /\ Goto(th, "take_wakes")
  /\ UNCHANGED <<present, state, polling, cancel_requested, child, parents,
                 frameVars, taskVars, wake_queue, asleep, on, held>>

TakeWakes(th) ==
  /\ pc[th] = "take_wakes"
  /\ wake_queue' = {} /\ asleep' = asleep \ wake_queue
  /\ on' = [on EXCEPT ![th] = None]
  /\ Goto(th, "idle")
  /\ UNCHANGED <<present, state, polling, drop_in_progress, cancel_requested, child, parents,
                 frameVars, taskVars, held>>

-----------------------------------------------------------------------------
(* Cancellation, and failure from outside                                  *)

\* cancel_task with request_cancel: a terminal frame is left alone, a frame
\* being polled is only marked.
CancelTask(t) ==
  /\ t \in tasks
  /\ cancelled' = cancelled \cup {t}
  /\ IF t \in present /\ state[t] \notin Terminal
       THEN /\ cancel_requested' = cancel_requested \cup {t}
            /\ state' = IF t \in polling THEN state ELSE [state EXCEPT ![t] = "Cancelled"]
       ELSE UNCHANGED <<cancel_requested, state>>
  /\ wake_queue' = {} /\ asleep' = asleep \ (wake_queue \cup {t})
  /\ UNCHANGED <<present, polling, drop_in_progress, child, parents, frameVars,
                 tasks, completed, failed>>

\* The task is cancelled by a scope, a cancel handle or a deadline, which call
\* cancel_task and nothing else.
RequestCancel(t) ==
  /\ CancelTask(t)
  /\ UNCHANGED threadVars

\* std.async.task.fail marks any task of the table, whatever its frame is doing.
TaskFail(t) ==
  /\ t \in tasks \cap Failable
  /\ failed' = failed \cup {t}
  /\ asleep' = asleep \ {t}
  /\ UNCHANGED <<present, state, polling, drop_in_progress, cancel_requested, child, parents,
                 frameVars, tasks, completed, cancelled, wake_queue, threadVars>>

\* cancel_coroutine_task, first critical section ...
BeginCancel(th, t) ==
  /\ pc[th] = "idle"
  /\ t \in present
  /\ CancelTask(t)
  /\ on' = [on EXCEPT ![th] = t]
  /\ Goto(th, "cancel")
  /\ UNCHANGED held

\* Mutant of CancelDrop: the frame is taken though a poll is running in it.
CancelDropWhilePolled(th) ==
  LET t == on[th] IN
  /\ pc[th] = "cancel"
  /\ t \in present
  /\ t \notin drop_in_progress /\ t \in cancel_requested
  /\ state' = [state EXCEPT ![t] = "Cancelled"]
  /\ TakeFrame(th, t)
  /\ UNCHANGED <<present, polling, cancel_requested, child, parents, drops,
                 taskVars, wake_queue, asleep, on>>

\* ... and the second: take_cancel_drop, when the frame is there to be taken
CancelDrop(th) ==
  LET t == on[th] IN
  /\ pc[th] = "cancel"
  /\ t \in present
  /\ t \notin polling /\ t \notin drop_in_progress /\ t \in cancel_requested
  /\ state' = [state EXCEPT ![t] = "Cancelled"]
  /\ TakeFrame(th, t)
  /\ UNCHANGED <<present, polling, cancel_requested, child, parents, drops,
                 taskVars, wake_queue, asleep, on>>

\* when a poll, another drop or an earlier result owns the frame
CancelNothing(th) ==
  LET t == on[th] IN
  /\ pc[th] = "cancel"
  /\ t \in present
  /\ t \in polling \/ t \in drop_in_progress \/ t \notin cancel_requested
  /\ Goto(th, "take_wakes")
  /\ UNCHANGED <<present, state, polling, drop_in_progress, cancel_requested, child, parents,
                 frameVars, taskVars, wake_queue, asleep, on, held>>

\* and when a reset removed the record in between.
CancelStale(th) ==
  /\ pc[th] = "cancel"
  /\ on[th] \notin present
  /\ on' = [on EXCEPT ![th] = None]
  /\ Goto(th, "idle")
  /\ UNCHANGED <<present, state, polling, drop_in_progress, cancel_requested, child, parents,
                 frameVars, taskVars, wake_queue, asleep, held>>

-----------------------------------------------------------------------------
(* wake_coroutine_task, and the reset of the async runtime                 *)

Wake(th, t) ==
  /\ pc[th] = "idle"
  /\ t \in present
  /\ wake_queue' = wake_queue \cup {t} \cup parents[t]
  /\ Goto(th, "take_wakes")
  /\ UNCHANGED <<present, state, polling, drop_in_progress, cancel_requested, child, parents,
                 frameVars, taskVars, asleep, on, held>>

\* clear keeps the records that a poll or a drop is using.  The frames of the
\* others go to the quarantine as they are.
Reset ==
  LET retained == {t \in present : t \in polling \/ t \in drop_in_progress}
      cleared == present \ retained IN
  /\ present' = retained
  /\ place' = [t \in Tasks |->
                 IF t \in cleared /\ place[t] = "registry" THEN "retired" ELSE place[t]]
  /\ cancel_requested' = cancel_requested \ cleared
  /\ child' = [t \in Tasks |-> IF t \in cleared THEN None ELSE child[t]]
  /\ parents' = [t \in Tasks |-> IF t \in cleared THEN {} ELSE parents[t]]
  /\ wake_queue' = wake_queue \cap retained /\ asleep' = asleep \cap retained
  /\ tasks' = {} /\ completed' = {} /\ failed' = {} /\ cancelled' = {}
  /\ UNCHANGED <<state, polling, drop_in_progress, drops, threadVars>>

Next ==
  \/ \E t \in Tasks : Create(t) \/ RequestCancel(t) \/ TaskFail(t)
  \/ \E th \in Threads, t \in Tasks :
       BeginPoll(th, t) \/ Subscribe(th, t) \/ BeginCancel(th, t) \/ Wake(th, t)
  \/ \E th \in Threads :
       \/ SubscribeWakes(th)
       \/ FinishPending(th) \/ FinishReady(th) \/ FinishFailed(th) \/ FinishCancelled(th)
       \/ InvokeDrop(th) \/ CompleteDrop(th) \/ TakeWakes(th)
       \/ CancelDrop(th) \/ CancelNothing(th) \/ CancelStale(th)
  \/ Reset

Spec == Init /\ [][Next]_vars

\* A thread inside the runtime goes on, and generated code returns from a poll;
\* nothing makes a thread start an operation.
Finish(th) ==
  \/ FinishPending(th) \/ FinishReady(th) \/ FinishFailed(th) \/ FinishCancelled(th)
Continue(th) ==
  \/ SubscribeWakes(th) \/ InvokeDrop(th) \/ CompleteDrop(th) \/ TakeWakes(th)
  \/ CancelDrop(th) \/ CancelNothing(th) \/ CancelStale(th)
Fairness == \A th \in Threads : WF_vars(Continue(th)) /\ SF_vars(Finish(th))
FairSpec == Spec /\ Fairness

-----------------------------------------------------------------------------
(* Properties                                                              *)

\* Type invariant.
TypeOK ==
  /\ present \subseteq Tasks /\ polling \subseteq Tasks
  /\ drop_in_progress \subseteq Tasks /\ cancel_requested \subseteq Tasks
  /\ state \in [Tasks -> States]
  /\ child \in [Tasks -> Tasks \cup {None}]
  /\ parents \in [Tasks -> SUBSET Tasks]
  /\ wake_queue \subseteq Tasks /\ asleep \subseteq Tasks
  /\ place \in [Tasks -> Places]
  /\ drops \in [Tasks -> Nat]
  /\ tasks \subseteq Tasks /\ completed \subseteq Tasks
  /\ failed \subseteq Tasks /\ cancelled \subseteq Tasks
  /\ pc \in [Threads -> Labels]
  /\ on \in [Threads -> Tasks \cup {None}]
  /\ held \in [Threads -> Tasks \cup {None, Dummy}]

Polls(th) == pc[th] \in {"poll", "subscribed"}

\* While generated code runs in a frame it holds a raw pointer to it: the frame
\* is still owned by its record (not taken by a canceller, not retired by a
\* reset), its drop callback has not run, and no other thread is inside it.
PolledFrameIsOwned ==
  \A th \in Threads : Polls(th) =>
    /\ on[th] \in present
    /\ place[on[th]] = "registry"
    /\ drops[on[th]] = 0
    /\ \A other \in Threads : Polls(other) /\ on[other] = on[th] => other = th

\* The drop callback of a frame runs at most once, whatever polls, cancels and
\* resets race for it.
DroppedAtMostOnce == \A t \in Tasks : drops[t] <= 1

\* A frame whose coroutine returned a value or failed is dropped by the thread
\* that polled it: it is never left in the registry with its callback not run.
FinishedIsDropped ==
  \A t \in present : state[t] \in {"Ready", "Failed"} =>
    drops[t] = 1 \/ \E th \in Threads : pc[th] = "drop" /\ held[th] = t

\* A terminal state is final: poll and cancel never replace a result by another
\* one, whichever thread comes second.
TerminalIsFinal ==
  [][\A t \in Tasks : state[t] \in Terminal => state'[t] = state[t]]_vars

\* The task table agrees with the frame: a result that join reads from a poll shows
\* in the flags that join_scope reads, and only a frame that is terminal shows as
\* completed.  A failure or a cancellation that came after the result shows too.
TableAgreesWithFrame ==
  \A t \in tasks \cap present :
    /\ state[t] = "Ready" => t \in completed
    /\ state[t] = "Failed" => t \in completed \cap failed
    /\ state[t] = "Cancelled" => t \in cancelled
    /\ t \in completed => state[t] \in Terminal
    /\ t \in cancelled => state[t] \in Terminal \/ t \in polling \cap cancel_requested

\* A child that is not terminal knows every parent that awaits it, so that
\* finish_poll wakes them all, and no task that awaits something else.
ParentsAreKnown ==
  \A p, c \in present :
    /\ p \in parents[c] => child[p] = c
    /\ child[p] = c /\ state[c] \notin Terminal => p \in parents[c]

\* No coroutine sleeps over a child that has returned or failed: its wake is queued,
\* whether the child finished before the subscription (subscribe_child looks) or after
\* it (finish_poll wakes the parents).
SubscribersAreWoken ==
  \A p \in asleep, c \in present :
    child[p] = c /\ state[c] \in {"Ready", "Failed"} => p \in wake_queue

\* A coroutine cancelled through cancel_coroutine_task gets its frame retired,
\* by the canceller, by the poll that was running, or by a reset.
CancelledFrameIsRetired ==
  \A t \in Tasks :
    (\E th \in Threads : pc[th] = "cancel" /\ on[th] = t) ~> place[t] = "retired"

\* A queued wake leaves the queue: take_wakes hands it to the reactor, unless a reset
\* removes the task before.
WakesAreDelivered == \A t \in Tasks : t \in wake_queue ~> t \notin wake_queue
=============================================================================
