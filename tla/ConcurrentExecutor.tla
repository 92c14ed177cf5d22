-------------------------- MODULE ConcurrentExecutor --------------------------
(***************************************************************************)
(* std.concurrent: worker threads that run closures and the lanes of       *)
(* batches, joins that park on one shared condition variable, and a reset  *)
(* that cancels what is registered.  Tasks and batches are shared through  *)
(* atomics only, so one action is one atomic operation, or one critical    *)
(* section of the registry or of the completion signal.                    *)
(*                                                                         *)
(* A closure returns Result or fails; it does not join other tasks.  The   *)
(* sum of a batch is represented by how often each offset is in it.        *)
(* Submission cannot fail: the receiving end belongs to threads that never *)
(* end, so ConcurrentBatch::failed is never set.                           *)
(***************************************************************************)
EXTENDS Integers, Sequences, FiniteSets

CONSTANTS
  Tasks, Batches,   \* objects, each spawned once; handles are not reused
  Workers, Joiners, \* threads
  Count,            \* the number of values of a batch
  MaxClears,        \* bound on resets
  Null

ASSUME ExecutorAssumption ==
  /\ Tasks \cap Batches = {} /\ IsFiniteSet(Workers) /\ Workers # {}
  /\ Count \in Nat \ {0} /\ MaxClears \in Nat
  /\ Null \notin Tasks \cup Batches \cup Nat

Objects == Tasks \cup Batches
Offsets == 0..(Count - 1)
Lanes == IF Cardinality(Workers) < Count THEN Cardinality(Workers) ELSE Count
Result == 1

VARIABLES
  registered,           \* ConcurrentRegistry::tasks and ::batches
  submitted,            \* jobs sent so far, Null before the allocation
  queue,                \* the mpsc channel: pairs of an object and a lane
  state, value,         \* ConcurrentTask
  remaining, total, cancelled, \* ConcurrentBatch
  wpc, job, summed,     \* workers; summed: the offsets in lane_total
  jpc, on, got,         \* joiners
  clearing, todo, clears, \* the reset that holds the registry, what it has not cancelled yet
  taken                 \* history: how often a join returned the result

taskVars == <<state, value>>
batchVars == <<remaining, total, cancelled>>
workerVars == <<wpc, job, summed>>
joinVars == <<jpc, on, got>>
clearVars == <<clearing, todo, clears>>
vars == <<registered, submitted, queue, taskVars, batchVars, workerVars, joinVars, clearVars, taken>>

Init ==
  /\ registered = {} /\ submitted = [x \in Objects |-> Null] /\ queue = <<>>
  /\ state = [t \in Tasks |-> "PENDING"] /\ value = [t \in Tasks |-> 0]
  /\ remaining = [b \in Batches |-> Count]
  /\ total = [b \in Batches |-> [o \in Offsets |-> 0]] /\ cancelled = {}
  /\ wpc = [w \in Workers |-> "recv"] /\ job = [w \in Workers |-> Null]
  /\ summed = [w \in Workers |-> {}]
  /\ jpc = [j \in Joiners |-> "idle"] /\ on = [j \in Joiners |-> Null]
  /\ got = [j \in Joiners |-> Null]
  /\ clearing = FALSE /\ todo = {} /\ clears = 0
  /\ taken = [x \in Objects |-> 0]

JobsOf(x) == IF x \in Tasks THEN 1 ELSE Lanes

\* spawn has returned the handle of x.
Returned(x) == submitted[x] = JobsOf(x)

-----------------------------------------------------------------------------
(* Spawning                                                                *)

\* allocate_task and allocate_batch, under the lock of the registry.
Allocate(x) ==
  /\ ~clearing /\ submitted[x] = Null
  /\ registered' = registered \cup {x}
  /\ submitted' = [submitted EXCEPT ![x] = 0]
  /\ UNCHANGED <<queue, taskVars, batchVars, workerVars, joinVars, clearVars, taken>>

\* submit_closure, or submit_batch_lane for the next lane.
Submit(x) ==
  /\ submitted[x] # Null /\ ~Returned(x)
  /\ queue' = Append(queue, <<x, submitted[x]>>)
  /\ submitted' = [submitted EXCEPT ![x] = @ + 1]
  /\ UNCHANGED <<registered, taskVars, batchVars, workerVars, joinVars, clearVars, taken>>

-----------------------------------------------------------------------------
(* Workers                                                                 *)

\* The job is over; what is left is to notify, if it was the last of its object.
Leave(w, last) ==
  /\ wpc' = [wpc EXCEPT ![w] = IF last THEN "notify" ELSE "recv"]
  /\ job' = [job EXCEPT ![w] = Null] /\ summed' = [summed EXCEPT ![w] = {}]

Receive(w) ==
  /\ wpc[w] = "recv" /\ queue # <<>>
  /\ job' = [job EXCEPT ![w] = Head(queue)]
  /\ queue' = Tail(queue)
  /\ wpc' = [wpc EXCEPT ![w] = IF Head(queue)[1] \in Tasks THEN "closure" ELSE "lane"]
  /\ UNCHANGED <<summed, registered, submitted, taskVars, batchVars, joinVars, clearVars, taken>>

\* Mutant: the value is not stored.
StoreValueNot(w) ==
  /\ wpc[w] = "closure"
  /\ wpc' = [wpc EXCEPT ![w] = "complete"]
  /\ UNCHANGED <<job, summed, taskVars>>

\* The closure returned, and complete stores its value.
StoreValue(w) ==
  /\ wpc[w] = "closure"
  /\ value' = [value EXCEPT ![job[w][1]] = Result]
  /\ wpc' = [wpc EXCEPT ![w] = "complete"]
  /\ UNCHANGED <<job, summed, state>>

\* The compare_exchange of complete, fail and cancel.
Settled(t, s) == IF state[t] = "PENDING" THEN [state EXCEPT ![t] = s] ELSE state

\* The compare_exchange of complete; only the thread that won notifies.
Complete(w) ==
  /\ wpc[w] = "complete"
  /\ state' = Settled(job[w][1], "READY")
  /\ Leave(w, state' # state)
  /\ UNCHANGED value

\* The closure failed.
Fail(w) ==
  /\ wpc[w] = "closure"
  /\ state' = Settled(job[w][1], "FAILED")
  /\ Leave(w, state' # state)
  /\ UNCHANGED value

Closure(w) ==
  /\ StoreValue(w) \/ Complete(w) \/ Fail(w)
  /\ UNCHANGED <<registered, submitted, queue, batchVars, joinVars, clearVars, taken>>

\* The offsets of one lane: (lane..count).step_by(lanes).
LaneOffsets(l) == {o \in Offsets : o % Lanes = l}

\* One round of the loop over the offsets: the next one is added to lane_total,
\* unless the batch is cancelled.
LaneStep(w) ==
  LET left == LaneOffsets(job[w][2]) \ summed[w]
  IN /\ wpc[w] = "lane"
     /\ \/ /\ job[w][1] \notin cancelled
           /\ \E o \in left :
                /\ \A p \in left : o <= p
                /\ summed' = [summed EXCEPT ![w] = @ \cup {o}]
                /\ wpc' = [wpc EXCEPT ![w] = IF left = {o} THEN "add" ELSE "lane"]
           /\ UNCHANGED job
        \/ /\ job[w][1] \in cancelled /\ summed[w] # {}
           /\ wpc' = [wpc EXCEPT ![w] = "add"]
           /\ UNCHANGED <<job, summed>>
        \/ job[w][1] \in cancelled /\ summed[w] = {} /\ Leave(w, FALSE)
     /\ UNCHANGED batchVars

AddTo(b, S) == [total EXCEPT ![b] = [o \in Offsets |-> IF o \in S THEN @[o] + 1 ELSE @[o]]]

\* Mutant: remaining is counted down before the sum is added.
FinishLaneSubFirst(w) ==
  LET b == job[w][1]
      completed == Cardinality(summed[w])
  IN /\ \/ /\ wpc[w] = "add"
           /\ remaining' = [remaining EXCEPT ![b] = @ - completed]
           /\ wpc' = [wpc EXCEPT ![w] = "sub"]
           /\ UNCHANGED <<total, job, summed>>
        \/ /\ wpc[w] = "sub"
           /\ total' = AddTo(b, summed[w])
           /\ Leave(w, remaining[b] = 0)
           /\ UNCHANGED remaining
     /\ UNCHANGED cancelled

\* Mutant: the last lane is the one that finds remaining at zero already.
FinishLaneLate(w) ==
  LET b == job[w][1]
      completed == Cardinality(summed[w])
  IN /\ \/ /\ wpc[w] = "add"
           /\ total' = AddTo(b, summed[w])
           /\ wpc' = [wpc EXCEPT ![w] = "sub"]
           /\ UNCHANGED <<remaining, job, summed>>
        \/ /\ wpc[w] = "sub"
           /\ remaining' = [remaining EXCEPT ![b] = @ - completed]
           /\ Leave(w, remaining[b] = 0)
           /\ UNCHANGED total
     /\ UNCHANGED cancelled

\* finish_lane: fetch_add, then fetch_sub; the lane that ends the batch notifies.
FinishLane(w) ==
  LET b == job[w][1]
      completed == Cardinality(summed[w])
  IN /\ \/ /\ wpc[w] = "add"
           /\ total' = AddTo(b, summed[w])
           /\ wpc' = [wpc EXCEPT ![w] = "sub"]
           /\ UNCHANGED <<remaining, job, summed>>
        \/ /\ wpc[w] = "sub"
           /\ remaining' = [remaining EXCEPT ![b] = @ - completed]
           /\ Leave(w, remaining[b] = completed)
           /\ UNCHANGED total
     /\ UNCHANGED cancelled

BatchLane(w) ==
  /\ LaneStep(w) \/ FinishLane(w)
  /\ UNCHANGED <<registered, submitted, queue, taskVars, joinVars, clearVars, taken>>

\* notify_concurrent_completion wakes every parked joiner.
Woken == [j \in Joiners |-> IF jpc[j] = "parked" THEN "check" ELSE jpc[j]]

Notify(w) ==
  /\ wpc[w] = "notify"
  /\ jpc' = Woken
  /\ wpc' = [wpc EXCEPT ![w] = "recv"]
  /\ UNCHANGED <<job, summed, on, got, registered, submitted, queue, taskVars, batchVars,
                 clearVars, taken>>

Work(w) == Receive(w) \/ Closure(w) \/ BatchLane(w) \/ Notify(w)

-----------------------------------------------------------------------------
(* Joining                                                                 *)

Done(x) == IF x \in Tasks THEN state[x] # "PENDING" ELSE remaining[x] = 0 \/ x \in cancelled

\* join_concurrent_task and join_concurrent_batch_sum look the handle up; a
\* handle that is not registered is an error.
Join(j, x) ==
  /\ jpc[j] = "idle" /\ ~clearing
  /\ Returned(x) /\ x \in registered
  /\ on' = [on EXCEPT ![j] = x]
  /\ jpc' = [jpc EXCEPT ![j] = "check"]
  /\ UNCHANGED got

\* The join returns an error and leaves the handle registered.
GiveUp(j) ==
  /\ jpc' = [jpc EXCEPT ![j] = "idle"]
  /\ on' = [on EXCEPT ![j] = Null] /\ got' = [got EXCEPT ![j] = Null]

\* The load of state at the head of the loop.
CheckTask(j) ==
  /\ jpc[j] = "check" /\ on[j] \in Tasks
  /\ \/ /\ state[on[j]] = "READY"
        /\ jpc' = [jpc EXCEPT ![j] = "read"] /\ UNCHANGED <<on, got>>
     \/ state[on[j]] \in {"FAILED", "CANCELLED"} /\ GiveUp(j)
     \/ /\ state[on[j]] = "PENDING"
        /\ jpc' = [jpc EXCEPT ![j] = "lock"] /\ UNCHANGED <<on, got>>

\* The load of remaining at the head of the loop.  A spin repeats the loads of
\* this step and the next and is left out.
CheckBatch(j) ==
  /\ jpc[j] = "check" /\ on[j] \in Batches
  /\ jpc' = [jpc EXCEPT ![j] = IF remaining[on[j]] = 0 THEN "read" ELSE "check2"]
  /\ UNCHANGED <<on, got>>

\* The load of cancelled.
CheckCancelled(j) ==
  /\ jpc[j] = "check2"
  /\ \/ on[j] \in cancelled /\ GiveUp(j)
     \/ /\ on[j] \notin cancelled
        /\ jpc' = [jpc EXCEPT ![j] = "lock"] /\ UNCHANGED <<on, got>>

\* Mutant: no second look under the lock.
ParkUnchecked(j) ==
  /\ jpc[j] = "lock"
  /\ jpc' = [jpc EXCEPT ![j] = "parked"]
  /\ UNCHANGED <<on, got>>

\* Under the lock of the signal: a second look, then the wait.
Park(j) ==
  /\ jpc[j] = "lock"
  /\ \/ /\ ~Done(on[j])
        /\ jpc' = [jpc EXCEPT ![j] = "parked"] /\ UNCHANGED <<on, got>>
     \/ /\ on[j] \in Tasks /\ Done(on[j])
        /\ jpc' = [jpc EXCEPT ![j] = "check"] /\ UNCHANGED <<on, got>>
     \/ /\ on[j] \in Batches /\ remaining[on[j]] = 0
        /\ jpc' = [jpc EXCEPT ![j] = "read"] /\ UNCHANGED <<on, got>>
     \/ on[j] \in Batches /\ remaining[on[j]] # 0 /\ on[j] \in cancelled /\ GiveUp(j)

\* A spurious wake, or the 30 s of wait_timeout.
WakeUp(j) ==
  /\ jpc[j] = "parked"
  /\ jpc' = [jpc EXCEPT ![j] = "check"]
  /\ UNCHANGED <<on, got>>

\* The load of the result.
Read(j) ==
  /\ jpc[j] = "read"
  /\ got' = [got EXCEPT ![j] = IF on[j] \in Tasks THEN value[on[j]] ELSE total[on[j]]]
  /\ jpc' = [jpc EXCEPT ![j] = "release"]
  /\ UNCHANGED on

\* Mutant: whoever comes second takes the value, too.
ReleaseAlways(j) ==
  /\ jpc[j] = "release" /\ ~clearing
  /\ registered' = registered \ {on[j]}
  /\ taken' = [taken EXCEPT ![on[j]] = @ + 1]
  /\ GiveUp(j)

\* release and release_batch: the value is returned only by the join that takes
\* the handle out of the registry.
Release(j) ==
  /\ jpc[j] = "release" /\ ~clearing
  /\ registered' = registered \ {on[j]}
  /\ taken' = [taken EXCEPT ![on[j]] = IF on[j] \in registered THEN @ + 1 ELSE @]
  /\ GiveUp(j)

Proceed(j) ==
  \/ /\ CheckTask(j) \/ CheckBatch(j) \/ CheckCancelled(j) \/ Park(j) \/ Read(j)
     /\ UNCHANGED <<registered, submitted, queue, taskVars, batchVars, workerVars, clearVars, taken>>
  \/ Release(j) /\ UNCHANGED <<submitted, queue, taskVars, batchVars, workerVars, clearVars>>

Call(j) ==
  /\ WakeUp(j) \/ \E x \in Objects : Join(j, x)
  /\ UNCHANGED <<registered, submitted, queue, taskVars, batchVars, workerVars, clearVars, taken>>

-----------------------------------------------------------------------------
(* ConcurrentRegistry::clear, under the lock of the registry               *)

ClearStart ==
  /\ ~clearing /\ clears < MaxClears
  /\ clearing' = TRUE /\ todo' = registered /\ clears' = clears + 1
  /\ UNCHANGED <<registered, submitted, queue, taskVars, batchVars, workerVars, joinVars, taken>>

ClearBatch(b) ==
  /\ clearing /\ b \in todo
  /\ cancelled' = cancelled \cup {b}
  /\ todo' = todo \ {b}
  /\ UNCHANGED <<state, clearing, clears>>

ClearTask(t) ==
  /\ clearing /\ t \in todo /\ todo \cap Batches = {}
  /\ state' = Settled(t, "CANCELLED")
  /\ todo' = todo \ {t}
  /\ UNCHANGED <<cancelled, clearing, clears>>

ClearEnd ==
  /\ clearing /\ todo = {}
  /\ jpc' = Woken
  /\ registered' = {}
  /\ clearing' = FALSE
  /\ UNCHANGED <<submitted, queue, taskVars, batchVars, workerVars, on, got, todo, clears, taken>>

Clear ==
  \/ /\ \/ \E b \in Batches : ClearBatch(b)
        \/ \E t \in Tasks : ClearTask(t)
     /\ UNCHANGED <<registered, submitted, queue, value, remaining, total, workerVars, joinVars,
                    taken>>
  \/ ClearEnd

Next ==
  \/ \E x \in Objects : Allocate(x) \/ Submit(x)
  \/ \E w \in Workers : Work(w)
  \/ \E j \in Joiners : Proceed(j) \/ Call(j)
  \/ ClearStart \/ Clear

Spec == Init /\ [][Next]_vars

\* A thread that spawns or resets, and a worker.
Serve ==
  \/ \E x \in Objects : Submit(x)
  \/ \E w \in Workers : Work(w)
  \/ Clear

\* Threads inside the runtime go on, and closures return.  Nobody need join, reset
\* or be woken without reason.  Serve asks that one of its threads goes on, which
\* is less than fairness to each of them.
FairSpec ==
  /\ Spec
  /\ WF_vars(Serve)
  /\ \A j \in Joiners : WF_vars(Proceed(j))

-----------------------------------------------------------------------------
(* Properties                                                              *)

Sums == [Offsets -> Nat]

TypeOK ==
  /\ registered \subseteq Objects
  /\ submitted \in [Objects -> {Null} \cup 0..Count]
  /\ queue \in Seq(Objects \X Nat)
  /\ state \in [Tasks -> {"PENDING", "READY", "FAILED", "CANCELLED"}]
  /\ value \in [Tasks -> {0, Result}]
  /\ remaining \in [Batches -> 0..Count]
  /\ total \in [Batches -> Sums] /\ cancelled \subseteq Batches
  /\ wpc \in [Workers -> {"recv", "closure", "complete", "lane", "add", "sub", "notify"}]
  /\ job \in [Workers -> {Null} \cup (Objects \X Nat)]
  /\ summed \in [Workers -> SUBSET Offsets]
  /\ jpc \in [Joiners -> {"idle", "check", "check2", "lock", "parked", "read", "release"}]
  /\ on \in [Joiners -> {Null} \cup Objects]
  /\ clearing \in BOOLEAN /\ todo \subseteq Objects /\ clears \in 0..MaxClears
  /\ taken \in [Objects -> Nat]

\* The value a task join returns is the one the closure produced, although the
\* state and the value are two atomics.
JoinedValueIsTheResult ==
  \A j \in Joiners : jpc[j] = "release" /\ on[j] \in Tasks =>
    state[on[j]] = "READY" /\ got[j] = Result

\* The sum a batch join returns has every value of the batch in it, once, however
\* the lanes, the reset and the join interleave.
BatchSumIsComplete ==
  \A j \in Joiners : jpc[j] = "release" /\ on[j] \in Batches => got[j] = [o \in Offsets |-> 1]

\* Of any number of joins of the same handle, at most one returns the result.
ValueIsTakenOnce ==
  \A x \in Objects : taken[x] <= 1 /\ (taken[x] = 1 => x \notin registered)

\* "re-checking `remaining` under that lock cannot miss a wakeup": a joiner parked
\* on something that is done is about to be woken.
ParkedJoinerIsWoken ==
  \A j \in Joiners : jpc[j] = "parked" /\ Done(on[j]) =>
    clearing \/ \E w \in Workers : wpc[w] = "notify"

\* A task is settled once: a late result, failure or reset does not change it.
SettledOnce == [][\A t \in Tasks : state[t] # "PENDING" => state'[t] = state[t]]_vars

\* Every join returns, without the help of the 30 s timeout or spurious wakes.
\* Joiners are alike, so one stands for all of them.
JoinReturns ==
  LET j == CHOOSE k \in Joiners : TRUE
  IN jpc[j] # "idle" ~> jpc[j] = "idle"
=============================================================================
