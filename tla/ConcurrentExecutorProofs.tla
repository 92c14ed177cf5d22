---------------------- MODULE ConcurrentExecutorProofs ----------------------
(* Theorems about ConcurrentExecutor, for any number of tasks, batches,      *)
(* workers, joiners and resets and any size of a batch.                      *)
EXTENDS ConcurrentExecutor, TLAPS

\* What the variables hold; that remaining never drops below zero is not needed.
TaskTypes ==
  /\ state \in [Tasks -> {"PENDING", "READY", "FAILED", "CANCELLED"}]
  /\ value \in [Tasks -> {0, Result}]
BatchTypes ==
  /\ remaining \in [Batches -> Int]
  /\ total \in [Batches -> Sums]
WorkerTypes ==
  /\ wpc \in [Workers -> {"recv", "closure", "complete", "lane", "add", "sub", "notify"}]
  /\ job \in [Workers -> {Null} \cup (Objects \X Nat)]
  /\ summed \in [Workers -> SUBSET Offsets]
  /\ \A w \in Workers : wpc[w] \in {"closure", "complete"} =>
       job[w] \in Objects \X Nat /\ job[w][1] \in Tasks
  /\ \A w \in Workers : wpc[w] \in {"lane", "add", "sub"} =>
       job[w] \in Objects \X Nat /\ job[w][1] \in Batches
JoinerTypes ==
  /\ jpc \in [Joiners -> {"idle", "check", "check2", "lock", "parked", "read", "release"}]
  /\ on \in [Joiners -> {Null} \cup Objects]
  /\ got \in [Joiners -> {Null, 0, Result} \cup Sums]
  /\ \A j \in Joiners : jpc[j] # "idle" => on[j] \in Objects
QueueTypes ==
  /\ registered \subseteq Objects /\ todo \subseteq Objects
  /\ submitted \in [Objects -> {Null} \cup Nat]
  /\ queue \in Seq(Objects \X Nat)
  /\ taken \in [Objects -> Nat]

Types == TaskTypes /\ BatchTypes /\ WorkerTypes /\ JoinerTypes /\ QueueTypes

\* The value is stored before the state is published, and read after it.
PublishInv ==
  /\ \A t \in Tasks : state[t] = "READY" => value[t] = Result
  /\ \A w \in Workers : wpc[w] = "complete" => value[job[w][1]] = Result
  /\ \A j \in Joiners : jpc[j] \in {"read", "release"} /\ on[j] \in Tasks => state[on[j]] = "READY"
  /\ \A j \in Joiners : jpc[j] = "release" /\ on[j] \in Tasks => got[j] = Result

\* A handle is in the registry from its allocation to the join that takes it.
TakenInv ==
  \A x \in Objects :
    /\ taken[x] <= 1
    /\ taken[x] = 1 => x \notin registered
    /\ submitted[x] = Null => taken[x] = 0 /\ x \notin registered

-----------------------------------------------------------------------------
LEMMA ObjectFacts ==
  /\ \A x \in Objects : x \in Tasks \/ x \in Batches
  /\ \A x \in Tasks : x \in Objects /\ x \notin Batches
  /\ \A x \in Batches : x \in Objects /\ x \notin Tasks
  /\ Null \notin Objects
BY ExecutorAssumption DEF Objects

\* The compare_exchange changes a pending task only.
LEMMA SettledFacts ==
  ASSUME TaskTypes, NEW t \in Tasks, NEW s \in {"READY", "FAILED", "CANCELLED"},
         state' = Settled(t, s)
  PROVE  /\ state' \in [Tasks -> {"PENDING", "READY", "FAILED", "CANCELLED"}]
         /\ \A u \in Tasks : state[u] # "PENDING" => state'[u] = state[u]
         /\ \A u \in Tasks : state'[u] # state[u] => u = t /\ state'[u] = s
BY DEF TaskTypes, Settled

\* What the proofs use of the sizes of sets of offsets.  SizesHold, at the end, takes
\* it from the library, whose many theorems are thereby not in the way in between.
Sizes ==
  /\ \A S \in SUBSET Offsets : /\ IsFiniteSet(S) /\ Cardinality(S) \in Nat
                               /\ Cardinality(S) = Count => S = Offsets
  /\ \A S, T \in SUBSET Offsets :
       S \cap T = {} => Cardinality(S \cup T) = Cardinality(S) + Cardinality(T)
  /\ Cardinality({}) = 0

LEMMA CountFacts ==
  ASSUME Sizes, NEW S \in SUBSET Offsets
  PROVE  Cardinality(S) \in Nat
BY Zenon DEF Sizes

LEMMA TypesStep == Sizes /\ Types /\ [Next]_vars => Types'
<1> SUFFICES ASSUME Sizes, Types, [Next]_vars PROVE Types'
  OBVIOUS
<1> USE ObjectFacts
<1>1. ASSUME NEW x \in Objects, Allocate(x) PROVE Types'
  <2>1. QueueTypes'
    BY <1>1 DEF Allocate, Types, QueueTypes, clearVars
  <2>2. QED
    BY <1>1, <2>1 DEF Allocate, Types, TaskTypes, BatchTypes, WorkerTypes, JoinerTypes,
       taskVars, batchVars, workerVars, joinVars
<1>2. ASSUME NEW x \in Objects, Submit(x) PROVE Types'
  <2>1. submitted[x] \in Nat
    BY <1>2 DEF Submit, Types, QueueTypes
  <2>2. <<x, submitted[x]>> \in Objects \X Nat
    BY <2>1
  <2>3. queue' \in Seq(Objects \X Nat)
    BY <1>2, <2>2 DEF Submit, Types, QueueTypes
  <2>4. submitted' \in [Objects -> {Null} \cup Nat]
    BY <1>2, <2>1 DEF Submit, Types, QueueTypes
  <2>5. QueueTypes'
    BY <1>2, <2>3, <2>4 DEF Submit, Types, QueueTypes, clearVars
  <2>6. QED
    BY <1>2, <2>5 DEF Submit, Types, TaskTypes, BatchTypes, WorkerTypes, JoinerTypes,
       taskVars, batchVars, workerVars, joinVars
<1>3. ASSUME NEW w \in Workers, Receive(w) PROVE Types'
  <2> DEFINE h == Head(queue)
  <2>1. h \in Objects \X Nat /\ Tail(queue) \in Seq(Objects \X Nat)
    BY <1>3 DEF Receive, Types, QueueTypes
  <2>2. h[1] \in Objects
    BY <2>1
  <2>3. WorkerTypes'
    <3>1. /\ wpc' = [wpc EXCEPT ![w] = IF h[1] \in Tasks THEN "closure" ELSE "lane"]
          /\ job' = [job EXCEPT ![w] = h] /\ summed' = summed
      BY <1>3 DEF Receive
    <3>2. QED
      BY <2>1, <2>2, <3>1 DEF Types, WorkerTypes
  <2>4. QueueTypes'
    BY <1>3, <2>1 DEF Receive, Types, QueueTypes, clearVars
  <2>5. QED
    BY <1>3, <2>3, <2>4 DEF Receive, Types, TaskTypes, BatchTypes, JoinerTypes,
       taskVars, batchVars, joinVars
<1>4. ASSUME NEW w \in Workers, Closure(w) PROVE Types'
  <2>1. UNCHANGED <<registered, submitted, queue, batchVars, joinVars, clearVars, taken>>
    BY <1>4 DEF Closure
  <2>2. CASE StoreValue(w)
    <3>1. job[w][1] \in Tasks
      BY <2>2 DEF StoreValue, Types, WorkerTypes
    <3>2. TaskTypes' /\ WorkerTypes'
      BY <2>2, <3>1 DEF StoreValue, Types, TaskTypes, WorkerTypes
    <3>3. QED
      BY <2>1, <3>2 DEF Types, BatchTypes, JoinerTypes, QueueTypes, batchVars, joinVars, clearVars
  <2>3. CASE Complete(w) \/ Fail(w)
    <3>1. job[w][1] \in Tasks
      BY <2>3 DEF Complete, Fail, Types, WorkerTypes
    <3>2. TaskTypes'
      BY <2>3, <3>1, SettledFacts DEF Complete, Fail, Types, TaskTypes
    <3>3. PICK last : Leave(w, last)
      BY <2>3 DEF Complete, Fail
    <3>4. WorkerTypes'
      BY <3>3 DEF Leave, Types, WorkerTypes
    <3>5. QED
      BY <2>1, <3>2, <3>4 DEF Types, BatchTypes, JoinerTypes, QueueTypes, batchVars, joinVars,
         clearVars
  <2>4. QED
    BY <1>4, <2>2, <2>3 DEF Closure
<1>5. ASSUME NEW w \in Workers, BatchLane(w) PROVE Types'
  <2>1. UNCHANGED <<registered, submitted, queue, taskVars, joinVars, clearVars, taken>>
    BY <1>5 DEF BatchLane
  <2>2. CASE LaneStep(w)
    <3>1. BatchTypes'
      BY <2>2 DEF LaneStep, Types, BatchTypes, batchVars
    <3>2. WorkerTypes'
      <4>1. CASE Leave(w, FALSE)
        BY <4>1 DEF Leave, Types, WorkerTypes
      <4>2. CASE wpc' = [wpc EXCEPT ![w] = "add"] /\ UNCHANGED <<job, summed>>
        BY <2>2, <4>2 DEF LaneStep, Types, WorkerTypes
      <4>3. ASSUME NEW o \in LaneOffsets(job[w][2]), NEW p \in {"add", "lane"}, job' = job,
                   summed' = [summed EXCEPT ![w] = @ \cup {o}], wpc' = [wpc EXCEPT ![w] = p]
            PROVE  WorkerTypes'
        <5>1. o \in Offsets
          BY DEF LaneOffsets
        <5>2. QED
          BY <2>2, <4>3, <5>1 DEF LaneStep, Types, WorkerTypes
      <4>4. QED
        BY <2>2, <4>1, <4>2, <4>3 DEF LaneStep
    <3>3. QED
      BY <2>1, <3>1, <3>2 DEF Types, TaskTypes, JoinerTypes, QueueTypes, taskVars, joinVars,
         clearVars
  <2>3. CASE FinishLane(w)
    <3> DEFINE b == job[w][1]
    <3>1. b \in Batches /\ Cardinality(summed[w]) \in Nat
      BY <2>3, CountFacts DEF FinishLane, Types, WorkerTypes
    <3>2. AddTo(b, summed[w]) \in [Batches -> Sums]
      <4>1. [o \in Offsets |-> IF o \in summed[w] THEN total[b][o] + 1 ELSE total[b][o]] \in Sums
        BY <3>1 DEF Types, BatchTypes, Sums
      <4>2. AddTo(b, summed[w]) = [total EXCEPT ![b] =
              [o \in Offsets |-> IF o \in summed[w] THEN total[b][o] + 1 ELSE total[b][o]]]
        BY <3>1 DEF AddTo, Types, BatchTypes
      <4>3. QED
        BY <3>1, <4>1, <4>2 DEF Types, BatchTypes
    <3>3. CASE wpc[w] = "add" /\ total' = AddTo(b, summed[w])
               /\ wpc' = [wpc EXCEPT ![w] = "sub"] /\ UNCHANGED <<remaining, job, summed>>
      <4>1. BatchTypes' /\ WorkerTypes'
        BY <3>2, <3>3 DEF Types, BatchTypes, WorkerTypes
      <4>2. QED
        BY <2>1, <4>1 DEF Types, TaskTypes, JoinerTypes, QueueTypes, taskVars, joinVars, clearVars
    <3>4. CASE wpc[w] = "sub" /\ UNCHANGED total
               /\ remaining' = [remaining EXCEPT ![b] = @ - Cardinality(summed[w])]
               /\ Leave(w, remaining[b] = Cardinality(summed[w]))
      <4>1. BatchTypes'
        BY <3>1, <3>4 DEF Types, BatchTypes
      <4>2. WorkerTypes'
        BY <3>4 DEF Leave, Types, WorkerTypes
      <4>3. QED
        BY <2>1, <4>1, <4>2 DEF Types, TaskTypes, JoinerTypes, QueueTypes, taskVars, joinVars,
           clearVars
    <3>5. QED
      BY <2>3, <3>3, <3>4 DEF FinishLane
  <2>4. QED
    BY <1>5, <2>2, <2>3 DEF BatchLane
<1>6. ASSUME Woken \in [Joiners -> {"idle", "check", "check2", "lock", "parked", "read", "release"}],
             jpc' = Woken, on' = on, got' = got
      PROVE  JoinerTypes'
  BY <1>6 DEF Woken, Types, JoinerTypes
<1>7. Woken \in [Joiners -> {"idle", "check", "check2", "lock", "parked", "read", "release"}]
  BY DEF Woken, Types, JoinerTypes
<1>8. ASSUME NEW w \in Workers, Notify(w) PROVE Types'
  <2>1. JoinerTypes'
    BY <1>6, <1>7, <1>8 DEF Notify
  <2>2. WorkerTypes'
    BY <1>8 DEF Notify, Types, WorkerTypes
  <2>3. QED
    BY <1>8, <2>1, <2>2 DEF Notify, Types, TaskTypes, BatchTypes, QueueTypes,
       taskVars, batchVars, clearVars
<1>9. ASSUME NEW j \in Joiners, Proceed(j) \/ Call(j) PROVE Types'
  <2>1. UNCHANGED <<submitted, queue, taskVars, batchVars, workerVars, clearVars>>
    BY <1>9 DEF Proceed, Call
  <2>2. ASSUME GiveUp(j) PROVE JoinerTypes'
    BY <2>2 DEF GiveUp, Types, JoinerTypes
  <2>3. ASSUME NEW p \in {"check", "check2", "lock", "parked", "read"}, jpc[j] # "idle",
               jpc' = [jpc EXCEPT ![j] = p], UNCHANGED <<on, got>>
        PROVE  JoinerTypes'
    BY <2>3 DEF Types, JoinerTypes
  <2>4. CASE CheckTask(j) \/ CheckBatch(j) \/ CheckCancelled(j) \/ Park(j) \/ WakeUp(j)
    <3>1. JoinerTypes'
      BY <2>2, <2>3, <2>4 DEF CheckTask, CheckBatch, CheckCancelled, Park, WakeUp
    <3>2. UNCHANGED <<registered, taken>>
      BY <1>9, <2>4 DEF Proceed, Call, CheckTask, CheckBatch, CheckCancelled, Park, WakeUp,
         Release, Types, JoinerTypes
    <3>3. QED
      BY <2>1, <3>1, <3>2 DEF Types, TaskTypes, BatchTypes, WorkerTypes, QueueTypes, taskVars,
         batchVars, workerVars, clearVars
  <2>5. CASE Read(j) /\ UNCHANGED <<registered, taken>>
    <3>1. on[j] \in Objects
      BY <2>5 DEF Read, Types, JoinerTypes
    <3>2. (IF on[j] \in Tasks THEN value[on[j]] ELSE total[on[j]]) \in {Null, 0, Result} \cup Sums
      BY <3>1 DEF Types, TaskTypes, BatchTypes
    <3>3. JoinerTypes'
      BY <2>5, <3>1, <3>2 DEF Read, Types, JoinerTypes
    <3>4. QED
      BY <2>1, <2>5, <3>3 DEF Types, TaskTypes, BatchTypes, WorkerTypes, QueueTypes, taskVars,
         batchVars, workerVars, clearVars
  <2>6. CASE Release(j)
    <3>1. on[j] \in Objects
      BY <2>6 DEF Release, Types, JoinerTypes
    <3>2. registered' \subseteq Objects /\ taken' \in [Objects -> Nat]
      BY <2>6, <3>1 DEF Release, Types, QueueTypes
    <3>3. JoinerTypes'
      BY <2>2, <2>6 DEF Release
    <3>4. QED
      BY <2>1, <3>2, <3>3 DEF Types, TaskTypes, BatchTypes, WorkerTypes, QueueTypes, taskVars,
         batchVars, workerVars, clearVars
  <2>7. ASSUME NEW x \in Objects, Join(j, x), UNCHANGED <<registered, taken>> PROVE Types'
    <3>1. JoinerTypes'
      BY <2>7 DEF Join, Types, JoinerTypes
    <3>2. QED
      BY <2>1, <2>7, <3>1 DEF Types, TaskTypes, BatchTypes, WorkerTypes, QueueTypes, taskVars,
         batchVars, workerVars, clearVars
  <2>8. QED
    BY <1>9, <2>4, <2>5, <2>6, <2>7 DEF Proceed, Call
<1>10. CASE ClearStart
  BY <1>10 DEF ClearStart, Types, TaskTypes, BatchTypes, WorkerTypes, JoinerTypes, QueueTypes,
     taskVars, batchVars, workerVars, joinVars
<1>11. CASE Clear
  <2>1. ASSUME NEW b \in Batches, ClearBatch(b),
               UNCHANGED <<registered, submitted, queue, value, remaining, total, workerVars,
                           joinVars, taken>>
        PROVE  Types'
    BY <2>1 DEF ClearBatch, Types, TaskTypes, BatchTypes, WorkerTypes, JoinerTypes, QueueTypes,
       workerVars, joinVars
  <2>2. ASSUME NEW t \in Tasks, ClearTask(t),
               UNCHANGED <<registered, submitted, queue, value, remaining, total, workerVars,
                           joinVars, taken>>
        PROVE  Types'
    <3>1. TaskTypes'
      BY <2>2, SettledFacts DEF ClearTask, Types, TaskTypes
    <3>2. QED
      BY <2>2, <3>1 DEF ClearTask, Types, BatchTypes, WorkerTypes, JoinerTypes, QueueTypes,
         workerVars, joinVars
  <2>3. CASE ClearEnd
    <3>1. JoinerTypes'
      BY <1>6, <1>7, <2>3 DEF ClearEnd
    <3>2. QED
      BY <2>3, <3>1 DEF ClearEnd, Types, TaskTypes, BatchTypes, WorkerTypes, QueueTypes,
         taskVars, batchVars, workerVars
  <2>4. QED
    BY <1>11, <2>1, <2>2, <2>3 DEF Clear
<1>12. CASE UNCHANGED vars
  BY <1>12 DEF vars, Types, TaskTypes, BatchTypes, WorkerTypes, JoinerTypes, QueueTypes,
     taskVars, batchVars, workerVars, joinVars, clearVars
<1>13. QED
  BY <1>1, <1>2, <1>3, <1>4, <1>5, <1>8, <1>9, <1>10, <1>11, <1>12 DEF Next, Work
LEMMA TypesStart == Init => Types
<1> SUFFICES ASSUME Init PROVE Types
  OBVIOUS
<1>1. Count \in Int
  BY ExecutorAssumption
<1>2. TaskTypes /\ BatchTypes
  BY <1>1 DEF Init, TaskTypes, BatchTypes, Sums
<1>3. WorkerTypes /\ JoinerTypes
  BY DEF Init, WorkerTypes, JoinerTypes
<1>4. QueueTypes
  BY DEF Init, QueueTypes
<1>5. QED
  BY <1>2, <1>3, <1>4 DEF Types

\* No step changes the state of a settled task.
LEMMA SettledStep ==
  ASSUME Types, [Next]_vars
  PROVE  \A t \in Tasks : state[t] # "PENDING" => state'[t] = state[t]
<1>1. ASSUME NEW t \in Tasks, NEW s \in {"READY", "FAILED", "CANCELLED"}, state' = Settled(t, s)
      PROVE  \A u \in Tasks : state[u] # "PENDING" => state'[u] = state[u]
  BY <1>1, SettledFacts DEF Types
<1>2. ASSUME NEW w \in Workers, Closure(w)
      PROVE  \A u \in Tasks : state[u] # "PENDING" => state'[u] = state[u]
  <2>1. job[w][1] \in Tasks
    BY <1>2 DEF Closure, StoreValue, Complete, Fail, Types, WorkerTypes
  <2>2. QED
    BY <1>1, <1>2, <2>1 DEF Closure, StoreValue, Complete, Fail
<1>3. CASE Clear
  BY <1>1, <1>3 DEF Clear, ClearBatch, ClearTask, ClearEnd, taskVars
<1>4. CASE UNCHANGED state
  BY <1>4
<1>5. QED
  BY <1>2, <1>3, <1>4 DEF Next, vars, taskVars, Allocate, Submit, Work, Receive, BatchLane, Notify,
     Proceed, Call, ClearStart

\* What a worker does to its program counter and its job.
LEMMA LeaveFacts ==
  ASSUME Types, NEW w \in Workers, NEW last \in BOOLEAN, Leave(w, last)
  PROVE  /\ wpc'[w] = IF last THEN "notify" ELSE "recv"
         /\ \A v \in Workers : v # w => wpc'[v] = wpc[v] /\ job'[v] = job[v]
BY DEF Leave, Types, WorkerTypes

LEMMA PublishStep == Sizes /\ Types /\ PublishInv /\ [Next]_vars => PublishInv'
<1> SUFFICES ASSUME Sizes, Types, PublishInv, [Next]_vars PROVE PublishInv'
  OBVIOUS
<1>0. Types'
  BY TypesStep
<1>s. \A t \in Tasks : state[t] # "PENDING" => state'[t] = state[t]
  BY SettledStep
<1>1. ASSUME UNCHANGED <<taskVars, workerVars, joinVars>> PROVE PublishInv'
  BY <1>1 DEF PublishInv, taskVars, workerVars, joinVars
<1>2. ASSUME UNCHANGED joinVars, value' = value,
             \A t \in Tasks : state'[t] = "READY" /\ state[t] # "READY" => value[t] = Result,
             \A w \in Workers : wpc'[w] = "complete" => wpc[w] = "complete" /\ job'[w] = job[w]
      PROVE  PublishInv'
  <2>1. jpc' = jpc /\ on' = on /\ got' = got
    BY <1>2 DEF joinVars
  <2>2. \A t \in Tasks : state'[t] = "READY" => value'[t] = Result
    BY <1>2 DEF PublishInv
  <2>3. ASSUME NEW w \in Workers, wpc'[w] = "complete" PROVE value'[job'[w][1]] = Result
    <3>1. wpc[w] = "complete" /\ job'[w] = job[w]
      BY <1>2, <2>3
    <3>2. value[job[w][1]] = Result
      BY <3>1 DEF PublishInv
    <3>3. QED
      BY <1>2, <3>1, <3>2
  <2>4. ASSUME NEW j \in Joiners, jpc[j] \in {"read", "release"}, on[j] \in Tasks
        PROVE  state'[on[j]] = "READY"
    <3>1. state[on[j]] = "READY"
      BY <2>4 DEF PublishInv
    <3>2. QED
      BY <1>s, <2>4, <3>1
  <2>5. \A j \in Joiners : jpc[j] = "release" /\ on[j] \in Tasks => got[j] = Result
    BY DEF PublishInv
  <2>6. QED
    BY <2>1, <2>2, <2>3, <2>4, <2>5 DEF PublishInv
<1>3. ASSUME NEW w \in Workers, Receive(w) PROVE PublishInv'
  <2>1. \A v \in Workers : wpc'[v] = "complete" => wpc[v] = "complete" /\ job'[v] = job[v]
    BY <1>3 DEF Receive, Types, WorkerTypes
  <2>2. QED
    BY <1>2, <1>3, <2>1 DEF Receive, taskVars
<1>4. ASSUME NEW w \in Workers, Closure(w) PROVE PublishInv'
  <2>0. UNCHANGED joinVars /\ job[w][1] \in Tasks
    BY <1>4 DEF Closure, StoreValue, Complete, Fail, Types, WorkerTypes
  <2>1. CASE StoreValue(w)
    <3>1. \A t \in Tasks : value[t] = Result => value'[t] = Result
      BY <2>0, <2>1 DEF StoreValue, Types, TaskTypes
    <3>2. value'[job[w][1]] = Result
      BY <2>0, <2>1 DEF StoreValue, Types, TaskTypes
    <3>3. \A v \in Workers : wpc'[v] = "complete" => value'[job'[v][1]] = Result
      <4>1. job' = job /\ \A v \in Workers : v # w => wpc'[v] = wpc[v]
        BY <2>1 DEF StoreValue, Types, WorkerTypes
      <4>2. ASSUME NEW v \in Workers, v # w, wpc[v] = "complete" PROVE value'[job[v][1]] = Result
        BY <3>1, <4>2 DEF PublishInv, Types, WorkerTypes
      <4>3. QED
        BY <3>2, <4>1, <4>2
    <3>4. QED
      BY <2>0, <2>1, <3>1, <3>3 DEF PublishInv, StoreValue, joinVars
  <2>2. CASE Complete(w) \/ Fail(w)
    <3>1. PICK last \in BOOLEAN : Leave(w, last)
      BY <2>2 DEF Complete, Fail
    <3>2. \A v \in Workers : wpc'[v] = "complete" => wpc[v] = "complete" /\ job'[v] = job[v]
      BY <3>1, LeaveFacts
    <3>3. ASSUME NEW t \in Tasks, state'[t] = "READY", state[t] # "READY"
          PROVE  value[t] = Result
      <4>1. CASE Complete(w)
        <5>1. t = job[w][1]
          BY <2>0, <3>3, <4>1, SettledFacts DEF Complete, Types
        <5>2. QED
          BY <4>1, <5>1 DEF Complete, PublishInv
      <4>2. CASE Fail(w)
        BY <2>0, <3>3, <4>2, SettledFacts DEF Fail, Types
      <4>3. QED
        BY <2>2, <4>1, <4>2
    <3>4. QED
      BY <1>2, <2>0, <2>2, <3>2, <3>3 DEF Complete, Fail
  <2>3. QED
    BY <1>4, <2>1, <2>2 DEF Closure
<1>5. ASSUME NEW w \in Workers, BatchLane(w) PROVE PublishInv'
  <2>1. \A v \in Workers : v # w => wpc'[v] = wpc[v] /\ job'[v] = job[v]
    BY <1>5 DEF BatchLane, LaneStep, FinishLane, Leave, Types, WorkerTypes
  <2>2. wpc'[w] # "complete"
    BY <1>5 DEF BatchLane, LaneStep, FinishLane, Leave, Types, WorkerTypes
  <2>3. QED
    BY <1>2, <1>5, <2>1, <2>2 DEF BatchLane, taskVars
<1>6. ASSUME jpc' = Woken, on' = on, got' = got, UNCHANGED taskVars,
             \A w \in Workers : wpc'[w] = "complete" => wpc[w] = "complete" /\ job'[w] = job[w]
      PROVE  PublishInv'
  <2>1. \A j \in Joiners : jpc'[j] \in {"read", "release"} => jpc[j] = jpc'[j]
    BY <1>6 DEF Woken
  <2>2. QED
    <3>1. state' = state /\ value' = value
      BY <1>6 DEF taskVars
    <3>2. ASSUME NEW w \in Workers, wpc'[w] = "complete" PROVE value'[job'[w][1]] = Result
      <4>1. wpc[w] = "complete" /\ job'[w] = job[w]
        BY <1>6, <3>2
      <4>2. value[job[w][1]] = Result
        BY <4>1 DEF PublishInv
      <4>3. QED
        BY <3>1, <4>1, <4>2
    <3>3. ASSUME NEW j \in Joiners, jpc'[j] \in {"read", "release"}, on[j] \in Tasks
          PROVE  /\ state[on[j]] = "READY"
                 /\ jpc'[j] = "release" => got[j] = Result
      <4>1. jpc[j] = jpc'[j]
        BY <2>1, <3>3
      <4>2. QED
        BY <3>3, <4>1 DEF PublishInv
    <3>4. \A t \in Tasks : state[t] = "READY" => value[t] = Result
      BY DEF PublishInv
    <3>5. QED
      BY <1>6, <3>1, <3>2, <3>3, <3>4 DEF PublishInv
<1>7. ASSUME NEW w \in Workers, Notify(w) PROVE PublishInv'
  <2>1. \A v \in Workers : wpc'[v] = "complete" => wpc[v] = "complete" /\ job'[v] = job[v]
    BY <1>7 DEF Notify, Types, WorkerTypes
  <2>2. QED
    BY <1>6, <1>7, <2>1 DEF Notify
<1>8. ASSUME NEW j \in Joiners, Proceed(j) \/ Call(j) PROVE PublishInv'
  <2>1. UNCHANGED <<taskVars, workerVars>>
    BY <1>8 DEF Proceed, Call
  <2>2. ASSUME \A i \in Joiners : i # j => jpc'[i] = jpc[i] /\ on'[i] = on[i] /\ got'[i] = got[i],
               jpc'[j] \in {"read", "release"} /\ on'[j] \in Tasks => state[on'[j]] = "READY",
               jpc'[j] = "release" /\ on'[j] \in Tasks => got'[j] = Result
        PROVE  PublishInv'
    BY <2>1, <2>2 DEF PublishInv, taskVars, workerVars
  <2>3. ASSUME GiveUp(j) PROVE PublishInv'
    BY <2>2, <2>3 DEF GiveUp, Types, JoinerTypes
  <2>4. ASSUME NEW p \in {"check", "check2", "lock", "parked"},
               jpc' = [jpc EXCEPT ![j] = p], UNCHANGED <<on, got>>
        PROVE  PublishInv'
    BY <2>2, <2>4 DEF Types, JoinerTypes
  <2>5. ASSUME on[j] \in Tasks => state[on[j]] = "READY",
               jpc' = [jpc EXCEPT ![j] = "read"], UNCHANGED <<on, got>>
        PROVE  PublishInv'
    BY <2>2, <2>5 DEF Types, JoinerTypes
  <2>6. CASE CheckTask(j) \/ CheckBatch(j) \/ CheckCancelled(j) \/ Park(j) \/ WakeUp(j) \/ Release(j)
    BY <2>3, <2>4, <2>5, <2>6, ObjectFacts
       DEF CheckTask, CheckBatch, CheckCancelled, Park, WakeUp, Release
  <2>7. CASE Read(j)
    <3>1. on[j] \in Tasks => state[on[j]] = "READY" /\ value[on[j]] = Result
      BY <2>7 DEF Read, PublishInv
    <3>2. QED
      BY <2>2, <2>7, <3>1 DEF Read, Types, JoinerTypes
  <2>8. ASSUME NEW x \in Objects, Join(j, x) PROVE PublishInv'
    BY <2>2, <2>8 DEF Join, Types, JoinerTypes
  <2>9. QED
    BY <1>8, <2>6, <2>7, <2>8 DEF Proceed, Call
<1>9. CASE Clear
  <2>1. CASE ClearEnd
    BY <1>6, <2>1 DEF ClearEnd, workerVars
  <2>2. ASSUME NEW b \in Batches, ClearBatch(b), UNCHANGED <<value, workerVars, joinVars>>
        PROVE  PublishInv'
    BY <1>1, <2>2 DEF ClearBatch, taskVars
  <2>3. ASSUME NEW t \in Tasks, ClearTask(t), UNCHANGED <<value, workerVars, joinVars>>
        PROVE  PublishInv'
    <3>1. \A u \in Tasks : state'[u] = "READY" => state[u] = "READY"
      BY <2>3, SettledFacts DEF ClearTask, Types
    <3>2. QED
      BY <1>2, <2>3, <3>1 DEF workerVars
  <2>4. QED
    BY <1>9, <2>1, <2>2, <2>3 DEF Clear
<1>10. QED
  BY <1>1, <1>3, <1>4, <1>5, <1>7, <1>8, <1>9 DEF Next, vars, Allocate, Submit, Work, ClearStart

LEMMA TakenStep == Types /\ TakenInv /\ [Next]_vars => TakenInv'
<1> SUFFICES ASSUME Types, TakenInv, [Next]_vars PROVE TakenInv'
  OBVIOUS
<1>n. \A x \in Objects : taken[x] \in Nat
  BY DEF Types, QueueTypes
<1>1. ASSUME NEW x \in Objects, Allocate(x) PROVE TakenInv'
  <2>1. \A y \in Objects : submitted'[y] = IF y = x THEN 0 ELSE submitted[y]
    BY <1>1 DEF Allocate, Types, QueueTypes
  <2>2. 0 # Null /\ taken[x] = 0
    BY <1>1, ExecutorAssumption DEF Allocate, TakenInv
  <2>3. QED
    BY <1>1, <1>n, <2>1, <2>2 DEF Allocate, TakenInv
<1>2. ASSUME NEW x \in Objects, Submit(x) PROVE TakenInv'
  <2>1. \A y \in Objects : submitted'[y] = Null => submitted[y] = Null
    <3>1. submitted[x] \in Nat
      BY <1>2 DEF Submit, Types, QueueTypes
    <3>2. submitted[x] + 1 # Null
      BY <3>1, ExecutorAssumption
    <3>3. QED
      BY <1>2, <3>2 DEF Submit, Types, QueueTypes
  <2>2. QED
    BY <1>2, <2>1 DEF Submit, TakenInv
<1>3. ASSUME NEW j \in Joiners, Release(j), UNCHANGED submitted PROVE TakenInv'
  <2>1. on[j] \in Objects
    BY <1>3 DEF Release, Types, JoinerTypes
  <2>2. submitted[on[j]] = Null => on[j] \notin registered
    BY <2>1 DEF TakenInv
  <2>3. \A y \in Objects : taken'[y] = IF y = on[j] /\ y \in registered THEN taken[y] + 1 ELSE taken[y]
    BY <1>3, <2>1 DEF Release, Types, QueueTypes
  <2>4. QED
    <3>1. registered' = registered \ {on[j]} /\ submitted' = submitted
      BY <1>3 DEF Release
    <3>2. ASSUME NEW y \in Objects
          PROVE  /\ taken'[y] <= 1
                 /\ taken'[y] = 1 => y \notin registered'
                 /\ submitted'[y] = Null => taken'[y] = 0 /\ y \notin registered'
      <4>1. /\ taken[y] \in Nat /\ taken[y] <= 1 /\ (taken[y] = 1 => y \notin registered)
            /\ submitted[y] = Null => taken[y] = 0 /\ y \notin registered
        BY <1>n DEF TakenInv
      <4>2. CASE y = on[j] /\ y \in registered
        <5>0. taken[y] = 0
          BY SMTT(30), <4>1, <4>2
        <5>1. taken'[y] = taken[y] + 1
          BY <2>3, <4>2
        <5>2. QED
          BY <3>1, <4>1, <4>2, <5>0, <5>1
      <4>3. CASE ~(y = on[j] /\ y \in registered)
        <5>1. taken'[y] = taken[y]
          BY <2>3, <4>3
        <5>2. QED
          BY <3>1, <4>1, <5>1
      <4>4. QED
        BY <4>2, <4>3
    <3>3. QED
      BY <3>2 DEF TakenInv
<1>4. ASSUME registered' \subseteq registered, UNCHANGED <<submitted, taken>> PROVE TakenInv'
  BY <1>4 DEF TakenInv
<1>5. QED
  BY <1>1, <1>2, <1>3, <1>4 DEF Next, vars, Work, Receive, Closure, BatchLane, Notify, Proceed, Call,
     ClearStart, Clear, ClearEnd

\* A joiner parked on something that is done is woken: the thread that made it
\* done has yet to notify.
LEMMA ParkedStep ==
  Sizes /\ Types /\ ParkedJoinerIsWoken /\ [Next]_vars => ParkedJoinerIsWoken'
<1> SUFFICES ASSUME Sizes, Types, ParkedJoinerIsWoken, [Next]_vars PROVE ParkedJoinerIsWoken'
  OBVIOUS
<1> USE ObjectFacts
<1>1. ASSUME \/ \A x \in Objects : Done(x)' => Done(x)
             \/ \E w \in Workers : wpc'[w] = "notify",
             \A j \in Joiners : jpc'[j] = "parked" => jpc[j] = "parked" /\ on'[j] = on[j],
             clearing => clearing',
             \A w \in Workers : wpc[w] = "notify" => wpc'[w] = "notify"
      PROVE  ParkedJoinerIsWoken'
  <2> SUFFICES ASSUME NEW j \in Joiners, jpc'[j] = "parked", Done(on[j])'
               PROVE  clearing' \/ \E w \in Workers : wpc'[w] = "notify"
    BY DEF ParkedJoinerIsWoken
  <2>1. jpc[j] = "parked" /\ on'[j] = on[j] /\ on[j] \in Objects
    BY <1>1 DEF Types, JoinerTypes
  <2>2. CASE \A x \in Objects : Done(x)' => Done(x)
    <3>1. Done(on[j])
      BY <2>1, <2>2 DEF Done
    <3>2. QED
      BY <1>1, <2>1, <3>1 DEF ParkedJoinerIsWoken
  <2>3. QED
    BY <1>1, <2>2
<1>2. ASSUME \A j \in Joiners : jpc'[j] = "parked" => jpc[j] = "parked" /\ on'[j] = on[j],
             UNCHANGED <<taskVars, batchVars, clearing>>,
             \A w \in Workers : wpc[w] = "notify" => wpc'[w] = "notify"
      PROVE  ParkedJoinerIsWoken'
  <2>1. \A x \in Objects : Done(x)' => Done(x)
    BY <1>2 DEF Done, taskVars, batchVars
  <2>2. QED
    BY <1>1, <1>2, <2>1
<1>3. ASSUME NEW w \in Workers, Receive(w) PROVE ParkedJoinerIsWoken'
  <2>1. \A v \in Workers : wpc[v] = "notify" => wpc'[v] = "notify"
    BY <1>3 DEF Receive, Types, WorkerTypes
  <2>2. QED
    BY <1>2, <1>3, <2>1 DEF Receive, joinVars, clearVars
<1>4. ASSUME NEW w \in Workers, Closure(w) PROVE ParkedJoinerIsWoken'
  <2>0. /\ UNCHANGED <<batchVars, joinVars, clearing>> /\ job[w][1] \in Tasks
        /\ \A v \in Workers : wpc[v] = "notify" => wpc'[v] = "notify"
    BY <1>4 DEF Closure, StoreValue, Complete, Fail, Leave, Types, WorkerTypes, clearVars
  <2>1. CASE state' = state
    <3>1. \A x \in Objects : Done(x)' => Done(x)
      BY <2>0, <2>1 DEF Done, batchVars
    <3>2. QED
      BY <1>1, <2>0, <3>1 DEF joinVars
  <2>2. CASE state' # state
    <3>1. Complete(w) \/ Fail(w)
      BY <1>4, <2>2 DEF Closure, StoreValue
    <3>2. wpc'[w] = "notify"
      BY <2>2, <3>1, LeaveFacts DEF Complete, Fail
    <3>3. QED
      <4>1. \A j \in Joiners : jpc'[j] = "parked" => jpc[j] = "parked" /\ on'[j] = on[j]
        BY <2>0 DEF joinVars
      <4>2. QED
        BY <1>1, <2>0, <3>2, <4>1
  <2>3. QED
    BY <2>1, <2>2
<1>5. ASSUME NEW w \in Workers, BatchLane(w) PROVE ParkedJoinerIsWoken'
  <2>0. /\ UNCHANGED <<taskVars, joinVars, clearing, cancelled>> /\ job[w][1] \in Batches
        /\ \A v \in Workers : wpc[v] = "notify" => wpc'[v] = "notify"
    BY <1>5 DEF BatchLane, LaneStep, FinishLane, Leave, Types, WorkerTypes, clearVars, batchVars
  <2>1. CASE remaining' = remaining
    <3>1. \A x \in Objects : Done(x)' => Done(x)
      BY <2>0, <2>1 DEF Done, taskVars
    <3>2. QED
      BY <1>1, <2>0, <3>1 DEF joinVars
  <2>2. CASE remaining' # remaining
    <3> DEFINE b == job[w][1]
               completed == Cardinality(summed[w])
    <3>1. /\ remaining' = [remaining EXCEPT ![b] = @ - completed]
          /\ Leave(w, remaining[b] = completed)
      BY <1>5, <2>2 DEF BatchLane, LaneStep, FinishLane, batchVars
    <3>2. completed \in Int /\ remaining[b] \in Int
      <4>1. summed[w] \in SUBSET Offsets
        BY DEF Types, WorkerTypes
      <4>2. completed \in Nat
        BY <4>1, CountFacts
      <4>3. remaining[b] \in Int
        BY <2>0 DEF Types, BatchTypes
      <4>4. QED
        BY <4>2, <4>3
    <3>3. /\ remaining'[b] = remaining[b] - completed
          /\ \A c \in Batches : c # b => remaining'[c] = remaining[c]
      BY <2>0, <3>1 DEF Types, BatchTypes
    <3>4. remaining'[b] = 0 <=> remaining[b] = completed
      <4>1. remaining'[b] = remaining[b] - completed
        BY <3>3
      <4>2. \A m, n \in Int : m - n = 0 <=> m = n
        OBVIOUS
      <4>3. QED
        BY <3>2, <4>1, <4>2
    <3>5. remaining[b] = completed => wpc'[w] = "notify"
      BY <3>1, LeaveFacts
    <3>6. \A j \in Joiners : jpc'[j] = "parked" => jpc[j] = "parked" /\ on'[j] = on[j]
      BY <2>0 DEF joinVars
    <3>7. CASE remaining'[b] = 0
      BY <1>1, <2>0, <3>4, <3>5, <3>6, <3>7
    <3>8. CASE remaining'[b] # 0
      <4>1. \A x \in Objects : Done(x)' => Done(x)
        BY <2>0, <3>3, <3>8 DEF Done, taskVars
      <4>2. QED
        BY <1>1, <2>0, <3>6, <4>1
    <3>9. QED
      BY <3>7, <3>8
  <2>3. QED
    BY <2>1, <2>2
<1>6. ASSUME jpc' = Woken PROVE ParkedJoinerIsWoken'
  BY <1>6 DEF Woken, ParkedJoinerIsWoken
<1>7. ASSUME NEW j \in Joiners, Proceed(j) \/ Call(j) PROVE ParkedJoinerIsWoken'
  <2>1. UNCHANGED <<taskVars, batchVars, wpc, clearing>>
    BY <1>7 DEF Proceed, Call, workerVars, clearVars
  <2>2. ASSUME \A i \in Joiners : i # j => jpc'[i] = jpc[i] /\ on'[i] = on[i],
               jpc'[j] = "parked" => jpc[j] = "parked" /\ on'[j] = on[j]
        PROVE  ParkedJoinerIsWoken'
    BY <1>2, <2>1, <2>2
  <2>3. CASE Park(j)
    <3>1. CASE Done(on[j])
      BY <2>2, <2>3, <3>1 DEF Park, GiveUp, Types, JoinerTypes
    <3>2. CASE ~Done(on[j])
      <4>1. \A x : Done(x)' <=> Done(x)
        BY <2>1 DEF Done, taskVars, batchVars
      <4>2. on' = on /\ \A i \in Joiners : i # j => jpc'[i] = jpc[i]
        BY <2>3, <3>2 DEF Park, Done, Types, JoinerTypes
      <4>3. ASSUME NEW i \in Joiners, jpc'[i] = "parked", Done(on[i])
            PROVE  clearing' \/ \E w \in Workers : wpc'[w] = "notify"
        BY <2>1, <3>2, <4>2, <4>3 DEF ParkedJoinerIsWoken
      <4>4. QED
        BY <4>1, <4>2, <4>3 DEF ParkedJoinerIsWoken
    <3>3. QED
      BY <3>1, <3>2
  <2>4. CASE CheckTask(j) \/ CheckBatch(j) \/ CheckCancelled(j) \/ WakeUp(j) \/ Read(j) \/ Release(j)
    <3>1. \A i \in Joiners : i # j => jpc'[i] = jpc[i] /\ on'[i] = on[i]
      BY <2>4 DEF CheckTask, CheckBatch, CheckCancelled, WakeUp, Read, Release, GiveUp, Types,
         JoinerTypes
    <3>2. jpc'[j] # "parked"
      BY <2>4 DEF CheckTask, CheckBatch, CheckCancelled, WakeUp, Read, Release, GiveUp, Types,
         JoinerTypes
    <3>3. QED
      BY <2>2, <3>1, <3>2
  <2>5. ASSUME NEW x \in Objects, Join(j, x) PROVE ParkedJoinerIsWoken'
    BY <2>2, <2>5 DEF Join, Types, JoinerTypes
  <2>6. QED
    BY <1>7, <2>3, <2>4, <2>5 DEF Proceed, Call
<1>8. CASE Clear
  <2>1. CASE ClearEnd
    BY <1>6, <2>1 DEF ClearEnd
  <2>2. CASE ~ClearEnd
    <3>1. clearing' = clearing /\ clearing
      BY <1>8, <2>2 DEF Clear, ClearBatch, ClearTask
    <3>2. QED
      BY <3>1, Zenon DEF ParkedJoinerIsWoken
  <2>3. QED
    BY <2>1, <2>2
<1>9. CASE ClearStart
  BY <1>9 DEF ClearStart, ParkedJoinerIsWoken
<1>10. ASSUME UNCHANGED <<taskVars, batchVars, joinVars, workerVars, clearing>>
       PROVE  ParkedJoinerIsWoken'
  BY <1>2, <1>10 DEF joinVars, workerVars
<1>11. QED
  BY <1>3, <1>4, <1>5, <1>6, <1>7, <1>8, <1>9, <1>10
     DEF Next, vars, clearVars, Allocate, Submit, Work, Notify

-----------------------------------------------------------------------------
(* The sum of a batch                                                      *)

Active(w) == wpc[w] \in {"closure", "complete", "lane", "add", "sub"}

\* A job is in one place, the queue or with one worker, once it was submitted.
JobsInv ==
  /\ \A i \in 1..Len(queue) : submitted[queue[i][1]] # Null /\ queue[i][2] < submitted[queue[i][1]]
  /\ \A w \in Workers : Active(w) => submitted[job[w][1]] # Null /\ job[w][2] < submitted[job[w][1]]
  /\ \A i, k \in 1..Len(queue) : queue[i] = queue[k] => i = k
  /\ \A i \in 1..Len(queue), w \in Workers : Active(w) => queue[i] # job[w]
  /\ \A v, w \in Workers : Active(v) /\ Active(w) /\ job[v] = job[w] => v = w

\* No value of the lane is in the sum.
Untouched(b, l) == \A o \in LaneOffsets(l) : total[b][o] = 0

\* A lane adds its values once, after it was taken from the queue, and they stay.
LaneOf(w) ==
  /\ wpc[w] \in {"lane", "add"} => Untouched(job[w][1], job[w][2])
  /\ wpc[w] \in {"lane", "add", "sub"} => summed[w] \subseteq LaneOffsets(job[w][2])
  /\ wpc[w] \in {"add", "sub"} => summed[w] # {}
  /\ wpc[w] \notin {"lane", "add", "sub"} => summed[w] = {}
  /\ wpc[w] = "sub" => \A o \in summed[w] : total[job[w][1]][o] = 1

LanesInv ==
  /\ \A b \in Batches, l \in Nat : submitted[b] = Null \/ l >= submitted[b] => Untouched(b, l)
  /\ \A i \in 1..Len(queue) : queue[i][1] \in Batches => Untouched(queue[i][1], queue[i][2])
  /\ \A w \in Workers : LaneOf(w)
  /\ \A b \in Batches, o \in Offsets : total[b][o] \in {0, 1}

\* The values added whose lane has counted them.
Counted(b) ==
  {o \in Offsets : /\ total[b][o] = 1
                   /\ \A w \in Workers : wpc[w] = "sub" /\ job[w][1] = b => o \notin summed[w]}

\* What remaining says, and who saw it at zero.
SumInv ==
  /\ \A b \in Batches : remaining[b] = Count - Cardinality(Counted(b))
  /\ \A j \in Joiners : jpc[j] = "read" /\ on[j] \in Batches => remaining[on[j]] = 0
  /\ \A j \in Joiners : jpc[j] = "release" /\ on[j] \in Batches => got[j] = [o \in Offsets |-> 1]


LEMMA Digits == 0 + 1 = 1 /\ 0 # 1
OBVIOUS

LEMMA PairFacts == \A p \in Objects \X Nat : p = <<p[1], p[2]>>
OBVIOUS

LEMMA JobPairs ==
  ASSUME Types
  PROVE  /\ \A w \in Workers : Active(w) =>
              job[w] \in Objects \X Nat /\ job[w][1] \in Objects /\ job[w][2] \in Nat
         /\ \A i \in 1..Len(queue) :
              queue[i] \in Objects \X Nat /\ queue[i][1] \in Objects /\ queue[i][2] \in Nat
<1>1. \A w \in Workers : Active(w) => job[w] \in Objects \X Nat
  BY Zenon DEF Types, WorkerTypes, Active
<1>2. \A i \in 1..Len(queue) : queue[i] \in Objects \X Nat
  BY DEF Types, QueueTypes
<1>3. \A p \in Objects \X Nat : p[1] \in Objects /\ p[2] \in Nat
  OBVIOUS
<1>4. QED
  BY Zenon, <1>1, <1>2, <1>3

\* A worker that goes on with its job or gives it up changes no place of a job.
LEMMA JobsWorker ==
  ASSUME JobsInv, UNCHANGED <<queue, submitted>>, NEW w \in Workers,
         \A v \in Workers : v # w => wpc'[v] = wpc[v] /\ job'[v] = job[v],
         Active(w)' => Active(w) /\ job'[w] = job[w]
  PROVE  JobsInv'
<1>1. \A v \in Workers : Active(v)' => Active(v) /\ job'[v] = job[v]
  BY Zenon DEF Active
<1>2. \A v \in Workers : Active(v)' => submitted'[job'[v][1]] # Null /\ job'[v][2] < submitted'[job'[v][1]]
  BY Zenon, <1>1 DEF JobsInv
<1>3. \A i \in 1..Len(queue'), v \in Workers : Active(v)' => queue'[i] # job'[v]
  <2> SUFFICES ASSUME NEW i \in 1..Len(queue'), NEW v \in Workers, Active(v)' PROVE queue'[i] # job'[v]
    BY Zenon
  <2>1. i \in 1..Len(queue) /\ Active(v) /\ job'[v] = job[v] /\ queue'[i] = queue[i]
    BY Zenon, <1>1
  <2>2. queue[i] # job[v]
    BY Zenon, <2>1 DEF JobsInv
  <2>3. QED
    BY Zenon, <2>1, <2>2
<1>4. \A u, v \in Workers : Active(u)' /\ Active(v)' /\ job'[u] = job'[v] => u = v
  BY Zenon, <1>1 DEF JobsInv
<1>5. QED
  BY Zenon, <1>2, <1>3, <1>4 DEF JobsInv

\* What the step of a worker inside a closure or a lane does to its place.
LEMMA WorkerMoves ==
  ASSUME Types, NEW w \in Workers, Closure(w) \/ BatchLane(w) \/ Notify(w)
  PROVE  /\ UNCHANGED <<queue, submitted>>
         /\ \A v \in Workers : v # w => wpc'[v] = wpc[v] /\ job'[v] = job[v] /\ summed'[v] = summed[v]
         /\ Active(w)' => Active(w) /\ job'[w] = job[w]
<1>0. /\ wpc \in [Workers -> {"recv", "closure", "complete", "lane", "add", "sub", "notify"}]
      /\ job \in [Workers -> {Null} \cup (Objects \X Nat)]
      /\ summed \in [Workers -> SUBSET Offsets]
  BY Zenon DEF Types, WorkerTypes
<1>1. ASSUME NEW last, Leave(w, last)
      PROVE  /\ \A v \in Workers : v # w => wpc'[v] = wpc[v] /\ job'[v] = job[v] /\ summed'[v] = summed[v]
             /\ ~Active(w)'
  BY <1>0, <1>1 DEF Leave, Active
<1>2. CASE Closure(w)
  <2>1. CASE StoreValue(w)
    BY <1>0, <1>2, <2>1 DEF Closure, StoreValue, Active
  <2>2. CASE Complete(w) \/ Fail(w)
    BY Zenon, <1>1, <1>2, <2>2 DEF Closure, Complete, Fail
  <2>3. QED
    BY Zenon, <1>2, <2>1, <2>2 DEF Closure
<1>3. CASE BatchLane(w)
  <2>1. CASE LaneStep(w)
    <3>1. \/ UNCHANGED job /\ wpc[w] = "lane"
             /\ \E o : summed' = [summed EXCEPT ![w] = @ \cup {o}]
             /\ \E p \in {"add", "lane"} : wpc' = [wpc EXCEPT ![w] = p]
          \/ UNCHANGED <<job, summed>> /\ wpc[w] = "lane" /\ wpc' = [wpc EXCEPT ![w] = "add"]
          \/ Leave(w, FALSE)
      BY Zenon, <2>1 DEF LaneStep
    <3>2. QED
      BY <1>0, <1>1, <1>3, <3>1 DEF BatchLane, Active
  <2>2. CASE FinishLane(w)
    <3>1. \/ UNCHANGED <<job, summed>> /\ wpc[w] = "add" /\ wpc' = [wpc EXCEPT ![w] = "sub"]
          \/ \E last : Leave(w, last)
      BY Zenon, <2>2 DEF FinishLane
    <3>2. QED
      BY <1>0, <1>1, <1>3, <3>1 DEF BatchLane, Active
  <2>3. QED
    BY Zenon, <1>3, <2>1, <2>2 DEF BatchLane
<1>4. CASE Notify(w)
  BY <1>0, <1>4 DEF Notify, Active
<1>5. QED
  BY Zenon, <1>2, <1>3, <1>4

LEMMA JobsStep == Types /\ JobsInv /\ [Next]_vars => JobsInv'
<1> SUFFICES ASSUME Types, JobsInv, [Next]_vars PROVE JobsInv'
  OBVIOUS
<1>1. ASSUME NEW x \in Objects, Allocate(x) PROVE JobsInv'
  <2>1. /\ UNCHANGED <<queue, wpc, job>> /\ submitted[x] = Null
        /\ \A y \in Objects : y # x => submitted'[y] = submitted[y]
    BY <1>1 DEF Allocate, workerVars, Types, QueueTypes
  <2>2. \A w \in Workers : Active(w)' <=> Active(w)
    BY Zenon, <2>1 DEF Active
  <2>3. QED
    BY ZenonT(60), <2>1, <2>2, JobPairs DEF JobsInv
<1>2. ASSUME NEW x \in Objects, Submit(x) PROVE JobsInv'
  <2>0. PICK s : s = submitted[x]
    BY Zenon
  <2>1. /\ UNCHANGED <<wpc, job>> /\ s \in Nat /\ submitted'[x] = s + 1
        /\ \A y \in Objects : y # x => submitted'[y] = submitted[y]
        /\ submitted'[x] # Null
        /\ queue' = Append(queue, <<x, s>>)
    BY <1>2, <2>0, ExecutorAssumption DEF Submit, workerVars, Types, QueueTypes
  <2>2. /\ Len(queue') = Len(queue) + 1 /\ Len(queue) \in Nat
        /\ queue'[Len(queue) + 1] = <<x, s>>
        /\ \A i \in 1..Len(queue) : queue'[i] = queue[i]
    BY <2>1 DEF Types, QueueTypes
  <2>3. \A p \in Objects \X Nat :
          submitted[p[1]] # Null /\ p[2] < submitted[p[1]] =>
            p # <<x, s>> /\ submitted'[p[1]] # Null /\ p[2] < submitted'[p[1]]
    BY <2>0, <2>1
  <2>4. \A w \in Workers : Active(w)' <=> Active(w)
    BY Zenon, <2>1 DEF Active
  <2>5. \A i \in 1..Len(queue') : i \in 1..Len(queue) \/ i = Len(queue) + 1
    BY <2>2
  <2>6. \A i \in 1..Len(queue) : queue[i] # <<x, s>> /\ queue[i] \in Objects \X Nat
           /\ submitted'[queue[i][1]] # Null /\ queue[i][2] < submitted'[queue[i][1]]
    BY Zenon, <2>3, JobPairs DEF JobsInv
  <2>7. \A w \in Workers : Active(w) => job[w] # <<x, s>>
           /\ submitted'[job[w][1]] # Null /\ job[w][2] < submitted'[job[w][1]]
    BY Zenon, <2>3, JobPairs DEF JobsInv
  <2>8. \A i \in 1..Len(queue') : submitted'[queue'[i][1]] # Null /\ queue'[i][2] < submitted'[queue'[i][1]]
    <3>1. <<x, s>>[1] = x /\ <<x, s>>[2] = s
      BY Zenon
    <3>2. s < submitted'[x]
      BY <2>1
    <3>3. ASSUME NEW i \in 1..Len(queue)
          PROVE  submitted'[queue'[i][1]] # Null /\ queue'[i][2] < submitted'[queue'[i][1]]
      BY Zenon, <2>2, <2>6
    <3>4. ASSUME NEW i, i = Len(queue) + 1
          PROVE  submitted'[queue'[i][1]] # Null /\ queue'[i][2] < submitted'[queue'[i][1]]
      <4>1. queue'[i] = <<x, s>>
        BY Zenon, <2>2, <3>4
      <4>2. queue'[i][1] = x /\ queue'[i][2] = s
        BY Zenon, <3>1, <4>1
      <4>3. QED
        BY Zenon, <2>1, <3>2, <4>2
    <3>5. QED
      BY Zenon, <2>5, <3>3, <3>4
  <2>9. ASSUME NEW i \in 1..Len(queue'), NEW k \in 1..Len(queue'), queue'[i] = queue'[k] PROVE i = k
    <3>1. CASE i \in 1..Len(queue) /\ k \in 1..Len(queue)
      BY Zenon, <2>2, <2>9, <3>1 DEF JobsInv
    <3>2. CASE i = Len(queue) + 1 \/ k = Len(queue) + 1
      BY Zenon, <2>2, <2>5, <2>6, <2>9, <3>2
    <3>3. QED
      BY Zenon, <2>5, <3>1, <3>2
  <2>10. ASSUME NEW i \in 1..Len(queue'), NEW w \in Workers, Active(w)' PROVE queue'[i] # job'[w]
    <3>1. CASE i \in 1..Len(queue)
      <4>1. Active(w) /\ job'[w] = job[w] /\ queue'[i] = queue[i]
        BY Zenon, <2>1, <2>2, <2>4, <2>10, <3>1
      <4>2. queue[i] # job[w]
        BY Zenon, <3>1, <4>1 DEF JobsInv
      <4>3. QED
        BY Zenon, <4>1, <4>2
    <3>2. CASE i = Len(queue) + 1
      BY Zenon, <2>1, <2>2, <2>4, <2>7, <2>10, <3>2
    <3>3. QED
      BY Zenon, <2>5, <3>1, <3>2
  <2>11. QED
    BY Zenon, <2>1, <2>4, <2>7, <2>8, <2>9, <2>10 DEF JobsInv
<1>3. ASSUME NEW w \in Workers, Receive(w) PROVE JobsInv'
  <2>1. /\ queue # <<>> /\ queue' = Tail(queue) /\ UNCHANGED submitted /\ job'[w] = Head(queue)
        /\ \A v \in Workers : v # w => wpc'[v] = wpc[v] /\ job'[v] = job[v]
    BY <1>3 DEF Receive, Types, WorkerTypes
  <2>2. /\ Len(queue') = Len(queue) - 1 /\ Len(queue) \in Nat \ {0} /\ Head(queue) = queue[1]
        /\ \A i \in 1..Len(queue') : queue'[i] = queue[i + 1] /\ i + 1 \in 1..Len(queue)
        /\ 1 \in 1..Len(queue) /\ \A i \in 1..Len(queue') : i + 1 # 1
        /\ \A i, k \in 1..Len(queue') : i + 1 = k + 1 => i = k
    BY <2>1 DEF Types, QueueTypes
  <2>3. \A v \in Workers : v # w => (Active(v)' <=> Active(v))
    BY Zenon, <2>1 DEF Active
  <2>4. ASSUME NEW i \in 1..Len(queue'), NEW k \in 1..Len(queue'), queue'[i] = queue'[k] PROVE i = k
    <3>1. queue[i + 1] = queue[k + 1] /\ i + 1 \in 1..Len(queue) /\ k + 1 \in 1..Len(queue)
      BY Zenon, <2>2, <2>4
    <3>2. i + 1 = k + 1
      BY Zenon, <3>1 DEF JobsInv
    <3>3. QED
      BY <3>2
  <2>5. ASSUME NEW i \in 1..Len(queue') PROVE queue'[i] # queue[1]
    BY Zenon, <2>2 DEF JobsInv
  <2>6. ASSUME NEW i \in 1..Len(queue'), NEW v \in Workers, Active(v)' PROVE queue'[i] # job'[v]
    <3>1. CASE v = w
      BY Zenon, <2>1, <2>2, <2>5, <3>1
    <3>2. CASE v # w
      <4>1. Active(v) /\ job'[v] = job[v]
        BY Zenon, <2>1, <2>3, <2>6, <3>2
      <4>2. queue[i + 1] # job[v]
        BY Zenon, <2>2, <4>1 DEF JobsInv
      <4>3. QED
        BY Zenon, <2>2, <4>1, <4>2
    <3>3. QED
      BY Zenon, <3>1, <3>2
  <2>7. ASSUME NEW u \in Workers, NEW v \in Workers, Active(u)', Active(v)', job'[u] = job'[v] PROVE u = v
    <3>1. \A t \in Workers : t # w /\ Active(t)' => job'[t] # queue[1] /\ Active(t) /\ job'[t] = job[t]
      <4>1. ASSUME NEW t \in Workers, t # w, Active(t)' PROVE Active(t) /\ job'[t] = job[t]
        BY Zenon, <2>1, <2>3, <4>1
      <4>2. ASSUME NEW t \in Workers, Active(t) PROVE queue[1] # job[t]
        BY Zenon, <2>2, <4>2 DEF JobsInv
      <4>3. QED
        BY Zenon, <4>1, <4>2
    <3>2. job'[w] = queue[1]
      BY Zenon, <2>1, <2>2
    <3>3. CASE u # w /\ v # w
      BY Zenon, <2>7, <3>1, <3>3 DEF JobsInv
    <3>4. CASE u = w \/ v = w
      BY Zenon, <2>7, <3>1, <3>2, <3>4
    <3>5. QED
      BY Zenon, <3>3, <3>4
  <2>8. ASSUME NEW i \in 1..Len(queue')
        PROVE  submitted'[queue'[i][1]] # Null /\ queue'[i][2] < submitted'[queue'[i][1]]
    <3>1. queue'[i] = queue[i + 1] /\ i + 1 \in 1..Len(queue) /\ submitted' = submitted
      BY Zenon, <2>1, <2>2
    <3>2. submitted[queue[i + 1][1]] # Null /\ queue[i + 1][2] < submitted[queue[i + 1][1]]
      BY Zenon, <3>1 DEF JobsInv
    <3>3. QED
      BY Zenon, <3>1, <3>2
  <2>9. ASSUME NEW v \in Workers, Active(v)'
        PROVE  submitted'[job'[v][1]] # Null /\ job'[v][2] < submitted'[job'[v][1]]
    <3>1. CASE v = w
      <4>1. submitted[queue[1][1]] # Null /\ queue[1][2] < submitted[queue[1][1]]
        BY Zenon, <2>2 DEF JobsInv
      <4>2. job'[v] = queue[1] /\ submitted' = submitted
        BY Zenon, <2>1, <2>2, <3>1
      <4>3. QED
        BY Zenon, <4>1, <4>2
    <3>2. CASE v # w
      <4>1. Active(v) /\ job'[v] = job[v] /\ submitted' = submitted
        BY Zenon, <2>1, <2>3, <2>9, <3>2
      <4>2. QED
        BY Zenon, <4>1 DEF JobsInv
    <3>3. QED
      BY Zenon, <3>1, <3>2
  <2>10. QED
    BY Zenon, <2>4, <2>6, <2>7, <2>8, <2>9 DEF JobsInv
<1>4. ASSUME NEW w \in Workers, Closure(w) \/ BatchLane(w) \/ Notify(w) PROVE JobsInv'
  BY Zenon, <1>4, WorkerMoves, JobsWorker
<1>5. ASSUME UNCHANGED <<queue, submitted, wpc, job>> PROVE JobsInv'
  BY Zenon, <1>5 DEF JobsInv, Active
<1>6. ASSUME NEW j \in Joiners, Proceed(j) \/ Call(j) PROVE JobsInv'
  BY Zenon, <1>5, <1>6 DEF Proceed, Call, workerVars
<1>7. CASE ClearStart \/ Clear
  BY Zenon, <1>5, <1>7 DEF ClearStart, Clear, ClearEnd, workerVars
<1>8. CASE UNCHANGED vars
  BY Zenon, <1>5, <1>8 DEF vars, workerVars
<1>9. QED
  BY Zenon, <1>1, <1>2, <1>3, <1>4, <1>6, <1>7, <1>8 DEF Next, Work

\* Only worker w moves, and no sum changes.
LEMMA LanesWorker ==
  ASSUME LanesInv, UNCHANGED <<queue, submitted, total>>, NEW w \in Workers,
         \A v \in Workers : v # w => wpc'[v] = wpc[v] /\ job'[v] = job[v] /\ summed'[v] = summed[v],
         LaneOf(w)'
  PROVE  LanesInv'
<1>1. ASSUME NEW v \in Workers, v # w PROVE LaneOf(v)'
  <2>1. LaneOf(v) /\ wpc'[v] = wpc[v] /\ job'[v] = job[v] /\ summed'[v] = summed[v] /\ total' = total
    BY Zenon, <1>1 DEF LanesInv
  <2>2. QED
    BY Zenon, <2>1 DEF LaneOf, Untouched
<1>2. \A v \in Workers : LaneOf(v)'
  BY Zenon, <1>1
<1>3. \A b \in Batches, l \in Nat : (submitted[b] = Null \/ l >= submitted[b])' => Untouched(b, l)'
  BY Zenon DEF LanesInv, Untouched
<1>4. \A i \in 1..Len(queue') : queue'[i][1] \in Batches => Untouched(queue[i][1], queue[i][2])'
  BY Zenon DEF LanesInv, Untouched
<1>5. QED
  BY Zenon, <1>2, <1>3, <1>4 DEF LanesInv

LEMMA LanesSame ==
  ASSUME LanesInv, UNCHANGED <<queue, submitted, total, wpc, job, summed>>
  PROVE  LanesInv'
<1>1. \A v \in Workers : LaneOf(v)'
  BY Zenon DEF LanesInv, LaneOf, Untouched
<1>2. QED
  BY Zenon, <1>1 DEF LanesInv, Untouched

\* The worker gives up its job.
LEMMA LaneLeft ==
  ASSUME Types, NEW w \in Workers, NEW last, Leave(w, last)
  PROVE  LaneOf(w)'
<1>1. wpc'[w] \in {"notify", "recv"} /\ summed'[w] = {}
  BY DEF Leave, Types, WorkerTypes
<1>2. QED
  BY <1>1 DEF LaneOf

\* fetch_add: the sum of the worker's batch has the values of the worker's lane now.
LEMMA AddFacts ==
  ASSUME Types, LanesInv, NEW w \in Workers, wpc[w] = "add", total' = AddTo(job[w][1], summed[w])
  PROVE  /\ job[w][1] \in Batches /\ job[w][2] \in Nat /\ job[w] = <<job[w][1], job[w][2]>>
         /\ summed[w] \subseteq Offsets
         /\ \A c \in Batches, o \in Offsets :
              total'[c][o] = IF c = job[w][1] /\ o \in summed[w] THEN 1 ELSE total[c][o]
         /\ \A c \in Batches, k \in Nat : Untouched(c, k) /\ <<c, k>> # job[w] => Untouched(c, k)'
<1>0. PICK b, l : b = job[w][1] /\ l = job[w][2]
  BY Zenon
<1>1. /\ b \in Batches /\ job[w] \in Objects \X Nat /\ summed[w] \subseteq Offsets
      /\ total \in [Batches -> [Offsets -> Nat]]
  BY Zenon, <1>0 DEF Types, WorkerTypes, BatchTypes, Sums
<1>2. l \in Nat /\ job[w] = <<b, l>>
  BY <1>0, <1>1
<1>3. \A o \in summed[w] : o \in Offsets /\ o \in LaneOffsets(l) /\ total[b][o] = 0
  BY Zenon, <1>0, <1>1 DEF LanesInv, LaneOf, Untouched
<1>4. total' = [total EXCEPT ![b] = [o \in Offsets |-> IF o \in summed[w] THEN total[b][o] + 1 ELSE total[b][o]]]
  BY <1>0, <1>1 DEF AddTo
<1>5. \A c \in Batches, o \in Offsets : total'[c][o] = IF c = b /\ o \in summed[w] THEN 1 ELSE total[c][o]
  <2>1. ASSUME NEW o \in Offsets PROVE total'[b][o] = IF o \in summed[w] THEN 1 ELSE total[b][o]
    <3>1. total'[b][o] = IF o \in summed[w] THEN total[b][o] + 1 ELSE total[b][o]
      BY ZenonT(60), <1>1, <1>4
    <3>2. QED
      BY Zenon, <1>3, <3>1, Digits
  <2>2. ASSUME NEW c \in Batches, c # b PROVE total'[c] = total[c]
    BY Zenon, <1>1, <1>4, <2>2
  <2>3. QED
    BY Zenon, <2>1, <2>2
<1>6. ASSUME NEW c \in Batches, NEW k \in Nat, Untouched(c, k), <<c, k>> # job[w],
             NEW o \in LaneOffsets(k)
      PROVE  total'[c][o] = 0
  <2>1. o \in Offsets /\ total[c][o] = 0
    BY Zenon, <1>6 DEF Untouched, LaneOffsets
  <2>2. ~(c = b /\ o \in summed[w])
    BY <1>2, <1>3, <1>6 DEF LaneOffsets
  <2>3. QED
    BY Zenon, <1>5, <2>1, <2>2
<1>7. QED
  BY Zenon, <1>0, <1>1, <1>2, <1>5, <1>6 DEF Untouched

LEMMA LanesAdd ==
  ASSUME Types, JobsInv, LanesInv, NEW w \in Workers, BatchLane(w), FinishLane(w), wpc[w] = "add"
  PROVE  LanesInv'
<1>0. PICK b, l : b = job[w][1] /\ l = job[w][2]
  BY Zenon
<1>1. /\ total' = AddTo(job[w][1], summed[w]) /\ wpc' = [wpc EXCEPT ![w] = "sub"]
      /\ UNCHANGED <<job, summed, queue, submitted>>
  BY DEF FinishLane, BatchLane
<1>2. /\ wpc'[w] = "sub" /\ \A v \in Workers : v # w => wpc'[v] = wpc[v]
  BY <1>1 DEF Types, WorkerTypes
<1>3. /\ b \in Batches /\ l \in Nat /\ job[w] = <<b, l>> /\ summed[w] \subseteq Offsets
      /\ \A c \in Batches, o \in Offsets :
           total'[c][o] = IF c = b /\ o \in summed[w] THEN 1 ELSE total[c][o]
      /\ \A c \in Batches, k \in Nat : Untouched(c, k) /\ <<c, k>> # job[w] => Untouched(c, k)'
  <2>1. /\ job[w][1] \in Batches /\ job[w][2] \in Nat /\ job[w] = <<job[w][1], job[w][2]>>
        /\ summed[w] \subseteq Offsets
        /\ \A c \in Batches, o \in Offsets :
             total'[c][o] = IF c = job[w][1] /\ o \in summed[w] THEN 1 ELSE total[c][o]
        /\ \A c \in Batches, k \in Nat : Untouched(c, k) /\ <<c, k>> # job[w] => Untouched(c, k)'
    BY Zenon, <1>1, AddFacts
  <2>2. QED
    BY Zenon, <1>0, <2>1
<1>4. ASSUME NEW c \in Batches, NEW k \in Nat, submitted'[c] = Null \/ k >= submitted'[c]
      PROVE  Untouched(c, k)'
  <2>1. Untouched(c, k)
    BY Zenon, <1>1, <1>4 DEF LanesInv
  <2>2. submitted[b] # Null /\ l < submitted[b] /\ submitted[b] \in {Null} \cup Nat
    <3>1. Active(w) /\ b \in Objects
      BY <1>3, ObjectFacts DEF Active
    <3>2. QED
      BY Zenon, <1>0, <3>1 DEF JobsInv, Types, QueueTypes
  <2>3. <<c, k>> # <<b, l>>
    <3>1. ~(l >= submitted[b])
      BY <1>3, <2>2
    <3>2. c # b \/ k # l
      BY Zenon, <1>1, <1>4, <2>2, <3>1
    <3>3. QED
      BY Zenon, <3>2
  <2>4. QED
    BY Zenon, <1>3, <2>1, <2>3
<1>5. ASSUME NEW i \in 1..Len(queue'), queue'[i][1] \in Batches PROVE Untouched(queue[i][1], queue[i][2])'
  <2>1. /\ i \in 1..Len(queue) /\ queue'[i] = queue[i] /\ queue[i] \in Objects \X Nat
        /\ queue[i][2] \in Nat /\ queue[i][1] \in Batches /\ queue[i] # job[w]
    <3>1. i \in 1..Len(queue) /\ queue' = queue /\ Active(w)
      BY <1>1 DEF Active
    <3>2. queue[i] # job[w]
      BY Zenon, <3>1 DEF JobsInv
    <3>3. QED
      BY Zenon, <1>5, <3>1, <3>2, JobPairs
  <2>2. queue[i] = <<queue[i][1], queue[i][2]>>
    BY Zenon, <2>1, PairFacts
  <2>3. Untouched(queue[i][1], queue[i][2])
    BY Zenon, <2>1 DEF LanesInv
  <2>4. PICK c, k : c = queue[i][1] /\ k = queue[i][2]
    BY Zenon
  <2>5. Untouched(c, k)'
    BY Zenon, <1>3, <2>1, <2>2, <2>3, <2>4
  <2>6. QED
    BY Zenon, <1>1, <2>4, <2>5 DEF Untouched
<1>6. ASSUME NEW v \in Workers PROVE LaneOf(v)'
  <2>1. CASE v = w
    <3>1. \A o \in summed[w] : total'[job[w][1]][o] = 1
      BY Zenon, <1>0, <1>3
    <3>2. summed[w] \subseteq LaneOffsets(job[w][2]) /\ summed[w] # {}
      BY Zenon DEF LanesInv, LaneOf
    <3>3. QED
      BY <1>1, <1>2, <2>1, <3>1, <3>2 DEF LaneOf
  <2>2. CASE v # w
    <3>1. LaneOf(v) /\ wpc'[v] = wpc[v] /\ job'[v] = job[v] /\ summed'[v] = summed[v]
      BY Zenon, <1>1, <1>2, <2>2 DEF LanesInv
    <3>2. ASSUME wpc[v] \in {"lane", "add"} PROVE Untouched(job[v][1], job[v][2])'
      <4>1. /\ Active(v) /\ Active(w) /\ job[v] \in Objects \X Nat /\ job[v][1] \in Batches
            /\ job[v][2] \in Nat
        BY <3>2 DEF Types, WorkerTypes, Active
      <4>2. job[v] # job[w] /\ job[v] = <<job[v][1], job[v][2]>>
        BY Zenon, <2>2, <4>1, PairFacts DEF JobsInv
      <4>3. Untouched(job[v][1], job[v][2])
        BY Zenon, <3>1, <3>2 DEF LaneOf
      <4>4. PICK c, k : c = job[v][1] /\ k = job[v][2]
        BY Zenon
      <4>5. Untouched(c, k)'
        BY Zenon, <1>3, <4>1, <4>2, <4>3, <4>4
      <4>6. QED
        BY Zenon, <1>1, <4>4, <4>5 DEF Untouched
    <3>3. ASSUME wpc[v] = "sub" PROVE \A o \in summed[v] : total'[job[v][1]][o] = 1
      <4>1. job[v][1] \in Batches /\ summed[v] \subseteq Offsets
        BY Zenon, <3>3 DEF Types, WorkerTypes
      <4>2. \A o \in summed[v] : total[job[v][1]][o] = 1
        BY Zenon, <3>1, <3>3 DEF LaneOf
      <4>3. QED
        BY Zenon, <1>3, <4>1, <4>2
    <3>4. QED
      BY Zenon, <1>1, <3>1, <3>2, <3>3 DEF LaneOf
  <2>3. QED
    BY Zenon, <2>1, <2>2
<1>7. \A c \in Batches, o \in Offsets : total'[c][o] \in {0, 1}
  BY ZenonT(60), <1>3 DEF LanesInv
<1>8. QED
  BY Zenon, <1>4, <1>5, <1>6, <1>7 DEF LanesInv

LEMMA LanesStep == Types /\ JobsInv /\ LanesInv /\ [Next]_vars => LanesInv'
<1> SUFFICES ASSUME Types, JobsInv, LanesInv, [Next]_vars PROVE LanesInv'
  OBVIOUS
<1>1. ASSUME NEW b \in Objects, Allocate(b) PROVE LanesInv'
  <2>2. /\ submitted[b] = Null /\ submitted' = [submitted EXCEPT ![b] = 0]
        /\ UNCHANGED <<queue, total, wpc, job, summed>>
    BY <1>1 DEF Allocate, batchVars, workerVars
  <2>3. ASSUME NEW c \in Batches, NEW k \in Nat, submitted'[c] = Null \/ k >= submitted'[c]
        PROVE  Untouched(c, k)
    <3>1. submitted[c] = Null \/ k >= submitted[c]
      BY <2>2, <2>3 DEF Types, QueueTypes
    <3>2. QED
      BY Zenon, <3>1 DEF LanesInv
  <2>4. \A v \in Workers : LaneOf(v)'
    BY Zenon, <2>2 DEF LanesInv, LaneOf, Untouched
  <2>5. QED
    BY Zenon, <2>2, <2>3, <2>4 DEF LanesInv, Untouched
<1>2. ASSUME NEW o \in Objects, Submit(o) PROVE LanesInv'
  <2>2. PICK l : l = submitted[o]
    BY Zenon
  <2>3. /\ l \in Nat /\ queue' = Append(queue, <<o, l>>)
        /\ submitted' = [submitted EXCEPT ![o] = l + 1]
        /\ UNCHANGED <<total, wpc, job, summed>>
    BY <1>2, <2>2 DEF Submit, batchVars, workerVars, Types, QueueTypes
  <2>4. ASSUME NEW c \in Batches, NEW k \in Nat, submitted'[c] = Null \/ k >= submitted'[c]
        PROVE  Untouched(c, k)
    <3>1. submitted[c] = Null \/ k >= submitted[c]
      BY <2>2, <2>3, <2>4, ExecutorAssumption DEF Objects, Types, QueueTypes
    <3>2. QED
      BY Zenon, <3>1 DEF LanesInv
  <2>5. ASSUME NEW i \in 1..Len(queue'), queue'[i][1] \in Batches PROVE Untouched(queue'[i][1], queue'[i][2])
    <3>1. queue \in Seq(Objects \X Nat)
      BY DEF Types, QueueTypes
    <3>2. CASE i \in 1..Len(queue)
      <4>1. queue'[i] = queue[i]
        BY <2>3, <3>1, <3>2
      <4>2. QED
        BY Zenon, <2>5, <3>2, <4>1 DEF LanesInv
    <3>3. CASE i \notin 1..Len(queue)
      <4>1. queue'[i] = <<o, l>>
        BY <2>3, <3>1, <3>3
      <4>2. queue'[i][1] = o /\ queue'[i][2] = l /\ o \in Batches /\ l >= submitted[o]
        BY <2>2, <2>3, <2>5, <4>1
      <4>3. QED
        BY Zenon, <2>3, <4>2 DEF LanesInv
    <3>4. QED
      BY Zenon, <3>2, <3>3
  <2>6. \A v \in Workers : LaneOf(v)'
    BY Zenon, <2>3 DEF LanesInv, LaneOf, Untouched
  <2>7. QED
    BY Zenon, <2>3, <2>4, <2>5, <2>6 DEF LanesInv, Untouched
<1>3. ASSUME NEW w \in Workers, Receive(w) PROVE LanesInv'
  <2>2. PICK h : h = Head(queue)
    BY Zenon
  <2>3. /\ wpc[w] = "recv" /\ queue # <<>> /\ queue' = Tail(queue)
        /\ job' = [job EXCEPT ![w] = h]
        /\ wpc' = [wpc EXCEPT ![w] = IF h[1] \in Tasks THEN "closure" ELSE "lane"]
        /\ UNCHANGED <<submitted, total, summed>>
    BY <1>3, <2>2 DEF Receive, batchVars
  <2>4. /\ h = queue[1] /\ 1 \in 1..Len(queue) /\ h \in Objects \X Nat
        /\ \A i \in 1..Len(queue') : i + 1 \in 1..Len(queue) /\ queue'[i] = queue[i + 1]
    BY <2>2, <2>3 DEF Types, QueueTypes
  <2>5. /\ job'[w] = h /\ wpc'[w] = IF h[1] \in Tasks THEN "closure" ELSE "lane"
        /\ \A v \in Workers : v # w => wpc'[v] = wpc[v] /\ job'[v] = job[v]
    BY <2>3 DEF Types, WorkerTypes
  <2>6. ASSUME NEW i \in 1..Len(queue'), queue'[i][1] \in Batches PROVE Untouched(queue'[i][1], queue'[i][2])
    BY Zenon, <2>4, <2>6 DEF LanesInv
  <2>7. summed[w] = {}
    <3>1. LaneOf(w)
      BY Zenon DEF LanesInv
    <3>2. QED
      BY <2>3, <3>1 DEF LaneOf
  <2>8. wpc'[w] = "lane" => h[1] \in Batches
    BY <2>4, <2>5 DEF Objects
  <2>9. wpc'[w] = "lane" => Untouched(h[1], h[2])
    BY Zenon, <2>4, <2>8 DEF LanesInv
  <2>10. wpc'[w] \in {"closure", "lane"} /\ summed'[w] = {}
    BY <2>3, <2>5, <2>7
  <2>11. wpc'[w] = "lane" => Untouched(job[w][1], job[w][2])'
    BY Zenon, <2>3, <2>5, <2>9 DEF Untouched
  <2>12. LaneOf(w)'
    BY <2>10, <2>11 DEF LaneOf
  <2>13. ASSUME NEW v \in Workers, v # w PROVE LaneOf(v)'
    <3>1. LaneOf(v) /\ wpc'[v] = wpc[v] /\ job'[v] = job[v] /\ summed' = summed /\ total' = total
      BY Zenon, <2>3, <2>5, <2>13 DEF LanesInv
    <3>2. QED
      BY Zenon, <3>1 DEF LaneOf, Untouched
  <2>14. QED
    BY Zenon, <2>3, <2>6, <2>12, <2>13 DEF LanesInv, Untouched
<1>4. ASSUME NEW w \in Workers, Closure(w) \/ (BatchLane(w) /\ wpc[w] # "add") \/ Notify(w) PROVE LanesInv'
  <2>1. /\ UNCHANGED <<queue, submitted>>
        /\ \A v \in Workers : v # w => wpc'[v] = wpc[v] /\ job'[v] = job[v] /\ summed'[v] = summed[v]
    BY Zenon, <1>4, WorkerMoves
  <2>2. LaneOf(w)
    BY Zenon DEF LanesInv
  <2>3. /\ wpc \in [Workers -> {"recv", "closure", "complete", "lane", "add", "sub", "notify"}]
        /\ summed \in [Workers -> SUBSET Offsets]
    BY Zenon DEF Types, WorkerTypes
  <2>4. total' = total /\ LaneOf(w)'
    <3>1. CASE Closure(w)
      <4>1. total' = total
        BY <3>1 DEF Closure, batchVars
      <4>2. CASE StoreValue(w)
        <5>1. wpc[w] = "closure" /\ wpc'[w] = "complete" /\ summed' = summed
          BY <2>3, <4>2 DEF StoreValue
        <5>2. QED
          BY <2>2, <4>1, <5>1 DEF LaneOf
      <4>3. CASE Complete(w) \/ Fail(w)
        BY Zenon, <4>1, <4>3, LaneLeft DEF Complete, Fail
      <4>4. QED
        BY Zenon, <3>1, <4>2, <4>3 DEF Closure
    <3>2. CASE LaneStep(w)
      <4>0. total' = total /\ wpc[w] = "lane"
        BY <3>2 DEF LaneStep, batchVars
      <4>1. CASE Leave(w, FALSE)
        BY Zenon, <4>0, <4>1, LaneLeft
      <4>2. CASE ~Leave(w, FALSE)
        <5>1. job' = job /\ wpc'[w] \in {"lane", "add"}
          BY <2>3, <3>2, <4>2 DEF LaneStep
        <5>2. summed'[w] # {} /\ summed'[w] \subseteq LaneOffsets(job[w][2])
          <6>1. summed[w] \subseteq LaneOffsets(job[w][2])
            BY <2>2, <4>0 DEF LaneOf
          <6>2. \/ summed' = summed /\ summed[w] # {}
                \/ \E o \in LaneOffsets(job[w][2]) : summed' = [summed EXCEPT ![w] = @ \cup {o}]
            BY Zenon, <3>2, <4>2 DEF LaneStep
          <6>3. QED
            BY <2>3, <6>1, <6>2
        <5>3. Untouched(job[w][1], job[w][2])'
          BY Zenon, <2>2, <4>0, <5>1 DEF LaneOf, Untouched
        <5>4. QED
          BY <4>0, <5>1, <5>2, <5>3 DEF LaneOf
      <4>3. QED
        BY Zenon, <4>1, <4>2
    <3>3. CASE FinishLane(w) /\ wpc[w] # "add"
      <4>1. total' = total /\ \E last : Leave(w, last)
        BY Zenon, <3>3 DEF FinishLane
      <4>2. QED
        BY Zenon, <4>1, LaneLeft
    <3>4. CASE Notify(w)
      <4>1. total' = total /\ wpc[w] = "notify" /\ wpc'[w] = "recv" /\ summed' = summed
        BY <2>3, <3>4 DEF Notify, batchVars
      <4>2. QED
        BY <2>2, <4>1 DEF LaneOf
    <3>5. QED
      BY Zenon, <1>4, <3>1, <3>2, <3>3, <3>4 DEF BatchLane
  <2>5. QED
    BY Zenon, <2>1, <2>4, LanesWorker
<1>5. ASSUME NEW w \in Workers, BatchLane(w), wpc[w] = "add" PROVE LanesInv'
  <2>1. FinishLane(w)
    BY <1>5 DEF BatchLane, LaneStep
  <2>2. QED
    BY Zenon, <1>5, <2>1, LanesAdd
<1>6. ASSUME NEW j \in Joiners, Proceed(j) \/ Call(j) PROVE LanesInv'
  BY Zenon, <1>6, LanesSame DEF Proceed, Call, workerVars, batchVars
<1>7. CASE ClearStart \/ Clear
  BY Zenon, <1>7, LanesSame DEF ClearStart, Clear, ClearBatch, ClearTask, ClearEnd, workerVars, batchVars
<1>8. CASE UNCHANGED vars
  BY Zenon, <1>8, LanesSame DEF vars, workerVars, batchVars
<1>9. ASSUME NEW w \in Workers, Work(w) PROVE LanesInv'
  <2>1. Receive(w) \/ Closure(w) \/ BatchLane(w) \/ Notify(w)
    BY Zenon, <1>9 DEF Work
  <2>2. CASE BatchLane(w)
    BY Zenon, <1>4, <1>5, <2>2
  <2>3. CASE Closure(w)
    BY <1>4, <2>3
  <2>4. CASE Notify(w)
    BY Zenon, <1>4, <2>4
  <2>5. CASE Receive(w)
    BY Zenon, <1>3, <2>5
  <2>6. QED
    BY Zenon, <2>1, <2>2, <2>3, <2>4, <2>5
<1>10. QED
  BY Zenon, <1>1, <1>2, <1>6, <1>7, <1>8, <1>9 DEF Next


-----------------------------------------------------------------------------
LEMMA CountedFacts ==
  ASSUME Sizes, NEW b, SumInv, b \in Batches
  PROVE  /\ Counted(b) \subseteq Offsets /\ Cardinality(Counted(b)) \in Nat
         /\ remaining[b] = Count - Cardinality(Counted(b))
         /\ remaining[b] = 0 => Counted(b) = Offsets
<1>1. Counted(b) \subseteq Offsets
  BY Zenon DEF Counted
<1>2. Cardinality(Counted(b)) \in Nat /\ (Cardinality(Counted(b)) = Count => Counted(b) = Offsets)
  BY Zenon, <1>1 DEF Sizes
<1>3. PICK n : n = Cardinality(Counted(b))
  BY Zenon
<1>4. remaining[b] = Count - n
  BY Zenon, <1>3 DEF SumInv
<1>5. n \in Nat => (Count - n = 0 <=> n = Count)
  BY ExecutorAssumption
<1>6. QED
  BY Zenon, <1>1, <1>2, <1>3, <1>4, <1>5

\* No sum and no counter changes, and no lane comes to or leaves its fetch_sub.
LEMMA CountedSame ==
  ASSUME total' = total, NEW b,
         \A v \in Workers : \/ wpc'[v] # "sub" /\ wpc[v] # "sub"
                            \/ wpc'[v] = wpc[v] /\ job'[v] = job[v] /\ summed'[v] = summed[v]
  PROVE  Counted(b)' = Counted(b)
<1>1. ASSUME NEW o PROVE (\A v \in Workers : wpc'[v] = "sub" /\ job'[v][1] = b => o \notin summed'[v])
                         <=> (\A v \in Workers : wpc[v] = "sub" /\ job[v][1] = b => o \notin summed[v])
  BY Zenon
<1>2. QED
  BY Zenon, <1>1 DEF Counted

LEMMA SumSame ==
  ASSUME SumInv, UNCHANGED <<remaining, total>>,
         \A v \in Workers : \/ wpc'[v] # "sub" /\ wpc[v] # "sub"
                            \/ wpc'[v] = wpc[v] /\ job'[v] = job[v] /\ summed'[v] = summed[v],
         \A j \in Joiners : /\ on'[j] = on[j] /\ got'[j] = got[j]
                            /\ jpc'[j] \in {"read", "release"} => jpc'[j] = jpc[j]
  PROVE  SumInv'
<1>1. \A b \in Batches : remaining'[b] = Count - Cardinality(Counted(b)')
  <2>1. \A b \in Batches : Counted(b)' = Counted(b)
    BY Zenon, CountedSame
  <2>2. QED
    BY Zenon, <2>1 DEF SumInv
<1>2. \A j \in Joiners : jpc'[j] = "read" /\ on'[j] \in Batches => remaining'[on'[j]] = 0
  BY ZenonT(60) DEF SumInv
<1>3. \A j \in Joiners : jpc'[j] = "release" /\ on'[j] \in Batches => got'[j] = [o \in Offsets |-> 1]
  BY ZenonT(60) DEF SumInv
<1>4. QED
  BY Zenon, <1>1, <1>2, <1>3 DEF SumInv

\* Only joiner j moves.
LEMMA SumJoiner ==
  ASSUME SumInv, NEW j \in Joiners, UNCHANGED <<remaining, total, wpc, job, summed>>,
         \A i \in Joiners : i # j => jpc'[i] = jpc[i] /\ on'[i] = on[i] /\ got'[i] = got[i],
         jpc'[j] = "read" /\ on'[j] \in Batches => remaining[on'[j]] = 0,
         jpc'[j] = "release" /\ on'[j] \in Batches => got'[j] = [o \in Offsets |-> 1]
  PROVE  SumInv'
<1>1. \A b \in Batches : remaining'[b] = Count - Cardinality(Counted(b)')
  <2>1. \A b \in Batches : Counted(b)' = Counted(b)
    BY Zenon, CountedSame
  <2>2. QED
    BY Zenon, <2>1 DEF SumInv
<1>2. \A i \in Joiners : jpc'[i] = "read" /\ on'[i] \in Batches => remaining'[on'[i]] = 0
  BY Zenon DEF SumInv
<1>3. \A i \in Joiners : jpc'[i] = "release" /\ on'[i] \in Batches => got'[i] = [o \in Offsets |-> 1]
  BY Zenon DEF SumInv
<1>4. QED
  BY Zenon, <1>1, <1>2, <1>3 DEF SumInv

\* fetch_add: the values are in the sum, and not counted yet.
LEMMA SumAdd ==
  ASSUME Types, LanesInv, SumInv, NEW w \in Workers, BatchLane(w), FinishLane(w), wpc[w] = "add"
  PROVE  SumInv'
<1>0. PICK b, l : b = job[w][1] /\ l = job[w][2]
  BY Zenon
<1>1. /\ total' = AddTo(job[w][1], summed[w]) /\ wpc' = [wpc EXCEPT ![w] = "sub"]
      /\ UNCHANGED <<job, summed, remaining, jpc, on, got>>
  BY DEF FinishLane, BatchLane, joinVars
<1>2. /\ wpc'[w] = "sub" /\ \A v \in Workers : v # w => wpc'[v] = wpc[v]
  BY <1>1 DEF Types, WorkerTypes
<1>3. /\ b \in Batches /\ summed[w] \subseteq Offsets
      /\ \A c \in Batches, o \in Offsets :
           total'[c][o] = IF c = b /\ o \in summed[w] THEN 1 ELSE total[c][o]
  <2>1. /\ job[w][1] \in Batches /\ job[w][2] \in Nat /\ job[w] = <<job[w][1], job[w][2]>>
        /\ summed[w] \subseteq Offsets
        /\ \A c \in Batches, o \in Offsets :
             total'[c][o] = IF c = job[w][1] /\ o \in summed[w] THEN 1 ELSE total[c][o]
        /\ \A c \in Batches, k \in Nat : Untouched(c, k) /\ <<c, k>> # job[w] => Untouched(c, k)'
    BY Zenon, <1>1, AddFacts
  <2>2. QED
    BY Zenon, <1>0, <2>1
<1>4. \A o \in summed[w] : total[b][o] # 1
  <2>1. \A o \in summed[w] : total[b][o] = 0
    BY Zenon, <1>0 DEF LanesInv, LaneOf, Untouched
  <2>2. QED
    BY Zenon, <2>1, Digits
<1>5. ASSUME NEW c \in Batches PROVE Counted(c)' = Counted(c)
  <2>1. ASSUME NEW o \in Offsets PROVE o \in Counted(c)' <=> o \in Counted(c)
    <3>1. CASE c = b /\ o \in summed[w]
      <4>1. o \notin Counted(c)
        BY Zenon, <1>4, <3>1 DEF Counted
      <4>2. o \notin Counted(c)'
        BY Zenon, <1>0, <1>1, <1>2, <3>1 DEF Counted
      <4>3. QED
        BY Zenon, <4>1, <4>2
    <3>2. CASE ~(c = b /\ o \in summed[w])
      <4>1. total'[c][o] = total[c][o]
        BY Zenon, <1>3, <3>2
      <4>2. ASSUME NEW v \in Workers
            PROVE  (wpc'[v] = "sub" /\ job'[v][1] = c => o \notin summed'[v])
                     <=> (wpc[v] = "sub" /\ job[v][1] = c => o \notin summed[v])
        <5>1. CASE v = w
          BY Zenon, <1>0, <1>1, <3>2, <5>1
        <5>2. CASE v # w
          BY Zenon, <1>1, <1>2, <5>2
        <5>3. QED
          BY Zenon, <5>1, <5>2
      <4>3. QED
        BY Zenon, <2>1, <4>1, <4>2 DEF Counted
    <3>3. QED
      BY Zenon, <3>1, <3>2
  <2>2. Counted(c)' \subseteq Offsets /\ Counted(c) \subseteq Offsets
    BY Zenon DEF Counted
  <2>3. QED
    BY Zenon, <2>1, <2>2
<1>6. QED
  BY Zenon, <1>1, <1>5 DEF SumInv

\* fetch_sub: the values of the lane are counted, each of them for the first time.
LEMMA SumSub ==
  ASSUME Sizes, Types, JobsInv, LanesInv, SumInv, NEW w \in Workers, BatchLane(w), FinishLane(w),
         wpc[w] = "sub"
  PROVE  SumInv'
<1>0. PICK b : b = job[w][1]
  BY Zenon
<1>1. /\ remaining' = [remaining EXCEPT ![b] = @ - Cardinality(summed[w])]
      /\ Leave(w, remaining[b] = Cardinality(summed[w])) /\ UNCHANGED <<total, jpc, on, got>>
  BY <1>0 DEF FinishLane, BatchLane, joinVars
<1>2. /\ wpc'[w] # "sub"
      /\ \A v \in Workers : v # w => wpc'[v] = wpc[v] /\ job'[v] = job[v] /\ summed'[v] = summed[v]
  BY <1>1 DEF Leave, Types, WorkerTypes
<1>3. /\ b \in Batches /\ summed[w] \subseteq Offsets /\ summed[w] # {}
      /\ summed[w] \subseteq LaneOffsets(job[w][2])
      /\ \A o \in summed[w] : total[b][o] = 1
  BY Zenon, <1>0 DEF Types, WorkerTypes, LanesInv, LaneOf
<1>4. ASSUME NEW v \in Workers, v # w, wpc[v] = "sub", job[v][1] = b, NEW o \in summed[v]
      PROVE  o \notin summed[w]
  <2>1. /\ Active(v) /\ Active(w) /\ job[v] \in Objects \X Nat /\ job[w] \in Objects \X Nat
        /\ o \in LaneOffsets(job[v][2])
    <3>1. o \in LaneOffsets(job[v][2])
      BY Zenon, <1>4 DEF LanesInv, LaneOf
    <3>2. QED
      BY <1>4, <3>1 DEF Types, WorkerTypes, Active
  <2>2. job[v] # job[w]
    BY Zenon, <1>4, <2>1 DEF JobsInv
  <2>3. job[v][2] # job[w][2]
    BY Zenon, <1>0, <1>4, <2>1, <2>2, PairFacts
  <2>4. o \notin LaneOffsets(job[w][2])
    BY <2>1, <2>3 DEF LaneOffsets
  <2>5. QED
    BY Zenon, <1>3, <2>4
<1>5. Counted(b) \cap summed[w] = {}
  BY Zenon, <1>0 DEF Counted
<1>6. Counted(b)' = Counted(b) \cup summed[w]
  <2>1. ASSUME NEW o \in summed[w] PROVE o \in Counted(b)'
    BY Zenon, <1>1, <1>2, <1>3, <1>4 DEF Counted
  <2>2. ASSUME NEW o \in Counted(b) PROVE o \in Counted(b)'
    BY Zenon, <1>1, <1>2 DEF Counted
  <2>3. ASSUME NEW o \in Counted(b)', o \notin summed[w] PROVE o \in Counted(b)
    <3>1. /\ o \in Offsets /\ total[b][o] = 1
          /\ \A v \in Workers : wpc'[v] = "sub" /\ job'[v][1] = b => o \notin summed'[v]
      BY Zenon, <1>1, <2>3 DEF Counted
    <3>2. \A v \in Workers : wpc[v] = "sub" /\ job[v][1] = b => o \notin summed[v]
      BY Zenon, <1>2, <2>3, <3>1
    <3>3. QED
      BY Zenon, <3>1, <3>2 DEF Counted
  <2>4. QED
    BY Zenon, <2>1, <2>2, <2>3
<1>7. ASSUME NEW c \in Batches, c # b PROVE Counted(c)' = Counted(c)
  <2>1. ASSUME NEW o
        PROVE  (\A v \in Workers : wpc'[v] = "sub" /\ job'[v][1] = c => o \notin summed'[v])
                 <=> (\A v \in Workers : wpc[v] = "sub" /\ job[v][1] = c => o \notin summed[v])
    BY Zenon, <1>0, <1>2, <1>7
  <2>2. QED
    BY Zenon, <1>1, <2>1 DEF Counted
<1>8. /\ Cardinality(Counted(b)) \in Nat /\ Counted(b) \subseteq Offsets
      /\ remaining[b] = Count - Cardinality(Counted(b))
      /\ remaining[b] = 0 => Counted(b) = Offsets
  BY Zenon, <1>3, CountedFacts
<1>9. /\ Cardinality(summed[w]) \in Nat
      /\ Cardinality(Counted(b)') = Cardinality(Counted(b)) + Cardinality(summed[w])
  BY Zenon, <1>3, <1>5, <1>6, <1>8 DEF Sizes
<1>10. remaining'[b] = Count - Cardinality(Counted(b)')
  <2>1. PICK m, n : m = Cardinality(summed[w]) /\ n = Cardinality(Counted(b))
    BY Zenon
  <2>2. remaining'[b] = remaining[b] - m
    BY <1>1, <1>3, <2>1 DEF Types, BatchTypes
  <2>3. m \in Nat /\ n \in Nat => (Count - n) - m = Count - (n + m)
    BY ExecutorAssumption
  <2>4. QED
    BY Zenon, <1>8, <1>9, <2>1, <2>2, <2>3
<1>11. \A c \in Batches : remaining'[c] = Count - Cardinality(Counted(c)')
  <2>1. ASSUME NEW c \in Batches, c # b PROVE remaining'[c] = Count - Cardinality(Counted(c)')
    <3>1. remaining'[c] = remaining[c]
      BY <1>1, <2>1 DEF Types, BatchTypes
    <3>2. QED
      BY Zenon, <1>7, <2>1, <3>1 DEF SumInv
  <2>2. QED
    BY Zenon, <1>10, <2>1
<1>12. ASSUME NEW j \in Joiners, jpc'[j] = "read", on'[j] \in Batches PROVE remaining'[on'[j]] = 0
  <2>1. on[j] \in Batches /\ on'[j] = on[j] /\ remaining[on[j]] = 0
    BY Zenon, <1>1, <1>12 DEF SumInv
  <2>2. on[j] # b
    BY Zenon, <1>3, <1>5, <1>8, <2>1
  <2>3. remaining'[on[j]] = remaining[on[j]]
    BY <1>1, <2>1, <2>2 DEF Types, BatchTypes
  <2>4. QED
    BY Zenon, <2>1, <2>3
<1>13. QED
  BY Zenon, <1>1, <1>11, <1>12 DEF SumInv

LEMMA SumJoinStep ==
  ASSUME Sizes, Types, LanesInv, SumInv, NEW j \in Joiners, Proceed(j) \/ Call(j)
  PROVE  SumInv'
<1>0. /\ jpc \in [Joiners -> {"idle", "check", "check2", "lock", "parked", "read", "release"}]
      /\ on \in [Joiners -> {Null} \cup Objects]
      /\ got \in [Joiners -> {Null, 0, Result} \cup Sums]
  BY Zenon DEF Types, JoinerTypes
<1>1. UNCHANGED <<remaining, total, wpc, job, summed>>
  BY Zenon DEF Proceed, Call, batchVars, workerVars
<1>2. ASSUME NEW p, NEW x, NEW g, on' = [on EXCEPT ![j] = x], jpc' = [jpc EXCEPT ![j] = p],
             got' = [got EXCEPT ![j] = g],
             p = "read" /\ x \in Batches => remaining[x] = 0,
             p = "release" /\ x \in Batches => g = [o \in Offsets |-> 1]
      PROVE  SumInv'
  <2>1. /\ jpc'[j] = p /\ on'[j] = x /\ got'[j] = g
        /\ \A i \in Joiners : i # j => jpc'[i] = jpc[i] /\ on'[i] = on[i] /\ got'[i] = got[i]
    BY <1>0, <1>2
  <2>2. QED
    BY ZenonT(60), <1>1, <1>2, <2>1, SumJoiner
<1>3. on = [on EXCEPT ![j] = on[j]] /\ got = [got EXCEPT ![j] = got[j]]
  BY <1>0
<1>4. CASE GiveUp(j)
  <2>1. "idle" # "read" /\ "idle" # "release"
    OBVIOUS
  <2>2. QED
    BY Zenon, <1>2, <1>4, <2>1 DEF GiveUp
<1>5. ASSUME NEW p \in {"check", "check2", "lock", "parked"}, jpc' = [jpc EXCEPT ![j] = p],
             UNCHANGED got, NEW x, on' = [on EXCEPT ![j] = x]
      PROVE  SumInv'
  <2>1. p # "read" /\ p # "release"
    BY <1>5
  <2>2. QED
    BY Zenon, <1>2, <1>3, <1>5, <2>1
<1>6. ASSUME jpc' = [jpc EXCEPT ![j] = "read"], UNCHANGED <<on, got>>,
             on[j] \in Batches => remaining[on[j]] = 0
      PROVE  SumInv'
  <2>1. "read" # "release"
    OBVIOUS
  <2>2. QED
    BY Zenon, <1>2, <1>3, <1>6, <2>1
<1>7. CASE CheckTask(j)
  <2>1. on[j] \notin Batches
    BY <1>7, ExecutorAssumption DEF CheckTask
  <2>2. QED
    BY Zenon, <1>3, <1>4, <1>5, <1>6, <1>7, <2>1 DEF CheckTask
<1>8. CASE CheckBatch(j)
  <2>1. CASE remaining[on[j]] = 0
    BY Zenon, <1>6, <1>8, <2>1 DEF CheckBatch
  <2>2. CASE remaining[on[j]] # 0
    BY Zenon, <1>3, <1>5, <1>8, <2>2 DEF CheckBatch
  <2>3. QED
    BY Zenon, <2>1, <2>2
<1>9. CASE CheckCancelled(j)
  BY Zenon, <1>3, <1>4, <1>5, <1>9 DEF CheckCancelled
<1>10. CASE Park(j)
  <2>1. \/ jpc' = [jpc EXCEPT ![j] = "parked"] /\ UNCHANGED <<on, got>>
        \/ jpc' = [jpc EXCEPT ![j] = "check"] /\ UNCHANGED <<on, got>>
        \/ remaining[on[j]] = 0 /\ jpc' = [jpc EXCEPT ![j] = "read"] /\ UNCHANGED <<on, got>>
        \/ GiveUp(j)
    BY Zenon, <1>10 DEF Park
  <2>2. QED
    BY Zenon, <1>3, <1>4, <1>5, <1>6, <2>1
<1>11. CASE Read(j)
  <2>1. "release" # "read"
    OBVIOUS
  <2>2. ASSUME on[j] \in Batches PROVE total[on[j]] = [o \in Offsets |-> 1] /\ on[j] \notin Tasks
    <3>1. remaining[on[j]] = 0
      BY Zenon, <1>11, <2>2 DEF Read, SumInv
    <3>2. Counted(on[j]) = Offsets
      BY Zenon, <2>2, <3>1, CountedFacts
    <3>3. \A o \in Offsets : total[on[j]][o] = 1
      BY Zenon, <3>2 DEF Counted
    <3>4. total[on[j]] \in [Offsets -> Nat]
      BY Zenon, <2>2 DEF Types, BatchTypes, Sums
    <3>5. QED
      BY <2>2, <3>3, <3>4, ExecutorAssumption
  <2>3. PICK g : g = IF on[j] \in Tasks THEN value[on[j]] ELSE total[on[j]]
    BY Zenon
  <2>4. on[j] \in Batches => g = [o \in Offsets |-> 1]
    BY Zenon, <2>2, <2>3
  <2>5. /\ got' = [got EXCEPT ![j] = g] /\ jpc' = [jpc EXCEPT ![j] = "release"] /\ on' = on
    BY Zenon, <1>11, <2>3 DEF Read
  <2>6. QED
    BY Zenon, <1>2, <1>3, <2>1, <2>4, <2>5
<1>12. CASE Release(j)
  BY Zenon, <1>4, <1>12 DEF Release
<1>13. CASE WakeUp(j)
  BY Zenon, <1>3, <1>5, <1>13 DEF WakeUp
<1>14. ASSUME NEW x \in Objects, Join(j, x) PROVE SumInv'
  BY Zenon, <1>5, <1>14 DEF Join
<1>15. QED
  BY Zenon, <1>7, <1>8, <1>9, <1>10, <1>11, <1>12, <1>13, <1>14 DEF Proceed, Call

LEMMA SumStep == Sizes /\ Types /\ JobsInv /\ LanesInv /\ SumInv /\ [Next]_vars => SumInv'
<1> SUFFICES ASSUME Sizes, Types, JobsInv, LanesInv, SumInv, [Next]_vars PROVE SumInv'
  OBVIOUS
<1>0. /\ wpc \in [Workers -> {"recv", "closure", "complete", "lane", "add", "sub", "notify"}]
      /\ jpc \in [Joiners -> {"idle", "check", "check2", "lock", "parked", "read", "release"}]
  BY Zenon DEF Types, WorkerTypes, JoinerTypes
<1>1. ASSUME UNCHANGED <<remaining, total, wpc, job, summed, jpc, on, got>> PROVE SumInv'
  BY Zenon, <1>1, SumSame
<1>2. ASSUME NEW x \in Objects, Allocate(x) \/ Submit(x) PROVE SumInv'
  BY Zenon, <1>1, <1>2 DEF Allocate, Submit, batchVars, workerVars, joinVars
<1>3. ASSUME NEW w \in Workers, wpc[w] # "sub", wpc'[w] # "sub", UNCHANGED <<remaining, total, on, got>>,
             \A v \in Workers : v # w => wpc'[v] = wpc[v] /\ job'[v] = job[v] /\ summed'[v] = summed[v],
             \A j \in Joiners : jpc'[j] \in {"read", "release"} => jpc'[j] = jpc[j]
      PROVE  SumInv'
  BY Zenon, <1>3, SumSame
<1>4. ASSUME NEW w \in Workers, Receive(w) PROVE SumInv'
  <2>1. /\ wpc[w] # "sub" /\ wpc'[w] # "sub"
        /\ \A v \in Workers : v # w => wpc'[v] = wpc[v] /\ job'[v] = job[v] /\ summed'[v] = summed[v]
        /\ UNCHANGED <<remaining, total, jpc, on, got>>
    BY <1>0, <1>4 DEF Receive, batchVars, joinVars, Types, WorkerTypes
  <2>2. QED
    BY Zenon, <1>3, <2>1
<1>5. ASSUME NEW w \in Workers, Closure(w) \/ (BatchLane(w) /\ LaneStep(w)) \/ Notify(w) PROVE SumInv'
  <2>1. \A v \in Workers : v # w => wpc'[v] = wpc[v] /\ job'[v] = job[v] /\ summed'[v] = summed[v]
    BY Zenon, <1>5, WorkerMoves
  <2>2. UNCHANGED <<remaining, total, on, got>>
    BY Zenon, <1>5 DEF Closure, BatchLane, LaneStep, Notify, batchVars, joinVars
  <2>3. \A j \in Joiners : jpc'[j] \in {"read", "release"} => jpc'[j] = jpc[j]
    <3>1. jpc' = jpc \/ jpc' = Woken
      BY Zenon, <1>5 DEF Closure, BatchLane, Notify, joinVars
    <3>2. QED
      BY <1>0, <3>1 DEF Woken
  <2>4. wpc[w] # "sub" /\ wpc'[w] # "sub"
    <3>1. ASSUME NEW last, Leave(w, last) PROVE wpc'[w] # "sub"
      BY <1>0, <3>1 DEF Leave
    <3>2. CASE Closure(w)
      <4>1. CASE StoreValue(w)
        BY <1>0, <4>1 DEF StoreValue
      <4>2. CASE Complete(w) \/ Fail(w)
        <5>1. wpc[w] # "sub"
          BY <4>2 DEF Complete, Fail
        <5>2. QED
          BY Zenon, <3>1, <4>2, <5>1 DEF Complete, Fail
      <4>3. QED
        BY Zenon, <3>2, <4>1, <4>2 DEF Closure
    <3>3. CASE LaneStep(w)
      <4>1. /\ wpc[w] = "lane"
            /\ \/ \E p \in {"add", "lane"} : wpc' = [wpc EXCEPT ![w] = p]
               \/ Leave(w, FALSE)
        BY Zenon, <3>3 DEF LaneStep
      <4>2. CASE Leave(w, FALSE)
        <5>1. wpc[w] # "sub"
          BY <4>1
        <5>2. QED
          BY Zenon, <3>1, <4>2, <5>1
      <4>3. CASE \E p \in {"add", "lane"} : wpc' = [wpc EXCEPT ![w] = p]
        BY <1>0, <4>1, <4>3
      <4>4. QED
        BY Zenon, <4>1, <4>2, <4>3
    <3>4. CASE Notify(w)
      BY <1>0, <3>4 DEF Notify
    <3>5. QED
      BY Zenon, <1>5, <3>2, <3>3, <3>4
  <2>5. QED
    BY Zenon, <1>3, <2>1, <2>2, <2>3, <2>4
<1>6. ASSUME NEW w \in Workers, BatchLane(w), FinishLane(w) PROVE SumInv'
  <2>1. wpc[w] = "add" \/ wpc[w] = "sub"
    BY Zenon, <1>6 DEF FinishLane
  <2>2. QED
    BY Zenon, <1>6, <2>1, SumAdd, SumSub
<1>7. ASSUME NEW w \in Workers, Work(w) PROVE SumInv'
  <2>1. \/ Receive(w) \/ Closure(w) \/ Notify(w)
        \/ BatchLane(w) /\ LaneStep(w)
        \/ BatchLane(w) /\ FinishLane(w)
    BY Zenon, <1>7 DEF Work, BatchLane
  <2>2. CASE Closure(w) \/ Notify(w)
    BY <1>5, <2>2
  <2>3. CASE BatchLane(w) /\ LaneStep(w)
    BY Zenon, <1>5, <2>3
  <2>4. QED
    BY Zenon, <1>4, <1>6, <2>1, <2>2, <2>3
<1>8. ASSUME NEW j \in Joiners, Proceed(j) \/ Call(j) PROVE SumInv'
  BY Zenon, <1>8, SumJoinStep
<1>9. CASE ClearStart \/ Clear
  <2>1. CASE ClearEnd
    <3>1. /\ UNCHANGED <<remaining, total, wpc, job, summed, on, got>>
          /\ \A j \in Joiners : jpc'[j] \in {"read", "release"} => jpc'[j] = jpc[j]
      BY <1>0, <2>1 DEF ClearEnd, Woken, batchVars, workerVars
    <3>2. QED
      BY Zenon, <3>1, SumSame
  <2>2. CASE ~ClearEnd
    BY Zenon, <1>1, <1>9, <2>2 DEF ClearStart, Clear, batchVars, workerVars, joinVars
  <2>3. QED
    BY Zenon, <2>1, <2>2
<1>10. CASE UNCHANGED vars
  BY Zenon, <1>1, <1>10 DEF vars, batchVars, workerVars, joinVars
<1>11. QED
  BY Zenon, <1>2, <1>7, <1>8, <1>9, <1>10 DEF Next

-----------------------------------------------------------------------------
(* Sizes, from the library                                                 *)

INSTANCE FiniteSetTheorems

LEMMA SizesHold == Sizes
<1>1. IsFiniteSet(Offsets) /\ Cardinality(Offsets) = Count
  <2>1. 0 \in Int /\ Count - 1 \in Int /\ Count \in Nat /\ Count # 0
    BY ExecutorAssumption
  <2>2. /\ IsFiniteSet(0 .. Count - 1)
        /\ Cardinality(0 .. Count - 1) = IF 0 > Count - 1 THEN 0 ELSE (Count - 1) - 0 + 1
    BY <2>1, FS_Interval
  <2>3. QED
    BY <2>1, <2>2 DEF Offsets
<1>2. ASSUME NEW S \in SUBSET Offsets
      PROVE  IsFiniteSet(S) /\ Cardinality(S) \in Nat /\ (Cardinality(S) = Count => S = Offsets)
  BY Zenon, <1>1, FS_Subset, FS_CardinalityType
<1>3. Cardinality({}) = 0
  BY Zenon, FS_EmptySet
<1>4. ASSUME NEW S \in SUBSET Offsets, NEW T \in SUBSET Offsets, S \cap T = {}
      PROVE  Cardinality(S \cup T) = Cardinality(S) + Cardinality(T)
  <2>1. Cardinality(S \cup T) = Cardinality(S) + Cardinality(T) - Cardinality(S \cap T)
    BY Zenon, <1>2, FS_Union
  <2>2. PICK m \in Nat, n \in Nat : m = Cardinality(S) /\ n = Cardinality(T)
    BY Zenon, <1>2
  <2>3. m + n - 0 = m + n
    OBVIOUS
  <2>4. QED
    BY Zenon, <1>3, <1>4, <2>1, <2>2, <2>3
<1>5. QED
  BY Zenon, <1>2, <1>3, <1>4 DEF Sizes

LEMMA TypesInvariant == Spec => []Types
BY SizesHold, TypesStart, TypesStep, PTL DEF Spec

\* A task is settled once: the compare_exchange of complete, fail and cancel lets
\* the first of them win and the others change nothing.
THEOREM TaskSettledOnce == Spec => SettledOnce
<1>1. Types /\ [Next]_vars => [\A t \in Tasks : state[t] # "PENDING" => state'[t] = state[t]]_vars
  BY SettledStep
<1>2. QED
  BY <1>1, TypesInvariant, PTL DEF Spec, SettledOnce

\* The value a task join returns is what the closure returned: complete stores the
\* value before it publishes the state, and join reads it after.
THEOREM JoinYieldsTheResult == Spec => []JoinedValueIsTheResult
<1>1. Init => PublishInv
  BY DEF Init, PublishInv
<1>2. PublishInv => JoinedValueIsTheResult
  BY DEF PublishInv, JoinedValueIsTheResult
<1>3. QED
  BY <1>1, <1>2, PublishStep, SizesHold, TypesInvariant, PTL DEF Spec

\* Of any number of concurrent joins of one handle at most one returns the result,
\* because release takes the handle out of the registry under its lock.
THEOREM ResultTakenOnce == Spec => []ValueIsTakenOnce
<1>1. Init => TakenInv
  BY DEF Init, TakenInv
<1>2. TakenInv => ValueIsTakenOnce
  BY DEF TakenInv, ValueIsTakenOnce
<1>3. QED
  BY <1>1, <1>2, TakenStep, TypesInvariant, PTL DEF Spec

\* No wakeup of a join is missed: what is done under a parked joiner is about to be
\* notified, by the worker that did it or by the reset.
THEOREM NoMissedWakeup == Spec => []ParkedJoinerIsWoken
<1>1. Init => ParkedJoinerIsWoken
  BY DEF Init, ParkedJoinerIsWoken
<1>2. QED
  BY <1>1, ParkedStep, SizesHold, TypesInvariant, PTL DEF Spec

\* A join of a batch returns the sum of every value of the batch, each added once,
\* for every number of values and of workers: finish_lane adds a lane's sum before
\* it counts remaining down, and join_concurrent_batch_sum reads total after it saw
\* remaining at zero.
THEOREM BatchJoinYieldsTheSum == Spec => []BatchSumIsComplete
<1>1. Init => JobsInv
  <2>1. Init => Len(queue) = 0 /\ \A w \in Workers : ~Active(w)
    BY DEF Init, Active
  <2>2. 1..0 = {}
    OBVIOUS
  <2>3. QED
    BY Zenon, <2>1, <2>2 DEF JobsInv
<1>2. Init => LanesInv
  <2>1. ASSUME Init, NEW w \in Workers PROVE LaneOf(w)
    BY <2>1 DEF Init, LaneOf
  <2>2. ASSUME Init PROVE \A b \in Batches, l \in Nat : Untouched(b, l)
    BY <2>2 DEF Init, Untouched, LaneOffsets
  <2>3. ASSUME Init PROVE Len(queue) = 0 /\ \A b \in Batches, o \in Offsets : total[b][o] = 0
    BY <2>3 DEF Init
  <2>4. 1..0 = {}
    OBVIOUS
  <2>5. QED
    BY Zenon, <2>1, <2>2, <2>3, <2>4 DEF LanesInv
<1>3. Init => SumInv
  <2>1. ASSUME Init, NEW b \in Batches PROVE Counted(b) = {} /\ remaining[b] = Count
    BY <2>1 DEF Init, Counted
  <2>2. \A b \in Batches : Init => remaining[b] = Count - Cardinality(Counted(b))
    <3>1. Cardinality({}) = 0 /\ Count = Count - 0
      BY SizesHold, ExecutorAssumption DEF Sizes
    <3>2. QED
      BY Zenon, <2>1, <3>1
  <2>3. QED
    BY <2>2 DEF Init, SumInv
<1>4. SumInv => BatchSumIsComplete
  BY Zenon DEF SumInv, BatchSumIsComplete
<1>5. QED
  BY <1>1, <1>2, <1>3, <1>4, JobsStep, LanesStep, SumStep, SizesHold, TypesInvariant, PTL DEF Spec

=============================================================================
