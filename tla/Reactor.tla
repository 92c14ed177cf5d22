-------------------------------- MODULE Reactor --------------------------------
(***************************************************************************)
(* The reactor: one queue of task, timer and I/O events, filled by any     *)
(* thread, by the timer driver and by the threads that poll the platform   *)
(* multiplexer, and emptied by those that poll the reactor.  The state     *)
(* lock, the timer heap's lock and the multiplexer's lock are separate and *)
(* never nested, so every stretch under one of them is an action.          *)
(*                                                                         *)
(* A source and a timer are each registered once, by a thread of their own.*)
(* Deadlines are abstracted: an entry of the heap may come due at any time.*)
(***************************************************************************)
EXTENDS Integers, Sequences

CONSTANTS
  Pollers,     \* threads in Reactor::poll
  Bounded,     \* those that poll with a timeout
  Sources,     \* I/O sources, by token
  Timers,      \* timer tokens
  MaxEvents,   \* bound on task wakes and readiness edges
  MaxResets,
  None         \* nobody holds the multiplexer

ASSUME ReactorAssumption ==
  /\ Bounded \subseteq Pollers /\ None \notin Pollers
  /\ MaxEvents \in Nat /\ MaxResets \in Nat

VARIABLES
  (* ReactorState, under its lock *)
  queue, io, generation,
  (* the timer wheel *)
  heap, driver_started,
  fired,       \* entries the driver took off the heap and has yet to push
  (* the multiplexer *)
  poll,        \* who holds the lock of os.poll
  sources,     \* sources registered with it
  edges,       \* of these, the ones with unreported readiness
  wake,        \* the waker was written and not reported yet
  (* the threads *)
  pc, got,     \* pollers, and the readiness they took from the multiplexer
  parked_in,   \* history: the generation in which each last entered it
  reg,         \* registering and deregistering threads, by source
  timer, timer_generation, \* registering threads, by timer
  reset,       \* the resetting thread
  to_wake,     \* threads that pushed an event and have yet to write the waker
  delivered,   \* timers handed to a poller
  events       \* task wakes and readiness edges so far

stateVars == <<queue, io, generation>>
wheelVars == <<heap, driver_started, fired>>
osVars == <<poll, sources, edges, wake>>
threadVars == <<pc, got, parked_in, reg, timer, timer_generation, reset>>
vars == <<stateVars, wheelVars, osVars, threadVars, to_wake, delivered, events>>

TaskWake == <<"task", None>>
TimerEvent(k) == <<"timer", k>>
IoEvent(s) == <<"io", s>>

Init ==
  /\ queue = <<>> /\ io = {} /\ generation = 0
  /\ heap = {} /\ driver_started = FALSE /\ fired = {}
  /\ poll = None /\ sources = {} /\ edges = {} /\ wake = FALSE
  /\ pc = [p \in Pollers |-> "idle"] /\ got = [p \in Pollers |-> {}]
  /\ parked_in = [p \in Pollers |-> 0]
  /\ reg = [s \in Sources |-> "none"]
  /\ timer = [k \in Timers |-> "none"] /\ timer_generation = [k \in Timers |-> 0]
  /\ reset = "idle" /\ to_wake = 0 /\ delivered = {} /\ events = 0

-----------------------------------------------------------------------------
(* push_event: the event is queued under the state lock, the waker written *)
(* afterwards.                                                             *)

WakeTask ==
  /\ events < MaxEvents
  /\ events' = events + 1
  /\ queue' = Append(queue, TaskWake)
  /\ to_wake' = to_wake + 1
  /\ UNCHANGED <<io, generation, wheelVars, osVars, threadVars, delivered>>

WriteWaker ==
  /\ to_wake > 0
  /\ to_wake' = to_wake - 1
  /\ wake' = TRUE
  /\ UNCHANGED <<stateVars, wheelVars, poll, sources, edges, threadVars, delivered, events>>

-----------------------------------------------------------------------------
(* Reactor::poll, i.e. pop_event and poll_os                               *)

Goto(p, label) == pc' = [pc EXCEPT ![p] = label]

\* pop_front hands the poller its event.
Pop(p) ==
  /\ queue # <<>>
  /\ queue' = Tail(queue)
  /\ delivered' = delivered \cup {k \in Timers : TimerEvent(k) = Head(queue)}
  /\ Goto(p, "idle")
  /\ UNCHANGED <<io, generation, wheelVars, osVars, got, parked_in, reg, timer,
                 timer_generation, reset, to_wake, events>>

PollQueued(p) == pc[p] = "idle" /\ Pop(p)

PollEmpty(p) ==
  /\ pc[p] = "idle" /\ queue = <<>>
  /\ Goto(p, "lock")
  /\ UNCHANGED <<stateVars, wheelVars, osVars, got, parked_in, reg, timer, timer_generation,
                 reset, to_wake, delivered, events>>

\* The lock of os.poll is held for as long as the thread is parked in it.
Park(p) ==
  /\ pc[p] = "lock" /\ poll = None
  /\ poll' = p
  /\ parked_in' = [parked_in EXCEPT ![p] = generation]
  /\ Goto(p, "parked")
  /\ UNCHANGED <<stateVars, wheelVars, sources, edges, wake, got, reg, timer,
                 timer_generation, reset, to_wake, delivered, events>>

\* poll.poll returns with whatever became ready; the waker's own token is dropped.
Unpark(p) ==
  /\ pc[p] = "parked"
  /\ wake \/ edges # {}
  /\ got' = [got EXCEPT ![p] = edges]
  /\ edges' = {} /\ wake' = FALSE
  /\ poll' = None
  /\ Goto(p, "publish")
  /\ UNCHANGED <<stateVars, wheelVars, sources, parked_in, reg, timer, timer_generation,
                 reset, to_wake, delivered, events>>

\* Mutant: the multiplexer is entered again, with the lock still held.
TimeOutParksOn(p) ==
  /\ pc[p] = "parked" /\ p \in Bounded /\ ~wake /\ edges = {}
  /\ UNCHANGED vars

\* poll.poll returns at the deadline, with nothing.
TimeOut(p) ==
  /\ pc[p] = "parked" /\ p \in Bounded /\ ~wake /\ edges = {}
  /\ poll' = None
  /\ Goto(p, "expired")
  /\ UNCHANGED <<stateVars, wheelVars, sources, edges, wake, got, parked_in, reg, timer,
                 timer_generation, reset, to_wake, delivered, events>>

\* push_io_event, for one of the ready tokens: an unknown token is dropped.
Publish(p) ==
  /\ pc[p] = "publish"
  /\ \E s \in got[p] :
       /\ got' = [got EXCEPT ![p] = @ \ {s}]
       /\ queue' = IF s \in io THEN Append(queue, IoEvent(s)) ELSE queue
  /\ UNCHANGED <<io, generation, wheelVars, osVars, pc, parked_in, reg, timer,
                 timer_generation, reset, to_wake, delivered, events>>

PollAgain(p) == pc[p] \in {"publish", "expired"} /\ got[p] = {} /\ Pop(p)

\* Mutant: the whole timeout starts again.
StillEmptyAgain(p) ==
  /\ pc[p] \in {"publish", "expired"} /\ got[p] = {} /\ queue = <<>>
  /\ Goto(p, "lock")
  /\ UNCHANGED <<stateVars, wheelVars, osVars, got, parked_in, reg, timer, timer_generation,
                 reset, to_wake, delivered, events>>

\* Nothing queued: back into poll_os, unless the deadline has passed.
StillEmpty(p) ==
  /\ pc[p] \in {"publish", "expired"} /\ got[p] = {} /\ queue = <<>>
  /\ \/ pc[p] = "publish" /\ Goto(p, "lock")
     \/ p \in Bounded /\ Goto(p, "idle")
  /\ UNCHANGED <<stateVars, wheelVars, osVars, got, parked_in, reg, timer, timer_generation,
                 reset, to_wake, delivered, events>>

-----------------------------------------------------------------------------
(* Sources                                                                 *)

\* An edge of readiness on a registered source.
BecomesReady(s) ==
  /\ s \in sources \ edges /\ events < MaxEvents
  /\ events' = events + 1
  /\ edges' = edges \cup {s}
  /\ UNCHANGED <<stateVars, wheelVars, poll, sources, wake, threadVars, to_wake, delivered>>

StepReg(s, from, to) ==
  /\ reg[s] = from
  /\ reg' = [reg EXCEPT ![s] = to]
  /\ UNCHANGED <<queue, generation, wheelVars, poll, wake, pc, got, parked_in, timer,
                 timer_generation, reset, to_wake, delivered, events>>

\* register_source: the token is published first.
InsertToken(s) ==
  /\ StepReg(s, "none", "inserted")
  /\ io' = io \cup {s}
  /\ UNCHANGED <<sources, edges>>

\* Then, under the lock of os.poll, the source is registered, or refused.
RegisterSource(s) ==
  /\ poll = None
  /\ \/ StepReg(s, "inserted", "registered") /\ sources' = sources \cup {s}
     \/ StepReg(s, "inserted", "refused") /\ UNCHANGED sources
  /\ UNCHANGED <<io, edges>>

RollbackRegistration(s) ==
  /\ StepReg(s, "refused", "failed")
  /\ io' = io \ {s}
  /\ UNCHANGED <<sources, edges>>

\* deregister_source: the multiplexer first, the token afterwards.
DeregisterSource(s) ==
  /\ poll = None
  /\ StepReg(s, "registered", "deregistered")
  /\ sources' = sources \ {s} /\ edges' = edges \ {s}
  /\ UNCHANGED io

RemoveToken(s) ==
  /\ StepReg(s, "deregistered", "removed")
  /\ io' = io \ {s}
  /\ UNCHANGED <<sources, edges>>

-----------------------------------------------------------------------------
(* Timers                                                                  *)

StepTimer(k, from, to) ==
  /\ timer[k] = from
  /\ timer' = [timer EXCEPT ![k] = to]
  /\ UNCHANGED <<io, osVars, pc, got, parked_in, reg, reset, delivered, events>>

\* register_timer: the driver thread is started first, which may fail.
TimerRefused(k) ==
  /\ ~driver_started
  /\ StepTimer(k, "none", "refused")
  /\ UNCHANGED <<queue, generation, wheelVars, timer_generation, to_wake>>

ReadGeneration(k) ==
  /\ StepTimer(k, "none", "read")
  /\ driver_started' = TRUE
  /\ timer_generation' = [timer_generation EXCEPT ![k] = generation]
  /\ UNCHANGED <<queue, generation, heap, fired, to_wake>>

ScheduleTimer(k) ==
  /\ StepTimer(k, "read", "scheduled")
  /\ heap' = heap \cup {k}
  /\ UNCHANGED <<queue, generation, driver_started, fired, timer_generation, to_wake>>

\* run_timer_driver takes a due entry off the heap ...
TimerDue(k) ==
  /\ k \in heap
  /\ heap' = heap \ {k} /\ fired' = fired \cup {k}
  /\ UNCHANGED <<stateVars, driver_started, osVars, threadVars, to_wake, delivered, events>>

\* Mutant: the generation is not compared.
PushTimerAlways(k) ==
  /\ k \in fired
  /\ fired' = fired \ {k}
  /\ queue' = Append(queue, TimerEvent(k)) /\ to_wake' = to_wake + 1
  /\ UNCHANGED <<io, generation, heap, driver_started, osVars, threadVars, delivered, events>>

\* Mutant: the comparison is off by one generation.
PushTimerOffByOne(k) ==
  /\ k \in fired
  /\ fired' = fired \ {k}
  /\ IF timer_generation[k] = generation + 1
     THEN queue' = Append(queue, TimerEvent(k)) /\ to_wake' = to_wake + 1
     ELSE UNCHANGED <<queue, to_wake>>
  /\ UNCHANGED <<io, generation, heap, driver_started, osVars, threadVars, delivered, events>>

\* ... and pushes it, with no lock in between, unless its generation is over.
PushTimer(k) ==
  /\ k \in fired
  /\ fired' = fired \ {k}
  /\ IF timer_generation[k] = generation
     THEN queue' = Append(queue, TimerEvent(k)) /\ to_wake' = to_wake + 1
     ELSE UNCHANGED <<queue, to_wake>>
  /\ UNCHANGED <<io, generation, heap, driver_started, osVars, threadVars, delivered, events>>

-----------------------------------------------------------------------------
(* Reactor::reset                                                          *)

ResetState ==
  /\ reset = "idle" /\ generation < MaxResets
  /\ queue' = <<>> /\ io' = {}
  /\ generation' = generation + 1
  /\ reset' = "heap"
  /\ UNCHANGED <<wheelVars, osVars, pc, got, parked_in, reg, timer, timer_generation,
                 to_wake, delivered, events>>

\* Mutant: the waker is not written.
ResetHeapUnwoken ==
  /\ reset = "heap"
  /\ heap' = {}
  /\ reset' = "idle"
  /\ UNCHANGED <<stateVars, driver_started, fired, osVars, pc, got, parked_in, reg, timer,
                 timer_generation, to_wake, delivered, events>>

ResetHeap ==
  /\ reset = "heap"
  /\ heap' = {}
  /\ reset' = "idle" /\ to_wake' = to_wake + 1
  /\ UNCHANGED <<stateVars, driver_started, fired, osVars, pc, got, parked_in, reg, timer,
                 timer_generation, delivered, events>>

-----------------------------------------------------------------------------
Poll(p) ==
  PollQueued(p) \/ PollEmpty(p) \/ Park(p) \/ Unpark(p) \/ TimeOut(p) \/ Publish(p)
  \/ PollAgain(p) \/ StillEmpty(p)
Register(s) == RegisterSource(s) \/ RollbackRegistration(s) \/ RemoveToken(s)
Timer(k) == ScheduleTimer(k) \/ TimerDue(k) \/ PushTimer(k)

Next ==
  \/ WakeTask \/ WriteWaker \/ ResetState \/ ResetHeap
  \/ \E p \in Pollers : Poll(p)
  \/ \E s \in Sources : BecomesReady(s) \/ InsertToken(s) \/ DeregisterSource(s) \/ Register(s)
  \/ \E k \in Timers : TimerRefused(k) \/ ReadGeneration(k) \/ Timer(k)

Spec == Init /\ [][Next]_vars

\* Threads run on, callers poll again, and every deadline passes.  A thread that
\* waits for the lock of os.poll gets it if it is free again and again.
Fairness ==
  /\ WF_vars(WriteWaker) /\ WF_vars(ResetHeap)
  /\ \A p \in Pollers : WF_vars(Poll(p)) /\ SF_vars(Park(p))
  /\ \A s \in Sources : WF_vars(Register(s)) /\ SF_vars(RegisterSource(s))
  /\ \A k \in Timers : WF_vars(Timer(k))

FairSpec == Spec /\ Fairness

-----------------------------------------------------------------------------
(* Properties                                                              *)

Events == {TaskWake} \cup {TimerEvent(k) : k \in Timers} \cup {IoEvent(s) : s \in Sources}
Queued == {queue[i] : i \in DOMAIN queue}

TypeOK ==
  /\ queue \in Seq(Events) /\ io \subseteq Sources /\ generation \in 0..MaxResets
  /\ heap \subseteq Timers /\ fired \subseteq Timers /\ driver_started \in BOOLEAN
  /\ poll \in Pollers \cup {None} /\ sources \subseteq Sources /\ edges \subseteq sources
  /\ wake \in BOOLEAN
  /\ pc \in [Pollers -> {"idle", "lock", "parked", "publish", "expired"}]
  /\ got \in [Pollers -> SUBSET Sources] /\ parked_in \in [Pollers -> 0..MaxResets]
  /\ reg \in [Sources -> {"none", "inserted", "registered", "refused", "failed", "deregistered",
                          "removed"}]
  /\ timer \in [Timers -> {"none", "refused", "read", "scheduled"}]
  /\ timer_generation \in [Timers -> 0..MaxResets]
  /\ reset \in {"idle", "heap"} /\ to_wake \in Nat
  /\ delivered \subseteq Timers /\ events \in 0..MaxEvents

\* A timer registered before a reset never shows up after it, although the thread
\* that registers it, the driver and the reset hold no lock in common.
QueuedTimersAreCurrent ==
  \A k \in Timers : TimerEvent(k) \in Queued => timer_generation[k] = generation

\* A timer is in one place only, so it is delivered at most once.
TimerFiresOnce ==
  /\ \A k \in Timers :
       /\ ~(k \in heap /\ k \in fired)
       /\ TimerEvent(k) \in Queued => k \notin heap \cup fired \cup delivered
       /\ k \in delivered => k \notin heap \cup fired
  /\ \A k \in Timers, i, j \in DOMAIN queue : queue[i] = TimerEvent(k) /\ queue[j] = TimerEvent(k) => i = j

\* A lone poller is never left parked over a queued event: the waker was written, or
\* is about to be.  Nor does a poller, lone or not, sleep through a reset that came
\* after it had parked (push_event, Reactor::reset).
ParkedPollerIsWoken ==
  \A p \in Pollers : pc[p] = "parked" =>
    /\ queue # <<>> => wake \/ to_wake > 0
    /\ parked_in[p] # generation => wake \/ to_wake > 0 \/ reset = "heap"

\* Without resets, which drop what is scheduled, an accepted timer is delivered.
TimerIsDelivered == \A k \in Timers : timer[k] = "scheduled" ~> k \in delivered

\* A registration gets the lock of os.poll, as long as every poller has a timeout:
\* one that has none keeps the lock until something else happens.
RegistrationProceeds == \A s \in Sources : reg[s] = "inserted" ~> reg[s] # "inserted"

\* A poll with a timeout returns, even while the other pollers, which have one too,
\* hold the lock of os.poll again and again: TASK_WAIT_PARK is an "Upper bound for
\* one reactor park while waiting on a pending task".
BoundedPollReturns == \A p \in Bounded : pc[p] = "lock" ~> pc[p] = "idle"
=============================================================================
