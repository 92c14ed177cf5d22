----------------------------- MODULE ReactorProofs -----------------------------
(* Theorems about Reactor, for every number of pollers, sources, timers and   *)
(* resets.                                                                    *)
EXTENDS Reactor, TLAPS

QueuedTimers == {k \in Timers : TimerEvent(k) \in Queued}

\* The part of the type invariant that the arguments below use.
ShapeInv ==
  /\ queue \in Seq(Events) /\ io \subseteq Sources
  /\ heap \subseteq Timers /\ fired \subseteq Timers /\ delivered \subseteq Timers
  /\ timer \in [Timers -> {"none", "refused", "read", "scheduled"}]
  /\ timer_generation \in [Timers -> Nat] /\ generation \in Nat /\ to_wake \in Nat
  /\ pc \in [Pollers -> {"idle", "lock", "parked", "publish", "expired"}]

\* A timer that is anywhere beyond its registering thread was scheduled by it.
ScheduledInv ==
  \A k \in heap \cup fired \cup delivered \cup QueuedTimers : timer[k] = "scheduled"

\* One place at a time, and once in the queue.
PlaceInv ==
  /\ heap \cap fired = {}
  /\ QueuedTimers \cap (heap \cup fired \cup delivered) = {}
  /\ delivered \cap (heap \cup fired) = {}
  /\ \A k \in Timers, i, j \in DOMAIN queue :
       queue[i] = TimerEvent(k) /\ queue[j] = TimerEvent(k) => i = j

\* Only timers of the current generation are queued: a reset empties the queue in
\* the step that ends the generation.
CurrentInv == \A k \in QueuedTimers : timer_generation[k] = generation

IInv == ShapeInv /\ ScheduledInv /\ PlaceInv /\ CurrentInv

-----------------------------------------------------------------------------
LEMMA EventFacts ==
  /\ TaskWake \in Events
  /\ \A k \in Timers : TimerEvent(k) \in Events /\ TimerEvent(k) # TaskWake
  /\ \A s \in Sources : IoEvent(s) \in Events
  /\ \A s \in Sources, k \in Timers : IoEvent(s) # TimerEvent(k)
  /\ \A k, l \in Timers : TimerEvent(k) = TimerEvent(l) => k = l
BY DEF Events, TaskWake, TimerEvent, IoEvent

\* push_back of an event e that is not a timer already queued.
LEMMA AppendFacts ==
  ASSUME ShapeInv, PlaceInv, NEW e \in Events, queue' = Append(queue, e),
         \A k \in QueuedTimers : e # TimerEvent(k)
  PROVE  /\ queue' \in Seq(Events) /\ queue' # <<>>
         /\ QueuedTimers' = QueuedTimers \cup {k \in Timers : e = TimerEvent(k)}
         /\ \A k \in Timers, i, j \in DOMAIN queue' :
              queue'[i] = TimerEvent(k) /\ queue'[j] = TimerEvent(k) => i = j
<1>0. queue \in Seq(Events) /\ Len(queue) \in Nat /\ DOMAIN queue = 1..Len(queue)
  BY DEF ShapeInv
<1>1. /\ queue' \in Seq(Events) /\ queue' # <<>> /\ DOMAIN queue' = 1..(Len(queue) + 1)
      /\ \A i \in 1..(Len(queue) + 1) : queue'[i] = IF i = Len(queue) + 1 THEN e ELSE queue[i]
  BY <1>0
<1>2. Queued' = Queued \cup {e}
  <2>1. ASSUME NEW u \in Queued' PROVE u \in Queued \cup {e}
    BY <1>0, <1>1 DEF Queued
  <2>2. ASSUME NEW u \in Queued PROVE u \in Queued'
    <3>1. PICK i \in DOMAIN queue : u = queue[i]
      BY DEF Queued
    <3>2. i \in DOMAIN queue' /\ queue'[i] = u
      BY <1>0, <1>1, <3>1
    <3>3. QED
      BY <3>2 DEF Queued
  <2>3. Len(queue) + 1 \in DOMAIN queue' /\ queue'[Len(queue) + 1] = e
    BY <1>0, <1>1
  <2>4. e \in Queued'
    BY <2>3 DEF Queued
  <2>5. QED
    BY <2>1, <2>2, <2>4
<1>3. QueuedTimers' = QueuedTimers \cup {k \in Timers : e = TimerEvent(k)}
  BY <1>2 DEF QueuedTimers, TimerEvent
<1>4. ASSUME NEW k \in Timers, NEW i \in DOMAIN queue', NEW j \in DOMAIN queue',
             queue'[i] = TimerEvent(k), queue'[j] = TimerEvent(k)
      PROVE  i = j
  <2>1. CASE e = TimerEvent(k)
    <3>1. \A n \in DOMAIN queue : queue[n] # TimerEvent(k)
      BY <2>1 DEF QueuedTimers, Queued
    <3>2. QED
      BY <1>0, <1>1, <1>4, <3>1
  <2>2. CASE e # TimerEvent(k)
    <3>1. i \in DOMAIN queue /\ j \in DOMAIN queue /\ queue[i] = TimerEvent(k) /\ queue[j] = TimerEvent(k)
      BY <1>0, <1>1, <1>4, <2>2
    <3>2. QED
      BY <3>1 DEF PlaceInv
  <2>3. QED
    BY <2>1, <2>2
<1>5. QED
  BY <1>1, <1>3, <1>4

\* pop_front.
LEMMA TailFacts ==
  ASSUME ShapeInv, PlaceInv, queue # <<>>, queue' = Tail(queue)
  PROVE  /\ queue' \in Seq(Events)
         /\ QueuedTimers' = QueuedTimers \ {k \in Timers : TimerEvent(k) = Head(queue)}
         /\ \A k \in Timers : TimerEvent(k) = Head(queue) => k \in QueuedTimers
         /\ \A k \in Timers, i, j \in DOMAIN queue' :
              queue'[i] = TimerEvent(k) /\ queue'[j] = TimerEvent(k) => i = j
<1>0. queue \in Seq(Events) /\ Len(queue) \in Nat \ {0} /\ DOMAIN queue = 1..Len(queue)
  BY DEF ShapeInv
<1>1. /\ queue' \in Seq(Events) /\ DOMAIN queue' = 1..(Len(queue) - 1)
      /\ \A i \in DOMAIN queue' : queue'[i] = queue[i + 1]
      /\ Head(queue) = queue[1] /\ 1 \in DOMAIN queue
  BY <1>0
<1>2. ASSUME NEW k \in Timers, NEW i \in DOMAIN queue', NEW j \in DOMAIN queue',
             queue'[i] = TimerEvent(k), queue'[j] = TimerEvent(k)
      PROVE  i = j
  <2>1. i + 1 \in DOMAIN queue /\ j + 1 \in DOMAIN queue
        /\ queue[i + 1] = TimerEvent(k) /\ queue[j + 1] = TimerEvent(k)
    BY <1>0, <1>1, <1>2
  <2>2. i + 1 = j + 1
    BY <2>1 DEF PlaceInv
  <2>3. QED
    BY <1>0, <1>1, <2>2
<1>3. \A k \in Timers : TimerEvent(k) = Head(queue) => k \in QueuedTimers
  BY <1>1 DEF QueuedTimers, Queued
<1>4. ASSUME NEW k \in QueuedTimers' PROVE k \in QueuedTimers /\ TimerEvent(k) # Head(queue)
  <2>1. PICK i \in DOMAIN queue' : queue'[i] = TimerEvent(k)
    BY DEF QueuedTimers, Queued, TimerEvent
  <2>2. i + 1 \in DOMAIN queue /\ queue[i + 1] = TimerEvent(k) /\ i + 1 # 1 /\ k \in Timers
    BY <1>0, <1>1, <2>1 DEF QueuedTimers
  <2>3. QED
    BY <1>1, <2>2 DEF QueuedTimers, Queued, PlaceInv
<1>5. ASSUME NEW k \in QueuedTimers, TimerEvent(k) # Head(queue) PROVE k \in QueuedTimers'
  <2>1. PICK i \in DOMAIN queue : queue[i] = TimerEvent(k)
    BY DEF QueuedTimers, Queued
  <2>2. i - 1 \in DOMAIN queue' /\ queue'[i - 1] = TimerEvent(k) /\ k \in Timers
    BY <1>0, <1>1, <1>5, <2>1 DEF QueuedTimers
  <2>3. QED
    BY <2>2 DEF QueuedTimers, Queued, TimerEvent
<1>6. QED
  BY <1>1, <1>2, <1>3, <1>4, <1>5 DEF QueuedTimers

LEMMA KeptFacts == queue' = queue => QueuedTimers' = QueuedTimers
BY DEF QueuedTimers, Queued, TimerEvent

\* A step that leaves the queue, the wheel and the timers alone.
LEMMA FrameStep ==
  ASSUME IInv, UNCHANGED <<queue, generation, heap, fired, delivered, timer, timer_generation>>,
         pc' \in [Pollers -> {"idle", "lock", "parked", "publish", "expired"}], to_wake' \in Nat,
         io' \subseteq Sources
  PROVE  IInv'
<1>1. QueuedTimers' = QueuedTimers
  BY KeptFacts
<1>2. ShapeInv' /\ ScheduledInv' /\ CurrentInv'
  BY <1>1 DEF IInv, ShapeInv, ScheduledInv, CurrentInv
<1>3. PlaceInv'
  BY <1>1 DEF IInv, PlaceInv, TimerEvent
<1>4. QED
  BY <1>2, <1>3 DEF IInv

LEMMA Step == IInv /\ [Next]_vars => IInv'
<1> SUFFICES ASSUME IInv, [Next]_vars PROVE IInv'
  OBVIOUS
<1> USE DEF stateVars, wheelVars, osVars, threadVars
<1>1. CASE WriteWaker
  BY <1>1, FrameStep DEF WriteWaker, IInv, ShapeInv
<1>2. ASSUME NEW p \in Pollers, PollEmpty(p) PROVE IInv'
  BY <1>2, FrameStep DEF PollEmpty, Goto, IInv, ShapeInv
<1>3. ASSUME NEW p \in Pollers, Park(p) PROVE IInv'
  BY <1>3, FrameStep DEF Park, Goto, IInv, ShapeInv
<1>4. ASSUME NEW p \in Pollers, Unpark(p) PROVE IInv'
  BY <1>4, FrameStep DEF Unpark, Goto, IInv, ShapeInv
<1>5. ASSUME NEW p \in Pollers, TimeOut(p) PROVE IInv'
  BY <1>5, FrameStep DEF TimeOut, Goto, IInv, ShapeInv
<1>6. ASSUME NEW p \in Pollers, StillEmpty(p) PROVE IInv'
  BY <1>6, FrameStep DEF StillEmpty, Goto, IInv, ShapeInv
<1>7. ASSUME NEW s \in Sources, BecomesReady(s) PROVE IInv'
  BY <1>7, FrameStep DEF BecomesReady, IInv, ShapeInv
<1>8. ASSUME NEW s \in Sources, InsertToken(s) PROVE IInv'
  BY <1>8, FrameStep DEF InsertToken, StepReg, IInv, ShapeInv
<1>9. ASSUME NEW s \in Sources, RegisterSource(s) PROVE IInv'
  BY <1>9, FrameStep DEF RegisterSource, StepReg, IInv, ShapeInv
<1>10. ASSUME NEW s \in Sources, RollbackRegistration(s) PROVE IInv'
  BY <1>10, FrameStep DEF RollbackRegistration, StepReg, IInv, ShapeInv
<1>11. ASSUME NEW s \in Sources, DeregisterSource(s) PROVE IInv'
  BY <1>11, FrameStep DEF DeregisterSource, StepReg, IInv, ShapeInv
<1>12. ASSUME NEW s \in Sources, RemoveToken(s) PROVE IInv'
  BY <1>12, FrameStep DEF RemoveToken, StepReg, IInv, ShapeInv
<1>13. CASE WakeTask
  <2>0. /\ queue' \in Seq(Events) /\ QueuedTimers' = QueuedTimers
        /\ \A l \in Timers, i, j \in DOMAIN queue' :
             queue'[i] = TimerEvent(l) /\ queue'[j] = TimerEvent(l) => i = j
    <3>1. \A l \in Timers : TaskWake # TimerEvent(l)
      BY EventFacts
    <3>2. QED
      BY <1>13, <3>1, AppendFacts, EventFacts DEF WakeTask, IInv, QueuedTimers
  <2>1. ShapeInv'
    BY <1>13, <2>0 DEF WakeTask, IInv, ShapeInv
  <2>2. ScheduledInv'
    BY <1>13, <2>0 DEF WakeTask, IInv, ScheduledInv, ShapeInv
  <2>3. PlaceInv'
    BY <1>13, <2>0 DEF WakeTask, IInv, PlaceInv, ShapeInv, ScheduledInv, TimerEvent
  <2>4. CurrentInv'
    BY <1>13, <2>0 DEF WakeTask, IInv, CurrentInv, ShapeInv, ScheduledInv
  <2>5. QED
    BY <2>1, <2>2, <2>3, <2>4 DEF IInv
<1>14. ASSUME NEW p \in Pollers, Publish(p) PROVE IInv'
  <2>0. /\ queue' \in Seq(Events) /\ QueuedTimers' = QueuedTimers
        /\ \A l \in Timers, i, j \in DOMAIN queue' :
             queue'[i] = TimerEvent(l) /\ queue'[j] = TimerEvent(l) => i = j
    <3>1. PICK s \in got[p] : queue' = IF s \in io THEN Append(queue, IoEvent(s)) ELSE queue
      BY <1>14 DEF Publish
    <3>2. CASE s \in io
      <4>1. queue' = Append(queue, IoEvent(s)) /\ s \in Sources
        BY <3>1, <3>2 DEF IInv, ShapeInv
      <4>2. \A l \in Timers : IoEvent(s) # TimerEvent(l)
        BY <4>1, EventFacts
      <4>3. QED
        BY <4>1, <4>2, AppendFacts, EventFacts DEF IInv, QueuedTimers
    <3>3. CASE s \notin io
      BY <3>1, <3>3, KeptFacts DEF IInv, ShapeInv, PlaceInv
    <3>4. QED
      BY <3>2, <3>3
  <2>1. ShapeInv'
    BY <1>14, <2>0 DEF Publish, IInv, ShapeInv
  <2>2. ScheduledInv'
    BY <1>14, <2>0 DEF Publish, IInv, ScheduledInv, ShapeInv
  <2>3. PlaceInv'
    BY <1>14, <2>0 DEF Publish, IInv, PlaceInv, ShapeInv, ScheduledInv, TimerEvent
  <2>4. CurrentInv'
    BY <1>14, <2>0 DEF Publish, IInv, CurrentInv, ShapeInv, ScheduledInv
  <2>5. QED
    BY <2>1, <2>2, <2>3, <2>4 DEF IInv
<1>15. ASSUME NEW p \in Pollers, PollQueued(p) PROVE IInv'
  <2>0. /\ queue' \in Seq(Events)
        /\ QueuedTimers' = QueuedTimers \ {l \in Timers : TimerEvent(l) = Head(queue)}
        /\ \A l \in Timers : TimerEvent(l) = Head(queue) => l \in QueuedTimers
        /\ \A l \in Timers, i, j \in DOMAIN queue' :
             queue'[i] = TimerEvent(l) /\ queue'[j] = TimerEvent(l) => i = j
    BY <1>15, TailFacts DEF PollQueued, Pop, IInv
  <2>1. ShapeInv'
    BY <1>15, <2>0 DEF PollQueued, Pop, Goto, IInv, ShapeInv
  <2>2. ScheduledInv'
    BY <1>15, <2>0 DEF PollQueued, Pop, Goto, IInv, ScheduledInv, ShapeInv
  <2>3. PlaceInv'
    BY <1>15, <2>0 DEF PollQueued, Pop, Goto, IInv, PlaceInv, ShapeInv, ScheduledInv, TimerEvent
  <2>4. CurrentInv'
    BY <1>15, <2>0 DEF PollQueued, Pop, Goto, IInv, CurrentInv, ShapeInv, ScheduledInv
  <2>5. QED
    BY <2>1, <2>2, <2>3, <2>4 DEF IInv
<1>16. ASSUME NEW p \in Pollers, PollAgain(p) PROVE IInv'
  <2>0. /\ queue' \in Seq(Events)
        /\ QueuedTimers' = QueuedTimers \ {l \in Timers : TimerEvent(l) = Head(queue)}
        /\ \A l \in Timers : TimerEvent(l) = Head(queue) => l \in QueuedTimers
        /\ \A l \in Timers, i, j \in DOMAIN queue' :
             queue'[i] = TimerEvent(l) /\ queue'[j] = TimerEvent(l) => i = j
    BY <1>16, TailFacts DEF PollAgain, Pop, IInv
  <2>1. ShapeInv'
    BY <1>16, <2>0 DEF PollAgain, Pop, Goto, IInv, ShapeInv
  <2>2. ScheduledInv'
    BY <1>16, <2>0 DEF PollAgain, Pop, Goto, IInv, ScheduledInv, ShapeInv
  <2>3. PlaceInv'
    BY <1>16, <2>0 DEF PollAgain, Pop, Goto, IInv, PlaceInv, ShapeInv, ScheduledInv, TimerEvent
  <2>4. CurrentInv'
    BY <1>16, <2>0 DEF PollAgain, Pop, Goto, IInv, CurrentInv, ShapeInv, ScheduledInv
  <2>5. QED
    BY <2>1, <2>2, <2>3, <2>4 DEF IInv
<1>17. ASSUME NEW k \in Timers, TimerRefused(k) PROVE IInv'
  <2>0. QueuedTimers' = QueuedTimers /\ queue' = queue
    BY <1>17, KeptFacts DEF TimerRefused, StepTimer
  <2>1. ShapeInv'
    BY <1>17, <2>0 DEF TimerRefused, StepTimer, IInv, ShapeInv
  <2>2. ScheduledInv'
    BY <1>17, <2>0 DEF TimerRefused, StepTimer, IInv, ScheduledInv, ShapeInv
  <2>3. PlaceInv'
    BY <1>17, <2>0 DEF TimerRefused, StepTimer, IInv, PlaceInv, ShapeInv, ScheduledInv, TimerEvent
  <2>4. CurrentInv'
    BY <1>17, <2>0 DEF TimerRefused, StepTimer, IInv, CurrentInv, ShapeInv, ScheduledInv
  <2>5. QED
    BY <2>1, <2>2, <2>3, <2>4 DEF IInv
<1>18. ASSUME NEW k \in Timers, ReadGeneration(k) PROVE IInv'
  <2>0. QueuedTimers' = QueuedTimers /\ queue' = queue
    BY <1>18, KeptFacts DEF ReadGeneration, StepTimer
  <2>1. ShapeInv'
    BY <1>18, <2>0 DEF ReadGeneration, StepTimer, IInv, ShapeInv
  <2>2. ScheduledInv'
    BY <1>18, <2>0 DEF ReadGeneration, StepTimer, IInv, ScheduledInv, ShapeInv
  <2>3. PlaceInv'
    BY <1>18, <2>0 DEF ReadGeneration, StepTimer, IInv, PlaceInv, ShapeInv, ScheduledInv, TimerEvent
  <2>4. CurrentInv'
    BY <1>18, <2>0 DEF ReadGeneration, StepTimer, IInv, CurrentInv, ShapeInv, ScheduledInv
  <2>5. QED
    BY <2>1, <2>2, <2>3, <2>4 DEF IInv
<1>19. ASSUME NEW k \in Timers, ScheduleTimer(k) PROVE IInv'
  <2>0. QueuedTimers' = QueuedTimers /\ queue' = queue
    BY <1>19, KeptFacts DEF ScheduleTimer, StepTimer
  <2>1. ShapeInv'
    BY <1>19, <2>0 DEF ScheduleTimer, StepTimer, IInv, ShapeInv
  <2>2. ScheduledInv'
    BY <1>19, <2>0 DEF ScheduleTimer, StepTimer, IInv, ScheduledInv, ShapeInv
  <2>3. PlaceInv'
    BY <1>19, <2>0 DEF ScheduleTimer, StepTimer, IInv, PlaceInv, ShapeInv, ScheduledInv, TimerEvent
  <2>4. CurrentInv'
    BY <1>19, <2>0 DEF ScheduleTimer, StepTimer, IInv, CurrentInv, ShapeInv, ScheduledInv
  <2>5. QED
    BY <2>1, <2>2, <2>3, <2>4 DEF IInv
<1>20. ASSUME NEW k \in Timers, TimerDue(k) PROVE IInv'
  <2>0. QueuedTimers' = QueuedTimers /\ queue' = queue
    BY <1>20, KeptFacts DEF TimerDue
  <2>1. ShapeInv'
    BY <1>20, <2>0 DEF TimerDue, IInv, ShapeInv
  <2>2. ScheduledInv'
    BY <1>20, <2>0 DEF TimerDue, IInv, ScheduledInv, ShapeInv
  <2>3. PlaceInv'
    BY <1>20, <2>0 DEF TimerDue, IInv, PlaceInv, ShapeInv, ScheduledInv, TimerEvent
  <2>4. CurrentInv'
    BY <1>20, <2>0 DEF TimerDue, IInv, CurrentInv, ShapeInv, ScheduledInv
  <2>5. QED
    BY <2>1, <2>2, <2>3, <2>4 DEF IInv
<1>21. ASSUME NEW k \in Timers, PushTimer(k) PROVE IInv'
  <2>1. CASE timer_generation[k] # generation
    <3>0. QueuedTimers' = QueuedTimers /\ queue' = queue /\ to_wake' = to_wake
      BY <1>21, <2>1, KeptFacts DEF PushTimer
    <3>1. ShapeInv' /\ ScheduledInv' /\ CurrentInv'
      BY <1>21, <3>0 DEF PushTimer, IInv, ShapeInv, ScheduledInv, CurrentInv
    <3>2. PlaceInv'
      BY <1>21, <3>0 DEF PushTimer, IInv, PlaceInv, TimerEvent
    <3>3. QED
      BY <3>1, <3>2 DEF IInv
  <2>2. CASE timer_generation[k] = generation
    <3>1. queue' = Append(queue, TimerEvent(k)) /\ to_wake' = to_wake + 1 /\ k \in fired /\ k \in Timers
      BY <1>21, <2>2 DEF PushTimer, IInv, ShapeInv
    <3>2. \A l \in QueuedTimers : TimerEvent(k) # TimerEvent(l)
      BY <3>1, EventFacts DEF IInv, PlaceInv, QueuedTimers
    <3>3. /\ queue' \in Seq(Events)
          /\ QueuedTimers' = QueuedTimers \cup {l \in Timers : TimerEvent(k) = TimerEvent(l)}
          /\ \A l \in Timers, i, j \in DOMAIN queue' :
               queue'[i] = TimerEvent(l) /\ queue'[j] = TimerEvent(l) => i = j
      BY <3>1, <3>2, AppendFacts, EventFacts DEF IInv
    <3>4. QueuedTimers' = QueuedTimers \cup {k}
      BY <3>3, EventFacts
    <3>5. ShapeInv' /\ ScheduledInv' /\ CurrentInv'
      <4>1. /\ fired' = fired \ {k} /\ UNCHANGED <<io, heap, generation, delivered>>
            /\ UNCHANGED <<timer, timer_generation, pc>>
        BY <1>21 DEF PushTimer, threadVars
      <4>2. ShapeInv'
        BY <3>1, <3>3, <4>1 DEF IInv, ShapeInv
      <4>3. ScheduledInv'
        BY <3>1, <3>4, <4>1 DEF IInv, ScheduledInv
      <4>4. CurrentInv'
        BY <2>2, <3>4, <4>1 DEF IInv, CurrentInv
      <4>5. QED
        BY <4>2, <4>3, <4>4
    <3>6. PlaceInv'
      <4>1. fired' = fired \ {k} /\ heap' = heap /\ delivered' = delivered
        BY <1>21 DEF PushTimer
      <4>2. /\ heap' \cap fired' = {}
            /\ QueuedTimers' \cap (heap' \cup fired' \cup delivered') = {}
            /\ delivered' \cap (heap' \cup fired') = {}
        BY <3>1, <3>4, <4>1 DEF IInv, PlaceInv
      <4>3. QED
        BY <3>3, <4>2 DEF PlaceInv, TimerEvent
    <3>7. QED
      BY <3>5, <3>6 DEF IInv
  <2>3. QED
    BY <2>1, <2>2
<1>22. CASE ResetState
  <2>0. queue' = <<>> /\ QueuedTimers' = {}
    BY <1>22 DEF ResetState, QueuedTimers, Queued
  <2>1. ShapeInv'
    BY <1>22, <2>0 DEF ResetState, IInv, ShapeInv
  <2>2. ScheduledInv'
    BY <1>22, <2>0 DEF ResetState, IInv, ScheduledInv, ShapeInv
  <2>3. PlaceInv'
    <3>1. UNCHANGED <<heap, fired, delivered>> /\ DOMAIN queue' = {}
      BY <1>22, <2>0 DEF ResetState
    <3>2. QED
      BY <2>0, <3>1 DEF IInv, PlaceInv, TimerEvent
  <2>4. CurrentInv'
    BY <1>22, <2>0 DEF ResetState, IInv, CurrentInv, ShapeInv, ScheduledInv
  <2>5. QED
    BY <2>1, <2>2, <2>3, <2>4 DEF IInv
<1>23. CASE ResetHeap
  <2>0. QueuedTimers' = QueuedTimers /\ queue' = queue
    BY <1>23, KeptFacts DEF ResetHeap
  <2>1. ShapeInv'
    BY <1>23, <2>0 DEF ResetHeap, IInv, ShapeInv
  <2>2. ScheduledInv'
    BY <1>23, <2>0 DEF ResetHeap, IInv, ScheduledInv, ShapeInv
  <2>3. PlaceInv'
    BY <1>23, <2>0 DEF ResetHeap, IInv, PlaceInv, ShapeInv, ScheduledInv, TimerEvent
  <2>4. CurrentInv'
    BY <1>23, <2>0 DEF ResetHeap, IInv, CurrentInv, ShapeInv, ScheduledInv
  <2>5. QED
    BY <2>1, <2>2, <2>3, <2>4 DEF IInv
<1>24. CASE UNCHANGED vars
  BY <1>24, FrameStep DEF vars, IInv, ShapeInv
<1>25. QED
  BY <1>1, <1>2, <1>3, <1>4, <1>5, <1>6, <1>7, <1>8, <1>9, <1>10, <1>11, <1>12, <1>13, <1>14, <1>15, <1>16, <1>17, <1>18, <1>19, <1>20, <1>21, <1>22, <1>23, <1>24 DEF Next, Poll, Register, Timer

LEMMA Invariant == Spec => []IInv
<1>1. Init => IInv
  BY DEF Init, IInv, ShapeInv, ScheduledInv, PlaceInv, CurrentInv, QueuedTimers, Queued
<1>2. QED
  BY <1>1, Step, PTL DEF Spec

\* No timer registered before a reset is ever delivered after it, however the
\* registering thread, the driver and the reset interleave.
THEOREM NoStaleTimer == Spec => []QueuedTimersAreCurrent
<1>1. IInv => QueuedTimersAreCurrent
  BY DEF IInv, CurrentInv, QueuedTimersAreCurrent, QueuedTimers
<1>2. QED
  BY <1>1, Invariant, PTL

\* Every timer is in at most one of the heap, the driver's hands, the queue and
\* the hands of a poller: none fires twice.
THEOREM NoTimerFiresTwice == Spec => []TimerFiresOnce
<1>1. IInv => TimerFiresOnce
  BY DEF IInv, PlaceInv, TimerFiresOnce, QueuedTimers
<1>2. QED
  BY <1>1, Invariant, PTL

-----------------------------------------------------------------------------
(* Any number of pollers                                                    *)

\* The parked poller is the one that holds the multiplexer, so that nobody else can
\* consume the write by which a reset announces itself.
SeenInv ==
  /\ parked_in \in [Pollers -> Nat]
  /\ \A p \in Pollers : pc[p] = "parked" =>
       /\ poll = p
       /\ parked_in[p] # generation => wake = TRUE \/ to_wake > 0 \/ reset = "heap"

LEMMA SeenStep ==
  ASSUME IInv, SeenInv, [Next]_vars
  PROVE  SeenInv'
<1> USE DEF stateVars, wheelVars, osVars, threadVars
<1>0. /\ to_wake \in Nat /\ pc \in [Pollers -> {"idle", "lock", "parked", "publish", "expired"}]
      /\ None \notin Pollers /\ generation \in Nat
  BY ReactorAssumption DEF IInv, ShapeInv
<1>1. CASE WakeTask
  BY <1>0, <1>1 DEF SeenInv, WakeTask
<1>2. CASE WriteWaker
  BY <1>0, <1>2 DEF SeenInv, WriteWaker
<1>3. CASE ResetState
  BY <1>0, <1>3 DEF SeenInv, ResetState
<1>4. CASE ResetHeap
  BY <1>0, <1>4 DEF SeenInv, ResetHeap
<1>5. ASSUME NEW p \in Pollers, PollQueued(p) PROVE SeenInv'
  BY <1>0, <1>5 DEF SeenInv, PollQueued, Pop, Goto
<1>6. ASSUME NEW p \in Pollers, PollAgain(p) PROVE SeenInv'
  BY <1>0, <1>6 DEF SeenInv, PollAgain, Pop, Goto
<1>7. ASSUME NEW p \in Pollers, PollEmpty(p) PROVE SeenInv'
  BY <1>0, <1>7 DEF SeenInv, PollEmpty, Goto
<1>8. ASSUME NEW p \in Pollers, Park(p) PROVE SeenInv'
  BY <1>0, <1>8 DEF SeenInv, Park, Goto
<1>9. ASSUME NEW p \in Pollers, Unpark(p) PROVE SeenInv'
  BY <1>0, <1>9 DEF SeenInv, Unpark, Goto
<1>10. ASSUME NEW p \in Pollers, TimeOut(p) PROVE SeenInv'
  BY <1>0, <1>10 DEF SeenInv, TimeOut, Goto
<1>11. ASSUME NEW p \in Pollers, StillEmpty(p) PROVE SeenInv'
  BY <1>0, <1>11 DEF SeenInv, StillEmpty, Goto
<1>12. ASSUME NEW p \in Pollers, Publish(p) PROVE SeenInv'
  BY <1>0, <1>12 DEF SeenInv, Publish
<1>13. ASSUME NEW s \in Sources, BecomesReady(s) PROVE SeenInv'
  BY <1>0, <1>13 DEF SeenInv, BecomesReady
<1>14. ASSUME NEW s \in Sources, InsertToken(s) PROVE SeenInv'
  BY <1>0, <1>14 DEF SeenInv, InsertToken, StepReg
<1>15. ASSUME NEW s \in Sources, RegisterSource(s) PROVE SeenInv'
  BY <1>0, <1>15 DEF SeenInv, RegisterSource, StepReg
<1>16. ASSUME NEW s \in Sources, RollbackRegistration(s) PROVE SeenInv'
  BY <1>0, <1>16 DEF SeenInv, RollbackRegistration, StepReg
<1>17. ASSUME NEW s \in Sources, DeregisterSource(s) PROVE SeenInv'
  BY <1>0, <1>17 DEF SeenInv, DeregisterSource, StepReg
<1>18. ASSUME NEW s \in Sources, RemoveToken(s) PROVE SeenInv'
  BY <1>0, <1>18 DEF SeenInv, RemoveToken, StepReg
<1>19. ASSUME NEW k \in Timers, TimerRefused(k) PROVE SeenInv'
  BY <1>0, <1>19 DEF SeenInv, TimerRefused, StepTimer
<1>20. ASSUME NEW k \in Timers, ReadGeneration(k) PROVE SeenInv'
  BY <1>0, <1>20 DEF SeenInv, ReadGeneration, StepTimer
<1>21. ASSUME NEW k \in Timers, ScheduleTimer(k) PROVE SeenInv'
  BY <1>0, <1>21 DEF SeenInv, ScheduleTimer, StepTimer
<1>22. ASSUME NEW k \in Timers, TimerDue(k) PROVE SeenInv'
  BY <1>0, <1>22 DEF SeenInv, TimerDue
<1>23. ASSUME NEW k \in Timers, PushTimer(k) PROVE SeenInv'
  BY <1>0, <1>23 DEF SeenInv, PushTimer
<1>24. CASE UNCHANGED vars
  BY <1>24 DEF SeenInv, vars
<1>25. QED
  BY <1>1, <1>2, <1>3, <1>4, <1>5, <1>6, <1>7, <1>8, <1>9, <1>10, <1>11, <1>12, <1>13, <1>14, <1>15, <1>16, <1>17, <1>18, <1>19, <1>20, <1>21, <1>22, <1>23, <1>24 DEF Next, Poll, Register, Timer

LEMMA SeenInvariant == Spec => []SeenInv
<1>1. Init => SeenInv
  BY DEF Init, SeenInv
<1>2. IInv /\ SeenInv /\ [Next]_vars => SeenInv'
  BY SeenStep
<1>3. QED
  BY <1>1, <1>2, Invariant, PTL DEF Spec

\* A reset reaches the poller that is parked, however many others wait for the
\* multiplexer: the half of ParkedPollerIsWoken that does not need a lone poller.
THEOREM ResetReachesParked ==
  Spec => [](\A p \in Pollers : pc[p] = "parked" /\ parked_in[p] # generation
                                 => wake \/ to_wake > 0 \/ reset = "heap")
<1>1. SeenInv => \A p \in Pollers : pc[p] = "parked" /\ parked_in[p] # generation
                                     => wake \/ to_wake > 0 \/ reset = "heap"
  BY DEF SeenInv
<1>2. QED
  BY <1>1, SeenInvariant, PTL

-----------------------------------------------------------------------------
(* One poller                                                               *)

\* From the moment it has found the queue empty, an event is announced by the
\* waker or about to be.
AnnouncedInv ==
  \A p \in Pollers : pc[p] \in {"lock", "parked"} /\ queue # <<>> => wake = TRUE \/ to_wake > 0

LEMMA AnnouncedStep ==
  ASSUME \A p, q \in Pollers : p = q, IInv, AnnouncedInv, [Next]_vars
  PROVE  AnnouncedInv'
<1> USE DEF stateVars, wheelVars, osVars, threadVars
<1>0. to_wake \in Nat /\ pc \in [Pollers -> {"idle", "lock", "parked", "publish", "expired"}]
  BY DEF IInv, ShapeInv
<1>1. CASE WakeTask
  BY <1>0, <1>1 DEF AnnouncedInv, WakeTask
<1>2. CASE WriteWaker
  BY <1>0, <1>2 DEF AnnouncedInv, WriteWaker
<1>3. CASE ResetState
  BY <1>0, <1>3 DEF AnnouncedInv, ResetState
<1>4. CASE ResetHeap
  BY <1>0, <1>4 DEF AnnouncedInv, ResetHeap
<1>5. ASSUME NEW p \in Pollers, PollQueued(p) PROVE AnnouncedInv'
  BY <1>0, <1>5 DEF AnnouncedInv, PollQueued, Pop, Goto
<1>6. ASSUME NEW p \in Pollers, PollAgain(p) PROVE AnnouncedInv'
  BY <1>0, <1>6 DEF AnnouncedInv, PollAgain, Pop, Goto
<1>7. ASSUME NEW p \in Pollers, PollEmpty(p) PROVE AnnouncedInv'
  BY <1>0, <1>7 DEF AnnouncedInv, PollEmpty, Goto
<1>8. ASSUME NEW p \in Pollers, Park(p) PROVE AnnouncedInv'
  BY <1>0, <1>8 DEF AnnouncedInv, Park, Goto
<1>9. ASSUME NEW p \in Pollers, Unpark(p) PROVE AnnouncedInv'
  BY <1>0, <1>9 DEF AnnouncedInv, Unpark, Goto
<1>10. ASSUME NEW p \in Pollers, TimeOut(p) PROVE AnnouncedInv'
  BY <1>0, <1>10 DEF AnnouncedInv, TimeOut, Goto
<1>11. ASSUME NEW p \in Pollers, StillEmpty(p) PROVE AnnouncedInv'
  BY <1>0, <1>11 DEF AnnouncedInv, StillEmpty, Goto
<1>12. ASSUME NEW p \in Pollers, Publish(p) PROVE AnnouncedInv'
  BY <1>0, <1>12 DEF AnnouncedInv, Publish
<1>13. ASSUME NEW s \in Sources, BecomesReady(s) PROVE AnnouncedInv'
  BY <1>0, <1>13 DEF AnnouncedInv, BecomesReady
<1>14. ASSUME NEW s \in Sources, InsertToken(s) PROVE AnnouncedInv'
  BY <1>0, <1>14 DEF AnnouncedInv, InsertToken, StepReg
<1>15. ASSUME NEW s \in Sources, RegisterSource(s) PROVE AnnouncedInv'
  BY <1>0, <1>15 DEF AnnouncedInv, RegisterSource, StepReg
<1>16. ASSUME NEW s \in Sources, RollbackRegistration(s) PROVE AnnouncedInv'
  BY <1>0, <1>16 DEF AnnouncedInv, RollbackRegistration, StepReg
<1>17. ASSUME NEW s \in Sources, DeregisterSource(s) PROVE AnnouncedInv'
  BY <1>0, <1>17 DEF AnnouncedInv, DeregisterSource, StepReg
<1>18. ASSUME NEW s \in Sources, RemoveToken(s) PROVE AnnouncedInv'
  BY <1>0, <1>18 DEF AnnouncedInv, RemoveToken, StepReg
<1>19. ASSUME NEW k \in Timers, TimerRefused(k) PROVE AnnouncedInv'
  BY <1>0, <1>19 DEF AnnouncedInv, TimerRefused, StepTimer
<1>20. ASSUME NEW k \in Timers, ReadGeneration(k) PROVE AnnouncedInv'
  BY <1>0, <1>20 DEF AnnouncedInv, ReadGeneration, StepTimer
<1>21. ASSUME NEW k \in Timers, ScheduleTimer(k) PROVE AnnouncedInv'
  BY <1>0, <1>21 DEF AnnouncedInv, ScheduleTimer, StepTimer
<1>22. ASSUME NEW k \in Timers, TimerDue(k) PROVE AnnouncedInv'
  BY <1>0, <1>22 DEF AnnouncedInv, TimerDue
<1>23. ASSUME NEW k \in Timers, PushTimer(k) PROVE AnnouncedInv'
  BY <1>0, <1>23 DEF AnnouncedInv, PushTimer
<1>24. CASE UNCHANGED vars
  BY <1>24 DEF AnnouncedInv, vars
<1>25. QED
  BY <1>1, <1>2, <1>3, <1>4, <1>5, <1>6, <1>7, <1>8, <1>9, <1>10, <1>11, <1>12, <1>13, <1>14, <1>15, <1>16, <1>17, <1>18, <1>19, <1>20, <1>21, <1>22, <1>23, <1>24 DEF Next, Poll, Register, Timer

\* However many threads push events, a lone poller never stays parked over one, nor
\* through a reset.
\* (With a second poller the waker's one pending write may be consumed by the
\* thread that needs it least.)
THEOREM LonePollerIsWoken ==
  (\A p, q \in Pollers : p = q) => (Spec => []ParkedPollerIsWoken)
<1> SUFFICES ASSUME \A p, q \in Pollers : p = q PROVE Spec => []ParkedPollerIsWoken
  OBVIOUS
<1>1. Init => AnnouncedInv
  BY DEF Init, AnnouncedInv
<1>2. IInv /\ AnnouncedInv /\ [Next]_vars => AnnouncedInv'
  BY AnnouncedStep
<1>3. AnnouncedInv /\ SeenInv => ParkedPollerIsWoken
  BY DEF AnnouncedInv, SeenInv, ParkedPollerIsWoken
<1>4. QED
  BY <1>1, <1>2, <1>3, Invariant, SeenInvariant, PTL DEF Spec
=============================================================================
