--------------------------- MODULE ConnectionPool ---------------------------
(***************************************************************************)
(* ConnectionPool<F>, the pool behind the SQLite, PostgreSQL and Redis     *)
(* drivers.  Clients are threads in acquire_blocking; futures are          *)
(* AcquireFutures, polled and dropped by their owner and served by two     *)
(* threads of their own, one that connects and one that sleeps until the   *)
(* acquisition timeout.  An action is a critical section of the state      *)
(* mutex, or one access to the shared half of a future (Waiter).           *)
(*                                                                         *)
(* Time is abstracted: a deadline may have passed whenever the code looks, *)
(* and an idle connection may have been idle for too long.  A connection   *)
(* may fail to open, and may be found broken when it is returned.  Metrics *)
(* and spans are left out, and the pool lives as long as its callers.      *)
(***************************************************************************)
EXTENDS Integers, Sequences, FiniteSets, Retain

CONSTANTS
  Clients,   \* threads that acquire with acquire_blocking
  Futures,   \* futures of acquire
  Conns,     \* names of connections; a closed one may be used again
  MinSize, MaxSize,
  None, Err  \* no connection; an error delivered to a future

ASSUME PoolAssumption ==
  /\ MinSize \in Nat /\ MaxSize \in Nat \ {0} /\ MinSize <= MaxSize
  /\ None \notin Conns /\ Err \notin Conns /\ None # Err

VARIABLES
  idle, waiters, total, checked_out, closed, \* State
  open,        \* connections that are open
  pc, conn,    \* per client: where it is in acquire_blocking and what it holds
  fpc, lease,  \* per future: where it is, and the lease its owner took from it
  result, cancelled,        \* per future: Waiter
  connector, fconn, timer,  \* per future: its two threads
  dropping,    \* leases whose last owner is dropping them
  sd,          \* the thread in shutdown
  missed       \* history: clients that were between two looks at the pool when
               \* something became available

stateVars == <<idle, waiters, total, checked_out, closed, open>>
futureVars == <<fpc, lease, result, cancelled, connector, fconn, timer>>
vars == <<stateVars, pc, conn, futureVars, dropping, sd, missed>>

\* What new leaves: min_size idle connections.
Init ==
  /\ idle \in {s \in [1..MinSize -> Conns] : \A i, j \in 1..MinSize : s[i] = s[j] => i = j}
  /\ waiters = <<>> /\ total = MinSize /\ checked_out = 0 /\ closed = FALSE
  /\ open = {idle[i] : i \in 1..MinSize}
  /\ pc = [b \in Clients |-> "out"] /\ conn = [b \in Clients |-> None]
  /\ fpc = [f \in Futures |-> "new"] /\ lease = [f \in Futures |-> None]
  /\ result = [f \in Futures |-> None] /\ cancelled = [f \in Futures |-> FALSE]
  /\ connector = [f \in Futures |-> "none"] /\ fconn = [f \in Futures |-> None]
  /\ timer = [f \in Futures |-> "none"]
  /\ dropping = {} /\ sd = "none" /\ missed = {}

-----------------------------------------------------------------------------
(* Parts of the critical sections                                          *)

\* saturating_sub(1)
Less(n) == IF n = 0 THEN 0 ELSE n - 1

\* state_changed.notify_all()
Notify ==
  /\ pc' = [b \in Clients |-> IF pc[b] = "parked" THEN "taking" ELSE pc[b]]
  /\ sd' = IF sd = "waiting" THEN "woken" ELSE sd

\* The same for client b, which goes to p itself.
NotifyAnd(b, p) ==
  /\ pc' = [d \in Clients |-> CASE d = b -> p
                                [] pc[d] = "parked" -> "taking"
                                [] OTHER -> pc[d]]
  /\ sd' = IF sd = "waiting" THEN "woken" ELSE sd

\* Something became available: who has looked and not yet parked will not know.
Miss == missed' = missed \cup {b \in Clients : pc[b] = "exhausted"}

\* reap_idle, when the first k idle connections have been idle for too long.
Reapable == {k \in 0..Len(idle) : total - k >= MinSize \/ k = 0}
Reaped(k) == {idle[i] : i \in 1..k}
AfterReap(k) == SubSeq(idle, k + 1, Len(idle))

\* pop_live_waiter: position of the first waiter that is not cancelled.
LiveWaiters == {i \in DOMAIN waiters : ~cancelled[waiters[i]]}
FirstLive == CHOOSE i \in LiveWaiters : \A j \in LiveWaiters : i <= j

\* Mutant of Discard: the discarded connection still counts.
DiscardUncounted(c) ==
  /\ open' = open \ {c}
  /\ UNCHANGED <<idle, waiters, total, result>>

\* release_raw, in its three branches; the caller says whether c is valid.
Discard(c) ==
  /\ total' = Less(total) /\ open' = open \ {c}
  /\ UNCHANGED <<idle, waiters, result>>

HandOver(c) ==
  /\ result' = [result EXCEPT ![waiters[FirstLive]] = c]
  /\ waiters' = SubSeq(waiters, FirstLive + 1, Len(waiters))
  /\ UNCHANGED <<idle, total, open>>

PushIdle(c) ==
  /\ idle' = Append(idle, c)
  /\ waiters' = <<>>
  /\ UNCHANGED <<total, open, result>>

ReleaseRaw(c, valid) ==
  /\ checked_out' = Less(checked_out)
  /\ CASE closed \/ ~valid -> Discard(c)
       [] ~closed /\ valid /\ LiveWaiters # {} -> HandOver(c)
       [] OTHER -> PushIdle(c)
  /\ Miss
  /\ UNCHANGED closed

-----------------------------------------------------------------------------
(* acquire_blocking                                                        *)

\* A thread calls acquire_blocking.
Acquire(b) ==
  /\ pc[b] = "out" /\ pc' = [pc EXCEPT ![b] = "taking"]
  /\ UNCHANGED <<stateVars, conn, futureVars, dropping, sd, missed>>

\* take_idle_or_reserve.  The deadline is looked at right after a connection is
\* found: "late" gives it back as invalid.
TakeClosed(b) ==
  /\ pc[b] = "taking" /\ closed
  /\ pc' = [pc EXCEPT ![b] = "out"]
  /\ UNCHANGED <<stateVars, conn, futureVars, dropping, sd, missed>>

TakeIdle(b, k) ==
  /\ pc[b] = "taking" /\ ~closed /\ k \in Reapable /\ k < Len(idle)
  /\ idle' = Tail(AfterReap(k)) /\ open' = open \ Reaped(k)
  /\ total' = total - k /\ checked_out' = checked_out + 1
  /\ conn' = [conn EXCEPT ![b] = idle[k + 1]]
  /\ \E p \in {"leased", "late"} : pc' = [pc EXCEPT ![b] = p]
  /\ missed' = missed \ {b}
  /\ UNCHANGED <<waiters, closed, futureVars, dropping, sd>>

Reserve(b) ==
  /\ pc[b] = "taking" /\ ~closed /\ Len(idle) \in Reapable
  /\ total - Len(idle) < MaxSize
  /\ idle' = <<>> /\ open' = open \ Reaped(Len(idle))
  /\ total' = total - Len(idle) + 1 /\ checked_out' = checked_out + 1
  /\ pc' = [pc EXCEPT ![b] = "connecting"]
  /\ missed' = missed \ {b}
  /\ UNCHANGED <<waiters, closed, conn, futureVars, dropping, sd>>

Unavailable(b) ==
  /\ pc[b] = "taking" /\ ~closed /\ idle = <<>> /\ total >= MaxSize
  /\ pc' = [pc EXCEPT ![b] = "exhausted"]
  /\ missed' = missed \ {b}
  /\ UNCHANGED <<stateVars, conn, futureVars, dropping, sd>>

\* The second critical section of the loop: it looks at closed and at the clock,
\* and parks without looking at the pool again.
WaitEnds(b) ==
  /\ pc[b] = "exhausted" /\ pc' = [pc EXCEPT ![b] = "out"]
  /\ UNCHANGED <<stateVars, conn, futureVars, dropping, sd, missed>>

Wait(b) ==
  /\ pc[b] = "exhausted" /\ ~closed /\ pc' = [pc EXCEPT ![b] = "parked"]
  /\ UNCHANGED <<stateVars, conn, futureVars, dropping, sd, missed>>

\* wait_timeout returns unnotified: at the deadline, or early.
WaitTimeout(b) ==
  /\ pc[b] = "parked" /\ pc' = [pc EXCEPT ![b] = "out"]
  /\ UNCHANGED <<stateVars, conn, futureVars, dropping, sd, missed>>

EarlyWakeup(b) ==
  /\ pc[b] = "parked" /\ pc' = [pc EXCEPT ![b] = "taking"]
  /\ UNCHANGED <<stateVars, conn, futureVars, dropping, sd, missed>>

\* connect_reserved_blocking without a connection: it opens one, or fails (or
\* takes too long and closes what it opened): mark_creation_failed.
ConnectOk(b, c) ==
  /\ pc[b] = "connecting" /\ c \notin open
  /\ open' = open \cup {c} /\ conn' = [conn EXCEPT ![b] = c]
  /\ \E p \in {"leased", "late"} : pc' = [pc EXCEPT ![b] = p]
  /\ UNCHANGED <<idle, waiters, total, checked_out, closed, futureVars, dropping, sd, missed>>

\* Mutant of ConnectFails: checked_out still counts the reservation.
ConnectFailsCheckedOut(b) ==
  /\ pc[b] = "connecting"
  /\ total' = Less(total)
  /\ NotifyAnd(b, "out") /\ Miss
  /\ UNCHANGED <<idle, waiters, checked_out, closed, open, conn, futureVars, dropping>>

ConnectFails(b) ==
  /\ pc[b] = "connecting"
  /\ total' = Less(total) /\ checked_out' = Less(checked_out)
  /\ NotifyAnd(b, "out") /\ Miss
  /\ UNCHANGED <<idle, waiters, closed, open, conn, futureVars, dropping>>

\* release, invalidate or Drop of a client's lease.
Release(b, valid) ==
  /\ pc[b] = "leased" \/ (pc[b] = "late" /\ ~valid)
  /\ ReleaseRaw(conn[b], valid)
  /\ conn' = [conn EXCEPT ![b] = None]
  /\ NotifyAnd(b, "out")
  /\ UNCHANGED <<fpc, lease, cancelled, connector, fconn, timer, dropping>>

-----------------------------------------------------------------------------
(* AcquireFuture: begin_async_acquire in its first poll.  A closed pool     *)
(* answers with an error at once, which changes nothing.                   *)

BeginIdle(f, k) ==
  /\ fpc[f] = "new" /\ lease[f] = None /\ ~closed /\ k \in Reapable /\ k < Len(idle)
  /\ idle' = Tail(AfterReap(k)) /\ open' = open \ Reaped(k)
  /\ total' = total - k /\ checked_out' = checked_out + 1
  /\ lease' = [lease EXCEPT ![f] = idle[k + 1]]
  /\ UNCHANGED <<waiters, closed, pc, conn, fpc, result, cancelled, connector, fconn, timer,
                 dropping, sd, missed>>

\* Mutant of BeginReserve: the waiter is queued as well.
BeginReserveQueued(f) ==
  /\ fpc[f] = "new" /\ lease[f] = None /\ ~closed /\ Len(idle) \in Reapable
  /\ total - Len(idle) < MaxSize
  /\ idle' = <<>> /\ open' = open \ Reaped(Len(idle))
  /\ total' = total - Len(idle) + 1 /\ checked_out' = checked_out + 1
  /\ waiters' = Append(waiters, f)
  /\ connector' = [connector EXCEPT ![f] = "connecting"]
  /\ timer' = [timer EXCEPT ![f] = "sleeping"]
  /\ fpc' = [fpc EXCEPT ![f] = "pending"]
  /\ UNCHANGED <<closed, pc, conn, lease, result, cancelled, fconn, dropping, sd, missed>>

BeginReserve(f) ==
  /\ fpc[f] = "new" /\ lease[f] = None /\ ~closed /\ Len(idle) \in Reapable
  /\ total - Len(idle) < MaxSize
  /\ idle' = <<>> /\ open' = open \ Reaped(Len(idle))
  /\ total' = total - Len(idle) + 1 /\ checked_out' = checked_out + 1
  /\ connector' = [connector EXCEPT ![f] = "connecting"]
  /\ timer' = [timer EXCEPT ![f] = "sleeping"]
  /\ fpc' = [fpc EXCEPT ![f] = "pending"]
  /\ UNCHANGED <<waiters, closed, pc, conn, lease, result, cancelled, fconn, dropping, sd, missed>>

BeginQueue(f) ==
  /\ fpc[f] = "new" /\ lease[f] = None /\ ~closed /\ idle = <<>> /\ total >= MaxSize
  /\ waiters' = Append(waiters, f)
  /\ timer' = [timer EXCEPT ![f] = "sleeping"]
  /\ fpc' = [fpc EXCEPT ![f] = "pending"]
  /\ UNCHANGED <<idle, total, checked_out, closed, open, pc, conn, lease, result, cancelled,
                 connector, fconn, dropping, sd, missed>>

-----------------------------------------------------------------------------
(* AcquireFuture: later polls, Drop, and the lease its owner took          *)

\* The waker is stored before the result is looked at, and deliver takes it
\* after the result is there: a poll always follows a delivery.
Poll(f) ==
  /\ fpc[f] = "pending" /\ result[f] # None
  /\ result' = [result EXCEPT ![f] = None]
  /\ lease' = [lease EXCEPT ![f] = IF result[f] = Err THEN None ELSE result[f]]
  /\ fpc' = [fpc EXCEPT ![f] = "ready"]
  /\ UNCHANGED <<stateVars, pc, conn, cancelled, connector, fconn, timer, dropping, sd, missed>>

\* Drop, of a future that is ready or whose owner gave up: it looks whether there
\* is a result, sets cancelled, and takes the waiter out of the queue, in three
\* separate steps.
DropCheck(f) ==
  /\ fpc[f] \in {"pending", "ready"}
  /\ fpc' = [fpc EXCEPT ![f] = IF result[f] = None THEN "cancelling" ELSE "gone"]
  /\ UNCHANGED <<stateVars, pc, conn, lease, result, cancelled, connector, fconn, timer,
                 dropping, sd, missed>>

DropCancel(f) ==
  /\ fpc[f] = "cancelling"
  /\ cancelled' = [cancelled EXCEPT ![f] = TRUE]
  /\ fpc' = [fpc EXCEPT ![f] = "removing"]
  /\ UNCHANGED <<stateVars, pc, conn, lease, result, connector, fconn, timer, dropping, sd, missed>>

\* remove_waiter: waiters.retain leaves the others in their order.
RemoveWaiter(f) ==
  /\ waiters' = Without(waiters, f)
  /\ Notify
  /\ UNCHANGED <<idle, total, checked_out, closed, open>>

DropRemove(f) ==
  /\ fpc[f] = "removing" /\ RemoveWaiter(f)
  /\ fpc' = [fpc EXCEPT ![f] = "gone"]
  /\ UNCHANGED <<conn, lease, result, cancelled, connector, fconn, timer, dropping, missed>>

\* The last of the future, its threads and the queue lets go of the waiter: a
\* lease nobody took is dropped with it.  The owner may then make a new future.
WaiterFreed(f) ==
  /\ fpc[f] = "gone" /\ connector[f] = "none" /\ timer[f] = "done"
  /\ \A i \in DOMAIN waiters : waiters[i] # f
  /\ dropping' = dropping \cup ({result[f]} \cap Conns)
  /\ result' = [result EXCEPT ![f] = None]
  /\ cancelled' = [cancelled EXCEPT ![f] = FALSE]
  /\ timer' = [timer EXCEPT ![f] = "none"]
  /\ fpc' = [fpc EXCEPT ![f] = "new"]
  /\ UNCHANGED <<stateVars, pc, conn, lease, connector, fconn, sd, missed>>

\* release, invalidate or Drop of a lease that came from a future.
ReleaseLease(f, valid) ==
  /\ lease[f] # None
  /\ ReleaseRaw(lease[f], valid)
  /\ lease' = [lease EXCEPT ![f] = None]
  /\ Notify
  /\ UNCHANGED <<conn, fpc, cancelled, connector, fconn, timer, dropping>>

\* Drop of a lease that nobody took.
FinishDrop(c, valid) ==
  /\ c \in dropping
  /\ ReleaseRaw(c, valid)
  /\ dropping' = dropping \ {c}
  /\ Notify
  /\ UNCHANGED <<conn, fpc, lease, cancelled, connector, fconn, timer>>

-----------------------------------------------------------------------------
(* The threads of a future                                                 *)

\* The thread begin_async_acquire spawns opens a connection, and deliver_connection
\* looks at cancelled; what it does about it is a later step.
ThreadConnectOk(f, c) ==
  /\ connector[f] = "connecting" /\ c \notin open
  /\ open' = open \cup {c}
  /\ fconn' = [fconn EXCEPT ![f] = c]
  /\ connector' = [connector EXCEPT ![f] = IF cancelled[f] THEN "parking" ELSE "delivering"]
  /\ UNCHANGED <<idle, waiters, total, checked_out, closed, pc, conn, fpc, lease, result,
                 cancelled, timer, dropping, sd, missed>>

ThreadConnectFails(f) ==
  /\ connector[f] = "connecting"
  /\ total' = Less(total) /\ checked_out' = Less(checked_out)
  /\ result' = [result EXCEPT ![f] = Err]
  /\ connector' = [connector EXCEPT ![f] = "none"]
  /\ Notify /\ Miss
  /\ UNCHANGED <<idle, waiters, closed, open, conn, fpc, lease, cancelled, fconn, timer, dropping>>

\* Mutant of Park: nobody is notified.
ParkSilently(f) ==
  /\ connector[f] = "parking"
  /\ checked_out' = Less(checked_out)
  /\ idle' = Append(idle, fconn[f])
  /\ fconn' = [fconn EXCEPT ![f] = None]
  /\ connector' = [connector EXCEPT ![f] = "none"]
  /\ Miss
  /\ UNCHANGED <<waiters, total, closed, open, pc, conn, fpc, lease, result, cancelled, timer,
                 dropping, sd>>

\* The branch for a cancelled waiter.
Park(f) ==
  /\ connector[f] = "parking"
  /\ checked_out' = Less(checked_out)
  /\ idle' = Append(idle, fconn[f])
  /\ fconn' = [fconn EXCEPT ![f] = None]
  /\ connector' = [connector EXCEPT ![f] = "none"]
  /\ Notify /\ Miss
  /\ UNCHANGED <<waiters, total, closed, open, conn, fpc, lease, result, cancelled, timer, dropping>>

Deliver(f) ==
  /\ connector[f] = "delivering"
  /\ result' = [result EXCEPT ![f] = fconn[f]]
  /\ fconn' = [fconn EXCEPT ![f] = None]
  /\ connector' = [connector EXCEPT ![f] = "none"]
  /\ UNCHANGED <<stateVars, pc, conn, fpc, lease, cancelled, timer, dropping, sd, missed>>

\* The thread that sleeps until the deadline: the swap of cancelled, remove_waiter
\* and deliver, which drops whatever result is there.
TimerFires(f) ==
  /\ timer[f] = "sleeping"
  /\ timer' = [timer EXCEPT ![f] = IF cancelled[f] THEN "done" ELSE "removing"]
  /\ cancelled' = [cancelled EXCEPT ![f] = TRUE]
  /\ UNCHANGED <<stateVars, pc, conn, fpc, lease, result, connector, fconn, dropping, sd, missed>>

\* Mutant of TimerRemove: the timeout is not delivered.
TimerRemoveOnly(f) ==
  /\ timer[f] = "removing" /\ RemoveWaiter(f)
  /\ timer' = [timer EXCEPT ![f] = "done"]
  /\ UNCHANGED <<conn, fpc, lease, result, cancelled, connector, fconn, dropping, missed>>

TimerRemove(f) ==
  /\ timer[f] = "removing" /\ RemoveWaiter(f)
  /\ timer' = [timer EXCEPT ![f] = "delivering"]
  /\ UNCHANGED <<conn, fpc, lease, result, cancelled, connector, fconn, dropping, missed>>

\* Mutant of TimerDeliver: a lease that is there is forgotten, not returned.
TimerDeliverForgets(f) ==
  /\ timer[f] = "delivering"
  /\ result' = [result EXCEPT ![f] = Err]
  /\ timer' = [timer EXCEPT ![f] = "done"]
  /\ UNCHANGED <<stateVars, pc, conn, fpc, lease, cancelled, connector, fconn, dropping, sd, missed>>

TimerDeliver(f) ==
  /\ timer[f] = "delivering"
  /\ dropping' = dropping \cup ({result[f]} \cap Conns)
  /\ result' = [result EXCEPT ![f] = Err]
  /\ timer' = [timer EXCEPT ![f] = "done"]
  /\ UNCHANGED <<stateVars, pc, conn, fpc, lease, cancelled, connector, fconn, sd, missed>>

-----------------------------------------------------------------------------
(* shutdown                                                                *)

\* Its first critical section: closes the idle connections, answers the queue, and
\* returns at once when nothing is counted as checked out.
Shutdown ==
  /\ sd = "none"
  /\ closed' = TRUE
  /\ idle' = <<>> /\ open' = open \ Reaped(Len(idle)) /\ total' = total - Len(idle)
  /\ waiters' = <<>>
  /\ result' = [f \in Futures |-> IF \E i \in DOMAIN waiters : waiters[i] = f
                                  THEN Err ELSE result[f]]
  /\ pc' = [b \in Clients |-> IF pc[b] = "parked" THEN "taking" ELSE pc[b]]
  /\ sd' = IF checked_out = 0 THEN "ok" ELSE "waiting"
  /\ UNCHANGED <<checked_out, conn, fpc, lease, cancelled, connector, fconn, timer, dropping, missed>>

\* It is notified and looks again.
ShutdownWakes ==
  /\ sd = "woken"
  /\ sd' = IF checked_out = 0 THEN "ok" ELSE "waiting"
  /\ UNCHANGED <<stateVars, pc, conn, futureVars, dropping, missed>>

ShutdownTimeout ==
  /\ sd \in {"waiting", "woken"} /\ checked_out # 0
  /\ sd' = "timeout"
  /\ UNCHANGED <<stateVars, pc, conn, futureVars, dropping, missed>>

-----------------------------------------------------------------------------
ClientStep(b) ==
  \/ Acquire(b) \/ TakeClosed(b) \/ Reserve(b) \/ Unavailable(b)
  \/ WaitEnds(b) \/ Wait(b) \/ WaitTimeout(b) \/ EarlyWakeup(b) \/ ConnectFails(b)
  \/ \E k \in Reapable : TakeIdle(b, k)
  \/ \E c \in Conns : ConnectOk(b, c)
  \/ \E valid \in BOOLEAN : Release(b, valid)

FutureStep(f) ==
  \/ BeginReserve(f) \/ BeginQueue(f) \/ \E k \in Reapable : BeginIdle(f, k)
  \/ Poll(f) \/ DropCheck(f) \/ DropCancel(f) \/ DropRemove(f) \/ WaiterFreed(f)
  \/ \E valid \in BOOLEAN : ReleaseLease(f, valid)

ThreadStep(f) ==
  \/ \E c \in Conns : ThreadConnectOk(f, c)
  \/ ThreadConnectFails(f) \/ Park(f) \/ Deliver(f)
  \/ TimerFires(f) \/ TimerRemove(f) \/ TimerDeliver(f)

Next ==
  \/ \E b \in Clients : ClientStep(b)
  \/ \E f \in Futures : FutureStep(f) \/ ThreadStep(f)
  \/ \E c \in dropping, valid \in BOOLEAN : FinishDrop(c, valid)
  \/ Shutdown \/ ShutdownWakes \/ ShutdownTimeout

Spec == Init /\ [][Next]_vars

-----------------------------------------------------------------------------
(* Properties                                                              *)

TypeOK ==
  /\ idle \in Seq(Conns) /\ waiters \in Seq(Futures)
  /\ total \in Nat /\ checked_out \in Nat /\ closed \in BOOLEAN /\ open \subseteq Conns
  /\ pc \in [Clients -> {"out", "taking", "exhausted", "parked", "connecting", "leased", "late"}]
  /\ conn \in [Clients -> Conns \cup {None}]
  /\ fpc \in [Futures -> {"new", "pending", "ready", "cancelling", "removing", "gone"}]
  /\ lease \in [Futures -> Conns \cup {None}]
  /\ result \in [Futures -> Conns \cup {None, Err}]
  /\ cancelled \in [Futures -> BOOLEAN]
  /\ connector \in [Futures -> {"none", "connecting", "parking", "delivering"}]
  /\ fconn \in [Futures -> Conns \cup {None}]
  /\ timer \in [Futures -> {"none", "sleeping", "removing", "delivering", "done"}]
  /\ dropping \subseteq Conns
  /\ sd \in {"none", "waiting", "woken", "ok", "timeout"}
  /\ missed \subseteq Clients

\* The places where a connection can be: those of the idle queue, a client, the
\* owner of a future, the result of a future, the thread that opened it, and a
\* lease on its way back.
Places(c) ==
  {<<"idle", i>> : i \in {i \in DOMAIN idle : idle[i] = c}}
  \cup {<<"client", b>> : b \in {b \in Clients : conn[b] = c}}
  \cup {<<"owner", f>> : f \in {f \in Futures : lease[f] = c}}
  \cup {<<"result", f>> : f \in {f \in Futures : result[f] = c}}
  \cup {<<"thread", f>> : f \in {f \in Futures : fconn[f] = c}}
  \cup {<<"dropping", d>> : d \in dropping \cap {c}}

\* An open connection is in exactly one place, so two callers never share one and
\* none is lost, whatever the order of deliveries, timeouts and drops; a closed one
\* is nowhere, so it is never handed out (release_raw, deliver, reap_idle).
OnePlace ==
  \A c \in Conns : Cardinality(Places(c)) = IF c \in open THEN 1 ELSE 0

\* total counts the open connections and those being opened, and max_size bounds
\* it: no failed connect, discard, reap or shutdown loses or gains capacity.
Reservations ==
  Cardinality({b \in Clients : pc[b] = "connecting"})
  + Cardinality({f \in Futures : connector[f] = "connecting"})
TotalIsExact == total = Cardinality(open) + Reservations /\ total <= MaxSize

\* checked_out never counts more than is outstanding: once everything has come
\* back it is zero, and shutdown does not wait for a lease that does not exist.
Outstanding == Cardinality(open) - Len(idle) + Reservations
ShutdownIsNotHeld == checked_out <= Outstanding

\* A waiter in the queue has no lease in its result and no thread that could put
\* one there.  The queue's reference may be the last one, and it is dropped inside
\* the critical section (pop_live_waiter, remove_waiter, shutdown), where returning
\* a lease would lock the state a second time.
QueuedHoldsNoLease ==
  \A i \in DOMAIN waiters : result[waiters[i]] \notin Conns /\ connector[waiters[i]] = "none"

\* A client sleeps beside an idle connection, or beside room for a new one, only
\* when that came up between its two looks at the pool: every later change wakes it
\* (acquire_blocking, state_changed).
SleepsOnlyPastAMiss ==
  \A b \in Clients :
    pc[b] = "parked" /\ ~closed /\ (idle # <<>> \/ total < MaxSize) => b \in missed

\* A pending future has its answer or somebody who still owes it one: the thread of
\* its timeout, which found it not cancelled or is yet to look.
AnswerIsOwed ==
  \A f \in Futures : fpc[f] = "pending" =>
    \/ result[f] # None
    \/ timer[f] \in {"removing", "delivering"}
    \/ timer[f] = "sleeping" /\ ~cancelled[f]

\* shutdown reports success only when every lease has come back.
ShutdownWaitsForLeases == sd = "ok" => Outstanding = 0
=============================================================================
