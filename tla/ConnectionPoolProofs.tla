------------------------- MODULE ConnectionPoolProofs -------------------------
(* Theorems about ConnectionPool, for every number of clients, futures and    *)
(* connections and every size of the pool.                                    *)
EXTENDS ConnectionPool, TLAPS

\* Who can hold a connection outside the idle queue, and what each one holds.
Holders == ({"client"} \X Clients) \cup ({"owner", "result", "thread"} \X Futures)
           \cup ({"dropping"} \X Conns)

HeldOf(co, le, re, fc, dr) ==
  [h \in Holders |->
     CASE h[1] = "client" -> co[h[2]]
       [] h[1] = "owner" -> le[h[2]]
       [] h[1] = "result" -> IF re[h[2]] = Err THEN None ELSE re[h[2]]
       [] h[1] = "thread" -> fc[h[2]]
       [] OTHER -> IF h[2] \in dr THEN h[2] ELSE None]
held == HeldOf(conn, lease, result, fconn, dropping)

\* H, when h holds v.
Put(H, h, v) == [H EXCEPT ![h] = v]

Idle == {idle[i] : i \in DOMAIN idle}
Queued(f) == \E i \in DOMAIN waiters : waiters[i] = f

\* An open connection is idle or has one holder.
Placed(I, O, H) ==
  /\ I \subseteq O
  /\ \A h \in Holders : H[h] # None => H[h] \in O /\ H[h] \notin I
  /\ \A g, h \in Holders : H[g] # None /\ H[g] = H[h] => g = h
  /\ \A c \in O : c \in I \/ \E h \in Holders : H[h] = c

PlaceInv ==
  /\ \A i, j \in DOMAIN idle : idle[i] = idle[j] => i = j
  /\ Placed(Idle, open, held)

\* Where a client and a future are says what they hold.
ClientShape(b) == pc[b] \in {"leased", "late"} <=> conn[b] # None
Core(f) ==
  /\ connector[f] \in {"parking", "delivering"} <=> fconn[f] # None
  /\ connector[f] # "none" => result[f] \notin Conns
  /\ fpc[f] = "new" => connector[f] = "none" /\ timer[f] = "none" /\ result[f] = None /\ ~cancelled[f]
  /\ fpc[f] = "pending" => lease[f] = None /\ \/ result[f] # None
                                              \/ timer[f] \in {"removing", "delivering"}
                                              \/ timer[f] = "sleeping" /\ ~cancelled[f]
FutureShape(f) == Core(f) /\ (fpc[f] = "new" => ~Queued(f))
ShapeInv == (\A b \in Clients : ClientShape(b)) /\ (\A f \in Futures : FutureShape(f))

\* A waiter is queued once.
QueueInv ==
  /\ \A i, j \in DOMAIN waiters : waiters[i] = waiters[j] => i = j
  /\ QueuedHoldsNoLease

Connecting == {b \in Clients : pc[b] = "connecting"}
ThreadsConnecting == {f \in Futures : connector[f] = "connecting"}

CountInv ==
  /\ IsFiniteSet(open) /\ IsFiniteSet(Connecting) /\ IsFiniteSet(ThreadsConnecting)
  /\ TotalIsExact /\ ShutdownIsNotHeld

\* A client that looked in vain and has not parked yet has missed what came up since.
SleepInv ==
  \A b \in Clients :
    pc[b] \in {"exhausted", "parked"} /\ ~closed /\ (idle # <<>> \/ total < MaxSize) => b \in missed

IInv == TypeOK /\ PlaceInv /\ ShapeInv /\ QueueInv /\ CountInv /\ SleepInv

-----------------------------------------------------------------------------
(* Counting                                                                *)

\* What the proofs use of the sizes of finite sets and of the order of the
\* numbers.  CountingHolds, at the end, takes it from the library: so its many
\* theorems are not in the way of the proofs in between.
Counting ==
  /\ \A S : IsFiniteSet(S) => Cardinality(S) \in Nat
  /\ \A S : IsFiniteSet(S) => (Cardinality(S) = 0 <=> S = {})
  /\ IsFiniteSet({}) /\ \A x : Cardinality({x}) = 1
  /\ \A S, x : IsFiniteSet(S) /\ x \notin S =>
       IsFiniteSet(S \cup {x}) /\ Cardinality(S \cup {x}) = Cardinality(S) + 1
  /\ \A S, x : IsFiniteSet(S) /\ x \in S =>
       IsFiniteSet(S \ {x}) /\ Cardinality(S \ {x}) = Cardinality(S) - 1
  /\ \A S, T : IsFiniteSet(S) =>
       IsFiniteSet(S \ T) /\ Cardinality(S \ T) = Cardinality(S) - Cardinality(S \cap T)
  /\ \A S : \A q \in Seq(S) : \A k \in 0..Len(q) : \A T :
       /\ \A i, j \in DOMAIN q : q[i] = q[j] => i = j
       /\ \A i \in 1..k : q[i] \in T
       /\ \A t \in T : \E i \in 1..k : q[i] = t
       => IsFiniteSet(T) /\ Cardinality(T) = k
  /\ \A n \in Nat : \A K \in SUBSET (1..n) :
       IsFiniteSet(K) /\ \A k \in 1..Cardinality(K) : \E i \in K : Rank(K, i) = k
  /\ \A T \in SUBSET Nat : T # {} => \E m \in T : \A k \in T : m <= k

LEMMA SizeType ==
  ASSUME Counting, NEW S, IsFiniteSet(S)
  PROVE  Cardinality(S) \in Nat
BY Zenon DEF Counting

LEMMA EmptySize ==
  ASSUME Counting
  PROVE  /\ IsFiniteSet({}) /\ Cardinality({}) = 0
         /\ \A S : IsFiniteSet(S) => (Cardinality(S) = 0 <=> S = {})
BY Zenon DEF Counting

LEMMA SingletonSize ==
  ASSUME Counting
  PROVE  \A x : Cardinality({x}) = 1
BY Zenon DEF Counting

LEMMA AddOne ==
  ASSUME Counting, NEW S, NEW x, IsFiniteSet(S), x \notin S
  PROVE  IsFiniteSet(S \cup {x}) /\ Cardinality(S \cup {x}) = Cardinality(S) + 1
BY Zenon DEF Counting

LEMMA RemoveOne ==
  ASSUME Counting, NEW S, NEW x, IsFiniteSet(S), x \in S
  PROVE  IsFiniteSet(S \ {x}) /\ Cardinality(S \ {x}) = Cardinality(S) - 1
BY Zenon DEF Counting

LEMMA DifferenceSize ==
  ASSUME Counting, NEW S, NEW T, IsFiniteSet(S)
  PROVE  IsFiniteSet(S \ T) /\ Cardinality(S \ T) = Cardinality(S) - Cardinality(S \cap T)
BY Zenon DEF Counting

\* A sequence without repetition has as many elements as it is long.
LEMMA RangeSize ==
  ASSUME Counting,
         NEW S, NEW q \in Seq(S), \A i, j \in DOMAIN q : q[i] = q[j] => i = j,
         NEW k \in 0..Len(q), NEW T, \A i \in 1..k : q[i] \in T, \A t \in T : \E i \in 1..k : q[i] = t
  PROVE  IsFiniteSet(T) /\ Cardinality(T) = k
BY ZenonT(60) DEF Counting

\* The rank numbers the members of a finite set of numbers without a gap.
LEMMA RankFacts ==
  ASSUME Counting, NEW n \in Nat, NEW K \in SUBSET (1..n)
  PROVE  IsFiniteSet(K) /\ \A k \in 1..Cardinality(K) : \E i \in K : Rank(K, i) = k
BY Zenon DEF Counting

LEMMA NatMin ==
  ASSUME Counting, NEW T \in SUBSET Nat, T # {}
  PROVE  \E m \in T : \A k \in T : m <= k
BY Zenon DEF Counting

-----------------------------------------------------------------------------
(* Numbers and the idle queue                                              *)

\* pop_live_waiter takes the first waiter whose future still polls.
LEMMA FirstLiveFacts ==
  ASSUME Counting, TypeOK, LiveWaiters # {}
  PROVE  FirstLive \in DOMAIN waiters
<1>1. DOMAIN waiters \subseteq Nat
  BY DEF TypeOK
<1>2. \E i \in LiveWaiters : \A j \in LiveWaiters : i <= j
  BY <1>1, NatMin DEF LiveWaiters
<1>3. FirstLive \in LiveWaiters
  BY Zenon, <1>2 DEF FirstLive
<1>4. QED
  BY <1>3 DEF LiveWaiters

\* What retain leaves: the other elements, each once if each was there once.
LEMMA WithoutFacts ==
  ASSUME Counting, NEW S, NEW list \in Seq(S), NEW t
  PROVE  /\ Without(list, t) \in Seq(S)
         /\ \A k \in DOMAIN Without(list, t) :
              \E i \in DOMAIN list : Without(list, t)[k] = list[i] /\ list[i] # t
         /\ (\A i, j \in DOMAIN list : list[i] = list[j] => i = j)
              => \A k, l \in DOMAIN Without(list, t) : Without(list, t)[k] = Without(list, t)[l] => k = l
<1>1. DOMAIN list = 1..Len(list) /\ Len(list) \in Nat
  OBVIOUS
<1>2. PICK K : K = Kept(list, t)
  BY Zenon
<1>3. K \in SUBSET (1..Len(list)) /\ \A i \in K : i \in DOMAIN list /\ list[i] # t
  BY Zenon, <1>1, <1>2 DEF Kept
<1>4. IsFiniteSet(K) /\ \A k \in 1..Cardinality(K) : \E i \in K : Rank(K, i) = k
  BY Zenon, <1>1, <1>3, RankFacts
<1>5. PICK at : at = [k \in 1..Cardinality(K) |-> CHOOSE i \in K : Rank(K, i) = k]
  BY Zenon
<1>6. \A k \in 1..Cardinality(K) : at[k] \in K /\ Rank(K, at[k]) = k
  BY Zenon, <1>4, <1>5
<1>7. PICK q : q = Without(list, t)
  BY Zenon
<1>8. q = [k \in 1..Cardinality(K) |-> list[at[k]]]
  <2>1. q = [k \in 1..Cardinality(K) |-> list[CHOOSE i \in K : Rank(K, i) = k]]
    BY SMT, <1>2, <1>7 DEF Without
  <2>2. \A k \in 1..Cardinality(K) : list[at[k]] = list[CHOOSE i \in K : Rank(K, i) = k]
    BY Zenon, <1>5
  <2>3. QED
    BY Zenon, <2>1, <2>2
<1>9. Cardinality(K) \in Nat
  BY Zenon, <1>4, SizeType
<1>10. q \in Seq(S)
  <2>1. \A i \in K : list[i] \in S
    BY <1>3
  <2>2. QED
    BY <1>6, <1>8, <1>9, <2>1
<1>11. DOMAIN q = 1..Cardinality(K) /\ \A k \in DOMAIN q : q[k] = list[at[k]]
  BY Zenon, <1>8
<1>12. \A k \in DOMAIN q : \E i \in DOMAIN list : q[k] = list[i] /\ list[i] # t
  BY Zenon, <1>3, <1>6, <1>11
<1>13. ASSUME \A i, j \in DOMAIN list : list[i] = list[j] => i = j,
              NEW k \in DOMAIN q, NEW l \in DOMAIN q, q[k] = q[l]
       PROVE  k = l
  <2>1. at[k] \in DOMAIN list /\ Rank(K, at[k]) = k /\ at[l] \in DOMAIN list /\ Rank(K, at[l]) = l
    BY Zenon, <1>3, <1>6, <1>11
  <2>2. at[k] = at[l]
    BY Zenon, <1>11, <1>13, <2>1
  <2>3. QED
    BY Zenon, <2>1, <2>2
<1>14. QED
  BY Zenon, <1>7, <1>10, <1>12, <1>13

-----------------------------------------------------------------------------
(* Types                                                                   *)

\* The type of the fields of State, and of what a step may do to pc and sd.
StateType ==
  /\ idle \in Seq(Conns) /\ waiters \in Seq(Futures)
  /\ total \in Nat /\ checked_out \in Nat /\ closed \in BOOLEAN /\ open \subseteq Conns
WakeType ==
  /\ pc \in [Clients -> {"out", "taking", "exhausted", "parked", "connecting", "leased", "late"}]
  /\ sd \in {"none", "waiting", "woken", "ok", "timeout"}

LEMMA LessFacts ==
  ASSUME NEW n \in Nat
  PROVE  Less(n) \in Nat /\ Less(n) <= n /\ (n # 0 => Less(n) = n - 1) /\ (n = 0 => Less(n) = 0)
BY DEF Less

LEMMA NotifyFacts ==
  ASSUME TypeOK, Notify
  PROVE  /\ WakeType'
         /\ \A b \in Clients : pc'[b] = IF pc[b] = "parked" THEN "taking" ELSE pc[b]
BY DEF TypeOK, Notify, WakeType

LEMMA NotifyAndFacts ==
  ASSUME TypeOK, NEW b \in Clients, pc[b] # "parked", NotifyAnd(b, "out")
  PROVE  /\ WakeType' /\ pc'[b] = "out"
         /\ \A d \in Clients : d # b => pc'[d] = IF pc[d] = "parked" THEN "taking" ELSE pc[d]
<1>1. /\ \A d \in Clients : pc'[d] = CASE d = b -> "out" [] pc[d] = "parked" -> "taking" [] OTHER -> pc[d]
      /\ pc' = [d \in Clients |-> pc'[d]]
  BY SMT DEF NotifyAnd
<1>2. pc'[b] = "out"
  BY <1>1
<1>3. ASSUME NEW d \in Clients, d # b PROVE pc'[d] = IF pc[d] = "parked" THEN "taking" ELSE pc[d]
  BY SMT, <1>1, <1>3
<1>4. \A d \in Clients : pc[d] \in {"out", "taking", "exhausted", "parked", "connecting", "leased", "late"}
  BY DEF TypeOK
<1>5. ASSUME NEW d \in Clients
      PROVE  pc'[d] \in {"out", "taking", "exhausted", "parked", "connecting", "leased", "late"}
  <2>1. CASE d = b
    BY <1>2, <2>1
  <2>2. CASE d # b
    BY <1>3, <1>4, <2>2
  <2>3. QED
    BY Zenon, <2>1, <2>2
<1>6. sd' \in {"none", "waiting", "woken", "ok", "timeout"}
  BY DEF TypeOK, NotifyAnd
<1>7. pc' \in [Clients -> {"out", "taking", "exhausted", "parked", "connecting", "leased", "late"}]
  BY <1>1, <1>5
<1>8. QED
  BY Zenon, <1>2, <1>3, <1>6, <1>7 DEF WakeType

LEMMA MissType ==
  ASSUME TypeOK, Miss
  PROVE  missed' \subseteq Clients
BY DEF TypeOK, Miss

LEMMA OpenFacts ==
  ASSUME TypeOK
  PROVE  /\ None \notin open /\ Err \notin open
         /\ DOMAIN idle = 1..Len(idle) /\ Len(idle) \in Nat
         /\ Idle = Reaped(Len(idle)) /\ \A i \in DOMAIN idle : idle[i] \in Conns /\ idle[i] # None
BY PoolAssumption DEF TypeOK, Idle, Reaped

\* The steps of a client that waits, and the steps that change next to nothing.
ClientWaits(b) ==
  \/ Acquire(b) \/ TakeClosed(b) \/ Unavailable(b) \/ WaitEnds(b) \/ Wait(b)
  \/ WaitTimeout(b) \/ EarlyWakeup(b)
Settles == ShutdownWakes \/ ShutdownTimeout \/ UNCHANGED vars

LEMMA WaitsFacts ==
  ASSUME TypeOK, NEW b \in Clients, ClientWaits(b)
  PROVE  /\ UNCHANGED <<idle, waiters, total, checked_out, closed, open>> /\ UNCHANGED <<conn, dropping, sd>>
         /\ UNCHANGED <<fpc, lease, result, cancelled, connector, fconn, timer>>
         /\ pc' \in [Clients -> {"out", "taking", "exhausted", "parked", "connecting", "leased", "late"}]
         /\ \A d \in Clients : /\ pc'[d] \in {"leased", "late"} <=> pc[d] \in {"leased", "late"}
                               /\ pc'[d] = "connecting" <=> pc[d] = "connecting"
         /\ missed' \subseteq Clients
<1>1. /\ UNCHANGED <<idle, waiters, total, checked_out, closed, open>> /\ UNCHANGED <<conn, dropping, sd>>
      /\ UNCHANGED <<fpc, lease, result, cancelled, connector, fconn, timer>>
      /\ missed' = missed \/ missed' = missed \ {b}
  BY Zenon DEF ClientWaits, Acquire, TakeClosed, Unavailable, WaitEnds, Wait, WaitTimeout, EarlyWakeup,
               stateVars, futureVars
<1>2. pc[b] \in {"out", "taking", "exhausted", "parked"}
  BY DEF ClientWaits, Acquire, TakeClosed, Unavailable, WaitEnds, Wait, WaitTimeout, EarlyWakeup
<1>3. PICK p \in {"out", "taking", "exhausted", "parked"} : pc' = [pc EXCEPT ![b] = p]
  BY Zenon DEF ClientWaits, Acquire, TakeClosed, Unavailable, WaitEnds, Wait, WaitTimeout, EarlyWakeup
<1>4. /\ pc' \in [Clients -> {"out", "taking", "exhausted", "parked", "connecting", "leased", "late"}]
      /\ \A d \in Clients : /\ pc'[d] \in {"leased", "late"} <=> pc[d] \in {"leased", "late"}
                            /\ pc'[d] = "connecting" <=> pc[d] = "connecting"
  BY <1>2, <1>3 DEF TypeOK
<1>5. missed' \subseteq Clients
  BY Zenon, <1>1 DEF TypeOK
<1>6. QED
  BY Zenon, <1>1, <1>4, <1>5

LEMMA SettlesFacts ==
  ASSUME TypeOK, Settles
  PROVE  /\ UNCHANGED <<idle, waiters, total, checked_out, closed, open>>
         /\ UNCHANGED <<pc, conn, dropping, missed>>
         /\ UNCHANGED <<fpc, lease, result, cancelled, connector, fconn, timer>>
         /\ sd' \in {"none", "waiting", "woken", "ok", "timeout"}
BY DEF TypeOK, Settles, ShutdownWakes, ShutdownTimeout, vars, stateVars, futureVars

-----------------------------------------------------------------------------
(* The queue of waiters                                                    *)

\* Nobody joins the queue, and a waiter stays in it at most once.
Shrinks == \A i \in DOMAIN waiters' : \E j \in DOMAIN waiters : waiters'[i] = waiters[j]
Once == \A i, j \in DOMAIN waiters : waiters[i] = waiters[j] => i = j

LEMMA SameQueue ==
  ASSUME QueueInv, waiters' = waiters
  PROVE  Shrinks /\ Once'
BY Zenon DEF QueueInv, Shrinks, Once

LEMMA EmptyQueue ==
  ASSUME waiters' = <<>>
  PROVE  Shrinks /\ Once' /\ QueueInv'
<1>1. DOMAIN waiters' = {}
  OBVIOUS
<1>2. QED
  BY Zenon, <1>1 DEF Shrinks, Once, QueueInv, QueuedHoldsNoLease

LEMMA RemoveQueue ==
  ASSUME Counting, TypeOK, QueueInv, NEW f \in Futures, RemoveWaiter(f)
  PROVE  Shrinks /\ Once'
<1>1. waiters \in Seq(Futures) /\ waiters' = Without(waiters, f)
  BY Zenon DEF TypeOK, RemoveWaiter
<1>2. \A i, j \in DOMAIN waiters : waiters[i] = waiters[j] => i = j
  BY Zenon DEF QueueInv
<1>3. \A k \in DOMAIN waiters' : \E i \in DOMAIN waiters : waiters'[k] = waiters[i] /\ waiters[i] # f
  BY SMT, <1>1, WithoutFacts
<1>4. \A k, l \in DOMAIN waiters' : waiters'[k] = waiters'[l] => k = l
  BY SMT, <1>1, <1>2, WithoutFacts
<1>5. QED
  BY Zenon, <1>3, <1>4 DEF Shrinks, Once

\* Who is in the queue afterwards was in it, and what it holds is unchanged or nothing.
LEMMA QueueKept ==
  ASSUME TypeOK, QueueInv, Shrinks, Once',
         \A i \in DOMAIN waiters :
           \/ result'[waiters[i]] = result[waiters[i]]
           \/ result'[waiters[i]] \notin Conns
           \/ \A j \in DOMAIN waiters' : waiters'[j] # waiters[i],
         \A i \in DOMAIN waiters : connector'[waiters[i]] = "none"
  PROVE  QueueInv'
<1>1. \A i, j \in DOMAIN waiters' : waiters'[i] = waiters'[j] => i = j
  BY Zenon DEF Once
<1>2. ASSUME NEW i \in DOMAIN waiters'
      PROVE  result'[waiters'[i]] \notin Conns /\ connector'[waiters'[i]] = "none"
  <2>1. PICK j \in DOMAIN waiters : waiters'[i] = waiters[j]
    BY Zenon DEF Shrinks
  <2>2. result[waiters[j]] \notin Conns
    BY Zenon DEF QueueInv, QueuedHoldsNoLease
  <2>3. result'[waiters[j]] \notin Conns
    BY Zenon, <2>1, <2>2
  <2>4. QED
    BY Zenon, <2>1, <2>3
<1>3. QED
  BY Zenon, <1>1, <1>2 DEF QueueInv, QueuedHoldsNoLease

\* release_raw gives a lease to the first live waiter and takes it off the queue.
LEMMA ReleaseQueue ==
  ASSUME Counting, TypeOK, QueueInv, NEW c \in Conns, NEW valid \in BOOLEAN, ReleaseRaw(c, valid),
         connector' = connector
  PROVE  /\ QueueInv' /\ Shrinks
         /\ \A f \in Futures : result'[f] = result[f] \/ (result'[f] \in Conns /\ Queued(f))
<1>1. \A i \in DOMAIN waiters : connector'[waiters[i]] = "none" /\ waiters[i] \in Futures
  BY DEF TypeOK, QueueInv, QueuedHoldsNoLease
<1>2. CASE Discard(c)
  <2>1. waiters' = waiters /\ result' = result
    BY Zenon, <1>2 DEF Discard
  <2>2. Shrinks /\ Once'
    BY Zenon, <2>1, SameQueue
  <2>3. QueueInv'
    BY Zenon, <1>1, <2>1, <2>2, QueueKept
  <2>4. QED
    BY Zenon, <2>1, <2>2, <2>3
<1>3. CASE LiveWaiters # {} /\ HandOver(c)
  <2>1. PICK k : k = FirstLive
    BY Zenon
  <2>2. k \in DOMAIN waiters /\ k \in 1..Len(waiters) /\ Len(waiters) \in Nat
    BY <1>3, <2>1, FirstLiveFacts DEF TypeOK
  <2>3. waiters' = SubSeq(waiters, k + 1, Len(waiters)) /\ result' = [result EXCEPT ![waiters[k]] = c]
    BY Zenon, <1>3, <2>1 DEF HandOver
  <2>4. \A i \in DOMAIN waiters' : i + k \in DOMAIN waiters /\ waiters'[i] = waiters[i + k] /\ i + k # k /\ i \in Int
    BY <2>2, <2>3 DEF TypeOK
  <2>5. \A i, j \in DOMAIN waiters : waiters[i] = waiters[j] => i = j
    BY Zenon DEF QueueInv
  <2>6. Shrinks
    BY Zenon, <2>4 DEF Shrinks
  <2>7. ASSUME NEW i \in DOMAIN waiters', NEW j \in DOMAIN waiters', waiters'[i] = waiters'[j] PROVE i = j
    <3>1. i + k = j + k
      BY Zenon, <2>4, <2>5, <2>7
    <3>2. QED
      BY <2>2, <2>4, <3>1
  <2>8. Once'
    BY Zenon, <2>7 DEF Once
  <2>9. \A j \in DOMAIN waiters' : waiters'[j] # waiters[k]
    BY Zenon, <2>2, <2>4, <2>5
  <2>10. /\ \A f \in Futures : f # waiters[k] => result'[f] = result[f]
         /\ result'[waiters[k]] = c
    BY <1>1, <2>2, <2>3 DEF TypeOK
  <2>11. \A i \in DOMAIN waiters :
           \/ result'[waiters[i]] = result[waiters[i]]
           \/ result'[waiters[i]] \notin Conns
           \/ \A j \in DOMAIN waiters' : waiters'[j] # waiters[i]
    BY Zenon, <1>1, <2>9, <2>10
  <2>12. QueueInv'
    BY Zenon, <1>1, <2>6, <2>8, <2>11, QueueKept
  <2>13. \A f \in Futures : result'[f] = result[f] \/ (result'[f] \in Conns /\ Queued(f))
    BY Zenon, <2>2, <2>10 DEF Queued
  <2>14. QED
    BY Zenon, <2>6, <2>12, <2>13
<1>4. CASE PushIdle(c)
  <2>1. waiters' = <<>> /\ result' = result
    BY Zenon, <1>4 DEF PushIdle
  <2>2. QED
    BY Zenon, <2>1, EmptyQueue
<1>5. QED
  BY Zenon, <1>2, <1>3, <1>4 DEF ReleaseRaw

-----------------------------------------------------------------------------
(* Shapes                                                                  *)

LEMMA StillQueued ==
  ASSUME Shrinks, NEW e
  PROVE  Queued(e)' => Queued(e)
BY Zenon DEF Shrinks, Queued

LEMMA OldFuture ==
  ASSUME ShapeInv, QueueInv, NEW f \in Futures
  PROVE  /\ Core(f) /\ (fpc[f] = "new" => ~Queued(f))
         /\ Queued(f) => result[f] \notin Conns /\ connector[f] = "none"
BY Zenon DEF ShapeInv, FutureShape, Queued, QueueInv, QueuedHoldsNoLease

LEMMA SameClientShape ==
  ASSUME ShapeInv, conn' = conn,
         \A b \in Clients : pc'[b] \in {"leased", "late"} <=> pc[b] \in {"leased", "late"}
  PROVE  \A b \in Clients : ClientShape(b)'
BY Zenon DEF ShapeInv, ClientShape

\* notify_all moves no client into or out of a lease.
LEMMA NotifiedClientShape ==
  ASSUME TypeOK, ShapeInv, conn' = conn, Notify
  PROVE  \A b \in Clients : ClientShape(b)'
<1>1. \A b \in Clients : pc'[b] = IF pc[b] = "parked" THEN "taking" ELSE pc[b]
  BY Zenon, NotifyFacts
<1>2. \A b \in Clients : pc'[b] \in {"leased", "late"} <=> pc[b] \in {"leased", "late"}
  BY <1>1
<1>3. QED
  BY Zenon, <1>2, SameClientShape

SameAt(e) ==
  /\ connector'[e] = connector[e] /\ fconn'[e] = fconn[e] /\ timer'[e] = timer[e]
  /\ result'[e] = result[e] /\ fpc'[e] = fpc[e] /\ lease'[e] = lease[e] /\ cancelled'[e] = cancelled[e]

\* A step of one future f, in which nobody joins the queue.
LEMMA OneFuture ==
  ASSUME TypeOK, ShapeInv, QueueInv, waiters' = waiters \/ (Shrinks /\ Once'),
         NEW f \in Futures, \A e \in Futures : e # f => SameAt(e),
         Core(f)', fpc'[f] = "new" => ~Queued(f),
         Queued(f) => result'[f] \notin Conns /\ connector'[f] = "none"
  PROVE  QueueInv' /\ \A e \in Futures : FutureShape(e)'
<1>1. Shrinks /\ Once'
  BY Zenon, SameQueue
<1>2. ASSUME NEW e \in Futures PROVE FutureShape(e)'
  <2>1. Queued(e)' => Queued(e)
    BY Zenon, <1>1, StillQueued
  <2>2. CASE e = f
    BY Zenon, <2>1, <2>2 DEF FutureShape
  <2>3. CASE e # f
    <3>1. SameAt(e) /\ FutureShape(e)
      BY Zenon, <2>3 DEF ShapeInv
    <3>2. QED
      BY Zenon, <2>1, <3>1 DEF SameAt, FutureShape, Core
  <2>4. QED
    BY Zenon, <2>2, <2>3
<1>3. ASSUME NEW i \in DOMAIN waiters
      PROVE  result'[waiters[i]] \notin Conns /\ connector'[waiters[i]] = "none"
  <2>1. waiters[i] \in Futures
    BY DEF TypeOK
  <2>2. Queued(waiters[i]) /\ result[waiters[i]] \notin Conns /\ connector[waiters[i]] = "none"
    BY Zenon DEF Queued, QueueInv, QueuedHoldsNoLease
  <2>3. QED
    BY Zenon, <2>1, <2>2 DEF SameAt
<1>4. QueueInv'
  BY Zenon, <1>1, <1>3, QueueKept
<1>5. QED
  BY Zenon, <1>2, <1>4

LEMMA NoFuture ==
  ASSUME ShapeInv, QueueInv, UNCHANGED <<waiters, connector, fconn, timer, result, fpc, lease, cancelled>>
  PROVE  QueueInv' /\ \A e \in Futures : FutureShape(e)'
<1>1. QueueInv'
  BY Zenon DEF QueueInv, QueuedHoldsNoLease
<1>2. ASSUME NEW e \in Futures PROVE FutureShape(e)'
  <2>1. FutureShape(e)
    BY Zenon DEF ShapeInv
  <2>2. QED
    BY Zenon, <2>1 DEF FutureShape, Core, Queued
<1>3. QED
  BY Zenon, <1>1, <1>2

\* A release hands a lease to a waiter, and the waiter has its answer.
LEMMA ReleaseShape ==
  ASSUME Counting, TypeOK, ShapeInv, QueueInv, NEW c \in Conns, NEW valid \in BOOLEAN, ReleaseRaw(c, valid),
         UNCHANGED <<connector, fconn, timer, fpc, cancelled>>,
         \A e \in Futures : lease'[e] \in {lease[e], None}
  PROVE  QueueInv' /\ \A e \in Futures : FutureShape(e)'
<1>1. /\ QueueInv' /\ Shrinks
      /\ \A e \in Futures : result'[e] = result[e] \/ (result'[e] \in Conns /\ Queued(e))
  BY Zenon, ReleaseQueue
<1>2. ASSUME NEW e \in Futures PROVE FutureShape(e)'
  <2>1. /\ Core(e) /\ (fpc[e] = "new" => ~Queued(e))
        /\ Queued(e) => connector[e] = "none"
    BY Zenon, OldFuture
  <2>2. Queued(e)' => Queued(e)
    BY Zenon, <1>1, StillQueued
  <2>3. result'[e] = result[e] \/ (result'[e] \in Conns /\ Queued(e))
    BY Zenon, <1>1
  <2>4. lease'[e] \in {lease[e], None}
    BY Zenon
  <2>5. QED
    BY <2>1, <2>2, <2>3, <2>4, PoolAssumption DEF FutureShape, Core
<1>3. QED
  BY Zenon, <1>1, <1>2

LEMMA ShapeStep ==
  ASSUME Counting, TypeOK, ShapeInv, QueueInv, [Next]_vars
  PROVE  ShapeInv' /\ QueueInv'
<1>a. USE DEF stateVars, futureVars
<1>1. ASSUME NEW b \in Clients, ClientWaits(b) PROVE ShapeInv' /\ QueueInv'
  BY Zenon, <1>1, WaitsFacts, SameClientShape, NoFuture DEF ShapeInv
<1>2. ASSUME NEW b \in Clients, Reserve(b) PROVE ShapeInv' /\ QueueInv'
  <2>1. \A d \in Clients : ClientShape(d)'
    BY <1>2, PoolAssumption DEF Reserve, ShapeInv, ClientShape, TypeOK
  <2>2. QueueInv' /\ \A e \in Futures : FutureShape(e)'
    BY Zenon, <1>2, NoFuture DEF Reserve
  <2>9. QED
    BY Zenon, <2>1, <2>2 DEF ShapeInv
<1>3. ASSUME NEW b \in Clients, ConnectFails(b) PROVE ShapeInv' /\ QueueInv'
  <2>1. \A d \in Clients : ClientShape(d)'
    <3>1. pc[b] # "parked"
      BY <1>3 DEF ConnectFails
    <3>2. /\ pc'[b] = "out"
          /\ \A d \in Clients : d # b => pc'[d] = IF pc[d] = "parked" THEN "taking" ELSE pc[d]
      BY Zenon, <1>3, <3>1, NotifyAndFacts DEF ConnectFails
    <3>3. QED
      BY <1>3, <3>2 DEF ConnectFails, ShapeInv, ClientShape, TypeOK
  <2>2. QueueInv' /\ \A e \in Futures : FutureShape(e)'
    BY Zenon, <1>3, NoFuture DEF ConnectFails
  <2>9. QED
    BY Zenon, <2>1, <2>2 DEF ShapeInv
<1>4. ASSUME NEW b \in Clients, NEW k \in Reapable, TakeIdle(b, k) PROVE ShapeInv' /\ QueueInv'
  <2>1. \A d \in Clients : ClientShape(d)'
    <3>1. idle[k + 1] # None
      BY <1>4, OpenFacts DEF TakeIdle, Reapable
    <3>2. QED
      BY <1>4, <3>1 DEF TakeIdle, ShapeInv, ClientShape, TypeOK
  <2>2. QueueInv' /\ \A e \in Futures : FutureShape(e)'
    BY Zenon, <1>4, NoFuture DEF TakeIdle
  <2>9. QED
    BY Zenon, <2>1, <2>2 DEF ShapeInv
<1>5. ASSUME NEW b \in Clients, NEW c \in Conns, ConnectOk(b, c) PROVE ShapeInv' /\ QueueInv'
  <2>1. \A d \in Clients : ClientShape(d)'
    BY <1>5, PoolAssumption DEF ConnectOk, ShapeInv, ClientShape, TypeOK
  <2>2. QueueInv' /\ \A e \in Futures : FutureShape(e)'
    BY Zenon, <1>5, NoFuture DEF ConnectOk
  <2>9. QED
    BY Zenon, <2>1, <2>2 DEF ShapeInv
<1>6. ASSUME NEW b \in Clients, NEW valid \in BOOLEAN, Release(b, valid) PROVE ShapeInv' /\ QueueInv'
  <2>1. \A d \in Clients : ClientShape(d)'
    <3>1. pc[b] # "parked"
      BY <1>6 DEF Release
    <3>2. /\ pc'[b] = "out"
          /\ \A d \in Clients : d # b => pc'[d] = IF pc[d] = "parked" THEN "taking" ELSE pc[d]
      BY Zenon, <1>6, <3>1, NotifyAndFacts DEF Release
    <3>3. QED
      BY <1>6, <3>2 DEF Release, ShapeInv, ClientShape, TypeOK
  <2>2. QueueInv' /\ \A e \in Futures : FutureShape(e)'
    <3>1. conn[b] \in Conns
      BY <1>6 DEF Release, TypeOK, ShapeInv, ClientShape
    <3>2. QED
      BY Zenon, <1>6, <3>1, ReleaseShape DEF Release
  <2>9. QED
    BY Zenon, <2>1, <2>2 DEF ShapeInv
<1>7. ASSUME NEW f \in Futures, BeginReserve(f) PROVE ShapeInv' /\ QueueInv'
  <2>1. \A d \in Clients : ClientShape(d)'
    BY Zenon, <1>7, SameClientShape DEF BeginReserve
  <2>2. QueueInv' /\ \A e \in Futures : FutureShape(e)'
    <3>1. /\ Core(f)' /\ (fpc'[f] = "new" => ~Queued(f))
          /\ Queued(f) => result'[f] \notin Conns /\ connector'[f] = "none"
      BY <1>7, OldFuture, PoolAssumption DEF BeginReserve, Core, TypeOK
    <3>2. \A e \in Futures : e # f => SameAt(e)
      BY <1>7 DEF BeginReserve, SameAt, TypeOK
    <3>3. QED
      BY Zenon, <1>7, <3>1, <3>2, OneFuture DEF BeginReserve
  <2>9. QED
    BY Zenon, <2>1, <2>2 DEF ShapeInv
<1>8. ASSUME NEW f \in Futures, BeginQueue(f) PROVE ShapeInv' /\ QueueInv'
  <2>1. \A d \in Clients : ClientShape(d)'
    BY Zenon, <1>8, SameClientShape DEF BeginQueue
  <2>2. QueueInv' /\ \A e \in Futures : FutureShape(e)'
    <3>1. waiters' = Append(waiters, f) /\ result' = result /\ connector' = connector
      BY Zenon, <1>8 DEF BeginQueue
    <3>2. Core(f) /\ ~Queued(f) /\ result[f] = None /\ connector[f] = "none"
      BY <1>8, OldFuture DEF BeginQueue, Core
    <3>3. /\ DOMAIN waiters' = DOMAIN waiters \cup {Len(waiters) + 1}
          /\ \A i \in DOMAIN waiters : waiters'[i] = waiters[i] /\ i # Len(waiters) + 1
          /\ waiters'[Len(waiters) + 1] = f
      BY <3>1 DEF TypeOK
    <3>4. \A i \in DOMAIN waiters : waiters[i] # f
      BY Zenon, <3>2 DEF Queued
    <3>5. \A i, j \in DOMAIN waiters : waiters[i] = waiters[j] => i = j
      BY Zenon DEF QueueInv
    <3>6. \A i, j \in DOMAIN waiters' : waiters'[i] = waiters'[j] => i = j
      BY Zenon, <3>3, <3>4, <3>5
    <3>7. \A i \in DOMAIN waiters' : result'[waiters'[i]] \notin Conns /\ connector'[waiters'[i]] = "none"
      BY Zenon, <3>1, <3>2, <3>3, PoolAssumption DEF QueueInv, QueuedHoldsNoLease
    <3>8. ASSUME NEW e \in Futures PROVE FutureShape(e)'
      <4>1. Core(e) /\ (fpc[e] = "new" => ~Queued(e))
        BY Zenon, OldFuture
      <4>2. e # f /\ Queued(e)' => Queued(e)
        BY Zenon, <3>3 DEF Queued
      <4>3. QED
        BY <1>8, <4>1, <4>2 DEF BeginQueue, FutureShape, Core, TypeOK
    <3>9. QED
      BY Zenon, <3>6, <3>7, <3>8 DEF QueueInv, QueuedHoldsNoLease
  <2>9. QED
    BY Zenon, <2>1, <2>2 DEF ShapeInv
<1>9. ASSUME NEW f \in Futures, NEW k \in Reapable, BeginIdle(f, k) PROVE ShapeInv' /\ QueueInv'
  <2>1. \A d \in Clients : ClientShape(d)'
    BY Zenon, <1>9, SameClientShape DEF BeginIdle
  <2>2. QueueInv' /\ \A e \in Futures : FutureShape(e)'
    <3>1. /\ Core(f)' /\ (fpc'[f] = "new" => ~Queued(f))
          /\ Queued(f) => result'[f] \notin Conns /\ connector'[f] = "none"
      BY <1>9, OldFuture, PoolAssumption DEF BeginIdle, Core, TypeOK
    <3>2. \A e \in Futures : e # f => SameAt(e)
      BY <1>9 DEF BeginIdle, SameAt, TypeOK
    <3>3. QED
      BY Zenon, <1>9, <3>1, <3>2, OneFuture DEF BeginIdle
  <2>9. QED
    BY Zenon, <2>1, <2>2 DEF ShapeInv
<1>10. ASSUME NEW f \in Futures, Poll(f) PROVE ShapeInv' /\ QueueInv'
  <2>1. \A d \in Clients : ClientShape(d)'
    BY Zenon, <1>10, SameClientShape DEF Poll
  <2>2. QueueInv' /\ \A e \in Futures : FutureShape(e)'
    <3>1. /\ Core(f)' /\ (fpc'[f] = "new" => ~Queued(f))
          /\ Queued(f) => result'[f] \notin Conns /\ connector'[f] = "none"
      BY <1>10, OldFuture, PoolAssumption DEF Poll, Core, TypeOK
    <3>2. \A e \in Futures : e # f => SameAt(e)
      BY <1>10 DEF Poll, SameAt, TypeOK
    <3>3. QED
      BY Zenon, <1>10, <3>1, <3>2, OneFuture DEF Poll
  <2>9. QED
    BY Zenon, <2>1, <2>2 DEF ShapeInv
<1>11. ASSUME NEW f \in Futures, DropCheck(f) PROVE ShapeInv' /\ QueueInv'
  <2>1. \A d \in Clients : ClientShape(d)'
    BY Zenon, <1>11, SameClientShape DEF DropCheck
  <2>2. QueueInv' /\ \A e \in Futures : FutureShape(e)'
    <3>1. /\ Core(f)' /\ (fpc'[f] = "new" => ~Queued(f))
          /\ Queued(f) => result'[f] \notin Conns /\ connector'[f] = "none"
      BY <1>11, OldFuture, PoolAssumption DEF DropCheck, Core, TypeOK
    <3>2. \A e \in Futures : e # f => SameAt(e)
      BY <1>11 DEF DropCheck, SameAt, TypeOK
    <3>3. QED
      BY Zenon, <1>11, <3>1, <3>2, OneFuture DEF DropCheck
  <2>9. QED
    BY Zenon, <2>1, <2>2 DEF ShapeInv
<1>12. ASSUME NEW f \in Futures, DropCancel(f) PROVE ShapeInv' /\ QueueInv'
  <2>1. \A d \in Clients : ClientShape(d)'
    BY Zenon, <1>12, SameClientShape DEF DropCancel
  <2>2. QueueInv' /\ \A e \in Futures : FutureShape(e)'
    <3>1. /\ Core(f)' /\ (fpc'[f] = "new" => ~Queued(f))
          /\ Queued(f) => result'[f] \notin Conns /\ connector'[f] = "none"
      BY <1>12, OldFuture, PoolAssumption DEF DropCancel, Core, TypeOK
    <3>2. \A e \in Futures : e # f => SameAt(e)
      BY <1>12 DEF DropCancel, SameAt, TypeOK
    <3>3. QED
      BY Zenon, <1>12, <3>1, <3>2, OneFuture DEF DropCancel
  <2>9. QED
    BY Zenon, <2>1, <2>2 DEF ShapeInv
<1>13. ASSUME NEW f \in Futures, DropRemove(f) PROVE ShapeInv' /\ QueueInv'
  <2>1. \A d \in Clients : ClientShape(d)'
    BY Zenon, <1>13, NotifiedClientShape DEF DropRemove, RemoveWaiter
  <2>2. QueueInv' /\ \A e \in Futures : FutureShape(e)'
    <3>1. /\ Core(f)' /\ (fpc'[f] = "new" => ~Queued(f))
          /\ Queued(f) => result'[f] \notin Conns /\ connector'[f] = "none"
      BY <1>13, OldFuture, PoolAssumption DEF DropRemove, Core, TypeOK
    <3>2. \A e \in Futures : e # f => SameAt(e)
      BY <1>13 DEF DropRemove, SameAt, TypeOK
    <3>3. Shrinks /\ Once'
      BY Zenon, <1>13, RemoveQueue DEF DropRemove
    <3>4. QED
      BY Zenon, <3>1, <3>2, <3>3, OneFuture
  <2>9. QED
    BY Zenon, <2>1, <2>2 DEF ShapeInv
<1>14. ASSUME NEW f \in Futures, WaiterFreed(f) PROVE ShapeInv' /\ QueueInv'
  <2>1. \A d \in Clients : ClientShape(d)'
    BY Zenon, <1>14, SameClientShape DEF WaiterFreed
  <2>2. QueueInv' /\ \A e \in Futures : FutureShape(e)'
    <3>1. /\ Core(f)' /\ (fpc'[f] = "new" => ~Queued(f))
          /\ Queued(f) => result'[f] \notin Conns /\ connector'[f] = "none"
      BY <1>14, OldFuture, PoolAssumption DEF WaiterFreed, Core, TypeOK, Queued
    <3>2. \A e \in Futures : e # f => SameAt(e)
      BY <1>14 DEF WaiterFreed, SameAt, TypeOK
    <3>3. QED
      BY Zenon, <1>14, <3>1, <3>2, OneFuture DEF WaiterFreed
  <2>9. QED
    BY Zenon, <2>1, <2>2 DEF ShapeInv
<1>15. ASSUME NEW f \in Futures, NEW valid \in BOOLEAN, ReleaseLease(f, valid) PROVE ShapeInv' /\ QueueInv'
  <2>1. \A d \in Clients : ClientShape(d)'
    BY Zenon, <1>15, NotifiedClientShape DEF ReleaseLease
  <2>2. QueueInv' /\ \A e \in Futures : FutureShape(e)'
    <3>1. lease[f] \in Conns
      BY <1>15 DEF ReleaseLease, TypeOK
    <3>2. \A e \in Futures : lease'[e] \in {lease[e], None}
      BY <1>15 DEF ReleaseLease, TypeOK
    <3>3. QED
      BY Zenon, <1>15, <3>1, <3>2, ReleaseShape DEF ReleaseLease
  <2>9. QED
    BY Zenon, <2>1, <2>2 DEF ShapeInv
<1>16. ASSUME NEW f \in Futures, NEW c \in Conns, ThreadConnectOk(f, c) PROVE ShapeInv' /\ QueueInv'
  <2>1. \A d \in Clients : ClientShape(d)'
    BY Zenon, <1>16, SameClientShape DEF ThreadConnectOk
  <2>2. QueueInv' /\ \A e \in Futures : FutureShape(e)'
    <3>1. /\ Core(f)' /\ (fpc'[f] = "new" => ~Queued(f))
          /\ Queued(f) => result'[f] \notin Conns /\ connector'[f] = "none"
      BY <1>16, OldFuture, PoolAssumption DEF ThreadConnectOk, Core, TypeOK
    <3>2. \A e \in Futures : e # f => SameAt(e)
      BY <1>16 DEF ThreadConnectOk, SameAt, TypeOK
    <3>3. QED
      BY Zenon, <1>16, <3>1, <3>2, OneFuture DEF ThreadConnectOk
  <2>9. QED
    BY Zenon, <2>1, <2>2 DEF ShapeInv
<1>17. ASSUME NEW f \in Futures, ThreadConnectFails(f) PROVE ShapeInv' /\ QueueInv'
  <2>1. \A d \in Clients : ClientShape(d)'
    BY Zenon, <1>17, NotifiedClientShape DEF ThreadConnectFails
  <2>2. QueueInv' /\ \A e \in Futures : FutureShape(e)'
    <3>1. /\ Core(f)' /\ (fpc'[f] = "new" => ~Queued(f))
          /\ Queued(f) => result'[f] \notin Conns /\ connector'[f] = "none"
      BY <1>17, OldFuture, PoolAssumption DEF ThreadConnectFails, Core, TypeOK
    <3>2. \A e \in Futures : e # f => SameAt(e)
      BY <1>17 DEF ThreadConnectFails, SameAt, TypeOK
    <3>3. QED
      BY Zenon, <1>17, <3>1, <3>2, OneFuture DEF ThreadConnectFails
  <2>9. QED
    BY Zenon, <2>1, <2>2 DEF ShapeInv
<1>18. ASSUME NEW f \in Futures, Park(f) PROVE ShapeInv' /\ QueueInv'
  <2>1. \A d \in Clients : ClientShape(d)'
    BY Zenon, <1>18, NotifiedClientShape DEF Park
  <2>2. QueueInv' /\ \A e \in Futures : FutureShape(e)'
    <3>1. /\ Core(f)' /\ (fpc'[f] = "new" => ~Queued(f))
          /\ Queued(f) => result'[f] \notin Conns /\ connector'[f] = "none"
      BY <1>18, OldFuture, PoolAssumption DEF Park, Core, TypeOK
    <3>2. \A e \in Futures : e # f => SameAt(e)
      BY <1>18 DEF Park, SameAt, TypeOK
    <3>3. QED
      BY Zenon, <1>18, <3>1, <3>2, OneFuture DEF Park
  <2>9. QED
    BY Zenon, <2>1, <2>2 DEF ShapeInv
<1>19. ASSUME NEW f \in Futures, Deliver(f) PROVE ShapeInv' /\ QueueInv'
  <2>1. \A d \in Clients : ClientShape(d)'
    BY Zenon, <1>19, SameClientShape DEF Deliver
  <2>2. QueueInv' /\ \A e \in Futures : FutureShape(e)'
    <3>1. /\ Core(f)' /\ (fpc'[f] = "new" => ~Queued(f))
          /\ Queued(f) => result'[f] \notin Conns /\ connector'[f] = "none"
      BY <1>19, OldFuture, PoolAssumption DEF Deliver, Core, TypeOK
    <3>2. \A e \in Futures : e # f => SameAt(e)
      BY <1>19 DEF Deliver, SameAt, TypeOK
    <3>3. QED
      BY Zenon, <1>19, <3>1, <3>2, OneFuture DEF Deliver
  <2>9. QED
    BY Zenon, <2>1, <2>2 DEF ShapeInv
<1>20. ASSUME NEW f \in Futures, TimerFires(f) PROVE ShapeInv' /\ QueueInv'
  <2>1. \A d \in Clients : ClientShape(d)'
    BY Zenon, <1>20, SameClientShape DEF TimerFires
  <2>2. QueueInv' /\ \A e \in Futures : FutureShape(e)'
    <3>1. /\ Core(f)' /\ (fpc'[f] = "new" => ~Queued(f))
          /\ Queued(f) => result'[f] \notin Conns /\ connector'[f] = "none"
      BY <1>20, OldFuture, PoolAssumption DEF TimerFires, Core, TypeOK
    <3>2. \A e \in Futures : e # f => SameAt(e)
      BY <1>20 DEF TimerFires, SameAt, TypeOK
    <3>3. QED
      BY Zenon, <1>20, <3>1, <3>2, OneFuture DEF TimerFires
  <2>9. QED
    BY Zenon, <2>1, <2>2 DEF ShapeInv
<1>21. ASSUME NEW f \in Futures, TimerRemove(f) PROVE ShapeInv' /\ QueueInv'
  <2>1. \A d \in Clients : ClientShape(d)'
    BY Zenon, <1>21, NotifiedClientShape DEF TimerRemove, RemoveWaiter
  <2>2. QueueInv' /\ \A e \in Futures : FutureShape(e)'
    <3>1. /\ Core(f)' /\ (fpc'[f] = "new" => ~Queued(f))
          /\ Queued(f) => result'[f] \notin Conns /\ connector'[f] = "none"
      BY <1>21, OldFuture, PoolAssumption DEF TimerRemove, Core, TypeOK
    <3>2. \A e \in Futures : e # f => SameAt(e)
      BY <1>21 DEF TimerRemove, SameAt, TypeOK
    <3>3. Shrinks /\ Once'
      BY Zenon, <1>21, RemoveQueue DEF TimerRemove
    <3>4. QED
      BY Zenon, <3>1, <3>2, <3>3, OneFuture
  <2>9. QED
    BY Zenon, <2>1, <2>2 DEF ShapeInv
<1>22. ASSUME NEW f \in Futures, TimerDeliver(f) PROVE ShapeInv' /\ QueueInv'
  <2>1. \A d \in Clients : ClientShape(d)'
    BY Zenon, <1>22, SameClientShape DEF TimerDeliver
  <2>2. QueueInv' /\ \A e \in Futures : FutureShape(e)'
    <3>1. /\ Core(f)' /\ (fpc'[f] = "new" => ~Queued(f))
          /\ Queued(f) => result'[f] \notin Conns /\ connector'[f] = "none"
      BY <1>22, OldFuture, PoolAssumption DEF TimerDeliver, Core, TypeOK
    <3>2. \A e \in Futures : e # f => SameAt(e)
      BY <1>22 DEF TimerDeliver, SameAt, TypeOK
    <3>3. QED
      BY Zenon, <1>22, <3>1, <3>2, OneFuture DEF TimerDeliver
  <2>9. QED
    BY Zenon, <2>1, <2>2 DEF ShapeInv
<1>23. ASSUME NEW c \in dropping, NEW valid \in BOOLEAN, FinishDrop(c, valid) PROVE ShapeInv' /\ QueueInv'
  <2>1. \A d \in Clients : ClientShape(d)'
    BY Zenon, <1>23, NotifiedClientShape DEF FinishDrop
  <2>2. QueueInv' /\ \A e \in Futures : FutureShape(e)'
    <3>1. c \in Conns
      BY <1>23 DEF FinishDrop, TypeOK
    <3>2. QED
      BY Zenon, <1>23, <3>1, ReleaseShape DEF FinishDrop
  <2>9. QED
    BY Zenon, <2>1, <2>2 DEF ShapeInv
<1>24. ASSUME Shutdown PROVE ShapeInv' /\ QueueInv'
  <2>1. \A d \in Clients : ClientShape(d)'
    <3>1. \A d \in Clients : pc'[d] \in {"leased", "late"} <=> pc[d] \in {"leased", "late"}
      BY <1>24 DEF Shutdown
    <3>2. QED
      BY Zenon, <1>24, <3>1, SameClientShape DEF Shutdown
  <2>2. QueueInv' /\ \A e \in Futures : FutureShape(e)'
    <3>1. Shrinks /\ QueueInv'
      BY Zenon, <1>24, EmptyQueue DEF Shutdown
    <3>2. ASSUME NEW e \in Futures PROVE FutureShape(e)'
      <4>1. /\ Core(e) /\ (fpc[e] = "new" => ~Queued(e))
            /\ Queued(e)' => Queued(e)
        BY Zenon, <3>1, OldFuture, StillQueued
      <4>2. result'[e] = IF Queued(e) THEN Err ELSE result[e]
        BY <1>24 DEF Shutdown, Queued
      <4>3. QED
        BY <1>24, <4>1, <4>2, PoolAssumption DEF Shutdown, FutureShape, Core
    <3>3. QED
      BY Zenon, <3>1, <3>2
  <2>9. QED
    BY Zenon, <2>1, <2>2 DEF ShapeInv
<1>25. CASE Settles
  BY Zenon, <1>25, SettlesFacts, SameClientShape, NoFuture DEF ShapeInv
<1>26. QED
  BY Zenon, <1>1, <1>2, <1>3, <1>4, <1>5, <1>6, <1>7, <1>8, <1>9, <1>10, <1>11, <1>12, <1>13,
     <1>14, <1>15, <1>16, <1>17, <1>18, <1>19, <1>20, <1>21, <1>22, <1>23, <1>24, <1>25
  DEF Next, ClientStep, FutureStep, ThreadStep, ClientWaits, Settles

-----------------------------------------------------------------------------
(* Sleepers                                                                *)

\* Who looked in vain still has, and nothing has come up that had not before.
LEMMA SleepKept ==
  ASSUME SleepInv,
         \A b \in Clients : pc'[b] \in {"exhausted", "parked"} =>
           pc[b] \in {"exhausted", "parked"} /\ (b \in missed => b \in missed'),
         ~closed' => ~closed,
         idle' # <<>> \/ total' < MaxSize => idle # <<>> \/ total < MaxSize
  PROVE  SleepInv'
BY Zenon DEF SleepInv

\* A step that wakes the sleepers and notes the ones it cannot wake.
LEMMA SleepWoken ==
  ASSUME TypeOK, Miss,
         \A b \in Clients : pc'[b] \in {"exhausted", "parked"} => pc[b] = "exhausted"
  PROVE  SleepInv'
<1>1. ASSUME NEW b \in Clients, pc'[b] \in {"exhausted", "parked"} PROVE b \in missed'
  BY <1>1 DEF Miss
<1>2. QED
  BY Zenon, <1>1 DEF SleepInv

LEMMA SleepNotified ==
  ASSUME TypeOK, Notify
  PROVE  \A d \in Clients : pc'[d] \in {"exhausted", "parked"} => pc[d] = "exhausted"
<1>1. \A d \in Clients : pc'[d] = IF pc[d] = "parked" THEN "taking" ELSE pc[d]
  BY Zenon, NotifyFacts
<1>2. QED
  BY <1>1

LEMMA SleepStep ==
  ASSUME TypeOK, SleepInv, [Next]_vars
  PROVE  SleepInv'
<1>a. USE DEF stateVars, futureVars
<1>0. total \in Nat /\ MaxSize \in Nat /\ Len(idle) \in Nat /\ (idle = <<>> <=> Len(idle) = 0)
  BY PoolAssumption DEF TypeOK
<1>1. ASSUME NEW b \in Clients, ClientWaits(b) PROVE SleepInv'
  <2>1. UNCHANGED <<idle, total, closed>>
    BY Zenon, <1>1, WaitsFacts
  <2>2. CASE Unavailable(b)
    <3>1. idle = <<>> /\ ~ (total < MaxSize)
      BY <1>0, <2>2 DEF Unavailable
    <3>2. QED
      BY Zenon, <2>1, <3>1 DEF SleepInv
  <2>3. CASE ~ Unavailable(b)
    <3>1. missed' = missed
      BY Zenon, <1>1, <2>3
      DEF ClientWaits, Acquire, TakeClosed, WaitEnds, Wait, WaitTimeout, EarlyWakeup
    <3>2. \A d \in Clients : pc'[d] \in {"exhausted", "parked"} => pc[d] \in {"exhausted", "parked"}
      BY <1>1, <2>3
      DEF ClientWaits, Acquire, TakeClosed, WaitEnds, Wait, WaitTimeout, EarlyWakeup, TypeOK
    <3>3. QED
      BY Zenon, <2>1, <3>1, <3>2, SleepKept
  <2>4. QED
    BY Zenon, <2>2, <2>3
<1>2. ASSUME NEW b \in Clients, Reserve(b) PROVE SleepInv'
  <2>1. idle # <<>> \/ total < MaxSize
    BY <1>2, <1>0 DEF Reserve
  <2>2. \A d \in Clients : pc'[d] \in {"exhausted", "parked"} =>
          pc[d] \in {"exhausted", "parked"} /\ (d \in missed => d \in missed')
    BY <1>2 DEF Reserve, TypeOK
  <2>3. QED
    BY Zenon, <1>2, <2>1, <2>2, SleepKept DEF Reserve
<1>3. ASSUME NEW b \in Clients, ConnectFails(b) PROVE SleepInv'
  <2>1. pc[b] # "parked"
    BY <1>3 DEF ConnectFails
  <2>2. /\ pc'[b] = "out"
        /\ \A d \in Clients : d # b => pc'[d] = IF pc[d] = "parked" THEN "taking" ELSE pc[d]
    BY Zenon, <1>3, <2>1, NotifyAndFacts DEF ConnectFails
  <2>3. \A d \in Clients : pc'[d] \in {"exhausted", "parked"} => pc[d] = "exhausted"
    BY <2>2
  <2>4. QED
    BY Zenon, <1>3, <2>3, SleepWoken DEF ConnectFails, ReleaseRaw
<1>4. ASSUME NEW b \in Clients, NEW k \in Reapable, TakeIdle(b, k) PROVE SleepInv'
  <2>1. idle # <<>> \/ total < MaxSize
    BY <1>4, <1>0 DEF TakeIdle, Reapable
  <2>2. \A d \in Clients : pc'[d] \in {"exhausted", "parked"} =>
          pc[d] \in {"exhausted", "parked"} /\ (d \in missed => d \in missed')
    BY <1>4 DEF TakeIdle, TypeOK
  <2>3. QED
    BY Zenon, <1>4, <2>1, <2>2, SleepKept DEF TakeIdle
<1>5. ASSUME NEW b \in Clients, NEW c \in Conns, ConnectOk(b, c) PROVE SleepInv'
  <2>1. \A d \in Clients : pc'[d] \in {"exhausted", "parked"} => pc[d] \in {"exhausted", "parked"}
    BY <1>5 DEF ConnectOk, TypeOK
  <2>2. QED
    BY Zenon, <1>5, <2>1, SleepKept DEF ConnectOk
<1>6. ASSUME NEW b \in Clients, NEW valid \in BOOLEAN, Release(b, valid) PROVE SleepInv'
  <2>1. pc[b] # "parked"
    BY <1>6 DEF Release
  <2>2. /\ pc'[b] = "out"
        /\ \A d \in Clients : d # b => pc'[d] = IF pc[d] = "parked" THEN "taking" ELSE pc[d]
    BY Zenon, <1>6, <2>1, NotifyAndFacts DEF Release
  <2>3. \A d \in Clients : pc'[d] \in {"exhausted", "parked"} => pc[d] = "exhausted"
    BY <2>2
  <2>4. QED
    BY Zenon, <1>6, <2>3, SleepWoken DEF Release, ReleaseRaw
<1>7. ASSUME NEW f \in Futures, BeginReserve(f) PROVE SleepInv'
  <2>1. idle # <<>> \/ total < MaxSize
    BY SMTT(60), <1>7, <1>0 DEF BeginReserve
  <2>2. QED
    BY Zenon, <1>7, <2>1, SleepKept DEF BeginReserve
<1>8. ASSUME NEW f \in Futures, BeginQueue(f) PROVE SleepInv'
  BY Zenon, <1>8, SleepKept DEF BeginQueue
<1>9. ASSUME NEW f \in Futures, NEW k \in Reapable, BeginIdle(f, k) PROVE SleepInv'
  <2>1. idle # <<>> \/ total < MaxSize
    BY <1>9, <1>0 DEF BeginIdle, Reapable
  <2>2. QED
    BY Zenon, <1>9, <2>1, SleepKept DEF BeginIdle
<1>10. ASSUME NEW f \in Futures, Poll(f) PROVE SleepInv'
  BY Zenon, <1>10, SleepKept DEF Poll
<1>11. ASSUME NEW f \in Futures, DropCheck(f) PROVE SleepInv'
  BY Zenon, <1>11, SleepKept DEF DropCheck
<1>12. ASSUME NEW f \in Futures, DropCancel(f) PROVE SleepInv'
  BY Zenon, <1>12, SleepKept DEF DropCancel
<1>13. ASSUME NEW f \in Futures, DropRemove(f) PROVE SleepInv'
  BY Zenon, <1>13, SleepNotified, SleepKept DEF DropRemove, RemoveWaiter
<1>14. ASSUME NEW f \in Futures, WaiterFreed(f) PROVE SleepInv'
  BY Zenon, <1>14, SleepKept DEF WaiterFreed
<1>15. ASSUME NEW f \in Futures, NEW valid \in BOOLEAN, ReleaseLease(f, valid) PROVE SleepInv'
  BY Zenon, <1>15, SleepNotified, SleepWoken DEF ReleaseLease, ReleaseRaw
<1>16. ASSUME NEW f \in Futures, NEW c \in Conns, ThreadConnectOk(f, c) PROVE SleepInv'
  BY Zenon, <1>16, SleepKept DEF ThreadConnectOk
<1>17. ASSUME NEW f \in Futures, ThreadConnectFails(f) PROVE SleepInv'
  BY Zenon, <1>17, SleepNotified, SleepWoken DEF ThreadConnectFails, ReleaseRaw
<1>18. ASSUME NEW f \in Futures, Park(f) PROVE SleepInv'
  BY Zenon, <1>18, SleepNotified, SleepWoken DEF Park, ReleaseRaw
<1>19. ASSUME NEW f \in Futures, Deliver(f) PROVE SleepInv'
  BY Zenon, <1>19, SleepKept DEF Deliver
<1>20. ASSUME NEW f \in Futures, TimerFires(f) PROVE SleepInv'
  BY Zenon, <1>20, SleepKept DEF TimerFires
<1>21. ASSUME NEW f \in Futures, TimerRemove(f) PROVE SleepInv'
  BY Zenon, <1>21, SleepNotified, SleepKept DEF TimerRemove, RemoveWaiter
<1>22. ASSUME NEW f \in Futures, TimerDeliver(f) PROVE SleepInv'
  BY Zenon, <1>22, SleepKept DEF TimerDeliver
<1>23. ASSUME NEW c \in dropping, NEW valid \in BOOLEAN, FinishDrop(c, valid) PROVE SleepInv'
  BY Zenon, <1>23, SleepNotified, SleepWoken DEF FinishDrop, ReleaseRaw
<1>24. ASSUME Shutdown PROVE SleepInv'
  BY Zenon, <1>24 DEF Shutdown, SleepInv
<1>25. CASE Settles
  <2>1. UNCHANGED <<idle, total, closed>> /\ UNCHANGED <<pc, missed>>
    BY Zenon, <1>25, SettlesFacts
  <2>2. QED
    BY Zenon, <2>1, SleepKept
<1>26. QED
  BY Zenon, <1>1, <1>2, <1>3, <1>4, <1>5, <1>6, <1>7, <1>8, <1>9, <1>10, <1>11, <1>12, <1>13,
     <1>14, <1>15, <1>16, <1>17, <1>18, <1>19, <1>20, <1>21, <1>22, <1>23, <1>24, <1>25
  DEF Next, ClientStep, FutureStep, ThreadStep, ClientWaits, Settles

-----------------------------------------------------------------------------
(* Who holds what                                                          *)

LEMMA HeldUpdate ==
  ASSUME NEW H, NEW K, H = [h \in Holders |-> H[h]], K = [h \in Holders |-> K[h]],
         NEW g \in Holders, NEW v,
         \A h \in Holders : K[h] = IF h = g THEN v ELSE H[h]
  PROVE  K = Put(H, g, v)
BY DEF Put

LEMMA SetClient ==
  ASSUME NEW co \in [Clients -> Conns \cup {None}], NEW le, NEW re, NEW fc, NEW dr,
         NEW b \in Clients, NEW v
  PROVE  HeldOf(Put(co, b, v), le, re, fc, dr)
           = Put(HeldOf(co, le, re, fc, dr), <<"client", b>>, v)
<1>1. <<"client", b>> \in Holders
  BY DEF Holders
<1>2. ASSUME NEW h \in Holders
      PROVE  HeldOf(Put(co, b, v), le, re, fc, dr)[h]
               = IF h = <<"client", b>> THEN v ELSE HeldOf(co, le, re, fc, dr)[h]
  <2>1. CASE h[1] = "client"
    BY <2>1 DEF HeldOf, Holders, Put
  <2>2. CASE h[1] # "client"
    BY <2>2 DEF HeldOf, Holders, Put
  <2>3. QED
    BY <2>1, <2>2
<1>3. PICK K : K = HeldOf(Put(co, b, v), le, re, fc, dr)
  BY Zenon
<1>4. PICK H : H = HeldOf(co, le, re, fc, dr)
  BY Zenon
<1>5. K = [h \in Holders |-> K[h]]
  BY SMT, <1>3 DEF HeldOf
<1>6. H = [h \in Holders |-> H[h]]
  BY SMT, <1>4 DEF HeldOf
<1>7. \A h \in Holders : K[h] = IF h = <<"client", b>> THEN v ELSE H[h]
  BY Zenon, <1>2, <1>3, <1>4
<1>8. K = Put(H, <<"client", b>>, v)
  BY <1>1, <1>5, <1>6, <1>7, HeldUpdate
<1>9. QED
  BY Zenon, <1>3, <1>4, <1>8

LEMMA SetOwner ==
  ASSUME NEW co, NEW le \in [Futures -> Conns \cup {None}], NEW re, NEW fc, NEW dr,
         NEW f \in Futures, NEW v
  PROVE  HeldOf(co, Put(le, f, v), re, fc, dr)
           = Put(HeldOf(co, le, re, fc, dr), <<"owner", f>>, v)
<1>1. <<"owner", f>> \in Holders
  BY DEF Holders
<1>2. ASSUME NEW h \in Holders
      PROVE  HeldOf(co, Put(le, f, v), re, fc, dr)[h]
               = IF h = <<"owner", f>> THEN v ELSE HeldOf(co, le, re, fc, dr)[h]
  <2>1. CASE h[1] = "owner"
    BY <2>1 DEF HeldOf, Holders, Put
  <2>2. CASE h[1] # "owner"
    BY <2>2 DEF HeldOf, Holders, Put
  <2>3. QED
    BY <2>1, <2>2
<1>3. PICK K : K = HeldOf(co, Put(le, f, v), re, fc, dr)
  BY Zenon
<1>4. PICK H : H = HeldOf(co, le, re, fc, dr)
  BY Zenon
<1>5. K = [h \in Holders |-> K[h]]
  BY SMT, <1>3 DEF HeldOf
<1>6. H = [h \in Holders |-> H[h]]
  BY SMT, <1>4 DEF HeldOf
<1>7. \A h \in Holders : K[h] = IF h = <<"owner", f>> THEN v ELSE H[h]
  BY Zenon, <1>2, <1>3, <1>4
<1>8. K = Put(H, <<"owner", f>>, v)
  BY <1>1, <1>5, <1>6, <1>7, HeldUpdate
<1>9. QED
  BY Zenon, <1>3, <1>4, <1>8

LEMMA SetResult ==
  ASSUME NEW co, NEW le, NEW re \in [Futures -> Conns \cup {None, Err}], NEW fc, NEW dr,
         NEW f \in Futures, NEW v, NEW w, (v = Err /\ w = None) \/ (v # Err /\ w = v)
  PROVE  HeldOf(co, le, Put(re, f, v), fc, dr)
           = Put(HeldOf(co, le, re, fc, dr), <<"result", f>>, w)
<1>1. <<"result", f>> \in Holders
  BY DEF Holders
<1>2. ASSUME NEW h \in Holders
      PROVE  HeldOf(co, le, Put(re, f, v), fc, dr)[h]
               = IF h = <<"result", f>> THEN w ELSE HeldOf(co, le, re, fc, dr)[h]
  <2>1. CASE h[1] = "result"
    BY <2>1 DEF HeldOf, Holders, Put
  <2>2. CASE h[1] # "result"
    BY <2>2 DEF HeldOf, Holders, Put
  <2>3. QED
    BY <2>1, <2>2
<1>3. PICK K : K = HeldOf(co, le, Put(re, f, v), fc, dr)
  BY Zenon
<1>4. PICK H : H = HeldOf(co, le, re, fc, dr)
  BY Zenon
<1>5. K = [h \in Holders |-> K[h]]
  BY SMT, <1>3 DEF HeldOf
<1>6. H = [h \in Holders |-> H[h]]
  BY SMT, <1>4 DEF HeldOf
<1>7. \A h \in Holders : K[h] = IF h = <<"result", f>> THEN w ELSE H[h]
  BY Zenon, <1>2, <1>3, <1>4
<1>8. K = Put(H, <<"result", f>>, w)
  BY <1>1, <1>5, <1>6, <1>7, HeldUpdate
<1>9. QED
  BY Zenon, <1>3, <1>4, <1>8

LEMMA SetThread ==
  ASSUME NEW co, NEW le, NEW re, NEW fc \in [Futures -> Conns \cup {None}], NEW dr,
         NEW f \in Futures, NEW v
  PROVE  HeldOf(co, le, re, Put(fc, f, v), dr)
           = Put(HeldOf(co, le, re, fc, dr), <<"thread", f>>, v)
<1>1. <<"thread", f>> \in Holders
  BY DEF Holders
<1>2. ASSUME NEW h \in Holders
      PROVE  HeldOf(co, le, re, Put(fc, f, v), dr)[h]
               = IF h = <<"thread", f>> THEN v ELSE HeldOf(co, le, re, fc, dr)[h]
  <2>1. CASE h[1] = "thread"
    BY <2>1 DEF HeldOf, Holders, Put
  <2>2. CASE h[1] # "thread"
    BY <2>2 DEF HeldOf, Holders, Put
  <2>3. QED
    BY <2>1, <2>2
<1>3. PICK K : K = HeldOf(co, le, re, Put(fc, f, v), dr)
  BY Zenon
<1>4. PICK H : H = HeldOf(co, le, re, fc, dr)
  BY Zenon
<1>5. K = [h \in Holders |-> K[h]]
  BY SMT, <1>3 DEF HeldOf
<1>6. H = [h \in Holders |-> H[h]]
  BY SMT, <1>4 DEF HeldOf
<1>7. \A h \in Holders : K[h] = IF h = <<"thread", f>> THEN v ELSE H[h]
  BY Zenon, <1>2, <1>3, <1>4
<1>8. K = Put(H, <<"thread", f>>, v)
  BY <1>1, <1>5, <1>6, <1>7, HeldUpdate
<1>9. QED
  BY Zenon, <1>3, <1>4, <1>8

LEMMA AddDropping ==
  ASSUME NEW co, NEW le, NEW re, NEW fc, NEW dr, NEW c \in Conns
  PROVE  HeldOf(co, le, re, fc, dr \cup {c})
           = Put(HeldOf(co, le, re, fc, dr), <<"dropping", c>>, c)
<1>1. <<"dropping", c>> \in Holders
  BY DEF Holders
<1>2. ASSUME NEW h \in Holders
      PROVE  HeldOf(co, le, re, fc, dr \cup {c})[h]
               = IF h = <<"dropping", c>> THEN c ELSE HeldOf(co, le, re, fc, dr)[h]
  <2>1. CASE h[1] = "dropping"
    BY <2>1 DEF HeldOf, Holders
  <2>2. CASE h[1] # "dropping"
    BY <2>2 DEF HeldOf, Holders
  <2>3. QED
    BY <2>1, <2>2
<1>3. PICK K : K = HeldOf(co, le, re, fc, dr \cup {c})
  BY Zenon
<1>4. PICK H : H = HeldOf(co, le, re, fc, dr)
  BY Zenon
<1>5. K = [h \in Holders |-> K[h]]
  BY SMT, <1>3 DEF HeldOf
<1>6. H = [h \in Holders |-> H[h]]
  BY SMT, <1>4 DEF HeldOf
<1>7. \A h \in Holders : K[h] = IF h = <<"dropping", c>> THEN c ELSE H[h]
  BY Zenon, <1>2, <1>3, <1>4
<1>8. K = Put(H, <<"dropping", c>>, c)
  BY <1>1, <1>5, <1>6, <1>7, HeldUpdate
<1>9. QED
  BY Zenon, <1>3, <1>4, <1>8

\* The same, of the variables.
LEMMA PutResult ==
  ASSUME TypeOK, NEW f \in Futures, NEW c \in Conns
  PROVE  HeldOf(conn', lease', Put(result, f, c), fconn', dropping')
           = Put(HeldOf(conn', lease', result, fconn', dropping'), <<"result", f>>, c)
<1>1. result \in [Futures -> Conns \cup {None, Err}] /\ c # Err
  BY PoolAssumption DEF TypeOK
<1>2. QED
  BY <1>1, SetResult

LEMMA ClearResult ==
  ASSUME TypeOK, NEW f \in Futures, NEW v \in {None, Err}
  PROVE  HeldOf(conn, lease, Put(result, f, v), fconn, dropping)
           = Put(HeldOf(conn, lease, result, fconn, dropping), <<"result", f>>, None)
<1>1. /\ result \in [Futures -> Conns \cup {None, Err}]
      /\ (v = Err /\ None = None) \/ (v # Err /\ None = v)
  BY PoolAssumption DEF TypeOK
<1>2. QED
  BY <1>1, SetResult

LEMMA PutDropping ==
  ASSUME NEW re, NEW c \in Conns
  PROVE  HeldOf(conn, lease, re, fconn, dropping \cup {c})
           = Put(HeldOf(conn, lease, re, fconn, dropping), <<"dropping", c>>, c)
BY AddDropping

LEMMA EndDropping ==
  ASSUME NEW co, NEW le, NEW re, NEW fc, NEW dr, NEW c \in Conns
  PROVE  HeldOf(co, le, re, fc, dr \ {c})
           = Put(HeldOf(co, le, re, fc, dr), <<"dropping", c>>, None)
<1>1. <<"dropping", c>> \in Holders
  BY DEF Holders
<1>2. ASSUME NEW h \in Holders
      PROVE  HeldOf(co, le, re, fc, dr \ {c})[h]
               = IF h = <<"dropping", c>> THEN None ELSE HeldOf(co, le, re, fc, dr)[h]
  <2>1. CASE h[1] = "dropping"
    BY <2>1 DEF HeldOf, Holders
  <2>2. CASE h[1] # "dropping"
    BY <2>2 DEF HeldOf, Holders
  <2>3. QED
    BY <2>1, <2>2
<1>3. PICK K : K = HeldOf(co, le, re, fc, dr \ {c})
  BY Zenon
<1>4. PICK H : H = HeldOf(co, le, re, fc, dr)
  BY Zenon
<1>5. K = [h \in Holders |-> K[h]]
  BY SMT, <1>3 DEF HeldOf
<1>6. H = [h \in Holders |-> H[h]]
  BY SMT, <1>4 DEF HeldOf
<1>7. \A h \in Holders : K[h] = IF h = <<"dropping", c>> THEN None ELSE H[h]
  BY Zenon, <1>2, <1>3, <1>4
<1>8. K = Put(H, <<"dropping", c>>, None)
  BY <1>1, <1>5, <1>6, <1>7, HeldUpdate
<1>9. QED
  BY Zenon, <1>3, <1>4, <1>8

(* The same facts about the state itself: one holder's part is replaced.   *)

LEMMA ClientHolds ==
  ASSUME TypeOK, NEW b \in Clients, NEW v
  PROVE  HeldOf(Put(conn, b, v), lease, result, fconn, dropping) = Put(held, <<"client", b>>, v)
<1>1. conn \in [Clients -> Conns \cup {None}]
  BY Zenon DEF TypeOK
<1>2. QED
  BY SMT, <1>1, SetClient DEF held

LEMMA OwnerHolds ==
  ASSUME TypeOK, NEW f \in Futures, NEW v
  PROVE  HeldOf(conn, Put(lease, f, v), result, fconn, dropping) = Put(held, <<"owner", f>>, v)
<1>1. lease \in [Futures -> Conns \cup {None}]
  BY Zenon DEF TypeOK
<1>2. QED
  BY SMT, <1>1, SetOwner DEF held

LEMMA ThreadHolds ==
  ASSUME TypeOK, NEW f \in Futures, NEW v
  PROVE  HeldOf(conn, lease, result, Put(fconn, f, v), dropping) = Put(held, <<"thread", f>>, v)
<1>1. fconn \in [Futures -> Conns \cup {None}]
  BY Zenon DEF TypeOK
<1>2. QED
  BY SMT, <1>1, SetThread DEF held

LEMMA DroppingEnds ==
  ASSUME TypeOK, NEW c \in Conns
  PROVE  HeldOf(conn, lease, result, fconn, dropping \ {c}) = Put(held, <<"dropping", c>>, None)
BY SMT, EndDropping DEF TypeOK, held

(* A result its owner polls moves to the owner.                            *)
LEMMA PollHolds ==
  ASSUME TypeOK, NEW f \in Futures, NEW v
  PROVE  HeldOf(conn, Put(lease, f, v), Put(result, f, None), fconn, dropping)
           = Put(Put(held, <<"result", f>>, None), <<"owner", f>>, v)
<1>1. /\ lease \in [Futures -> Conns \cup {None}]
      /\ result \in [Futures -> Conns \cup {None, Err}]
  BY Zenon DEF TypeOK
<1>2. (None = Err /\ None = None) \/ (None # Err /\ None = None)
  BY Zenon
<1>3. HeldOf(conn, lease, Put(result, f, None), fconn, dropping) = Put(held, <<"result", f>>, None)
  BY SMT, <1>1, <1>2, SetResult DEF held
<1>4. PICK re : re = Put(result, f, None)
  BY Zenon
<1>5. HeldOf(conn, Put(lease, f, v), re, fconn, dropping)
        = Put(HeldOf(conn, lease, re, fconn, dropping), <<"owner", f>>, v)
  BY SMT, <1>1, SetOwner
<1>6. QED
  BY Zenon, <1>3, <1>4, <1>5

(* A connection the connector thread delivers moves to the result.         *)
LEMMA DeliverHolds ==
  ASSUME TypeOK, NEW f \in Futures, NEW c \in Conns
  PROVE  HeldOf(conn, lease, Put(result, f, c), Put(fconn, f, None), dropping)
           = Put(Put(held, <<"thread", f>>, None), <<"result", f>>, c)
<1>1. result \in [Futures -> Conns \cup {None, Err}] /\ (c # Err /\ c = c)
  BY Zenon, PoolAssumption DEF TypeOK
<1>2. HeldOf(conn, lease, result, Put(fconn, f, None), dropping) = Put(held, <<"thread", f>>, None)
  BY Zenon, ThreadHolds
<1>3. PICK fc : fc = Put(fconn, f, None)
  BY Zenon
<1>4. HeldOf(conn, lease, Put(result, f, c), fc, dropping)
        = Put(HeldOf(conn, lease, result, fc, dropping), <<"result", f>>, c)
  BY SMT, <1>1, SetResult
<1>5. QED
  BY Zenon, <1>2, <1>3, <1>4

\* Results without a connection hold nothing.
LEMMA SameResults ==
  ASSUME NEW co, NEW le, NEW re, NEW fc, NEW dr, NEW r2,
         \A f \in Futures : r2[f] = re[f] \/ (r2[f] \in {None, Err} /\ re[f] \in {None, Err})
  PROVE  HeldOf(co, le, r2, fc, dr) = HeldOf(co, le, re, fc, dr)
<1>1. ASSUME NEW h \in Holders PROVE HeldOf(co, le, r2, fc, dr)[h] = HeldOf(co, le, re, fc, dr)[h]
  <2>1. CASE h[1] = "result"
    <3>1. h[2] \in Futures
      BY <2>1 DEF Holders
    <3>2. QED
      BY <2>1, <3>1 DEF HeldOf
  <2>2. CASE h[1] # "result"
    BY <2>2 DEF HeldOf
  <2>3. QED
    BY <2>1, <2>2
<1>2. QED
  BY <1>1 DEF HeldOf

LEMMA HeldType ==
  ASSUME TypeOK
  PROVE  /\ held \in [Holders -> Conns \cup {None}]
         /\ \A b \in Clients : <<"client", b>> \in Holders /\ held[<<"client", b>>] = conn[b]
         /\ \A f \in Futures :
              /\ <<"owner", f>> \in Holders /\ held[<<"owner", f>>] = lease[f]
              /\ <<"thread", f>> \in Holders /\ held[<<"thread", f>>] = fconn[f]
              /\ <<"result", f>> \in Holders
              /\ held[<<"result", f>>] = IF result[f] = Err THEN None ELSE result[f]
         /\ \A c \in Conns :
              /\ <<"dropping", c>> \in Holders
              /\ held[<<"dropping", c>>] = IF c \in dropping THEN c ELSE None
<1>1. ASSUME NEW h \in Holders PROVE held[h] \in Conns \cup {None}
  BY DEF held, HeldOf, Holders, TypeOK
<1>2. held \in [Holders -> Conns \cup {None}]
  BY <1>1 DEF held, HeldOf
<1>3. \A b \in Clients : <<"client", b>> \in Holders /\ held[<<"client", b>>] = conn[b]
  BY DEF held, HeldOf, Holders
<1>4. \A f \in Futures :
        /\ <<"owner", f>> \in Holders /\ held[<<"owner", f>>] = lease[f]
        /\ <<"thread", f>> \in Holders /\ held[<<"thread", f>>] = fconn[f]
        /\ <<"result", f>> \in Holders
        /\ held[<<"result", f>>] = IF result[f] = Err THEN None ELSE result[f]
  BY DEF held, HeldOf, Holders
<1>5. \A c \in Conns :
        /\ <<"dropping", c>> \in Holders
        /\ held[<<"dropping", c>>] = IF c \in dropping THEN c ELSE None
  BY DEF held, HeldOf, Holders
<1>6. QED
  BY Zenon, <1>2, <1>3, <1>4, <1>5

-----------------------------------------------------------------------------
(* What may become of the places                                           *)

LEMMA PlacedReap ==
  ASSUME NEW I, NEW O, NEW H, Placed(I, O, H), None \notin O, NEW R \in SUBSET I
  PROVE  Placed(I \ R, O \ R, H)
BY DEF Placed

LEMMA PlacedTake ==
  ASSUME NEW I, NEW O, NEW H \in [Holders -> Conns \cup {None}], Placed(I, O, H), None \notin O, NEW R \in SUBSET I,
         NEW c \in I, c \notin R, c # None, NEW h \in Holders, H[h] = None
  PROVE  Placed(I \ (R \cup {c}), O \ R, Put(H, h, c))
<1>1. PICK K : K = Put(H, h, c)
  BY Zenon
<1>2. K[h] = c /\ \A g \in Holders : g # h => K[g] = H[g]
  BY <1>1 DEF Put
<1>3. \A g \in Holders : H[g] # c
  BY Zenon DEF Placed
<1>4. \A g \in Holders : K[g] # None => K[g] \in O \ R /\ K[g] \notin I \ (R \cup {c})
  BY <1>2, <1>3 DEF Placed
<1>5. \A e, g \in Holders : K[e] # None /\ K[e] = K[g] => e = g
  <2>1. ASSUME NEW e \in Holders, NEW g \in Holders, e # h, g # h, K[e] # None, K[e] = K[g] PROVE e = g
    <3>1. K[e] = H[e] /\ K[g] = H[g]
      BY Zenon, <1>2, <2>1
    <3>2. H[e] # None /\ H[e] = H[g]
      BY Zenon, <2>1, <3>1
    <3>3. QED
      BY Zenon, <3>2 DEF Placed
  <2>2. ASSUME NEW g \in Holders, g # h PROVE K[g] # K[h]
    BY Zenon, <1>2, <1>3, <2>2
  <2>3. QED
    BY Zenon, <2>1, <2>2
<1>6. ASSUME NEW d \in O \ R PROVE d \in I \ (R \cup {c}) \/ \E g \in Holders : K[g] = d
  <2>1. CASE d = c
    BY Zenon, <1>2, <2>1
  <2>2. ASSUME NEW g \in Holders, H[g] = d, d # c PROVE K[g] = d
    <3>1. d # None
      BY <1>6
    <3>2. QED
      BY Zenon, <1>2, <2>2, <3>1
  <2>3. d # c => d \in I \/ \E g \in Holders : H[g] = d
    BY Zenon, <1>6 DEF Placed
  <2>4. QED
    BY <1>6, <2>1, <2>2, <2>3
<1>7. Placed(I \ (R \cup {c}), O \ R, K)
  BY <1>4, <1>5, <1>6 DEF Placed
<1>8. QED
  BY Zenon, <1>1, <1>7

LEMMA PlacedOpen ==
  ASSUME NEW I, NEW O, NEW H \in [Holders -> Conns \cup {None}], Placed(I, O, H), None \notin O, NEW c, c \notin O, c # None,
         NEW h \in Holders, H[h] = None
  PROVE  Placed(I, O \cup {c}, Put(H, h, c))
<1>1. PICK K : K = Put(H, h, c)
  BY Zenon
<1>2. K[h] = c /\ \A g \in Holders : g # h => K[g] = H[g]
  BY <1>1 DEF Put
<1>3. \A g \in Holders : H[g] # c
  BY Zenon DEF Placed
<1>4. \A g \in Holders : K[g] # None => K[g] \in O \cup {c} /\ K[g] \notin I
  BY <1>2, <1>3 DEF Placed
<1>5. \A e, g \in Holders : K[e] # None /\ K[e] = K[g] => e = g
  <2>1. ASSUME NEW e \in Holders, NEW g \in Holders, e # h, g # h, K[e] # None, K[e] = K[g] PROVE e = g
    <3>1. K[e] = H[e] /\ K[g] = H[g]
      BY Zenon, <1>2, <2>1
    <3>2. H[e] # None /\ H[e] = H[g]
      BY Zenon, <2>1, <3>1
    <3>3. QED
      BY Zenon, <3>2 DEF Placed
  <2>2. ASSUME NEW g \in Holders, g # h PROVE K[g] # K[h]
    BY Zenon, <1>2, <1>3, <2>2
  <2>3. QED
    BY Zenon, <2>1, <2>2
<1>6. ASSUME NEW d \in O \cup {c} PROVE d \in I \/ \E g \in Holders : K[g] = d
  <2>1. CASE d = c
    BY Zenon, <1>2, <2>1
  <2>2. ASSUME NEW g \in Holders, H[g] = d, d # c PROVE K[g] = d
    <3>1. d # None
      BY <1>6
    <3>2. QED
      BY Zenon, <1>2, <2>2, <3>1
  <2>3. d # c => d \in I \/ \E g \in Holders : H[g] = d
    BY Zenon, <1>6 DEF Placed
  <2>4. QED
    BY <1>6, <2>1, <2>2, <2>3
<1>7. Placed(I, O \cup {c}, K)
  BY <1>4, <1>5, <1>6 DEF Placed
<1>8. QED
  BY Zenon, <1>1, <1>7

LEMMA PlacedMove ==
  ASSUME NEW I, NEW O, NEW H \in [Holders -> Conns \cup {None}], Placed(I, O, H), None \notin O,
         NEW g \in Holders, NEW h \in Holders, g # h, H[h] = None
  PROVE  Placed(I, O, Put(Put(H, g, None), h, H[g]))
BY DEF Placed, Put

LEMMA PlacedReturn ==
  ASSUME NEW I, NEW O, NEW H \in [Holders -> Conns \cup {None}], Placed(I, O, H), None \notin O, NEW g \in Holders, H[g] # None
  PROVE  Placed(I \cup {H[g]}, O, Put(H, g, None))
BY DEF Placed, Put

LEMMA PlacedClose ==
  ASSUME NEW I, NEW O, NEW H \in [Holders -> Conns \cup {None}], Placed(I, O, H), None \notin O, NEW g \in Holders, H[g] # None
  PROVE  Placed(I, O \ {H[g]}, Put(H, g, None))
BY DEF Placed, Put

-----------------------------------------------------------------------------
(* The idle queue, the open connections and their holders in a step        *)

LEMMA ReapedFacts ==
  ASSUME Counting, TypeOK, PlaceInv, IsFiniteSet(open), NEW k \in 0..Len(idle)
  PROVE  /\ Reaped(k) \in SUBSET Idle
         /\ IsFiniteSet(open \ Reaped(k))
         /\ Cardinality(open \ Reaped(k)) = Cardinality(open) - k
<1>1. Reaped(k) \in SUBSET Idle
  BY OpenFacts DEF Reaped, Idle
<1>2. Reaped(k) \in SUBSET open
  BY <1>1 DEF PlaceInv, Placed
<1>3. open \cap Reaped(k) = Reaped(k)
  BY Zenon, <1>2
<1>4. Cardinality(Reaped(k)) = k
  <2>1. idle \in Seq(Conns)
    BY DEF TypeOK
  <2>2. \A i, j \in DOMAIN idle : idle[i] = idle[j] => i = j
    BY Zenon DEF PlaceInv
  <2>3. /\ \A i \in 1..k : idle[i] \in Reaped(k)
        /\ \A t \in Reaped(k) : \E i \in 1..k : idle[i] = t
    BY Zenon DEF Reaped
  <2>4. QED
    BY ZenonT(60), <2>1, <2>2, <2>3, RangeSize
<1>5. PICK R : R = Reaped(k)
  BY Zenon
<1>6. open \cap R = R /\ Cardinality(R) = k
  BY Zenon, <1>3, <1>4, <1>5
<1>7. IsFiniteSet(open \ R) /\ Cardinality(open \ R) = Cardinality(open) - k
  BY ZenonT(60), <1>6, DifferenceSize
<1>8. QED
  BY Zenon, <1>1, <1>5, <1>7

\* Idle connections are open, and what somebody holds is open and not idle.
LEMMA Room ==
  ASSUME Counting, TypeOK, PlaceInv, IsFiniteSet(open)
  PROVE  /\ Cardinality(open) \in Nat /\ Len(idle) <= Cardinality(open)
         /\ \A h \in Holders : held[h] # None => Len(idle) + 1 <= Cardinality(open)
<1>1. Len(idle) \in 0..Len(idle) /\ Len(idle) \in Nat
  BY OpenFacts
<1>2. PICK R : R = open \ Reaped(Len(idle))
  BY Zenon
<1>3. IsFiniteSet(R) /\ Cardinality(R) = Cardinality(open) - Len(idle)
  BY Zenon, <1>1, <1>2, ReapedFacts
<1>4. Cardinality(R) \in Nat /\ Cardinality(open) \in Nat
  BY Zenon, <1>3, SizeType
<1>5. ASSUME NEW h \in Holders, held[h] # None PROVE Cardinality(R) # 0
  <2>1. held[h] \in open /\ held[h] \notin Idle
    BY Zenon, <1>5 DEF PlaceInv, Placed
  <2>2. held[h] \in R
    BY Zenon, <1>2, <2>1, OpenFacts
  <2>3. QED
    BY Zenon, <1>3, <2>2, EmptySize
<1>6. QED
  BY <1>1, <1>3, <1>4, <1>5

LEMMA DoQuiet ==
  ASSUME PlaceInv, idle' = idle, open' = open, held' = held
  PROVE  PlaceInv'
<1>1. Idle' = Idle
  BY Zenon DEF Idle
<1>2. Placed(Idle', open', held')
  BY Zenon, <1>1 DEF PlaceInv
<1>3. QED
  BY Zenon, <1>2 DEF PlaceInv

LEMMA DoReap ==
  ASSUME Counting, TypeOK, PlaceInv, IsFiniteSet(open),
         idle' = <<>>, open' = open \ Reaped(Len(idle)), held' = held
  PROVE  /\ PlaceInv' /\ IsFiniteSet(open')
         /\ Cardinality(open') = Cardinality(open) - Len(idle) /\ Len(idle') = 0
<1>1. Len(idle) \in 0..Len(idle)
  BY OpenFacts
<1>2. IsFiniteSet(open') /\ Cardinality(open') = Cardinality(open) - Len(idle)
  BY Zenon, <1>1, ReapedFacts
<1>3. DOMAIN idle' = {} /\ Len(idle') = 0
  OBVIOUS
<1>4. Idle' = {}
  BY Zenon, <1>3 DEF Idle
<1>5. Idle \in SUBSET Idle /\ Idle \ Idle = {}
  BY Zenon
<1>6. Placed(Idle, open, held)
  BY Zenon DEF PlaceInv
<1>7. Placed(Idle \ Idle, open \ Idle, held)
  BY Zenon, <1>5, <1>6, OpenFacts, PlacedReap
<1>8. Placed(Idle', open', held')
  BY Zenon, <1>4, <1>5, <1>7, OpenFacts
<1>9. QED
  BY Zenon, <1>2, <1>3, <1>8 DEF PlaceInv

LEMMA DoTake ==
  ASSUME Counting, TypeOK, PlaceInv, IsFiniteSet(open), NEW k \in Reapable, k < Len(idle),
         idle' = Tail(AfterReap(k)), open' = open \ Reaped(k),
         NEW h \in Holders, held[h] = None, held' = Put(held, h, idle[k + 1])
  PROVE  /\ PlaceInv' /\ IsFiniteSet(open') /\ idle' \in Seq(Conns)
         /\ Cardinality(open') = Cardinality(open) - k /\ Len(idle') = Len(idle) - k - 1
         /\ idle[k + 1] \in Conns
<1>1. k \in 0..Len(idle) /\ k + 1 \in DOMAIN idle
  BY OpenFacts DEF Reapable
<1>2. IsFiniteSet(open') /\ Cardinality(open') = Cardinality(open) - k /\ Reaped(k) \in SUBSET Idle
  BY Zenon, <1>1, ReapedFacts
<1>3. idle \in Seq(Conns) /\ \A i, j \in DOMAIN idle : idle[i] = idle[j] => i = j
  BY DEF TypeOK, PlaceInv
<1>4. /\ idle' \in Seq(Conns) /\ Len(idle') = Len(idle) - k - 1
      /\ \A i \in DOMAIN idle' : i + k + 1 \in DOMAIN idle /\ idle'[i] = idle[i + k + 1]
      /\ DOMAIN idle' = 1..(Len(idle) - k - 1)
  <2>1. PICK q : q = AfterReap(k)
    BY Zenon
  <2>2. q \in Seq(Conns) /\ Len(q) = Len(idle) - k /\ \A i \in 1..Len(q) : q[i] = idle[i + k]
    BY <1>1, <1>3, <2>1, OpenFacts DEF AfterReap
  <2>3. q # <<>>
    BY <1>1, <2>2, OpenFacts
  <2>4. /\ Tail(q) \in Seq(Conns) /\ Len(Tail(q)) = Len(q) - 1
        /\ \A i \in 1..(Len(q) - 1) : Tail(q)[i] = q[i + 1]
    BY <2>2, <2>3
  <2>5. idle' = Tail(q)
    BY Zenon, <2>1
  <2>6. \A i \in 1..(Len(idle) - k - 1) :
          /\ i \in 1..(Len(q) - 1) /\ i + 1 \in 1..Len(q)
          /\ i + k + 1 \in DOMAIN idle /\ (i + 1) + k = i + k + 1
    BY <1>1, <2>2, OpenFacts
  <2>7. idle' \in Seq(Conns) /\ Len(idle') = Len(idle) - k - 1
    BY <1>1, <2>2, <2>4, <2>5, OpenFacts
  <2>8. DOMAIN idle' = 1..(Len(idle) - k - 1)
    BY <2>7
  <2>9. QED
    BY Zenon, <2>2, <2>4, <2>5, <2>6, <2>7, <2>8
<1>5. PICK c : c = idle[k + 1]
  BY Zenon
<1>6. c \in Idle /\ c \in Conns /\ c # None
  BY Zenon, <1>1, <1>5, OpenFacts DEF Idle
<1>7. c \notin Reaped(k)
  BY <1>1, <1>3, <1>5, OpenFacts DEF Reaped
<1>8. Idle' = Idle \ (Reaped(k) \cup {c})
  <2>1. ASSUME NEW i \in DOMAIN idle' PROVE idle'[i] \in Idle \ (Reaped(k) \cup {c})
    <3>1. i + k + 1 \in DOMAIN idle /\ idle'[i] = idle[i + k + 1] /\ i \in 1..(Len(idle) - k - 1)
      BY Zenon, <1>4, <2>1
    <3>2. \A j \in 1..k : j \in DOMAIN idle /\ j # i + k + 1
      BY <1>1, <3>1, OpenFacts
    <3>3. i + k + 1 # k + 1
      BY <1>1, <3>1, OpenFacts
    <3>4. idle[i + k + 1] \notin Reaped(k) /\ idle[i + k + 1] # c
      BY Zenon, <1>1, <1>3, <1>5, <3>1, <3>2, <3>3 DEF Reaped
    <3>5. QED
      BY Zenon, <3>1, <3>4 DEF Idle
  <2>2. ASSUME NEW i \in DOMAIN idle, idle[i] \notin Reaped(k), i # k + 1 PROVE \E j \in DOMAIN idle' : idle'[j] = idle[i]
    <3>1. i \notin 1..k
      BY Zenon, <2>2 DEF Reaped
    <3>a. i \in 1..Len(idle) /\ Len(idle) \in Nat /\ k \in Nat /\ k < Len(idle)
      BY <1>1, <2>2, OpenFacts
    <3>b. i - k - 1 \in 1..(Len(idle) - k - 1) /\ (i - k - 1) + k + 1 = i
      BY <2>2, <3>1, <3>a
    <3>2. i - k - 1 \in DOMAIN idle' /\ (i - k - 1) + k + 1 = i
      BY Zenon, <1>4, <3>b
    <3>3. QED
      BY Zenon, <1>4, <3>2
  <2>3. ASSUME NEW d \in Idle' PROVE d \in Idle \ (Reaped(k) \cup {c})
    BY Zenon, <2>1, <2>3 DEF Idle
  <2>4. ASSUME NEW d \in Idle, d \notin Reaped(k), d # c PROVE d \in Idle'
    <3>1. PICK i \in DOMAIN idle : d = idle[i]
      BY Zenon, <2>4 DEF Idle
    <3>2. i # k + 1
      BY Zenon, <1>5, <2>4, <3>1
    <3>3. \E j \in DOMAIN idle' : idle'[j] = d
      BY Zenon, <2>2, <2>4, <3>1, <3>2
    <3>4. QED
      BY Zenon, <3>3 DEF Idle
  <2>5. QED
    BY <2>3, <2>4
<1>9. ASSUME NEW i \in DOMAIN idle', NEW j \in DOMAIN idle', idle'[i] = idle'[j] PROVE i = j
  <2>1. i + k + 1 = j + k + 1 /\ i \in 1..(Len(idle) - k - 1) /\ j \in 1..(Len(idle) - k - 1)
    BY Zenon, <1>3, <1>4, <1>9
  <2>2. QED
    BY <1>1, <2>1
<1>10. Placed(Idle, open, held)
  BY Zenon DEF PlaceInv
<1>11. Placed(Idle \ (Reaped(k) \cup {c}), open \ Reaped(k), Put(held, h, c))
  BY Zenon, <1>2, <1>6, <1>7, <1>10, OpenFacts, HeldType, PlacedTake
<1>12. Placed(Idle', open', held')
  BY Zenon, <1>5, <1>8, <1>11
<1>13. QED
  BY Zenon, <1>2, <1>4, <1>5, <1>6, <1>9, <1>12 DEF PlaceInv

LEMMA DoOpen ==
  ASSUME Counting, TypeOK, PlaceInv, IsFiniteSet(open), NEW c \in Conns, c \notin open,
         idle' = idle, open' = open \cup {c},
         NEW h \in Holders, held[h] = None, held' = Put(held, h, c)
  PROVE  PlaceInv' /\ IsFiniteSet(open') /\ Cardinality(open') = Cardinality(open) + 1
<1>1. IsFiniteSet(open') /\ Cardinality(open') = Cardinality(open) + 1
  BY Zenon, AddOne
<1>2. c # None
  BY Zenon, PoolAssumption
<1>3. Placed(Idle, open, held)
  BY Zenon DEF PlaceInv
<1>4. Placed(Idle, open \cup {c}, Put(held, h, c))
  BY Zenon, <1>2, <1>3, OpenFacts, HeldType, PlacedOpen
<1>5. Idle' = Idle
  BY Zenon DEF Idle
<1>6. QED
  BY Zenon, <1>1, <1>4, <1>5 DEF PlaceInv

LEMMA DoMove ==
  ASSUME TypeOK, PlaceInv, idle' = idle, open' = open,
         NEW g \in Holders, NEW h \in Holders, g # h, held[h] = None,
         held' = Put(Put(held, g, None), h, held[g])
  PROVE  PlaceInv'
<1>1. Placed(Idle, open, held)
  BY Zenon DEF PlaceInv
<1>2. Placed(Idle, open, held')
  BY Zenon, <1>1, OpenFacts, HeldType, PlacedMove
<1>3. Idle' = Idle
  BY Zenon DEF Idle
<1>4. QED
  BY Zenon, <1>2, <1>3 DEF PlaceInv

LEMMA DoReturn ==
  ASSUME TypeOK, PlaceInv, open' = open,
         NEW g \in Holders, held[g] # None,
         idle' = Append(idle, held[g]), held' = Put(held, g, None)
  PROVE  PlaceInv' /\ Len(idle') = Len(idle) + 1 /\ idle' \in Seq(Conns) /\ idle' # <<>>
<1>1. Placed(Idle, open, held)
  BY Zenon DEF PlaceInv
<1>2. PICK c : c = held[g]
  BY Zenon
<1>3. c \in Conns /\ c \notin Idle
  <2>1. c \in Conns
    BY Zenon, <1>2, HeldType
  <2>2. QED
    BY Zenon, <1>1, <1>2, <2>1 DEF Placed
<1>4. idle \in Seq(Conns) /\ \A i, j \in DOMAIN idle : idle[i] = idle[j] => i = j
  BY DEF TypeOK, PlaceInv
<1>5. idle' = Append(idle, c)
  BY Zenon, <1>2
<1>6. /\ idle' \in Seq(Conns) /\ Len(idle') = Len(idle) + 1 /\ idle' # <<>>
      /\ DOMAIN idle' = DOMAIN idle \cup {Len(idle) + 1}
      /\ \A i \in DOMAIN idle : idle'[i] = idle[i] /\ i # Len(idle) + 1
      /\ idle'[Len(idle) + 1] = c
  BY <1>3, <1>4, <1>5
<1>7. Idle' = Idle \cup {c}
  BY ZenonT(60), <1>6 DEF Idle
<1>8. ASSUME NEW i \in DOMAIN idle', NEW j \in DOMAIN idle', idle'[i] = idle'[j] PROVE i = j
  <2>1. \A m \in DOMAIN idle : idle[m] # c
    BY Zenon, <1>3 DEF Idle
  <2>2. QED
    BY Zenon, <1>4, <1>6, <1>8, <2>1
<1>9. Placed(Idle \cup {c}, open, Put(held, g, None))
  BY Zenon, <1>1, <1>2, OpenFacts, HeldType, PlacedReturn
<1>10. QED
  BY Zenon, <1>6, <1>7, <1>8, <1>9 DEF PlaceInv

LEMMA DoClose ==
  ASSUME Counting, TypeOK, PlaceInv, IsFiniteSet(open), idle' = idle,
         NEW g \in Holders, held[g] # None,
         open' = open \ {held[g]}, held' = Put(held, g, None)
  PROVE  PlaceInv' /\ IsFiniteSet(open') /\ Cardinality(open') = Cardinality(open) - 1
<1>1. Placed(Idle, open, held)
  BY Zenon DEF PlaceInv
<1>2. held[g] \in open
  BY Zenon, <1>1 DEF Placed
<1>3. IsFiniteSet(open') /\ Cardinality(open') = Cardinality(open) - 1
  BY Zenon, <1>2, RemoveOne
<1>4. Placed(Idle, open \ {held[g]}, Put(held, g, None))
  BY Zenon, <1>1, OpenFacts, HeldType, PlacedClose
<1>5. Idle' = Idle
  BY Zenon DEF Idle
<1>6. QED
  BY Zenon, <1>3, <1>4, <1>5 DEF PlaceInv

LEMMA ReleaseType ==
  ASSUME Counting, TypeOK, NEW c \in Conns, NEW valid \in BOOLEAN, ReleaseRaw(c, valid)
  PROVE  /\ StateType'
         /\ result' \in [Futures -> Conns \cup {None, Err}] /\ missed' \subseteq Clients
<1>1. checked_out' \in Nat /\ closed' \in BOOLEAN /\ missed' \subseteq Clients
  BY MissType, LessFacts DEF ReleaseRaw, TypeOK
<1>2. CASE Discard(c)
  BY <1>1, <1>2, LessFacts DEF Discard, TypeOK, StateType
<1>3. CASE LiveWaiters # {} /\ HandOver(c)
  <2>1. FirstLive \in DOMAIN waiters
    BY Zenon, <1>3, FirstLiveFacts
  <2>2. waiters' \in Seq(Futures)
    BY <1>3, <2>1 DEF HandOver, TypeOK
  <2>3. QED
    BY <1>1, <1>3, <2>2 DEF HandOver, TypeOK, StateType
<1>4. CASE PushIdle(c)
  BY <1>1, <1>4 DEF PushIdle, TypeOK, StateType
<1>5. QED
  BY Zenon, <1>2, <1>3, <1>4 DEF ReleaseRaw

LEMMA RemoveType ==
  ASSUME Counting, TypeOK, NEW f \in Futures, RemoveWaiter(f)
  PROVE  StateType' /\ WakeType'
<1>1. waiters' \in Seq(Futures)
  BY Zenon, WithoutFacts DEF RemoveWaiter, TypeOK
<1>2. WakeType'
  BY Zenon, NotifyFacts DEF RemoveWaiter
<1>3. QED
  BY <1>1, <1>2 DEF RemoveWaiter, TypeOK, StateType

\* A reap leaves a count.
LEMMA ReapType ==
  ASSUME Counting, TypeOK, PlaceInv, CountInv, NEW k \in 0..Len(idle)
  PROVE  total - k \in Nat /\ open \ Reaped(k) \subseteq Conns
<1>1. Len(idle) <= Cardinality(open) /\ Cardinality(open) \in Nat
  BY Zenon, Room DEF CountInv
<1>2. Reservations \in Nat /\ total = Cardinality(open) + Reservations
  <2>1. Cardinality(Connecting) \in Nat /\ Cardinality(ThreadsConnecting) \in Nat
    BY Zenon, SizeType DEF CountInv
  <2>2. QED
    BY <2>1 DEF CountInv, TotalIsExact, Reservations, Connecting, ThreadsConnecting
<1>3. Len(idle) \in Nat /\ total \in Nat /\ open \subseteq Conns
  BY DEF TypeOK
<1>4. QED
  BY <1>1, <1>2, <1>3

LEMMA TakeType ==
  ASSUME Counting, TypeOK, PlaceInv, CountInv, NEW k \in Reapable, k < Len(idle)
  PROVE  /\ Tail(AfterReap(k)) \in Seq(Conns) /\ idle[k + 1] \in Conns
         /\ total - k \in Nat /\ open \ Reaped(k) \subseteq Conns
<1>1. k \in 0..Len(idle) /\ Len(idle) \in Nat /\ idle \in Seq(Conns)
  BY DEF Reapable, TypeOK
<1>2. PICK q : q = AfterReap(k)
  BY Zenon
<1>3. q \in Seq(Conns) /\ Len(q) = Len(idle) - k
  BY <1>1, <1>2 DEF AfterReap
<1>4. Tail(q) \in Seq(Conns) /\ idle[k + 1] \in Conns
  BY <1>1, <1>3
<1>5. QED
  BY Zenon, <1>1, <1>2, <1>4, ReapType

LEMMA TypeStep ==
  ASSUME Counting, TypeOK, PlaceInv, ShapeInv, CountInv, [Next]_vars
  PROVE  TypeOK'
<1>a. USE DEF stateVars, futureVars
<1>0. Len(idle) \in 0..Len(idle) /\ Len(idle) \in Nat
  BY DEF TypeOK
<1>1. ASSUME NEW b \in Clients, ClientWaits(b) PROVE TypeOK'
  BY Zenon, <1>1, WaitsFacts DEF TypeOK
<1>2. ASSUME NEW b \in Clients, Reserve(b) PROVE TypeOK'
  <2>1. total - Len(idle) \in Nat /\ open \ Reaped(Len(idle)) \subseteq Conns
    BY Zenon, <1>0, ReapType
  <2>2. QED
    BY <1>2, <2>1 DEF Reserve, TypeOK
<1>3. ASSUME NEW b \in Clients, ConnectFails(b) PROVE TypeOK'
  BY <1>3, LessFacts, NotifyAndFacts, MissType DEF ConnectFails, TypeOK, StateType, WakeType
<1>4. ASSUME NEW b \in Clients, NEW k \in Reapable, TakeIdle(b, k) PROVE TypeOK'
  <2>1. k < Len(idle) /\ idle' = Tail(AfterReap(k)) /\ open' = open \ Reaped(k) /\ total' = total - k
    BY Zenon, <1>4 DEF TakeIdle
  <2>2. idle' \in Seq(Conns) /\ idle[k + 1] \in Conns /\ total' \in Nat /\ open' \subseteq Conns
    BY Zenon, <1>4, <2>1, TakeType
  <2>3. QED
    BY <1>4, <2>2 DEF TakeIdle, TypeOK
<1>5. ASSUME NEW b \in Clients, NEW c \in Conns, ConnectOk(b, c) PROVE TypeOK'
  BY <1>5 DEF ConnectOk, TypeOK
<1>6. ASSUME NEW b \in Clients, NEW valid \in BOOLEAN, Release(b, valid) PROVE TypeOK'
  <2>1. conn[b] \in Conns
    BY <1>6 DEF ShapeInv, ClientShape, FutureShape, Core, Release, TypeOK
  <2>2. StateType' /\ result' \in [Futures -> Conns \cup {None, Err}] /\ missed' \subseteq Clients
    BY Zenon, <1>6, <2>1, ReleaseType DEF Release
  <2>3. WakeType'
    <3>1. pc[b] # "parked"
      BY <1>6 DEF Release
    <3>2. QED
      BY Zenon, <1>6, <3>1, NotifyAndFacts DEF Release
  <2>4. QED
    BY <1>6, <2>2, <2>3 DEF Release, TypeOK, StateType, WakeType
<1>7. ASSUME NEW f \in Futures, BeginReserve(f) PROVE TypeOK'
  <2>1. total - Len(idle) \in Nat /\ open \ Reaped(Len(idle)) \subseteq Conns
    BY Zenon, <1>0, ReapType
  <2>2. QED
    BY <1>7, <2>1 DEF BeginReserve, TypeOK
<1>8. ASSUME NEW f \in Futures, BeginQueue(f) PROVE TypeOK'
  BY <1>8 DEF BeginQueue, TypeOK
<1>9. ASSUME NEW f \in Futures, NEW k \in Reapable, BeginIdle(f, k) PROVE TypeOK'
  <2>1. k < Len(idle) /\ idle' = Tail(AfterReap(k)) /\ open' = open \ Reaped(k) /\ total' = total - k
    BY Zenon, <1>9 DEF BeginIdle
  <2>2. idle' \in Seq(Conns) /\ idle[k + 1] \in Conns /\ total' \in Nat /\ open' \subseteq Conns
    BY Zenon, <1>9, <2>1, TakeType
  <2>3. QED
    BY <1>9, <2>2 DEF BeginIdle, TypeOK
<1>10. ASSUME NEW f \in Futures, Poll(f) PROVE TypeOK'
  BY <1>10 DEF Poll, TypeOK
<1>11. ASSUME NEW f \in Futures, DropCheck(f) PROVE TypeOK'
  BY <1>11 DEF DropCheck, TypeOK
<1>12. ASSUME NEW f \in Futures, DropCancel(f) PROVE TypeOK'
  BY <1>12 DEF DropCancel, TypeOK
<1>13. ASSUME NEW f \in Futures, DropRemove(f) PROVE TypeOK'
  BY <1>13, RemoveType DEF DropRemove, TypeOK, StateType, WakeType
<1>14. ASSUME NEW f \in Futures, WaiterFreed(f) PROVE TypeOK'
  BY <1>14 DEF WaiterFreed, TypeOK
<1>15. ASSUME NEW f \in Futures, NEW valid \in BOOLEAN, ReleaseLease(f, valid) PROVE TypeOK'
  <2>1. lease[f] \in Conns
    BY <1>15 DEF ReleaseLease, TypeOK
  <2>2. StateType' /\ result' \in [Futures -> Conns \cup {None, Err}] /\ missed' \subseteq Clients
    BY Zenon, <1>15, <2>1, ReleaseType DEF ReleaseLease
  <2>3. WakeType'
    BY Zenon, <1>15, NotifyFacts DEF ReleaseLease
  <2>4. QED
    BY <1>15, <2>2, <2>3 DEF ReleaseLease, TypeOK, StateType, WakeType
<1>16. ASSUME NEW f \in Futures, NEW c \in Conns, ThreadConnectOk(f, c) PROVE TypeOK'
  BY <1>16 DEF ThreadConnectOk, TypeOK
<1>17. ASSUME NEW f \in Futures, ThreadConnectFails(f) PROVE TypeOK'
  BY <1>17, LessFacts, NotifyFacts, MissType DEF ThreadConnectFails, TypeOK, StateType, WakeType
<1>18. ASSUME NEW f \in Futures, Park(f) PROVE TypeOK'
  <2>1. fconn[f] \in Conns
    BY <1>18 DEF Park, TypeOK, ShapeInv, ClientShape, FutureShape, Core
  <2>2. WakeType' /\ missed' \subseteq Clients
    BY Zenon, <1>18, NotifyFacts, MissType DEF Park
  <2>3. checked_out' \in Nat
    BY <1>18, LessFacts DEF Park, TypeOK
  <2>4. QED
    BY <1>18, <2>1, <2>2, <2>3 DEF Park, TypeOK, WakeType
<1>19. ASSUME NEW f \in Futures, Deliver(f) PROVE TypeOK'
  BY <1>19 DEF Deliver, TypeOK
<1>20. ASSUME NEW f \in Futures, TimerFires(f) PROVE TypeOK'
  BY <1>20 DEF TimerFires, TypeOK
<1>21. ASSUME NEW f \in Futures, TimerRemove(f) PROVE TypeOK'
  BY <1>21, RemoveType DEF TimerRemove, TypeOK, StateType, WakeType
<1>22. ASSUME NEW f \in Futures, TimerDeliver(f) PROVE TypeOK'
  BY <1>22 DEF TimerDeliver, TypeOK
<1>23. ASSUME NEW c \in dropping, NEW valid \in BOOLEAN, FinishDrop(c, valid) PROVE TypeOK'
  <2>1. c \in Conns
    BY <1>23 DEF FinishDrop, TypeOK
  <2>2. StateType' /\ result' \in [Futures -> Conns \cup {None, Err}] /\ missed' \subseteq Clients
    BY Zenon, <1>23, <2>1, ReleaseType DEF FinishDrop
  <2>3. WakeType'
    BY Zenon, <1>23, NotifyFacts DEF FinishDrop
  <2>4. QED
    BY <1>23, <2>2, <2>3 DEF FinishDrop, TypeOK, StateType, WakeType
<1>24. ASSUME Shutdown PROVE TypeOK'
  <2>1. total - Len(idle) \in Nat /\ open \ Reaped(Len(idle)) \subseteq Conns
    BY Zenon, <1>0, ReapType
  <2>2. QED
    BY <1>24, <2>1 DEF Shutdown, TypeOK
<1>25. CASE Settles
  BY Zenon, <1>25, SettlesFacts DEF TypeOK
<1>26. QED
  BY Zenon, <1>1, <1>2, <1>3, <1>4, <1>5, <1>6, <1>7, <1>8, <1>9, <1>10, <1>11, <1>12, <1>13,
     <1>14, <1>15, <1>16, <1>17, <1>18, <1>19, <1>20, <1>21, <1>22, <1>23, <1>24, <1>25
  DEF Next, ClientStep, FutureStep, ThreadStep, ClientWaits, Settles

-----------------------------------------------------------------------------
(* The books                                                               *)

LEMMA ReservationFacts ==
  ASSUME Counting, CountInv
  PROVE  /\ Reservations = Cardinality(Connecting) + Cardinality(ThreadsConnecting)
         /\ Cardinality(Connecting) \in Nat /\ Cardinality(ThreadsConnecting) \in Nat
         /\ Reservations \in Nat
<1>1. Cardinality(Connecting) \in Nat /\ Cardinality(ThreadsConnecting) \in Nat
  BY Zenon, SizeType DEF CountInv
<1>2. Reservations = Cardinality(Connecting) + Cardinality(ThreadsConnecting)
  BY Zenon DEF Reservations, Connecting, ThreadsConnecting
<1>3. QED
  BY <1>1, <1>2

SameClients == \A b \in Clients : pc'[b] = "connecting" <=> pc[b] = "connecting"
SameThreads == \A f \in Futures : connector'[f] = "connecting" <=> connector[f] = "connecting"

LEMMA SameReservations ==
  ASSUME Counting, CountInv, SameClients, SameThreads
  PROVE  IsFiniteSet(Connecting') /\ IsFiniteSet(ThreadsConnecting') /\ Reservations' = Reservations
<1>1. Connecting' = Connecting
  BY DEF Connecting, SameClients
<1>2. ThreadsConnecting' = ThreadsConnecting
  BY DEF ThreadsConnecting, SameThreads
<1>3. Reservations' = Cardinality(Connecting') + Cardinality(ThreadsConnecting')
  BY Zenon DEF Reservations, Connecting, ThreadsConnecting
<1>4. QED
  BY Zenon, <1>1, <1>2, <1>3, ReservationFacts DEF CountInv

LEMMA ClientReserves ==
  ASSUME Counting, CountInv, SameThreads, NEW b \in Clients, pc[b] # "connecting", pc'[b] = "connecting",
         \A d \in Clients : d # b => (pc'[d] = "connecting" <=> pc[d] = "connecting")
  PROVE  IsFiniteSet(Connecting') /\ IsFiniteSet(ThreadsConnecting') /\ Reservations' = Reservations + 1
<1>1. Connecting' = Connecting \cup {b} /\ b \notin Connecting
  BY DEF Connecting
<1>2. ThreadsConnecting' = ThreadsConnecting
  BY DEF ThreadsConnecting, SameThreads
<1>3. Reservations' = Cardinality(Connecting') + Cardinality(ThreadsConnecting')
  BY Zenon DEF Reservations, Connecting, ThreadsConnecting
<1>4. IsFiniteSet(Connecting') /\ Cardinality(Connecting') = Cardinality(Connecting) + 1
  BY Zenon, <1>1, AddOne DEF CountInv
<1>5. IsFiniteSet(ThreadsConnecting') /\ Cardinality(ThreadsConnecting') = Cardinality(ThreadsConnecting)
  BY Zenon, <1>2 DEF CountInv
<1>6. QED
  BY <1>3, <1>4, <1>5, ReservationFacts

LEMMA ClientReservationEnds ==
  ASSUME Counting, CountInv, SameThreads, NEW b \in Clients, pc[b] = "connecting", pc'[b] # "connecting",
         \A d \in Clients : d # b => (pc'[d] = "connecting" <=> pc[d] = "connecting")
  PROVE  /\ IsFiniteSet(Connecting') /\ IsFiniteSet(ThreadsConnecting')
         /\ Reservations' = Reservations - 1 /\ Reservations >= 1
<1>1. Connecting' = Connecting \ {b} /\ b \in Connecting
  BY DEF Connecting
<1>2. ThreadsConnecting' = ThreadsConnecting
  BY DEF ThreadsConnecting, SameThreads
<1>3. Reservations' = Cardinality(Connecting') + Cardinality(ThreadsConnecting')
  BY Zenon DEF Reservations, Connecting, ThreadsConnecting
<1>4. IsFiniteSet(Connecting') /\ Cardinality(Connecting') = Cardinality(Connecting) - 1
  BY Zenon, <1>1, RemoveOne DEF CountInv
<1>5. IsFiniteSet(ThreadsConnecting') /\ Cardinality(ThreadsConnecting') = Cardinality(ThreadsConnecting)
  BY Zenon, <1>2 DEF CountInv
<1>6. Cardinality(Connecting') \in Nat
  BY Zenon, <1>4, SizeType
<1>7. QED
  BY <1>3, <1>4, <1>5, <1>6, ReservationFacts

LEMMA ThreadReserves ==
  ASSUME Counting, CountInv, SameClients, NEW f \in Futures, connector[f] # "connecting", connector'[f] = "connecting",
         \A g \in Futures : g # f => (connector'[g] = "connecting" <=> connector[g] = "connecting")
  PROVE  IsFiniteSet(Connecting') /\ IsFiniteSet(ThreadsConnecting') /\ Reservations' = Reservations + 1
<1>1. ThreadsConnecting' = ThreadsConnecting \cup {f} /\ f \notin ThreadsConnecting
  BY DEF ThreadsConnecting
<1>2. Connecting' = Connecting
  BY DEF Connecting, SameClients
<1>3. Reservations' = Cardinality(Connecting') + Cardinality(ThreadsConnecting')
  BY Zenon DEF Reservations, Connecting, ThreadsConnecting
<1>4. IsFiniteSet(ThreadsConnecting') /\ Cardinality(ThreadsConnecting') = Cardinality(ThreadsConnecting) + 1
  BY Zenon, <1>1, AddOne DEF CountInv
<1>5. IsFiniteSet(Connecting') /\ Cardinality(Connecting') = Cardinality(Connecting)
  BY Zenon, <1>2 DEF CountInv
<1>6. QED
  BY <1>3, <1>4, <1>5, ReservationFacts

LEMMA ThreadReservationEnds ==
  ASSUME Counting, CountInv, SameClients, NEW f \in Futures, connector[f] = "connecting", connector'[f] # "connecting",
         \A g \in Futures : g # f => (connector'[g] = "connecting" <=> connector[g] = "connecting")
  PROVE  /\ IsFiniteSet(Connecting') /\ IsFiniteSet(ThreadsConnecting')
         /\ Reservations' = Reservations - 1 /\ Reservations >= 1
<1>1. ThreadsConnecting' = ThreadsConnecting \ {f} /\ f \in ThreadsConnecting
  BY DEF ThreadsConnecting
<1>2. Connecting' = Connecting
  BY DEF Connecting, SameClients
<1>3. Reservations' = Cardinality(Connecting') + Cardinality(ThreadsConnecting')
  BY Zenon DEF Reservations, Connecting, ThreadsConnecting
<1>4. IsFiniteSet(ThreadsConnecting') /\ Cardinality(ThreadsConnecting') = Cardinality(ThreadsConnecting) - 1
  BY Zenon, <1>1, RemoveOne DEF CountInv
<1>5. IsFiniteSet(Connecting') /\ Cardinality(Connecting') = Cardinality(Connecting)
  BY Zenon, <1>2 DEF CountInv
<1>6. Cardinality(ThreadsConnecting') \in Nat
  BY Zenon, <1>4, SizeType
<1>7. QED
  BY <1>3, <1>4, <1>5, <1>6, ReservationFacts

\* The books after a step, from what the step leaves.
LEMMA NewBooks ==
  ASSUME IsFiniteSet(open'), IsFiniteSet(Connecting'), IsFiniteSet(ThreadsConnecting'),
         total' = Cardinality(open') + Reservations', total' <= MaxSize,
         checked_out' <= Cardinality(open') - Len(idle') + Reservations'
  PROVE  CountInv'
BY Zenon DEF CountInv, TotalIsExact, ShutdownIsNotHeld, Outstanding

LEMMA OldBooks ==
  ASSUME Counting, TypeOK, CountInv
  PROVE  /\ total = Cardinality(open) + Reservations /\ total <= MaxSize
         /\ checked_out <= Cardinality(open) - Len(idle) + Reservations
         /\ IsFiniteSet(open) /\ Cardinality(open) \in Nat /\ Reservations \in Nat
         /\ total \in Nat /\ checked_out \in Nat /\ Len(idle) \in Nat
         /\ MaxSize \in Nat /\ MinSize \in Nat
<1>1. IsFiniteSet(open) /\ Cardinality(open) \in Nat
  BY Zenon, SizeType DEF CountInv
<1>2. /\ total = Cardinality(open) + Reservations /\ total <= MaxSize
      /\ checked_out <= Cardinality(open) - Len(idle) + Reservations
  BY Zenon DEF CountInv, TotalIsExact, ShutdownIsNotHeld, Outstanding
<1>3. total \in Nat /\ checked_out \in Nat /\ Len(idle) \in Nat /\ MaxSize \in Nat /\ MinSize \in Nat
  BY PoolAssumption DEF TypeOK
<1>4. QED
  BY Zenon, <1>1, <1>2, <1>3, ReservationFacts

\* A step that touches neither the pool nor what anybody holds.
LEMMA QuietBooks ==
  ASSUME Counting, TypeOK, PlaceInv, CountInv, UNCHANGED <<idle, open, total, checked_out>>,
         held' = held, SameClients, SameThreads
  PROVE  PlaceInv' /\ CountInv'
<1>1. PlaceInv'
  BY Zenon, DoQuiet
<1>2. IsFiniteSet(Connecting') /\ IsFiniteSet(ThreadsConnecting') /\ Reservations' = Reservations
  BY Zenon, SameReservations
<1>3. CountInv'
  BY Zenon, <1>2, OldBooks, NewBooks
<1>4. QED
  BY Zenon, <1>1, <1>3

-----------------------------------------------------------------------------
(* Releases and deliveries                                                 *)

\* A waiter in the queue holds nothing.
LEMMA QueuedIsEmpty ==
  ASSUME TypeOK, QueueInv, NEW i \in DOMAIN waiters
  PROVE  /\ waiters[i] \in Futures /\ <<"result", waiters[i]>> \in Holders
         /\ held[<<"result", waiters[i]>>] = None
<1>1. waiters[i] \in Futures
  BY DEF TypeOK
<1>2. result[waiters[i]] \in {None, Err}
  BY <1>1 DEF TypeOK, QueueInv, QueuedHoldsNoLease
<1>3. QED
  BY Zenon, <1>1, <1>2, HeldType

\* release_raw: the connection is closed, handed to a waiter, or idle again.
LEMMA ReleaseBooks ==
  ASSUME Counting, TypeOK, PlaceInv, QueueInv, CountInv,
         NEW g \in Holders, NEW c \in Conns, held[g] = c,
         NEW valid \in BOOLEAN, ReleaseRaw(c, valid),
         HeldOf(conn', lease', result, fconn', dropping') = Put(held, g, None),
         SameClients, SameThreads
  PROVE  PlaceInv' /\ CountInv'
<1>1. c # None /\ c # Err
  BY Zenon, PoolAssumption
<1>2. IsFiniteSet(Connecting') /\ IsFiniteSet(ThreadsConnecting') /\ Reservations' = Reservations
  BY Zenon, SameReservations
<1>3. Len(idle) + 1 <= Cardinality(open)
  BY Zenon, <1>1, Room, OldBooks
<1>4. checked_out' = Less(checked_out)
  BY Zenon DEF ReleaseRaw
<1>a. /\ total = Cardinality(open) + Reservations /\ total <= MaxSize
      /\ checked_out <= Cardinality(open) - Len(idle) + Reservations
      /\ Cardinality(open) \in Nat /\ Reservations \in Nat
      /\ total \in Nat /\ checked_out \in Nat /\ Len(idle) \in Nat /\ MaxSize \in Nat
  BY Zenon, OldBooks
<1>b. Less(checked_out) = IF checked_out = 0 THEN 0 ELSE checked_out - 1
  BY Zenon DEF Less
<1>c. Less(total) = total - 1
  BY <1>3, <1>a DEF Less
<1>5. CASE Discard(c)
  <2>1. held' = Put(held, g, None)
    BY Zenon, <1>5 DEF Discard, held
  <2>2. PlaceInv' /\ IsFiniteSet(open') /\ Cardinality(open') = Cardinality(open) - 1
    BY Zenon, <1>1, <1>5, <2>1, DoClose, OldBooks DEF Discard
  <2>3. total' = Less(total) /\ Len(idle') = Len(idle)
    BY Zenon, <1>5 DEF Discard
  <2>4. /\ total' = Cardinality(open') + Reservations' /\ total' <= MaxSize
        /\ checked_out' <= Cardinality(open') - Len(idle') + Reservations'
    BY SMTT(60), <1>2, <1>3, <1>4, <1>a, <1>b, <1>c, <2>2, <2>3
  <2>5. QED
    BY Zenon, <1>2, <2>2, <2>4, NewBooks
<1>6. CASE LiveWaiters # {} /\ HandOver(c)
  <2>1. PICK i : i = FirstLive
    BY Zenon
  <2>2. i \in DOMAIN waiters
    BY Zenon, <1>6, <2>1, FirstLiveFacts
  <2>3. PICK w : w = waiters[i]
    BY Zenon
  <2>4. w \in Futures /\ <<"result", w>> \in Holders /\ held[<<"result", w>>] = None
    BY Zenon, <2>2, <2>3, QueuedIsEmpty
  <2>5. result' = Put(result, w, c)
    BY Zenon, <1>6, <2>1, <2>3 DEF HandOver, Put
  <2>6. result \in [Futures -> Conns \cup {None, Err}] /\ c # Err
    BY Zenon, <1>1 DEF TypeOK
  <2>7. HeldOf(conn', lease', Put(result, w, c), fconn', dropping')
          = Put(HeldOf(conn', lease', result, fconn', dropping'), <<"result", w>>, c)
    BY Zenon, <2>4, <2>6, PutResult
  <2>8. held' = Put(Put(held, g, None), <<"result", w>>, held[g])
    BY Zenon, <2>5, <2>7 DEF held
  <2>9. g # <<"result", w>>
    BY Zenon, <1>1, <2>4
  <2>10. idle' = idle /\ open' = open /\ total' = total
    BY Zenon, <1>6 DEF HandOver
  <2>11. PlaceInv'
    BY Zenon, <2>4, <2>8, <2>9, <2>10, DoMove
  <2>12. /\ total' = Cardinality(open') + Reservations' /\ total' <= MaxSize
         /\ checked_out' <= Cardinality(open') - Len(idle') + Reservations'
    BY <1>2, <1>4, <1>a, <1>b, <2>10
  <2>13. QED
    BY Zenon, <1>2, <2>10, <2>11, <2>12, NewBooks, OldBooks
<1>7. CASE PushIdle(c)
  <2>1. held' = Put(held, g, None)
    BY Zenon, <1>7 DEF PushIdle, held
  <2>2. open' = open /\ total' = total /\ idle' = Append(idle, held[g])
    BY Zenon, <1>7 DEF PushIdle
  <2>3. PlaceInv' /\ Len(idle') = Len(idle) + 1
    BY Zenon, <1>1, <2>1, <2>2, DoReturn
  <2>4. /\ total' = Cardinality(open') + Reservations' /\ total' <= MaxSize
        /\ checked_out' <= Cardinality(open') - Len(idle') + Reservations'
    BY SMTT(60), <1>2, <1>3, <1>4, <1>a, <1>b, <1>c, <2>2, <2>3
  <2>5. QED
    BY Zenon, <1>2, <2>2, <2>3, <2>4, NewBooks, OldBooks
<1>8. QED
  BY Zenon, <1>5, <1>6, <1>7 DEF ReleaseRaw

\* A connection changes hands and nothing is counted.
LEMMA MoveBooks ==
  ASSUME Counting, TypeOK, PlaceInv, CountInv, UNCHANGED <<idle, open, total, checked_out>>,
         NEW g \in Holders, NEW h \in Holders, g # h, held[h] = None,
         held' = Put(Put(held, g, None), h, held[g]),
         SameClients, SameThreads
  PROVE  PlaceInv' /\ CountInv'
<1>1. PlaceInv'
  BY Zenon, DoMove
<1>2. IsFiniteSet(Connecting') /\ IsFiniteSet(ThreadsConnecting') /\ Reservations' = Reservations
  BY Zenon, SameReservations
<1>3. CountInv'
  BY Zenon, <1>2, OldBooks, NewBooks
<1>4. QED
  BY Zenon, <1>1, <1>3

\* A result that holds a lease and is dropped, and one that holds none.
LEMMA ResultDropped ==
  ASSUME Counting, TypeOK, PlaceInv, CountInv, UNCHANGED <<idle, open, total, checked_out, conn, lease, fconn>>,
         NEW f \in Futures, NEW v \in {None, Err},
         dropping' = dropping \cup ({result[f]} \cap Conns), result' = Put(result, f, v),
         SameClients, SameThreads
  PROVE  PlaceInv' /\ CountInv'
<1>1. result \in [Futures -> Conns \cup {None, Err}] /\ dropping \subseteq Conns
  BY DEF TypeOK
<1>2. CASE result[f] \in Conns
  <2>1. PICK c : c = result[f]
    BY Zenon
  <2>2. c \in Conns /\ c # Err /\ c # None
    BY Zenon, <1>2, <2>1, PoolAssumption
  <2>3. dropping' = dropping \cup {c}
    BY <1>2, <2>1
  <2>4. held[<<"result", f>>] = c /\ <<"result", f>> \in Holders /\ <<"dropping", c>> \in Holders
    BY Zenon, <2>1, <2>2, HeldType
  <2>5. <<"result", f>> # <<"dropping", c>>
    OBVIOUS
  <2>6. held[<<"dropping", c>>] = None
    <3>1. held[<<"dropping", c>>] = c => FALSE
      BY Zenon, <2>2, <2>4, <2>5 DEF PlaceInv, Placed
    <3>2. QED
      BY Zenon, <2>2, <3>1, HeldType
  <2>7. HeldOf(conn, lease, Put(result, f, v), fconn, dropping)
          = Put(HeldOf(conn, lease, result, fconn, dropping), <<"result", f>>, None)
    BY Zenon, ClearResult
  <2>8. HeldOf(conn, lease, Put(result, f, v), fconn, dropping \cup {c})
          = Put(HeldOf(conn, lease, Put(result, f, v), fconn, dropping), <<"dropping", c>>, c)
    BY Zenon, <2>2, PutDropping
  <2>9. held' = HeldOf(conn, lease, Put(result, f, v), fconn, dropping \cup {c})
    BY Zenon, <2>3 DEF held
  <2>10. held' = Put(Put(held, <<"result", f>>, None), <<"dropping", c>>, held[<<"result", f>>])
    BY Zenon, <2>4, <2>7, <2>8, <2>9 DEF held
  <2>11. QED
    BY Zenon, <2>4, <2>5, <2>6, <2>10, MoveBooks
<1>3. CASE result[f] \notin Conns
  <2>1. dropping' = dropping
    BY <1>3
  <2>2. result[f] \in {None, Err}
    BY <1>1, <1>3
  <2>3. \A e \in Futures : result'[e] = result[e] \/ (result'[e] \in {None, Err} /\ result[e] \in {None, Err})
    BY <1>1, <2>2 DEF Put
  <2>4. HeldOf(conn, lease, result', fconn, dropping) = HeldOf(conn, lease, result, fconn, dropping)
    BY Zenon, <2>3, SameResults
  <2>5. held' = held
    BY Zenon, <2>1, <2>4 DEF held
  <2>6. QED
    BY Zenon, <2>5, QuietBooks
<1>4. QED
  BY Zenon, <1>2, <1>3

-----------------------------------------------------------------------------
(* Every step keeps the places and the books                               *)

LEMMA NotifiedReservations ==
  ASSUME TypeOK, Notify, connector' = connector
  PROVE  SameClients /\ SameThreads
<1>1. \A b \in Clients : pc'[b] = IF pc[b] = "parked" THEN "taking" ELSE pc[b]
  BY Zenon, NotifyFacts
<1>2. QED
  BY <1>1 DEF SameClients, SameThreads

LEMMA BooksStep ==
  ASSUME Counting, TypeOK, PlaceInv, ShapeInv, QueueInv, CountInv, [Next]_vars
  PROVE  PlaceInv' /\ CountInv'
<1>a. USE DEF stateVars, futureVars
<1>0. /\ total = Cardinality(open) + Reservations /\ total <= MaxSize
      /\ checked_out <= Cardinality(open) - Len(idle) + Reservations
      /\ IsFiniteSet(open) /\ Cardinality(open) \in Nat /\ Reservations \in Nat
      /\ total \in Nat /\ checked_out \in Nat /\ Len(idle) \in Nat /\ MaxSize \in Nat
      /\ Len(idle) <= Cardinality(open)
  BY Zenon, OldBooks, Room
<1>1. ASSUME NEW b \in Clients, ClientWaits(b) PROVE PlaceInv' /\ CountInv'
  <2>1. held' = held /\ SameClients /\ SameThreads /\ UNCHANGED <<idle, open, total, checked_out>>
    BY Zenon, <1>1, WaitsFacts DEF held, SameClients, SameThreads
  <2>2. QED
    BY Zenon, <2>1, QuietBooks
<1>2. ASSUME NEW b \in Clients, Reserve(b) PROVE PlaceInv' /\ CountInv'
  <2>1. held' = held
    BY Zenon, <1>2 DEF Reserve, held
  <2>2. /\ PlaceInv' /\ IsFiniteSet(open')
        /\ Cardinality(open') = Cardinality(open) - Len(idle) /\ Len(idle') = 0
    BY Zenon, <1>2, <1>0, <2>1, DoReap DEF Reserve
  <2>3. /\ SameThreads /\ pc[b] # "connecting" /\ pc'[b] = "connecting"
        /\ \A d \in Clients : d # b => (pc'[d] = "connecting" <=> pc[d] = "connecting")
    BY <1>2 DEF Reserve, SameThreads, TypeOK
  <2>4. /\ IsFiniteSet(Connecting') /\ IsFiniteSet(ThreadsConnecting')
        /\ Reservations' = Reservations + 1
    BY Zenon, <2>3, ClientReserves
  <2>5. total - Len(idle) < MaxSize /\ total' = total - Len(idle) + 1 /\ checked_out' = checked_out + 1
    BY Zenon, <1>2 DEF Reserve
  <2>6. /\ total' = Cardinality(open') + Reservations' /\ total' <= MaxSize
        /\ checked_out' <= Cardinality(open') - Len(idle') + Reservations'
    BY SMTT(60), <1>0, <2>2, <2>4, <2>5
  <2>7. QED
    BY Zenon, <2>2, <2>4, <2>6, NewBooks
<1>3. ASSUME NEW b \in Clients, ConnectFails(b) PROVE PlaceInv' /\ CountInv'
  <2>3. held' = held
    BY Zenon, <1>3 DEF ConnectFails, held
  <2>4. PlaceInv'
    BY Zenon, <1>3, <2>3, DoQuiet DEF ConnectFails
  <2>5. /\ SameThreads /\ pc[b] = "connecting" /\ pc'[b] # "connecting"
        /\ \A d \in Clients : d # b => (pc'[d] = "connecting" <=> pc[d] = "connecting")
    <3>1. pc[b] = "connecting" /\ pc[b] # "parked"
      BY <1>3 DEF ConnectFails
    <3>2. /\ pc'[b] = "out"
          /\ \A d \in Clients : d # b => pc'[d] = IF pc[d] = "parked" THEN "taking" ELSE pc[d]
      BY Zenon, <1>3, <3>1, NotifyAndFacts DEF ConnectFails
    <3>3. QED
      BY <1>3, <3>1, <3>2 DEF ConnectFails, SameThreads
  <2>6. /\ IsFiniteSet(Connecting') /\ IsFiniteSet(ThreadsConnecting')
        /\ Reservations' = Reservations - 1 /\ Reservations >= 1
    BY Zenon, <2>5, ClientReservationEnds
  <2>7. /\ total' = Less(total) /\ checked_out' = Less(checked_out)
        /\ open' = open /\ Len(idle') = Len(idle)
    BY Zenon, <1>3 DEF ConnectFails
  <2>8. /\ total' = Cardinality(open') + Reservations' /\ total' <= MaxSize
        /\ checked_out' <= Cardinality(open') - Len(idle') + Reservations'
    <3>1. PICK n, l, m : n = Cardinality(open) /\ l = Len(idle) /\ m = Reservations
      BY Zenon
    <3>2. /\ total = n + m /\ total <= MaxSize /\ checked_out <= n - l + m /\ l <= n
          /\ n \in Nat /\ m \in Nat /\ m >= 1 /\ l \in Nat
          /\ checked_out \in Nat /\ MaxSize \in Nat
      BY Zenon, <1>0, <2>6, <3>1
    <3>3. Less(n + m) = n + (m - 1) /\ Less(n + m) <= MaxSize /\ Less(checked_out) <= n - l + (m - 1)
      BY <3>2 DEF Less
    <3>4. QED
      BY Zenon, <2>6, <2>7, <3>1, <3>2, <3>3
  <2>9. QED
    BY Zenon, <1>0, <2>4, <2>6, <2>7, <2>8, NewBooks
<1>4. ASSUME NEW b \in Clients, NEW k \in Reapable, TakeIdle(b, k) PROVE PlaceInv' /\ CountInv'
  <2>1. conn' = Put(conn, b, idle[k + 1]) /\ conn[b] = None
    BY <1>4 DEF TakeIdle, Put, ShapeInv, ClientShape, FutureShape, Core
  <2>2. HeldOf(Put(conn, b, idle[k + 1]), lease, result, fconn, dropping)
          = Put(held, <<"client", b>>, idle[k + 1])
    BY Zenon, ClientHolds
  <2>3. held' = Put(held, <<"client", b>>, idle[k + 1])
    BY Zenon, <1>4, <2>1, <2>2 DEF TakeIdle, held
  <2>4. <<"client", b>> \in Holders /\ held[<<"client", b>>] = None
    BY Zenon, <2>1, HeldType
  <2>5. /\ PlaceInv' /\ IsFiniteSet(open')
        /\ Cardinality(open') = Cardinality(open) - k /\ Len(idle') = Len(idle) - k - 1
    BY Zenon, <1>4, <1>0, <2>3, <2>4, DoTake DEF TakeIdle
  <2>6. SameClients /\ SameThreads
    BY <1>4 DEF TakeIdle, SameClients, SameThreads, TypeOK
  <2>7. IsFiniteSet(Connecting') /\ IsFiniteSet(ThreadsConnecting') /\ Reservations' = Reservations
    BY Zenon, <2>6, SameReservations
  <2>8. total' = total - k /\ checked_out' = checked_out + 1 /\ k \in Nat
    BY <1>4, <1>0 DEF TakeIdle, Reapable
  <2>9. /\ total' = Cardinality(open') + Reservations' /\ total' <= MaxSize
        /\ checked_out' <= Cardinality(open') - Len(idle') + Reservations'
    <3>1. PICK m \in Nat : m = k
      BY Zenon, <2>8
    <3>2. /\ total - m = (Cardinality(open) - m) + Reservations /\ total - m <= MaxSize
          /\ checked_out + 1 <= (Cardinality(open) - m) - (Len(idle) - m - 1) + Reservations
      BY SMT, <1>0
    <3>3. QED
      BY Zenon, <2>5, <2>7, <2>8, <3>1, <3>2
  <2>10. QED
    BY Zenon, <2>5, <2>7, <2>9, NewBooks
<1>5. ASSUME NEW b \in Clients, NEW c \in Conns, ConnectOk(b, c) PROVE PlaceInv' /\ CountInv'
  <2>1. conn' = Put(conn, b, c) /\ conn[b] = None
    BY <1>5 DEF ConnectOk, Put, ShapeInv, ClientShape, FutureShape, Core
  <2>2. HeldOf(Put(conn, b, c), lease, result, fconn, dropping)
          = Put(held, <<"client", b>>, c)
    BY Zenon, ClientHolds
  <2>3. held' = Put(held, <<"client", b>>, c)
    BY Zenon, <1>5, <2>1, <2>2 DEF ConnectOk, held
  <2>4. <<"client", b>> \in Holders /\ held[<<"client", b>>] = None
    BY Zenon, <2>1, HeldType
  <2>5. PlaceInv' /\ IsFiniteSet(open') /\ Cardinality(open') = Cardinality(open) + 1
    BY Zenon, <1>5, <1>0, <2>3, <2>4, DoOpen DEF ConnectOk
  <2>6. /\ SameThreads /\ pc[b] = "connecting" /\ pc'[b] # "connecting"
        /\ \A d \in Clients : d # b => (pc'[d] = "connecting" <=> pc[d] = "connecting")
    BY <1>5 DEF ConnectOk, SameClients, SameThreads, TypeOK
  <2>7. IsFiniteSet(Connecting') /\ IsFiniteSet(ThreadsConnecting') /\ Reservations' = Reservations - 1
    BY Zenon, <2>6, ClientReservationEnds
  <2>8. total' = total /\ checked_out' = checked_out /\ Len(idle') = Len(idle)
    BY Zenon, <1>5 DEF ConnectOk
  <2>9. /\ total' = Cardinality(open') + Reservations' /\ total' <= MaxSize
        /\ checked_out' <= Cardinality(open') - Len(idle') + Reservations'
    BY <1>0, <2>5, <2>7, <2>8
  <2>10. QED
    BY Zenon, <2>5, <2>7, <2>9, NewBooks
<1>6. ASSUME NEW b \in Clients, NEW valid \in BOOLEAN, Release(b, valid) PROVE PlaceInv' /\ CountInv'
  <2>1. conn[b] \in Conns
    BY <1>6 DEF Release, TypeOK, ShapeInv, ClientShape
  <2>2. conn' = Put(conn, b, None)
    BY <1>6 DEF Release, Put
  <2>3. HeldOf(Put(conn, b, None), lease, result, fconn, dropping)
          = Put(held, <<"client", b>>, None)
    BY Zenon, ClientHolds
  <2>4. HeldOf(conn', lease', result, fconn', dropping') = Put(held, <<"client", b>>, None)
    BY Zenon, <1>6, <2>2, <2>3 DEF Release, held
  <2>5. <<"client", b>> \in Holders /\ held[<<"client", b>>] = conn[b]
    BY Zenon, <1>6, <2>1, HeldType
  <2>6. SameClients /\ SameThreads
    <3>1. pc[b] # "parked" /\ pc[b] # "connecting"
      BY <1>6 DEF Release
    <3>2. /\ pc'[b] = "out"
          /\ \A d \in Clients : d # b => pc'[d] = IF pc[d] = "parked" THEN "taking" ELSE pc[d]
      BY Zenon, <1>6, <3>1, NotifyAndFacts DEF Release
    <3>3. QED
      BY <1>6, <3>1, <3>2 DEF Release, SameClients, SameThreads
  <2>7. ReleaseRaw(conn[b], valid)
    BY Zenon, <1>6 DEF Release
  <2>8. QED
    BY Zenon, <1>6, <2>1, <2>4, <2>5, <2>6, <2>7, ReleaseBooks
<1>7. ASSUME NEW f \in Futures, BeginReserve(f) PROVE PlaceInv' /\ CountInv'
  <2>1. held' = held
    BY Zenon, <1>7 DEF BeginReserve, held
  <2>2. /\ PlaceInv' /\ IsFiniteSet(open')
        /\ Cardinality(open') = Cardinality(open) - Len(idle) /\ Len(idle') = 0
    BY Zenon, <1>7, <1>0, <2>1, DoReap DEF BeginReserve
  <2>3. /\ SameClients /\ connector[f] # "connecting" /\ connector'[f] = "connecting"
        /\ \A e \in Futures : e # f => (connector'[e] = "connecting" <=> connector[e] = "connecting")
    BY <1>7 DEF BeginReserve, SameClients, TypeOK, ShapeInv, FutureShape, Core
  <2>4. /\ IsFiniteSet(Connecting') /\ IsFiniteSet(ThreadsConnecting')
        /\ Reservations' = Reservations + 1
    BY Zenon, <2>3, ThreadReserves
  <2>5. total - Len(idle) < MaxSize /\ total' = total - Len(idle) + 1 /\ checked_out' = checked_out + 1
    BY Zenon, <1>7 DEF BeginReserve
  <2>6. /\ total' = Cardinality(open') + Reservations' /\ total' <= MaxSize
        /\ checked_out' <= Cardinality(open') - Len(idle') + Reservations'
    BY SMTT(60), <1>0, <2>2, <2>4, <2>5
  <2>7. QED
    BY Zenon, <2>2, <2>4, <2>6, NewBooks
<1>8. ASSUME NEW f \in Futures, BeginQueue(f) PROVE PlaceInv' /\ CountInv'
  BY Zenon, <1>8, QuietBooks DEF BeginQueue, held, SameClients, SameThreads
<1>9. ASSUME NEW f \in Futures, NEW k \in Reapable, BeginIdle(f, k) PROVE PlaceInv' /\ CountInv'
  <2>1. lease' = Put(lease, f, idle[k + 1]) /\ lease[f] = None
    BY <1>9 DEF BeginIdle, Put, ShapeInv, ClientShape, FutureShape, Core
  <2>2. HeldOf(conn, Put(lease, f, idle[k + 1]), result, fconn, dropping)
          = Put(held, <<"owner", f>>, idle[k + 1])
    BY Zenon, OwnerHolds
  <2>3. held' = Put(held, <<"owner", f>>, idle[k + 1])
    BY Zenon, <1>9, <2>1, <2>2 DEF BeginIdle, held
  <2>4. <<"owner", f>> \in Holders /\ held[<<"owner", f>>] = None
    BY Zenon, <2>1, HeldType
  <2>5. /\ PlaceInv' /\ IsFiniteSet(open')
        /\ Cardinality(open') = Cardinality(open) - k /\ Len(idle') = Len(idle) - k - 1
    BY Zenon, <1>9, <1>0, <2>3, <2>4, DoTake DEF BeginIdle
  <2>6. SameClients /\ SameThreads
    BY <1>9 DEF BeginIdle, SameClients, SameThreads, TypeOK
  <2>7. IsFiniteSet(Connecting') /\ IsFiniteSet(ThreadsConnecting') /\ Reservations' = Reservations
    BY Zenon, <2>6, SameReservations
  <2>8. total' = total - k /\ checked_out' = checked_out + 1 /\ k \in Nat
    BY <1>9, <1>0 DEF BeginIdle, Reapable
  <2>9. /\ total' = Cardinality(open') + Reservations' /\ total' <= MaxSize
        /\ checked_out' <= Cardinality(open') - Len(idle') + Reservations'
    <3>1. PICK m \in Nat : m = k
      BY Zenon, <2>8
    <3>2. /\ total - m = (Cardinality(open) - m) + Reservations /\ total - m <= MaxSize
          /\ checked_out + 1 <= (Cardinality(open) - m) - (Len(idle) - m - 1) + Reservations
      BY SMTT(60), <1>0
    <3>3. QED
      BY Zenon, <2>5, <2>7, <2>8, <3>1, <3>2
  <2>10. QED
    BY Zenon, <2>5, <2>7, <2>9, NewBooks
<1>10. ASSUME NEW f \in Futures, Poll(f) PROVE PlaceInv' /\ CountInv'
  <2>1. PICK v : v = held[<<"result", f>>]
    BY Zenon
  <2>2. v = IF result[f] = Err THEN None ELSE result[f]
    BY Zenon, <2>1, HeldType
  <2>3. result' = Put(result, f, None) /\ lease' = Put(lease, f, v)
    BY <1>10, <2>2 DEF Poll, Put
  <2>4. HeldOf(conn, Put(lease, f, v), Put(result, f, None), fconn, dropping)
          = Put(Put(held, <<"result", f>>, None), <<"owner", f>>, v)
    BY Zenon, PollHolds
  <2>6. held' = Put(Put(held, <<"result", f>>, None), <<"owner", f>>, held[<<"result", f>>])
    BY Zenon, <1>10, <2>1, <2>3, <2>4 DEF Poll, held
  <2>7. <<"result", f>> \in Holders /\ <<"owner", f>> \in Holders /\ held[<<"owner", f>>] = lease[f]
    BY Zenon, HeldType
  <2>8. lease[f] = None /\ <<"result", f>> # <<"owner", f>>
    BY <1>10 DEF Poll, ShapeInv, ClientShape, FutureShape, Core
  <2>9. SameClients /\ SameThreads
    BY <1>10 DEF Poll, SameClients, SameThreads
  <2>10. QED
    BY Zenon, <1>10, <2>6, <2>7, <2>8, <2>9, MoveBooks DEF Poll
<1>11. ASSUME NEW f \in Futures, DropCheck(f) PROVE PlaceInv' /\ CountInv'
  BY Zenon, <1>11, QuietBooks DEF DropCheck, held, SameClients, SameThreads
<1>12. ASSUME NEW f \in Futures, DropCancel(f) PROVE PlaceInv' /\ CountInv'
  BY Zenon, <1>12, QuietBooks DEF DropCancel, held, SameClients, SameThreads
<1>13. ASSUME NEW f \in Futures, DropRemove(f) PROVE PlaceInv' /\ CountInv'
  <2>1. held' = held /\ UNCHANGED <<idle, open, total, checked_out>>
    BY Zenon, <1>13 DEF DropRemove, RemoveWaiter, held
  <2>2. SameClients /\ SameThreads
    BY Zenon, <1>13, NotifiedReservations DEF DropRemove, RemoveWaiter
  <2>3. QED
    BY Zenon, <2>1, <2>2, QuietBooks
<1>14. ASSUME NEW f \in Futures, WaiterFreed(f) PROVE PlaceInv' /\ CountInv'
  <2>1. result' = Put(result, f, None) /\ None \in {None, Err}
    BY Zenon, <1>14 DEF WaiterFreed, Put
  <2>2. SameClients /\ SameThreads
    BY <1>14 DEF WaiterFreed, SameClients, SameThreads
  <2>3. QED
    BY Zenon, <1>14, <2>1, <2>2, ResultDropped DEF WaiterFreed
<1>15. ASSUME NEW f \in Futures, NEW valid \in BOOLEAN, ReleaseLease(f, valid) PROVE PlaceInv' /\ CountInv'
  <2>1. lease[f] \in Conns
    BY <1>15 DEF ReleaseLease, TypeOK
  <2>2. lease' = Put(lease, f, None)
    BY <1>15 DEF ReleaseLease, Put
  <2>3. HeldOf(conn, Put(lease, f, None), result, fconn, dropping)
          = Put(held, <<"owner", f>>, None)
    BY Zenon, OwnerHolds
  <2>4. HeldOf(conn', lease', result, fconn', dropping') = Put(held, <<"owner", f>>, None)
    BY Zenon, <1>15, <2>2, <2>3 DEF ReleaseLease, held
  <2>5. <<"owner", f>> \in Holders /\ held[<<"owner", f>>] = lease[f]
    BY Zenon, <1>15, <2>1, HeldType
  <2>6. SameClients /\ SameThreads
    BY Zenon, <1>15, NotifiedReservations DEF ReleaseLease
  <2>7. ReleaseRaw(lease[f], valid)
    BY Zenon, <1>15 DEF ReleaseLease
  <2>8. QED
    BY Zenon, <1>15, <2>1, <2>4, <2>5, <2>6, <2>7, ReleaseBooks
<1>16. ASSUME NEW f \in Futures, NEW c \in Conns, ThreadConnectOk(f, c) PROVE PlaceInv' /\ CountInv'
  <2>1. fconn' = Put(fconn, f, c) /\ fconn[f] = None
    BY <1>16 DEF ThreadConnectOk, Put, ShapeInv, ClientShape, FutureShape, Core
  <2>2. HeldOf(conn, lease, result, Put(fconn, f, c), dropping)
          = Put(held, <<"thread", f>>, c)
    BY Zenon, ThreadHolds
  <2>3. held' = Put(held, <<"thread", f>>, c)
    BY Zenon, <1>16, <2>1, <2>2 DEF ThreadConnectOk, held
  <2>4. <<"thread", f>> \in Holders /\ held[<<"thread", f>>] = None
    BY Zenon, <2>1, HeldType
  <2>5. PlaceInv' /\ IsFiniteSet(open') /\ Cardinality(open') = Cardinality(open) + 1
    BY Zenon, <1>16, <1>0, <2>3, <2>4, DoOpen DEF ThreadConnectOk
  <2>6. /\ SameClients /\ connector[f] = "connecting" /\ connector'[f] # "connecting"
        /\ \A e \in Futures : e # f => (connector'[e] = "connecting" <=> connector[e] = "connecting")
    BY <1>16 DEF ThreadConnectOk, SameClients, SameThreads, TypeOK
  <2>7. IsFiniteSet(Connecting') /\ IsFiniteSet(ThreadsConnecting') /\ Reservations' = Reservations - 1
    BY Zenon, <2>6, ThreadReservationEnds
  <2>8. total' = total /\ checked_out' = checked_out /\ Len(idle') = Len(idle)
    BY Zenon, <1>16 DEF ThreadConnectOk
  <2>9. /\ total' = Cardinality(open') + Reservations' /\ total' <= MaxSize
        /\ checked_out' <= Cardinality(open') - Len(idle') + Reservations'
    BY <1>0, <2>5, <2>7, <2>8
  <2>10. QED
    BY Zenon, <2>5, <2>7, <2>9, NewBooks
<1>17. ASSUME NEW f \in Futures, ThreadConnectFails(f) PROVE PlaceInv' /\ CountInv'
  <2>1. \A e \in Futures : result'[e] = result[e] \/ (result'[e] \in {None, Err} /\ result[e] \in {None, Err})
    BY <1>17 DEF ThreadConnectFails, TypeOK, ShapeInv, ClientShape, FutureShape, Core
  <2>2. HeldOf(conn, lease, result', fconn, dropping) = HeldOf(conn, lease, result, fconn, dropping)
    BY Zenon, <2>1, SameResults
  <2>3. held' = held
    BY Zenon, <1>17, <2>2 DEF ThreadConnectFails, held
  <2>4. PlaceInv'
    BY Zenon, <1>17, <2>3, DoQuiet DEF ThreadConnectFails
  <2>5. /\ SameClients /\ connector[f] = "connecting" /\ connector'[f] # "connecting"
        /\ \A e \in Futures : e # f => (connector'[e] = "connecting" <=> connector[e] = "connecting")
    <3>1. \A b \in Clients : pc'[b] = IF pc[b] = "parked" THEN "taking" ELSE pc[b]
      BY Zenon, <1>17, NotifyFacts DEF ThreadConnectFails
    <3>2. QED
      BY <1>17, <3>1 DEF ThreadConnectFails, SameClients, TypeOK
  <2>6. /\ IsFiniteSet(Connecting') /\ IsFiniteSet(ThreadsConnecting')
        /\ Reservations' = Reservations - 1 /\ Reservations >= 1
    BY Zenon, <2>5, ThreadReservationEnds
  <2>7. /\ total' = Less(total) /\ checked_out' = Less(checked_out)
        /\ open' = open /\ Len(idle') = Len(idle)
    BY Zenon, <1>17 DEF ThreadConnectFails
  <2>8. /\ total' = Cardinality(open') + Reservations' /\ total' <= MaxSize
        /\ checked_out' <= Cardinality(open') - Len(idle') + Reservations'
    <3>1. PICK n, l, m : n = Cardinality(open) /\ l = Len(idle) /\ m = Reservations
      BY Zenon
    <3>2. /\ total = n + m /\ total <= MaxSize /\ checked_out <= n - l + m /\ l <= n
          /\ n \in Nat /\ m \in Nat /\ m >= 1 /\ l \in Nat
          /\ checked_out \in Nat /\ MaxSize \in Nat
      BY Zenon, <1>0, <2>6, <3>1
    <3>3. Less(n + m) = n + (m - 1) /\ Less(n + m) <= MaxSize /\ Less(checked_out) <= n - l + (m - 1)
      BY <3>2 DEF Less
    <3>4. QED
      BY Zenon, <2>6, <2>7, <3>1, <3>2, <3>3
  <2>9. QED
    BY Zenon, <1>0, <2>4, <2>6, <2>7, <2>8, NewBooks
<1>18. ASSUME NEW f \in Futures, Park(f) PROVE PlaceInv' /\ CountInv'
  <2>1. fconn[f] # None /\ fconn' = Put(fconn, f, None)
    BY <1>18 DEF Park, Put, ShapeInv, ClientShape, FutureShape, Core
  <2>2. HeldOf(conn, lease, result, Put(fconn, f, None), dropping)
          = Put(held, <<"thread", f>>, None)
    BY Zenon, ThreadHolds
  <2>3. held' = Put(held, <<"thread", f>>, None)
    BY Zenon, <1>18, <2>1, <2>2 DEF Park, held
  <2>4. <<"thread", f>> \in Holders /\ held[<<"thread", f>>] = fconn[f]
    BY Zenon, HeldType
  <2>5. idle' = Append(idle, held[<<"thread", f>>]) /\ open' = open /\ total' = total /\ checked_out' = Less(checked_out)
    BY Zenon, <1>18, <2>4 DEF Park
  <2>6. PlaceInv' /\ Len(idle') = Len(idle) + 1
    BY Zenon, <2>1, <2>3, <2>4, <2>5, DoReturn
  <2>7. Len(idle) + 1 <= Cardinality(open)
    BY Zenon, <1>0, <2>1, <2>4, Room
  <2>8. SameClients /\ SameThreads
    <3>1. \A b \in Clients : pc'[b] = IF pc[b] = "parked" THEN "taking" ELSE pc[b]
      BY Zenon, <1>18, NotifyFacts DEF Park
    <3>2. QED
      BY <1>18, <3>1 DEF Park, SameClients, SameThreads, TypeOK
  <2>9. IsFiniteSet(Connecting') /\ IsFiniteSet(ThreadsConnecting') /\ Reservations' = Reservations
    BY Zenon, <2>8, SameReservations
  <2>10. /\ total' = Cardinality(open') + Reservations' /\ total' <= MaxSize
         /\ checked_out' <= Cardinality(open') - Len(idle') + Reservations'
    BY <1>0, <2>5, <2>6, <2>7, <2>9 DEF Less
  <2>11. QED
    BY Zenon, <1>0, <2>5, <2>6, <2>9, <2>10, NewBooks
<1>19. ASSUME NEW f \in Futures, Deliver(f) PROVE PlaceInv' /\ CountInv'
  <2>1. PICK c : c = fconn[f]
    BY Zenon
  <2>2. c \in Conns /\ c # Err /\ result[f] \in {None, Err}
    BY <1>19, <2>1, PoolAssumption DEF Deliver, TypeOK, ShapeInv, ClientShape, FutureShape, Core
  <2>3. result' = Put(result, f, c) /\ fconn' = Put(fconn, f, None)
    BY Zenon, <1>19, <2>1 DEF Deliver, Put
  <2>4. HeldOf(conn, lease, Put(result, f, c), Put(fconn, f, None), dropping)
          = Put(Put(held, <<"thread", f>>, None), <<"result", f>>, c)
    BY Zenon, <2>2, DeliverHolds
  <2>6. <<"result", f>> \in Holders /\ <<"thread", f>> \in Holders /\ held[<<"thread", f>>] = c
    BY Zenon, <2>1, HeldType
  <2>7. held' = Put(Put(held, <<"thread", f>>, None), <<"result", f>>, held[<<"thread", f>>])
    BY Zenon, <1>19, <2>3, <2>4, <2>6 DEF Deliver, held
  <2>8. held[<<"result", f>>] = None
    BY Zenon, <2>2, HeldType
  <2>9. <<"thread", f>> # <<"result", f>>
    OBVIOUS
  <2>10. SameClients /\ SameThreads
    BY <1>19 DEF Deliver, SameClients, SameThreads, TypeOK
  <2>11. QED
    BY Zenon, <1>19, <2>6, <2>7, <2>8, <2>9, <2>10, MoveBooks DEF Deliver
<1>20. ASSUME NEW f \in Futures, TimerFires(f) PROVE PlaceInv' /\ CountInv'
  BY Zenon, <1>20, QuietBooks DEF TimerFires, held, SameClients, SameThreads
<1>21. ASSUME NEW f \in Futures, TimerRemove(f) PROVE PlaceInv' /\ CountInv'
  <2>1. held' = held /\ UNCHANGED <<idle, open, total, checked_out>>
    BY Zenon, <1>21 DEF TimerRemove, RemoveWaiter, held
  <2>2. SameClients /\ SameThreads
    BY Zenon, <1>21, NotifiedReservations DEF TimerRemove, RemoveWaiter
  <2>3. QED
    BY Zenon, <2>1, <2>2, QuietBooks
<1>22. ASSUME NEW f \in Futures, TimerDeliver(f) PROVE PlaceInv' /\ CountInv'
  <2>1. result' = Put(result, f, Err) /\ Err \in {None, Err}
    BY Zenon, <1>22 DEF TimerDeliver, Put
  <2>2. SameClients /\ SameThreads
    BY <1>22 DEF TimerDeliver, SameClients, SameThreads
  <2>3. QED
    BY Zenon, <1>22, <2>1, <2>2, ResultDropped DEF TimerDeliver
<1>23. ASSUME NEW c \in dropping, NEW valid \in BOOLEAN, FinishDrop(c, valid) PROVE PlaceInv' /\ CountInv'
  <2>1. c \in Conns
    BY <1>23 DEF FinishDrop, TypeOK
  <2>2. dropping' = dropping \ {c}
    BY <1>23 DEF FinishDrop, Put
  <2>3. HeldOf(conn, lease, result, fconn, dropping \ {c})
          = Put(held, <<"dropping", c>>, None)
    BY Zenon, <2>1, DroppingEnds
  <2>4. HeldOf(conn', lease', result, fconn', dropping') = Put(held, <<"dropping", c>>, None)
    BY Zenon, <1>23, <2>2, <2>3 DEF FinishDrop, held
  <2>5. <<"dropping", c>> \in Holders /\ held[<<"dropping", c>>] = c
    BY Zenon, <1>23, <2>1, HeldType
  <2>6. SameClients /\ SameThreads
    BY Zenon, <1>23, NotifiedReservations DEF FinishDrop
  <2>7. ReleaseRaw(c, valid)
    BY Zenon, <1>23 DEF FinishDrop
  <2>8. QED
    BY Zenon, <1>23, <2>1, <2>4, <2>5, <2>6, <2>7, ReleaseBooks
<1>24. ASSUME Shutdown PROVE PlaceInv' /\ CountInv'
  <2>1. \A f \in Futures : result'[f] = result[f] \/ (result'[f] \in {None, Err} /\ result[f] \in {None, Err})
    BY <1>24 DEF Shutdown, TypeOK, QueueInv, QueuedHoldsNoLease
  <2>2. HeldOf(conn, lease, result', fconn, dropping) = HeldOf(conn, lease, result, fconn, dropping)
    BY Zenon, <2>1, SameResults
  <2>3. held' = held
    BY Zenon, <1>24, <2>2 DEF Shutdown, held
  <2>4. /\ PlaceInv' /\ IsFiniteSet(open')
        /\ Cardinality(open') = Cardinality(open) - Len(idle) /\ Len(idle') = 0
    BY Zenon, <1>24, <1>0, <2>3, DoReap DEF Shutdown
  <2>5. SameClients /\ SameThreads
    BY <1>24 DEF Shutdown, SameClients, SameThreads, TypeOK
  <2>6. IsFiniteSet(Connecting') /\ IsFiniteSet(ThreadsConnecting') /\ Reservations' = Reservations
    BY Zenon, <2>5, SameReservations
  <2>7. total' = total - Len(idle) /\ checked_out' = checked_out
    BY Zenon, <1>24 DEF Shutdown
  <2>8. /\ total' = Cardinality(open') + Reservations' /\ total' <= MaxSize
        /\ checked_out' <= Cardinality(open') - Len(idle') + Reservations'
    BY <1>0, <2>4, <2>6, <2>7
  <2>9. QED
    BY Zenon, <2>4, <2>6, <2>8, NewBooks
<1>25. CASE Settles
  <2>1. held' = held /\ SameClients /\ SameThreads /\ UNCHANGED <<idle, open, total, checked_out>>
    BY Zenon, <1>25, SettlesFacts DEF held, SameClients, SameThreads
  <2>2. QED
    BY Zenon, <2>1, QuietBooks
<1>26. QED
  BY Zenon, <1>1, <1>2, <1>3, <1>4, <1>5, <1>6, <1>7, <1>8, <1>9, <1>10, <1>11, <1>12, <1>13,
     <1>14, <1>15, <1>16, <1>17, <1>18, <1>19, <1>20, <1>21, <1>22, <1>23, <1>24, <1>25
  DEF Next, ClientStep, FutureStep, ThreadStep, ClientWaits, Settles

-----------------------------------------------------------------------------
(* The first state                                                         *)

LEMMA InitInv ==
  ASSUME Counting, Init
  PROVE  IInv
<1>1. /\ waiters = <<>> /\ total = MinSize /\ checked_out = 0 /\ closed = FALSE
      /\ pc = [b \in Clients |-> "out"] /\ conn = [b \in Clients |-> None]
      /\ fpc = [f \in Futures |-> "new"] /\ lease = [f \in Futures |-> None]
      /\ result = [f \in Futures |-> None] /\ cancelled = [f \in Futures |-> FALSE]
      /\ connector = [f \in Futures |-> "none"] /\ fconn = [f \in Futures |-> None]
      /\ timer = [f \in Futures |-> "none"]
      /\ dropping = {} /\ sd = "none" /\ missed = {}
  BY Zenon DEF Init
<1>2. /\ idle \in Seq(Conns) /\ DOMAIN idle = 1..MinSize /\ Len(idle) = MinSize
      /\ \A i, j \in DOMAIN idle : idle[i] = idle[j] => i = j
      /\ \A i \in DOMAIN idle : idle[i] \in Conns
      /\ open = {idle[i] : i \in DOMAIN idle}
  <2>1. /\ idle \in [1..MinSize -> Conns]
        /\ \A i, j \in 1..MinSize : idle[i] = idle[j] => i = j
        /\ open = {idle[i] : i \in 1..MinSize}
    BY Zenon DEF Init
  <2>2. DOMAIN idle = 1..MinSize /\ \A i \in DOMAIN idle : idle[i] \in Conns
    BY <2>1
  <2>3. idle \in Seq(Conns) /\ Len(idle) = MinSize
    BY <2>1, PoolAssumption
  <2>4. QED
    BY Zenon, <2>1, <2>2, <2>3
<1>3. open = Idle
  BY Zenon, <1>2 DEF Idle
<1>4. TypeOK
  <2>1. open \subseteq Conns
    BY Zenon, <1>2
  <2>2. total \in Nat /\ checked_out \in Nat /\ waiters \in Seq(Futures)
    BY <1>1, PoolAssumption
  <2>3. /\ closed \in BOOLEAN /\ cancelled \in [Futures -> BOOLEAN]
        /\ dropping \subseteq Conns /\ missed \subseteq Clients
    BY Zenon, <1>1
  <2>4. /\ conn \in [Clients -> Conns \cup {None}] /\ lease \in [Futures -> Conns \cup {None}]
        /\ result \in [Futures -> Conns \cup {None, Err}] /\ fconn \in [Futures -> Conns \cup {None}]
    BY <1>1
  <2>5. QED
    BY <1>1, <1>2, <2>1, <2>2, <2>3, <2>4 DEF TypeOK
<1>5. PlaceInv
  <2>1. \A h \in Holders : held[h] = None
    <3>1. ASSUME NEW h \in Holders PROVE held[h] = None
      <4>1. CASE h \in {"client"} \X Clients
        BY <1>1, <4>1 DEF held, HeldOf
      <4>2. CASE h \in {"owner", "result", "thread"} \X Futures
        BY <1>1, <4>2, PoolAssumption DEF held, HeldOf
      <4>3. CASE h \in {"dropping"} \X Conns
        BY <1>1, <4>3 DEF held, HeldOf
      <4>4. QED
        BY <3>1, <4>1, <4>2, <4>3 DEF Holders
    <3>2. QED
      BY <3>1
  <2>2. QED
    BY Zenon, <1>2, <1>3, <2>1 DEF PlaceInv, Placed
<1>6. ShapeInv
  <2>1. \A f \in Futures : ~ Queued(f)
    BY <1>1 DEF Queued
  <2>2. QED
    BY <1>1, <2>1, PoolAssumption DEF ShapeInv, ClientShape, FutureShape, Core
<1>7. QueueInv
  BY <1>1 DEF QueueInv, QueuedHoldsNoLease
<1>8. CountInv
  <2>1. Connecting = {} /\ ThreadsConnecting = {}
    BY <1>1 DEF Connecting, ThreadsConnecting
  <2>2. IsFiniteSet({}) /\ Cardinality({}) = 0
    BY Zenon, EmptySize
  <2>3. IsFiniteSet(open) /\ Cardinality(open) = MinSize
    <3>1. MinSize \in 0..Len(idle)
      BY <1>2, PoolAssumption
    <3>2. (\A i \in 1..MinSize : idle[i] \in open) /\ \A c \in open : \E i \in 1..MinSize : idle[i] = c
      BY Zenon, <1>2
    <3>3. idle \in Seq(Conns) /\ \A i, j \in DOMAIN idle : idle[i] = idle[j] => i = j
      BY Zenon, <1>2
    <3>4. QED
      BY ZenonT(60), <3>1, <3>2, <3>3, RangeSize
  <2>4. Reservations = 0
    <3>1. Reservations = Cardinality(Connecting) + Cardinality(ThreadsConnecting)
      BY Zenon DEF Reservations, Connecting, ThreadsConnecting
    <3>2. QED
      BY <2>1, <2>2, <3>1
  <2>5. QED
    <3>1. total = MinSize + 0 /\ total <= MaxSize /\ checked_out <= MinSize - Len(idle) + 0
      BY <1>1, <1>2, PoolAssumption
    <3>2. QED
      BY Zenon, <2>1, <2>2, <2>3, <2>4, <3>1 DEF CountInv, TotalIsExact, ShutdownIsNotHeld, Outstanding
<1>9. SleepInv
  BY <1>1 DEF SleepInv
<1>10. QED
  BY Zenon, <1>4, <1>5, <1>6, <1>7, <1>8, <1>9 DEF IInv

-----------------------------------------------------------------------------
(* One place                                                               *)

LEMMA PlaceMembers ==
  ASSUME TypeOK, NEW c \in Conns, NEW x
  PROVE  x \in Places(c) <=> \/ \E i \in DOMAIN idle : idle[i] = c /\ x = <<"idle", i>>
                             \/ x \in Holders /\ held[x] = c
<1>1. x \in Places(c) <=>
        \/ \E i \in DOMAIN idle : idle[i] = c /\ x = <<"idle", i>>
        \/ \E b \in Clients : conn[b] = c /\ x = <<"client", b>>
        \/ \E f \in Futures : lease[f] = c /\ x = <<"owner", f>>
        \/ \E f \in Futures : result[f] = c /\ x = <<"result", f>>
        \/ \E f \in Futures : fconn[f] = c /\ x = <<"thread", f>>
        \/ c \in dropping /\ x = <<"dropping", c>>
  BY Zenon DEF Places
<1>2. ASSUME NEW b \in Clients
      PROVE  <<"client", b>> \in Holders /\ held[<<"client", b>>] = conn[b]
  BY <1>2 DEF Holders, held, HeldOf
<1>3. ASSUME NEW f \in Futures
      PROVE  /\ <<"owner", f>> \in Holders /\ held[<<"owner", f>>] = lease[f]
             /\ <<"thread", f>> \in Holders /\ held[<<"thread", f>>] = fconn[f]
             /\ <<"result", f>> \in Holders
             /\ held[<<"result", f>>] = c <=> result[f] = c
  BY <1>3, PoolAssumption DEF Holders, held, HeldOf
<1>4. ASSUME NEW d \in Conns
      PROVE  <<"dropping", d>> \in Holders /\ (held[<<"dropping", d>>] = c <=> d = c /\ c \in dropping)
  BY <1>4, PoolAssumption DEF Holders, held, HeldOf
<1>5. x \in Holders =>
        \/ \E b \in Clients : x = <<"client", b>>
        \/ \E f \in Futures : x = <<"owner", f>>
        \/ \E f \in Futures : x = <<"result", f>>
        \/ \E f \in Futures : x = <<"thread", f>>
        \/ \E d \in Conns : x = <<"dropping", d>>
  BY DEF Holders
<1>6. QED
  BY ZenonT(60), <1>1, <1>2, <1>3, <1>4, <1>5

LEMMA OnePlaceHolds ==
  ASSUME Counting, TypeOK, PlaceInv
  PROVE  OnePlace
<1>1. SUFFICES ASSUME NEW c \in Conns
               PROVE  Cardinality(Places(c)) = IF c \in open THEN 1 ELSE 0
  BY Zenon DEF OnePlace
<1>2. /\ \A i \in DOMAIN idle : idle[i] \in open
      /\ \A h \in Holders : held[h] = c => c \in open /\ c \notin Idle
      /\ \A g, h \in Holders : held[g] = c /\ held[h] = c => g = h
      /\ c \in open => c \in Idle \/ \E h \in Holders : held[h] = c
  <2>1. c # None
    BY Zenon, PoolAssumption
  <2>2. \A i \in DOMAIN idle : idle[i] \in Idle
    BY Zenon DEF Idle
  <2>3. /\ Idle \subseteq open
        /\ \A h \in Holders : held[h] # None => held[h] \in open /\ held[h] \notin Idle
        /\ \A g, h \in Holders : held[g] # None /\ held[g] = held[h] => g = h
        /\ \A d \in open : d \in Idle \/ \E h \in Holders : held[h] = d
    BY Zenon DEF PlaceInv, Placed
  <2>4. \A i \in DOMAIN idle : idle[i] \in open
    BY Zenon, <2>2, <2>3
  <2>5. ASSUME NEW h \in Holders, held[h] = c PROVE c \in open /\ c \notin Idle
    BY Zenon, <2>1, <2>3, <2>5
  <2>6. ASSUME NEW g \in Holders, NEW h \in Holders, held[g] = c, held[h] = c PROVE g = h
    BY Zenon, <2>1, <2>3, <2>6
  <2>7. c \in open => c \in Idle \/ \E h \in Holders : held[h] = c
    BY Zenon, <2>3
  <2>8. QED
    BY Zenon, <2>4, <2>5, <2>6, <2>7
<1>3. ASSUME c \notin open PROVE Cardinality(Places(c)) = 0
  <2>1. ASSUME NEW x \in Places(c) PROVE FALSE
    <3>1. \/ \E i \in DOMAIN idle : idle[i] = c /\ x = <<"idle", i>>
          \/ x \in Holders /\ held[x] = c
      BY Zenon, <2>1, PlaceMembers
    <3>2. QED
      BY Zenon, <1>2, <1>3, <3>1
  <2>2. Places(c) = {}
    BY Zenon, <2>1
  <2>3. QED
    BY Zenon, <2>2, EmptySize
<1>4. ASSUME c \in Idle PROVE Cardinality(Places(c)) = 1
  <2>1. PICK i \in DOMAIN idle : idle[i] = c
    BY Zenon, <1>4 DEF Idle
  <2>2. ASSUME NEW y PROVE y \in Places(c) <=> y = <<"idle", i>>
    <3>1. \A j \in DOMAIN idle : idle[j] = c => j = i
      BY Zenon, <2>1 DEF PlaceInv
    <3>2. y \in Places(c) <=> \E j \in DOMAIN idle : idle[j] = c /\ y = <<"idle", j>>
      BY Zenon, <1>2, <1>4, PlaceMembers
    <3>3. QED
      BY Zenon, <2>1, <3>1, <3>2
  <2>3. Places(c) = {<<"idle", i>>}
    BY Zenon, <2>2
  <2>4. QED
    BY Zenon, <2>3, SingletonSize
<1>5. ASSUME c \in open, c \notin Idle PROVE Cardinality(Places(c)) = 1
  <2>1. PICK h \in Holders : held[h] = c
    BY Zenon, <1>2, <1>5
  <2>2. ASSUME NEW y PROVE y \in Places(c) <=> y = h
    <3>1. \A j \in DOMAIN idle : idle[j] # c
      BY Zenon, <1>5 DEF Idle
    <3>2. y \in Places(c) <=> y \in Holders /\ held[y] = c
      BY Zenon, <3>1, PlaceMembers
    <3>3. QED
      BY Zenon, <1>2, <2>1, <3>2
  <2>3. Places(c) = {h}
    BY Zenon, <2>2
  <2>4. QED
    BY Zenon, <2>3, SingletonSize
<1>6. QED
  BY Zenon, <1>3, <1>4, <1>5

-----------------------------------------------------------------------------
(* The library                                                             *)

INSTANCE FiniteSetTheorems

\* A set of numbers has a least element.
LEMMA LeastNumber ==
  ASSUME NEW T \in SUBSET Nat, T # {}
  PROVE  \E m \in T : \A k \in T : m <= k
<1>1. PICK R : R = OpToRel(<, Nat)
  BY Zenon
<1>2. IsWellFoundedOn(R, Nat)
  BY Zenon, <1>1, NatLessThanWellFounded
<1>3. \E m \in T : \A k \in T : ~ (<<k, m>> \in R)
  BY Zenon, <1>2, WFMin
<1>4. \A k, m \in Nat : k < m => <<k, m>> \in R
  BY <1>1 DEF OpToRel
<1>5. \E m \in T : \A k \in T : ~ (k < m)
  BY Zenon, <1>3, <1>4
<1>6. QED
  BY <1>5

\* A sequence without repetition has as many elements as it is long.
LEMMA SizeOfRange ==
  ASSUME NEW S, NEW q \in Seq(S), \A i, j \in DOMAIN q : q[i] = q[j] => i = j,
         NEW k \in 0..Len(q), NEW T, \A i \in 1..k : q[i] \in T, \A t \in T : \E i \in 1..k : q[i] = t
  PROVE  IsFiniteSet(T) /\ Cardinality(T) = k
<1>2. PICK F : F = [i \in 1..k |-> q[i]]
  BY Zenon
<1>3. F \in [1..k -> T]
  BY <1>2
<1>4. \A t \in T : \E i \in 1..k : F[i] = t
  BY <1>2
<1>5. \A i, j \in 1..k : F[i] = F[j] => i = j
  BY <1>2
<1>6. F \in Surjection(1..k, T)
  BY Zenon, <1>3, <1>4 DEF Surjection
<1>7. F \in Injection(1..k, T)
  BY Zenon, <1>3, <1>5 DEF Injection, IsInjective
<1>8. IsFiniteSet(1..k) /\ Cardinality(1..k) = k
  BY FS_Interval
<1>9. QED
  BY Zenon, <1>6, <1>7, <1>8, FS_Surjection

\* The rank numbers the members of a finite set of numbers without a gap.
LEMMA RanksAreDense ==
  ASSUME NEW n \in Nat, NEW K \in SUBSET (1..n)
  PROVE  /\ IsFiniteSet(K)
         /\ \A k \in 1..Cardinality(K) : \E i \in K : Cardinality({m \in K : m <= i}) = k
<1>0. IsFiniteSet(1..n) /\ \A i \in K : i \in Int
  BY FS_Interval
<1>1. IsFiniteSet(K)
  BY Zenon, <1>0, FS_Subset
<1>2. \A i \in K : {m \in K : m <= i} \in SUBSET K /\ i \in {m \in K : m <= i}
  OBVIOUS
<1>3. \A i \in K : IsFiniteSet({m \in K : m <= i}) /\ Cardinality({m \in K : m <= i}) \in Nat /\ Cardinality({m \in K : m <= i}) <= Cardinality(K)
  BY Zenon, <1>1, <1>2, FS_Subset, FS_CardinalityType
<1>4. \A i \in K : Cardinality({m \in K : m <= i}) # 0
  BY Zenon, <1>2, <1>3, FS_EmptySet
<1>5. ASSUME NEW i \in K, NEW j \in K, i < j PROVE Cardinality({m \in K : m <= i}) # Cardinality({m \in K : m <= j})
  <2>1. {m \in K : m <= i} \in SUBSET {m \in K : m <= j}
    <3>1. \A m \in K : m <= i => m <= j
      BY <1>0, <1>5
    <3>2. QED
      BY Zenon, <3>1
  <2>2. j \in {m \in K : m <= j} /\ j \notin {m \in K : m <= i}
    BY <1>5
  <2>3. {m \in K : m <= i} # {m \in K : m <= j}
    BY Zenon, <2>2
  <2>4. QED
    BY Zenon, <1>3, <2>1, <2>3, FS_Subset
<1>6. PICK F : F = [i \in K |-> Cardinality({m \in K : m <= i})]
  BY Zenon
<1>7. Cardinality(K) \in Nat
  BY Zenon, <1>1, FS_CardinalityType
<1>8. F \in [K -> 1..Cardinality(K)]
  <2>1. ASSUME NEW r \in Nat, r # 0, r <= Cardinality(K) PROVE r \in 1..Cardinality(K)
    BY <1>7, <2>1
  <2>2. QED
    BY Zenon, <1>3, <1>4, <1>6, <2>1
<1>9. ASSUME NEW i \in K, NEW j \in K, F[i] = F[j] PROVE i = j
  <2>1. Cardinality({m \in K : m <= i}) = Cardinality({m \in K : m <= j})
    BY Zenon, <1>6, <1>9
  <2>2. ~ (i < j) /\ ~ (j < i)
    BY Zenon, <1>5, <2>1
  <2>3. QED
    BY <2>2
<1>10. F \in Injection(K, 1..Cardinality(K))
  BY Zenon, <1>8, <1>9 DEF Injection, IsInjective
<1>11. IsFiniteSet(1..Cardinality(K)) /\ Cardinality(1..Cardinality(K)) = Cardinality(K)
  BY <1>7, FS_Interval
<1>12. F \in Surjection(K, 1..Cardinality(K))
  BY Zenon, <1>10, <1>11, FS_Injection
<1>13. QED
  BY Zenon, <1>1, <1>6, <1>12 DEF Surjection

\* What the proofs count with is true.
LEMMA CountingHolds == Counting
<1>1. \A S : IsFiniteSet(S) => Cardinality(S) \in Nat
  BY Zenon, FS_CardinalityType
<1>2. /\ \A S : IsFiniteSet(S) => (Cardinality(S) = 0 <=> S = {})
      /\ IsFiniteSet({}) /\ \A x : Cardinality({x}) = 1
  BY Zenon, FS_EmptySet, FS_Singleton
<1>3. \A S, x : IsFiniteSet(S) /\ x \notin S =>
        IsFiniteSet(S \cup {x}) /\ Cardinality(S \cup {x}) = Cardinality(S) + 1
  BY Zenon, FS_AddElement
<1>4. \A S, x : IsFiniteSet(S) /\ x \in S =>
        IsFiniteSet(S \ {x}) /\ Cardinality(S \ {x}) = Cardinality(S) - 1
  BY Zenon, FS_RemoveElement
<1>5. \A S, T : IsFiniteSet(S) =>
        IsFiniteSet(S \ T) /\ Cardinality(S \ T) = Cardinality(S) - Cardinality(S \cap T)
  BY Zenon, FS_Difference
<1>6. \A S : \A q \in Seq(S) : \A k \in 0..Len(q) : \A T :
        /\ \A i, j \in DOMAIN q : q[i] = q[j] => i = j
        /\ \A i \in 1..k : q[i] \in T
        /\ \A t \in T : \E i \in 1..k : q[i] = t
        => IsFiniteSet(T) /\ Cardinality(T) = k
  <2>1. SUFFICES ASSUME NEW S, NEW q \in Seq(S), NEW k \in 0..Len(q), NEW T,
                        \A i, j \in DOMAIN q : q[i] = q[j] => i = j,
                        \A i \in 1..k : q[i] \in T,
                        \A t \in T : \E i \in 1..k : q[i] = t
                 PROVE  IsFiniteSet(T) /\ Cardinality(T) = k
    OBVIOUS
  <2>2. QED
    BY Zenon, <2>1, SizeOfRange
<1>7. \A n \in Nat : \A K \in SUBSET (1..n) :
        IsFiniteSet(K) /\ \A k \in 1..Cardinality(K) : \E i \in K : Rank(K, i) = k
  BY Zenon, RanksAreDense DEF Rank
<1>8. \A T \in SUBSET Nat : T # {} => \E m \in T : \A k \in T : m <= k
  BY Zenon, LeastNumber
<1>9. QED
  BY Zenon, <1>1, <1>2, <1>3, <1>4, <1>5, <1>6, <1>7, <1>8 DEF Counting

-----------------------------------------------------------------------------
(* The theorems                                                            *)

\* The inductive invariant, of every critical section and every step of a future's
\* threads, in any order.
THEOREM Inductive ==
  Spec => []IInv
<1>1. IInv /\ [Next]_vars => IInv'
  <2>1. SUFFICES ASSUME IInv, [Next]_vars PROVE IInv'
    OBVIOUS
  <2>2. TypeOK /\ PlaceInv /\ ShapeInv /\ QueueInv /\ CountInv /\ SleepInv
    BY Zenon, <2>1 DEF IInv
  <2>3. TypeOK'
    BY Zenon, <2>1, <2>2, TypeStep, CountingHolds
  <2>4. PlaceInv' /\ CountInv'
    BY Zenon, <2>1, <2>2, BooksStep, CountingHolds
  <2>5. QueueInv' /\ ShapeInv'
    BY Zenon, <2>1, <2>2, ShapeStep, CountingHolds
  <2>6. SleepInv'
    BY Zenon, <2>1, <2>2, SleepStep
  <2>7. QED
    BY Zenon, <2>3, <2>4, <2>5, <2>6 DEF IInv
<1>2. Init => IInv
  BY Zenon, InitInv, CountingHolds
<1>3. QED
  BY <1>1, <1>2, PTL DEF Spec

\* An open connection is idle or with exactly one holder, and a closed one is
\* nowhere: deliver, Drop, the timeout and release_raw never share or lose one.
THEOREM EveryConnectionHasOnePlace ==
  Spec => []OnePlace
<1>1. IInv => OnePlace
  BY Zenon, OnePlaceHolds, CountingHolds DEF IInv
<1>2. QED
  BY Inductive, <1>1, PTL

\* total is the number of connections that are open or being opened, and stays
\* within max_size, through failed connects, discards, reaping and shutdown.
THEOREM TotalStaysExact ==
  Spec => []TotalIsExact
<1>1. IInv => TotalIsExact
  BY Zenon DEF IInv, CountInv
<1>2. QED
  BY Inductive, <1>1, PTL

\* checked_out counts no lease that is not outstanding, so shutdown never waits
\* for one that does not exist.
THEOREM NothingHoldsUpShutdown ==
  Spec => []ShutdownIsNotHeld
<1>1. IInv => ShutdownIsNotHeld
  BY Zenon DEF IInv, CountInv
<1>2. QED
  BY Inductive, <1>1, PTL

\* A waiter that pop_live_waiter, remove_waiter or shutdown drops inside the
\* critical section has no lease in it, so the state is never locked twice.
THEOREM QueueHoldsNoLease ==
  Spec => []QueuedHoldsNoLease
<1>1. IInv => QueuedHoldsNoLease
  BY Zenon DEF IInv, QueueInv
<1>2. QED
  BY Inductive, <1>1, PTL

\* A thread asleep in acquire_blocking beside a connection or room for one was
\* between its two looks at the pool when that came up; nothing later is missed.
THEOREM OnlyAMissIsSleptThrough ==
  Spec => []SleepsOnlyPastAMiss
<1>1. IInv => SleepsOnlyPastAMiss
  BY Zenon DEF IInv, SleepInv, SleepsOnlyPastAMiss
<1>2. QED
  BY Inductive, <1>1, PTL

\* A pending AcquireFuture has its answer, or its timeout thread still owes it one.
THEOREM EveryFutureIsOwedAnAnswer ==
  Spec => []AnswerIsOwed
<1>1. IInv => AnswerIsOwed
  BY Zenon DEF IInv, ShapeInv, FutureShape, Core, AnswerIsOwed
<1>2. QED
  BY Inductive, <1>1, PTL
=============================================================================
