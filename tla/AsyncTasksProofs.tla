--------------------------- MODULE AsyncTasksProofs ---------------------------
(* Theorems about AsyncTasks, for every number of tasks and scopes, every     *)
(* nesting of timeouts and every clock; and, further down, about              *)
(* BackgroundTasks, whose jobs publish in the same table of tasks.            *)
EXTENDS AsyncTasks, BackgroundTasks, TLAPS

\* The part of the type invariant the arguments below rest on, with the fact
\* that a wrapper's inner task is in the table as long as the wrapper is: no
\* step but Reset removes an inner task.
TableInv ==
  /\ ntasks \in 0..MaxTasks
  /\ tasks \subseteq 1..ntasks
  /\ completed \subseteq tasks /\ failed \subseteq tasks /\ cancelled \subseteq tasks
  /\ value \in [Tasks -> 0..MaxTasks]
  /\ timeout_inner \in [Tasks -> Tasks \cup {None}]
  /\ \A w \in tasks : timeout_inner[w] # None => timeout_inner[w] \in tasks

\* What cancel_task reaches: every task it starts from, nothing outside the
\* table, and with a wrapper always its inner task.
LEMMA WithInnerFacts ==
  ASSUME NEW S \in SUBSET tasks
  PROVE  /\ S \subseteq WithInner(S)
         /\ WithInner(S) \subseteq tasks
         /\ \A w \in WithInner(S) : timeout_inner[w] \in tasks => timeout_inner[w] \in WithInner(S)
<1>1. S \subseteq WithInner(S) /\ WithInner(S) \subseteq tasks
  BY DEF WithInner
<1>2. ASSUME NEW w \in WithInner(S), timeout_inner[w] \in tasks
      PROVE  timeout_inner[w] \in WithInner(S)
  BY <1>2 DEF WithInner
<1>3. QED
  BY <1>1, <1>2

\* The tasks process_due_timeouts starts from.
LEMMA DueFacts == \A n : Due(n) \subseteq tasks
BY DEF Due

\* The tasks cancel_scope starts from are cut down to the table by WithInner.
LEMMA WithInnerTable == \A S : WithInner(S) \subseteq tasks
BY DEF WithInner

\* A new task has a number no task in the table has.
LEMMA NewTask ==
  ASSUME TableInv, ntasks < MaxTasks
  PROVE  ntasks + 1 \in Tasks /\ ntasks + 1 \notin tasks /\ ntasks + 1 \in 0..MaxTasks
BY BoundsAssumption DEF TableInv, Tasks

LEMMA AllocateStep ==
  ASSUME TableInv, NEW v \in 0..MaxTasks, NEW scope, NEW inner \in tasks \cup {None}, NEW deadline,
         NEW done \in BOOLEAN, Allocate(ntasks + 1, v, scope, inner, deadline, done)
  PROVE  /\ ntasks' \in 0..MaxTasks
         /\ tasks' = tasks \cup {ntasks + 1} /\ tasks' \subseteq 1..ntasks'
         /\ completed' \subseteq tasks'
         /\ value' \in [Tasks -> 0..MaxTasks]
         /\ timeout_inner' \in [Tasks -> Tasks \cup {None}]
         /\ \A w \in tasks' : timeout_inner'[w] # None => timeout_inner'[w] \in tasks
         /\ \A w \in tasks : timeout_inner'[w] = timeout_inner[w] /\ value'[w] = value[w]
         /\ timeout_inner'[ntasks + 1] = inner
<1>1. ntasks + 1 \in Tasks /\ ntasks + 1 \notin tasks
  BY NewTask DEF Allocate
<1>2. tasks \subseteq Tasks
  BY BoundsAssumption DEF TableInv, Tasks
<1>3. ntasks' \in 0..MaxTasks /\ tasks' \subseteq 1..ntasks'
  BY BoundsAssumption DEF Allocate, TableInv
<1>4. completed' \subseteq tasks'
  BY DEF Allocate, TableInv
<1>5. timeout_inner' \in [Tasks -> Tasks \cup {None}]
  BY <1>1, <1>2 DEF Allocate, TableInv
<1>6. QED
  BY <1>1, <1>2, <1>3, <1>4, <1>5 DEF Allocate, TableInv

LEMMA TableStep == TableInv /\ [Next]_vars => TableInv'
<1> SUFFICES ASSUME TableInv, [Next]_vars PROVE TableInv'
  OBVIOUS
<1>0. 0 \in 0..MaxTasks /\ None \in tasks \cup {None}
  BY BoundsAssumption
<1>1. CASE Ready
  <2>1. ntasks + 1 \in 0..MaxTasks
    BY <1>1, NewTask DEF Ready, Allocate
  <2>2. QED
    BY <1>0, <1>1, <2>1, AllocateStep DEF Ready, TableInv
<1>2. CASE Start
  BY <1>0, <1>2, AllocateStep DEF Start, TableInv
<1>3. ASSUME NEW s \in Scopes, SpawnReady(s) PROVE TableInv'
  <2>1. ntasks + 1 \in 0..MaxTasks
    BY <1>3, NewTask DEF SpawnReady, Allocate
  <2>2. QED
    BY <1>0, <1>3, <2>1, AllocateStep DEF SpawnReady, TableInv
<1>4. ASSUME NEW t \in Tasks, NEW d \in Delays, WithTimeout(t, d) PROVE TableInv'
  <2>1. t \in tasks /\ value[t] \in 0..MaxTasks
    BY <1>4 DEF WithTimeout, TableInv
  <2>2. Allocate(ntasks + 1, value[t], parent_scope[t], t, now + d, TRUE)
    BY <1>4 DEF WithTimeout
  <2>3. cancelled' \subseteq tasks \cup {ntasks + 1}
    BY <1>4, WithInnerTable DEF WithTimeout, TableInv
  <2>4. failed' = failed
    BY <1>4 DEF WithTimeout
  <2>5. QED
    BY <2>1, <2>2, <2>3, <2>4, AllocateStep DEF TableInv
<1>5. ASSUME NEW t \in Tasks, CompleteTask(t) PROVE TableInv'
  <2>0. t \in 0..MaxTasks
    BY BoundsAssumption DEF Tasks
  <2>1. CASE t \in cancelled
    BY <1>5, <2>1 DEF CompleteTask, TableInv, links
  <2>2. CASE t \notin cancelled
    <3>1. value' = [value EXCEPT ![t] = t] /\ completed' = completed \cup {t} /\ t \in tasks
      BY <1>5, <2>2 DEF CompleteTask
    <3>2. value' \in [Tasks -> 0..MaxTasks] /\ completed' \subseteq tasks
      BY <2>0, <3>1 DEF TableInv
    <3>3. QED
      BY <1>5, <3>2 DEF CompleteTask, TableInv, links
  <2>3. QED
    BY <2>1, <2>2
<1>6. ASSUME NEW t \in Tasks, FailTask(t) \/ TaskFail(t) PROVE TableInv'
  BY <1>6 DEF FailTask, TaskFail, TableInv, links
<1>7. ASSUME NEW t \in Tasks, CancelTask(t) PROVE TableInv'
  BY <1>7, WithInnerTable DEF CancelTask, TableInv, links
<1>8. ASSUME NEW s \in Scopes, CancelScope(s) PROVE TableInv'
  BY <1>8, WithInnerTable DEF CancelScope, TableInv, links
<1>9. CASE ProcessDueTimeouts
  BY <1>9, WithInnerTable DEF ProcessDueTimeouts, TableInv, links
<1>10. ASSUME NEW d \in Delays, AdvanceTime(d) PROVE TableInv'
  BY <1>10, WithInnerTable DEF AdvanceTime, TableInv, links
<1>11. ASSUME NEW t \in Tasks, WithTimeoutRefused(t) PROVE TableInv'
  <2>1. ntasks' \in 0..MaxTasks /\ tasks' \subseteq 1..ntasks'
    BY <1>11, BoundsAssumption DEF WithTimeoutRefused, TableInv
  <2>2. QED
    BY <1>11, <2>1 DEF WithTimeoutRefused, TableInv, links
<1>12. ASSUME NEW s \in Scopes, JoinScope(s) PROVE TableInv'
  BY <1>12, WithInnerTable DEF JoinScope, TableInv, links
<1>13. ASSUME NEW s \in Scopes, NEW t \in Tasks, AttachTask(s, t) PROVE TableInv'
  BY <1>13 DEF AttachTask, TableInv
<1>14. ASSUME NEW p \in Scopes \cup {None}, CreateScope(p) PROVE TableInv'
  BY <1>14 DEF CreateScope, TableInv, links
<1>15. CASE Elapse
  BY <1>15 DEF Elapse, TableInv, links
<1>16. CASE Reset
  BY <1>0, <1>16 DEF Reset, TableInv, None
<1>17. CASE UNCHANGED vars
  BY <1>17 DEF vars, TableInv, links
<1>18. QED
  BY <1>1, <1>2, <1>3, <1>4, <1>5, <1>6, <1>7, <1>8, <1>9, <1>10, <1>11, <1>12, <1>13,
     <1>14, <1>15, <1>16, <1>17 DEF Next

LEMMA TableHolds == Spec => []TableInv
<1>1. Init => TableInv
  BY BoundsAssumption DEF Init, TableInv, None
<1>2. QED
  BY <1>1, TableStep, PTL DEF Spec
-----------------------------------------------------------------------------

\* Cancelling more tasks by WithInner keeps the closure.
LEMMA Closure ==
  ASSUME TableInv, CancelledWrapperTakesInner, NEW S \in SUBSET tasks,
         tasks' = tasks, timeout_inner' = timeout_inner, cancelled' = cancelled \cup WithInner(S)
  PROVE  CancelledWrapperTakesInner'
<1> SUFFICES ASSUME NEW w \in cancelled', timeout_inner[w] # None
             PROVE  timeout_inner[w] \in cancelled'
  BY DEF CancelledWrapperTakesInner
<1>1. CASE w \in cancelled
  BY <1>1 DEF CancelledWrapperTakesInner
<1>2. CASE w \in WithInner(S)
  BY <1>2, WithInnerFacts DEF TableInv
<1>3. QED
  BY <1>1, <1>2

\* The tasks of a scope's list that are in the table: the code's cancel_task
\* returns at once for any other.
LEMMA WithInnerCut ==
  ASSUME NEW S
  PROVE  S \subseteq tasks \/ WithInner(S) = tasks
BY DEF WithInner

LEMMA WrapperStep ==
  TableInv /\ CancelledWrapperTakesInner /\ [Next]_vars => CancelledWrapperTakesInner'
<1> SUFFICES ASSUME TableInv, CancelledWrapperTakesInner, [Next]_vars
             PROVE  CancelledWrapperTakesInner'
  OBVIOUS
<1>0. 0 \in 0..MaxTasks /\ None \in tasks \cup {None}
  BY BoundsAssumption
<1>1. ASSUME NEW v \in 0..MaxTasks, NEW scope, NEW deadline, NEW done \in BOOLEAN,
             Allocate(ntasks + 1, v, scope, None, deadline, done), cancelled' = cancelled
      PROVE  CancelledWrapperTakesInner'
  <2>1. \A w \in tasks : timeout_inner'[w] = timeout_inner[w]
    BY <1>0, <1>1, AllocateStep
  <2>2. QED
    BY <1>1, <2>1 DEF CancelledWrapperTakesInner, TableInv
<1>2. CASE Ready
  <2>1. ntasks + 1 \in 0..MaxTasks
    BY <1>2, NewTask DEF Ready, Allocate
  <2>2. QED
    BY <1>1, <1>2, <2>1 DEF Ready
<1>3. CASE Start
  BY <1>0, <1>1, <1>3 DEF Start
<1>4. ASSUME NEW s \in Scopes, SpawnReady(s) PROVE CancelledWrapperTakesInner'
  <2>1. ntasks + 1 \in 0..MaxTasks
    BY <1>4, NewTask DEF SpawnReady, Allocate
  <2>2. QED
    BY <1>1, <1>4, <2>1 DEF SpawnReady
<1>5. ASSUME NEW t \in Tasks, NEW d \in Delays, WithTimeout(t, d)
      PROVE  CancelledWrapperTakesInner'
  <2> DEFINE w == ntasks + 1
             more == WithInner(Due(now)) \cup (IF d = 0 THEN WithInner({t}) ELSE {})
  <2>1. /\ t \in tasks /\ value[t] \in 0..MaxTasks
        /\ Allocate(w, value[t], parent_scope[t], t, now + d, TRUE)
        /\ w \notin tasks
    BY <1>5, NewTask DEF WithTimeout, TableInv, Allocate
  <2>2. /\ \A u \in tasks : timeout_inner'[u] = timeout_inner[u]
        /\ timeout_inner'[w] = t
    BY <2>1, AllocateStep
  <2>3. /\ \A u \in WithInner(Due(now)) : timeout_inner[u] \in tasks => timeout_inner[u] \in WithInner(Due(now))
        /\ \A u \in WithInner({t}) : timeout_inner[u] \in tasks => timeout_inner[u] \in WithInner({t})
        /\ t \in WithInner({t}) /\ WithInner({t}) \subseteq tasks /\ WithInner(Due(now)) \subseteq tasks
    BY <2>1, WithInnerFacts, DueFacts
  <2>4. \A u \in more : u \in tasks /\ (timeout_inner[u] \in tasks => timeout_inner[u] \in more)
    BY <2>3
  <2>5. /\ cancelled \cup more \subseteq cancelled'
        /\ cancelled' \subseteq cancelled \cup more \cup {w}
        /\ w \in cancelled' => t \in more
    BY <1>5, <2>1, <2>3 DEF WithTimeout, TableInv
  <2> HIDE DEF more, w
  <2>6. ASSUME NEW u \in cancelled', timeout_inner'[u] # None PROVE timeout_inner'[u] \in cancelled'
    <3>1. CASE u = w
      BY <2>2, <2>5, <2>6, <3>1
    <3>2. CASE u \in cancelled
      BY <2>2, <2>5, <2>6, <3>2 DEF TableInv, CancelledWrapperTakesInner
    <3>3. CASE u \in more
      BY <2>2, <2>4, <2>5, <2>6, <3>3 DEF TableInv
    <3>4. QED
      BY <2>5, <3>1, <3>2, <3>3
  <2>7. QED
    BY <2>6 DEF CancelledWrapperTakesInner
<1>6. ASSUME NEW t \in Tasks, CancelTask(t) PROVE CancelledWrapperTakesInner'
  BY <1>6, Closure DEF CancelTask, links
<1>7. ASSUME NEW s \in Scopes, CancelScope(s) PROVE CancelledWrapperTakesInner'
  <2> DEFINE S == UNION {Range(children[x]) : x \in Subtree(s)}
  <2>1. cancelled' = cancelled \cup WithInner(S) /\ tasks' = tasks /\ timeout_inner' = timeout_inner
    BY <1>7 DEF CancelScope, links
  <2> HIDE DEF S
  <2>2. CASE S \subseteq tasks
    BY <2>1, <2>2, Closure
  <2>3. CASE WithInner(S) = tasks
    BY <2>1, <2>3 DEF CancelledWrapperTakesInner, TableInv
  <2>4. QED
    BY <2>2, <2>3, WithInnerCut
<1>8. CASE ProcessDueTimeouts
  BY <1>8, Closure, DueFacts DEF ProcessDueTimeouts, links
<1>9. ASSUME NEW d \in Delays, AdvanceTime(d) PROVE CancelledWrapperTakesInner'
  BY <1>9, Closure, DueFacts DEF AdvanceTime, links
<1>10. ASSUME NEW s \in Scopes, JoinScope(s) PROVE CancelledWrapperTakesInner'
  BY <1>10, Closure, DueFacts DEF JoinScope, links
<1>11. ASSUME NEW t \in Tasks, CompleteTask(t) \/ FailTask(t) \/ TaskFail(t) \/ WithTimeoutRefused(t)
       PROVE  CancelledWrapperTakesInner'
  BY <1>11 DEF CompleteTask, FailTask, TaskFail, WithTimeoutRefused, links,
               CancelledWrapperTakesInner
<1>12. ASSUME NEW s \in Scopes, NEW t \in Tasks, AttachTask(s, t) PROVE CancelledWrapperTakesInner'
  BY <1>12 DEF AttachTask, CancelledWrapperTakesInner
<1>13. ASSUME NEW p \in Scopes \cup {None}, CreateScope(p) PROVE CancelledWrapperTakesInner'
  BY <1>13 DEF CreateScope, links, CancelledWrapperTakesInner
<1>14. CASE Elapse
  BY <1>14 DEF Elapse, links, CancelledWrapperTakesInner
<1>15. CASE Reset
  BY <1>15 DEF Reset, CancelledWrapperTakesInner
<1>16. CASE UNCHANGED vars
  BY <1>16 DEF vars, links, CancelledWrapperTakesInner
<1>17. QED
  BY <1>2, <1>3, <1>4, <1>5, <1>6, <1>7, <1>8, <1>9, <1>10, <1>11, <1>12, <1>13, <1>14,
     <1>15, <1>16 DEF Next

\* Whatever cancels a timeout wrapper (its handle, its deadline, its scope)
\* cancels the task it wraps, through any depth of wrapping.
THEOREM WrapperTakesInner == Spec => []CancelledWrapperTakesInner
<1>1. Init => CancelledWrapperTakesInner
  BY DEF Init, CancelledWrapperTakesInner
<1>2. QED
  BY <1>1, TableHolds, WrapperStep, PTL DEF Spec

\* A cancelled task stays cancelled and keeps its value: no completion, failure,
\* wrapping, move or join brings it back before a reset.
THEOREM CancelledStaysFinal == Spec => CancelledIsFinal
<1>1. ASSUME TableInv, Next, NEW t \in cancelled, t \in tasks'
      PROVE  t \in cancelled' /\ value'[t] = value[t]
  <2>0. t \in tasks /\ t \in Tasks
    BY <1>1, BoundsAssumption DEF TableInv, Tasks
  <2>1. ASSUME NEW v, NEW scope, NEW inner, NEW deadline, NEW done,
               Allocate(ntasks + 1, v, scope, inner, deadline, done)
        PROVE  value'[t] = value[t]
    BY <1>1, <2>0, <2>1, NewTask DEF Allocate, TableInv
  <2>2. CASE Ready \/ Start \/ (\E s \in Scopes : SpawnReady(s))
    BY <2>1, <2>2 DEF Ready, Start, SpawnReady
  <2>3. ASSUME NEW u \in Tasks, NEW d \in Delays, WithTimeout(u, d)
        PROVE  t \in cancelled' /\ value'[t] = value[t]
    BY <1>1, <2>1, <2>3 DEF WithTimeout
  <2>4. ASSUME NEW u \in Tasks, CompleteTask(u)
        PROVE  t \in cancelled' /\ value'[t] = value[t]
    BY <1>1, <2>0, <2>4 DEF CompleteTask, TableInv
  <2>5. ASSUME NEW u \in Tasks,
               FailTask(u) \/ TaskFail(u) \/ CancelTask(u) \/ WithTimeoutRefused(u)
        PROVE  t \in cancelled' /\ value'[t] = value[t]
    BY <2>5 DEF FailTask, TaskFail, CancelTask, WithTimeoutRefused
  <2>6. ASSUME NEW s \in Scopes, CancelScope(s) \/ JoinScope(s)
        PROVE  t \in cancelled' /\ value'[t] = value[t]
    BY <2>6 DEF CancelScope, JoinScope
  <2>7. CASE ProcessDueTimeouts \/ Elapse \/ (\E d \in Delays : AdvanceTime(d))
    BY <2>7 DEF ProcessDueTimeouts, Elapse, AdvanceTime
  <2>8. ASSUME NEW s \in Scopes, NEW u \in Tasks, AttachTask(s, u)
        PROVE  t \in cancelled' /\ value'[t] = value[t]
    BY <2>8 DEF AttachTask
  <2>9. ASSUME NEW p \in Scopes \cup {None}, CreateScope(p)
        PROVE  t \in cancelled' /\ value'[t] = value[t]
    BY <2>9 DEF CreateScope
  <2>10. CASE Reset
    BY <1>1, <2>10 DEF Reset
  <2>11. QED
    BY <1>1, <2>2, <2>3, <2>4, <2>5, <2>6, <2>7, <2>8, <2>9, <2>10 DEF Next
<1>2. TableInv /\ [Next]_vars
        => [\A t \in cancelled \cap tasks' : t \in cancelled' /\ value'[t] = value[t]]_vars
  BY <1>1
<1>3. QED
  BY <1>2, TableHolds, PTL DEF Spec, CancelledIsFinal

-----------------------------------------------------------------------------
(* Scopes and their tasks                                                  *)

\* The tree of scopes: a task names a scope of the table or none, and a child
\* scope is on the list of its parent.
ScopeInv ==
  /\ nscopes \in 0..MaxScopes /\ scopes \subseteq 1..nscopes
  /\ parent_scope \in [Tasks -> Scopes \cup {None}] /\ children \in [Scopes -> Seq(Tasks)]
  /\ scope_parent \in [Scopes -> Scopes \cup {None}] /\ child_scopes \in [Scopes -> Seq(Scopes)]
  /\ \A t \in tasks : parent_scope[t] \in scopes \cup {None}
  /\ \A x \in scopes : scope_parent[x] # None =>
       scope_parent[x] \in scopes /\ x \in Range(child_scopes[scope_parent[x]])

\* Ranks number a finite set of positions without a gap.  RanksHold, at the end of
\* the module, takes this from the library, whose many theorems are thereby not in
\* the way of the proofs in between.
Ranks ==
  \A n \in Nat : \A K \in SUBSET (1..n) :
    /\ Cardinality(K) \in Nat
    /\ \A i \in K : Rank(K, i) \in 1..Cardinality(K)
    /\ \A i, j \in K : Rank(K, i) = Rank(K, j) => i = j
    /\ \A k \in 1..Cardinality(K) : \E i \in K : Rank(K, i) = k

\* What retain leaves: the other elements, each once if each was there once.
LEMMA WithoutFacts ==
  ASSUME Ranks, NEW S, NEW list \in Seq(S), NEW t
  PROVE  /\ Without(list, t) \in Seq(S)
         /\ \A u : u \in Range(Without(list, t)) <=> u \in Range(list) /\ u # t
         /\ IsInjective(list) => IsInjective(Without(list, t))
<1>1. DOMAIN list = 1..Len(list) /\ Len(list) \in Nat
  OBVIOUS
<1>2. PICK K : K = Kept(list, t)
  BY Zenon
<1>3. K \in SUBSET (1..Len(list)) /\ \A i : i \in K <=> i \in DOMAIN list /\ list[i] # t
  BY Zenon, <1>1, <1>2 DEF Kept
<1>4. /\ Cardinality(K) \in Nat
      /\ \A i \in K : Rank(K, i) \in 1..Cardinality(K)
      /\ \A i, j \in K : Rank(K, i) = Rank(K, j) => i = j
      /\ \A k \in 1..Cardinality(K) : \E i \in K : Rank(K, i) = k
  BY Zenon, <1>1, <1>3 DEF Ranks
<1>5. PICK at : at = [k \in 1..Cardinality(K) |-> CHOOSE i \in K : Rank(K, i) = k]
  BY Zenon
<1>6. \A k \in 1..Cardinality(K) : at[k] \in K /\ Rank(K, at[k]) = k
  BY Zenon, <1>4, <1>5
<1>7. PICK q : q = Without(list, t)
  BY Zenon
<1>8. q = [k \in 1..Cardinality(K) |-> list[at[k]]]
  <2>1. q = [k \in 1..Cardinality(K) |-> list[CHOOSE i \in K : Rank(K, i) = k]]
    BY SMT, <1>2, <1>7 DEF Without
  <2>2. \A k \in 1..Cardinality(K) : list[at[k]] = list[CHOOSE i \in K : Rank(K, i) = k]
    BY Zenon, <1>5
  <2>3. QED
    BY Zenon, <2>1, <2>2
<1>9. \A i \in K : list[i] \in S
  BY <1>3
<1>10. q \in Seq(S)
  BY <1>4, <1>6, <1>8, <1>9
<1>11. DOMAIN q = 1..Cardinality(K) /\ \A k \in DOMAIN q : q[k] = list[at[k]]
  BY Zenon, <1>8
<1>12. ASSUME NEW u \in Range(q) PROVE u \in Range(list) /\ u # t
  <2>1. PICK k \in DOMAIN q : q[k] = u
    BY Zenon DEF Range
  <2>2. at[k] \in DOMAIN list /\ list[at[k]] # t /\ u = list[at[k]]
    BY Zenon, <1>3, <1>6, <1>11, <2>1
  <2>3. QED
    BY Zenon, <2>2 DEF Range
<1>13. ASSUME NEW u \in Range(list), u # t PROVE u \in Range(q)
  <2>1. PICK i \in DOMAIN list : list[i] = u
    BY Zenon DEF Range
  <2>2. i \in K /\ Rank(K, i) \in DOMAIN q
    BY Zenon, <1>3, <1>4, <1>11, <1>13, <2>1
  <2>3. at[Rank(K, i)] = i
    BY Zenon, <1>4, <1>6, <1>11, <2>2
  <2>4. QED
    BY Zenon, <1>11, <2>1, <2>2, <2>3 DEF Range
<1>14. ASSUME IsInjective(list), NEW k \in DOMAIN q, NEW l \in DOMAIN q, q[k] = q[l] PROVE k = l
  <2>1. at[k] \in DOMAIN list /\ Rank(K, at[k]) = k /\ at[l] \in DOMAIN list /\ Rank(K, at[l]) = l
    BY Zenon, <1>3, <1>6, <1>11
  <2>2. at[k] = at[l]
    BY Zenon, <1>11, <1>14, <2>1 DEF IsInjective
  <2>3. QED
    BY Zenon, <2>1, <2>2
<1>15. IsInjective(list) => IsInjective(q)
  BY Zenon, <1>14 DEF IsInjective
<1>16. QED
  BY Zenon, <1>7, <1>10, <1>12, <1>13, <1>15

\* What push adds.
LEMMA PushedFacts ==
  ASSUME NEW S, NEW list \in Seq(S), NEW t \in S
  PROVE  /\ Append(list, t) \in Seq(S)
         /\ \A u : u \in Range(Append(list, t)) <=> u \in Range(list) \/ u = t
         /\ IsInjective(list) /\ t \notin Range(list) => IsInjective(Append(list, t))
<1>1. PICK n \in Nat : n = Len(list)
  OBVIOUS
<1>2. PICK q : q = Append(list, t)
  BY Zenon
<1>3. q \in Seq(S)
  BY <1>2
<1>4. DOMAIN list = 1..n /\ DOMAIN q = 1..(n + 1) /\ q[n + 1] = t /\ \A i \in 1..n : q[i] = list[i]
  BY <1>1, <1>2
<1>5. /\ n + 1 \in DOMAIN q /\ \A i \in DOMAIN q : i = n + 1 \/ i \in DOMAIN list
      /\ \A i \in DOMAIN list : i \in DOMAIN q /\ q[i] = list[i]
  BY <1>4
<1>6. ASSUME NEW u PROVE u \in Range(q) <=> u \in Range(list) \/ u = t
  BY Zenon, <1>4, <1>5 DEF Range
<1>7. ASSUME IsInjective(list), t \notin Range(list), NEW i \in DOMAIN q, NEW j \in DOMAIN q, q[i] = q[j]
      PROVE  i = j
  BY ZenonT(60), <1>4, <1>5, <1>7 DEF IsInjective, Range
<1>8. IsInjective(list) /\ t \notin Range(list) => IsInjective(q)
  BY Zenon, <1>7 DEF IsInjective
<1>9. QED
  BY Zenon, <1>2, <1>3, <1>6, <1>8

\* A number that is not in the table is on no list.
LEMMA NotListed ==
  ASSUME TableInv, ScopeInv, ScopeMembership, NEW t \in Tasks, t \notin tasks, NEW s \in Scopes
  PROVE  t \notin Range(children[s])
BY Zenon DEF ScopeMembership

\* Every allocation puts the new task on the list of the scope it names, if any.
LEMMA AllocateScope ==
  ASSUME TableInv, ScopeInv, ScopeMembership, UNCHANGED <<nscopes, scopes, scope_parent, child_scopes>>,
         NEW v, NEW p \in scopes \cup {None}, NEW inner, NEW deadline, NEW done,
         Allocate(ntasks + 1, v, p, inner, deadline, done)
  PROVE  ScopeInv' /\ ScopeMembership'
<1>1. PICK w : w = ntasks + 1
  BY Zenon
<1>2. /\ w \in Tasks /\ w \notin tasks /\ tasks' = tasks \cup {w}
      /\ parent_scope' = [parent_scope EXCEPT ![w] = p] /\ children' = Pushed(p, w)
  BY <1>1, NewTask DEF Allocate
<1>3. scopes \subseteq Scopes /\ None \notin Scopes /\ tasks \subseteq Tasks
  BY BoundsAssumption DEF ScopeInv, TableInv, Scopes, Tasks, None
<1>4. /\ parent_scope' \in [Tasks -> Scopes \cup {None}]
      /\ parent_scope'[w] = p /\ \A t \in Tasks : t # w => parent_scope'[t] = parent_scope[t]
  BY <1>2, <1>3 DEF ScopeInv
<1>5. /\ p \in scopes => children' = [children EXCEPT ![p] = Append(children[p], w)]
      /\ p \notin scopes => children' = children
  BY <1>2 DEF Pushed
<1>6. \A s \in Scopes : children[s] \in Seq(Tasks) /\ IsInjective(children[s]) /\ w \notin Range(children[s])
  BY Zenon, <1>2, NotListed DEF ScopeInv, ScopeMembership
<1>7. ASSUME NEW s \in Scopes
      PROVE  /\ children'[s] \in Seq(Tasks) /\ IsInjective(children'[s])
             /\ \A t \in Tasks : t \in Range(children'[s]) <=> t \in Range(children[s]) \/ (t = w /\ s = p)
  <2>1. children[s] \in Seq(Tasks) /\ IsInjective(children[s]) /\ w \notin Range(children[s])
    BY Zenon, <1>6
  <2>2. PICK q : q = Append(children[s], w)
    BY Zenon
  <2>3. /\ q \in Seq(Tasks) /\ IsInjective(q)
        /\ \A t : t \in Range(q) <=> t \in Range(children[s]) \/ t = w
    BY Zenon, <1>2, <2>1, <2>2, PushedFacts
  <2>4. (s = p => children'[s] = q) /\ (s # p => children'[s] = children[s])
    BY <1>3, <1>5, <2>2 DEF ScopeInv
  <2>5. QED
    BY Zenon, <2>1, <2>3, <2>4
<1>8. children' \in [Scopes -> Seq(Tasks)]
  <2>1. children' = [s \in Scopes |-> children'[s]]
    BY <1>5 DEF ScopeInv
  <2>2. QED
    BY <1>7, <2>1
<1>9. ScopeInv'
  <2>1. \A t \in tasks' : parent_scope'[t] \in scopes' \cup {None}
    BY Zenon, <1>2, <1>3, <1>4 DEF ScopeInv
  <2>2. QED
    BY Zenon, <1>4, <1>8, <2>1 DEF ScopeInv
<1>10. ASSUME NEW s \in Scopes, NEW t \in Tasks
       PROVE  t \in Range(children'[s]) <=> t \in tasks' /\ parent_scope'[t] = s
  <2>1. t \in Range(children[s]) <=> t \in tasks /\ parent_scope[t] = s
    BY Zenon DEF ScopeMembership
  <2>2. t \in Range(children'[s]) <=> t \in Range(children[s]) \/ (t = w /\ s = p)
    BY Zenon, <1>7
  <2>3. QED
    BY Zenon, <1>2, <1>4, <2>1, <2>2
<1>11. QED
  BY Zenon, <1>7, <1>9, <1>10 DEF ScopeMembership

\* with_timeout takes the wrapper back from the list it was pushed on.
LEMMA RefusedScope ==
  ASSUME Ranks, TableInv, ScopeInv, ScopeMembership, NEW u \in Tasks, WithTimeoutRefused(u)
  PROVE  ScopeInv' /\ ScopeMembership'
<1>1. PICK w : w = ntasks + 1
  BY Zenon
<1>2. PICK p : p = parent_scope[u]
  BY Zenon
<1>3. w \in Tasks /\ w \notin tasks
  BY <1>1, NewTask DEF WithTimeoutRefused
<1>4. /\ children' = IF p \in scopes THEN [children EXCEPT ![p] = Without(Append(children[p], w), w)]
                     ELSE children
      /\ tasks' = tasks /\ parent_scope' = parent_scope
      /\ nscopes' = nscopes /\ scopes' = scopes /\ scope_parent' = scope_parent /\ child_scopes' = child_scopes
  BY <1>1, <1>2 DEF WithTimeoutRefused, links, scopeVars
<1>5. scopes \subseteq Scopes
  BY BoundsAssumption DEF ScopeInv, Scopes
<1>6. ASSUME NEW s \in Scopes
      PROVE  /\ children'[s] \in Seq(Tasks) /\ IsInjective(children'[s])
             /\ \A t : t \in Range(children'[s]) <=> t \in Range(children[s])
  <2>1. children[s] \in Seq(Tasks) /\ IsInjective(children[s]) /\ w \notin Range(children[s])
    BY Zenon, <1>3, NotListed DEF ScopeInv, ScopeMembership
  <2>2. PICK q : q = Append(children[s], w)
    BY Zenon
  <2>3. /\ q \in Seq(Tasks) /\ IsInjective(q)
        /\ \A t : t \in Range(q) <=> t \in Range(children[s]) \/ t = w
    BY Zenon, <1>3, <2>1, <2>2, PushedFacts
  <2>4. /\ Without(q, w) \in Seq(Tasks) /\ IsInjective(Without(q, w))
        /\ \A t : t \in Range(Without(q, w)) <=> t \in Range(q) /\ t # w
    BY Zenon, <2>3, WithoutFacts
  <2>5. children'[s] = Without(q, w) \/ children'[s] = children[s]
    BY <1>4, <2>2 DEF ScopeInv
  <2>6. QED
    BY Zenon, <2>1, <2>3, <2>4, <2>5
<1>7. children' \in [Scopes -> Seq(Tasks)]
  <2>1. children' = [s \in Scopes |-> children'[s]]
    BY <1>4 DEF ScopeInv
  <2>2. QED
    BY <1>6, <2>1
<1>8. QED
  BY Zenon, <1>4, <1>6, <1>7 DEF ScopeInv, ScopeMembership

\* attach_task_to_scope takes the task off the one list it is on.
LEMMA AttachScope ==
  ASSUME Ranks, TableInv, ScopeInv, ScopeMembership, NEW p \in Scopes, NEW u \in Tasks, AttachTask(p, u)
  PROVE  ScopeInv' /\ ScopeMembership'
<1>1. PICK old : old = parent_scope[u]
  BY Zenon
<1>2. PICK left : left = IF old \in scopes THEN [children EXCEPT ![old] = Without(children[old], u)] ELSE children
  BY Zenon
<1>3. /\ p \in scopes /\ u \in tasks /\ tasks' = tasks
      /\ parent_scope' = [parent_scope EXCEPT ![u] = p]
      /\ children' = IF u \in Range(left[p]) THEN left ELSE [left EXCEPT ![p] = Append(left[p], u)]
      /\ nscopes' = nscopes /\ scopes' = scopes /\ scope_parent' = scope_parent /\ child_scopes' = child_scopes
  BY <1>1, <1>2 DEF AttachTask, scopeVars
<1>4. scopes \subseteq Scopes /\ None \notin Scopes /\ old \in scopes \cup {None}
  BY <1>1, <1>3, BoundsAssumption DEF ScopeInv, Scopes, None
<1>5. /\ parent_scope' \in [Tasks -> Scopes \cup {None}]
      /\ parent_scope'[u] = p /\ \A t \in Tasks : t # u => parent_scope'[t] = parent_scope[t]
  BY <1>3 DEF ScopeInv
<1>6. ASSUME NEW s \in Scopes
      PROVE  /\ left[s] \in Seq(Tasks) /\ IsInjective(left[s])
             /\ \A t : t \in Range(left[s]) <=> t \in Range(children[s]) /\ t # u
  <2>1. children[s] \in Seq(Tasks) /\ IsInjective(children[s]) /\ (u \in Range(children[s]) => s = old)
    BY Zenon, <1>1 DEF ScopeInv, ScopeMembership
  <2>2. /\ Without(children[s], u) \in Seq(Tasks) /\ IsInjective(Without(children[s], u))
        /\ \A t : t \in Range(Without(children[s], u)) <=> t \in Range(children[s]) /\ t # u
    BY Zenon, <2>1, WithoutFacts
  <2>3. (s = old => left[s] = Without(children[s], u)) /\ (s # old => left[s] = children[s])
    BY <1>2, <1>4 DEF ScopeInv
  <2>4. QED
    BY Zenon, <2>1, <2>2, <2>3
<1>7. children' = [left EXCEPT ![p] = Append(left[p], u)]
  BY Zenon, <1>3, <1>6
<1>8. left \in [Scopes -> Seq(Tasks)]
  <2>1. left = [s \in Scopes |-> left[s]]
    BY <1>2 DEF ScopeInv
  <2>2. QED
    BY <1>6, <2>1
<1>9. ASSUME NEW s \in Scopes
      PROVE  /\ children'[s] \in Seq(Tasks) /\ IsInjective(children'[s])
             /\ \A t : t \in Range(children'[s]) <=> t \in Range(left[s]) \/ (t = u /\ s = p)
  <2>1. left[s] \in Seq(Tasks) /\ IsInjective(left[s]) /\ u \notin Range(left[s])
    BY Zenon, <1>6
  <2>2. PICK q : q = Append(left[s], u)
    BY Zenon
  <2>3. /\ q \in Seq(Tasks) /\ IsInjective(q)
        /\ \A t : t \in Range(q) <=> t \in Range(left[s]) \/ t = u
    BY Zenon, <2>1, <2>2, PushedFacts
  <2>4. (s = p => children'[s] = q) /\ (s # p => children'[s] = left[s])
    BY <1>7, <1>8, <2>2
  <2>5. QED
    BY Zenon, <2>1, <2>3, <2>4
<1>10. children' \in [Scopes -> Seq(Tasks)]
  <2>1. children' = [s \in Scopes |-> children'[s]]
    BY <1>7, <1>8
  <2>2. QED
    BY <1>9, <2>1
<1>11. ScopeInv'
  <2>1. \A t \in tasks' : parent_scope'[t] \in scopes' \cup {None}
    <3>1. tasks \subseteq Tasks
      BY BoundsAssumption DEF TableInv, Tasks
    <3>2. QED
      BY Zenon, <1>3, <1>5, <3>1 DEF ScopeInv
  <2>2. QED
    BY Zenon, <1>3, <1>5, <1>10, <2>1 DEF ScopeInv
<1>12. ASSUME NEW s \in Scopes, NEW t \in Tasks
       PROVE  t \in Range(children'[s]) <=> t \in tasks' /\ parent_scope'[t] = s
  <2>1. t \in Range(children[s]) <=> t \in tasks /\ parent_scope[t] = s
    BY Zenon DEF ScopeMembership
  <2>2. /\ t \in Range(children'[s]) <=> t \in Range(left[s]) \/ (t = u /\ s = p)
        /\ t \in Range(left[s]) <=> t \in Range(children[s]) /\ t # u
    BY Zenon, <1>6, <1>9
  <2>3. QED
    BY Zenon, <1>3, <1>5, <2>1, <2>2
<1>13. QED
  BY Zenon, <1>9, <1>11, <1>12 DEF ScopeMembership

\* create_scope links the new scope both ways.
LEMMA CreateScopeLinks ==
  ASSUME ScopeInv, NEW p \in Scopes \cup {None}, CreateScope(p)
  PROVE  ScopeInv'
<1>1. PICK x : x = nscopes + 1
  BY Zenon
<1>2. /\ p = None \/ p \in scopes
      /\ nscopes' = x /\ scopes' = scopes \cup {x}
      /\ scope_parent' = [scope_parent EXCEPT ![x] = p]
      /\ child_scopes' = IF p = None THEN child_scopes ELSE [child_scopes EXCEPT ![p] = Append(child_scopes[p], x)]
      /\ tasks' = tasks /\ parent_scope' = parent_scope /\ children' = children
  BY <1>1 DEF CreateScope, links
<1>3. /\ x \in Scopes /\ x \notin scopes /\ scopes \subseteq Scopes /\ None \notin Scopes
      /\ nscopes' \in 0..MaxScopes /\ scopes' \subseteq 1..nscopes'
  BY <1>1, <1>2, BoundsAssumption DEF CreateScope, ScopeInv, Scopes, None
<1>4. /\ scope_parent' \in [Scopes -> Scopes \cup {None}]
      /\ scope_parent'[x] = p /\ \A y \in scopes : scope_parent'[y] = scope_parent[y]
  BY <1>2, <1>3 DEF ScopeInv
<1>5. ASSUME NEW s \in Scopes
      PROVE  /\ child_scopes'[s] \in Seq(Scopes) /\ Range(child_scopes[s]) \subseteq Range(child_scopes'[s])
             /\ s = p => x \in Range(child_scopes'[s])
  <2>1. child_scopes[s] \in Seq(Scopes)
    BY Zenon DEF ScopeInv
  <2>2. PICK q : q = Append(child_scopes[s], x)
    BY Zenon
  <2>3. /\ q \in Seq(Scopes)
        /\ \A t : t \in Range(q) <=> t \in Range(child_scopes[s]) \/ t = x
    BY Zenon, <1>3, <2>1, <2>2, PushedFacts
  <2>4. (s = p => child_scopes'[s] = q) /\ (s # p => child_scopes'[s] = child_scopes[s])
    BY <1>2, <1>3, <2>2 DEF ScopeInv
  <2>5. QED
    BY Zenon, <2>1, <2>3, <2>4
<1>6. child_scopes' \in [Scopes -> Seq(Scopes)]
  <2>1. child_scopes' = [s \in Scopes |-> child_scopes'[s]]
    BY <1>2 DEF ScopeInv
  <2>2. QED
    BY <1>5, <2>1
<1>7. ASSUME NEW y \in scopes', scope_parent'[y] # None
      PROVE  scope_parent'[y] \in scopes' /\ y \in Range(child_scopes'[scope_parent'[y]])
  <2>1. CASE y = x
    BY Zenon, <1>2, <1>3, <1>4, <1>5, <1>7, <2>1
  <2>2. CASE y \in scopes
    <3>1. PICK z \in scopes : z = scope_parent[y] /\ y \in Range(child_scopes[z])
      BY Zenon, <1>4, <1>7, <2>2 DEF ScopeInv
    <3>2. scope_parent'[y] = z /\ y \in Range(child_scopes'[z]) /\ z \in scopes'
      BY Zenon, <1>2, <1>3, <1>4, <1>5, <2>2, <3>1
    <3>3. QED
      BY Zenon, <3>2
  <2>3. QED
    BY Zenon, <1>2, <2>1, <2>2
<1>8. QED
  BY Zenon, <1>2, <1>3, <1>4, <1>6, <1>7 DEF ScopeInv

LEMMA EmptyList == /\ <<>> \in Seq(Tasks) /\ <<>> \in Seq(Scopes)
                   /\ IsInjective(<<>>) /\ Range(<<>>) = {}
BY DEF Range, IsInjective

LEMMA ScopeStep ==
  ASSUME Ranks, TableInv, ScopeInv, ScopeMembership, [Next]_vars
  PROVE  ScopeInv' /\ ScopeMembership'
<1>1. ASSUME UNCHANGED <<tasks, parent_scope, children, nscopes, scopes, scope_parent, child_scopes>>
      PROVE  ScopeInv' /\ ScopeMembership'
  BY Zenon, <1>1 DEF ScopeInv, ScopeMembership
<1>2. CASE Ready \/ Start
  BY Zenon, <1>2, AllocateScope DEF Ready, Start, scopeVars
<1>3. ASSUME NEW s \in Scopes, SpawnReady(s) PROVE ScopeInv' /\ ScopeMembership'
  BY Zenon, <1>3, AllocateScope DEF SpawnReady, scopeVars
<1>4. ASSUME NEW t \in Tasks, NEW d \in Delays, WithTimeout(t, d) PROVE ScopeInv' /\ ScopeMembership'
  BY Zenon, <1>4, AllocateScope DEF WithTimeout, scopeVars, ScopeInv
<1>5. ASSUME NEW t \in Tasks, CompleteTask(t) \/ FailTask(t) \/ TaskFail(t) \/ CancelTask(t)
      PROVE  ScopeInv' /\ ScopeMembership'
  BY Zenon, <1>1, <1>5 DEF CompleteTask, FailTask, TaskFail, CancelTask, links, scopeVars
<1>6. ASSUME NEW s \in Scopes, CancelScope(s) \/ JoinScope(s) PROVE ScopeInv' /\ ScopeMembership'
  BY Zenon, <1>1, <1>6 DEF CancelScope, JoinScope, links, scopeVars
<1>7. CASE ProcessDueTimeouts \/ Elapse \/ \E d \in Delays : AdvanceTime(d)
  BY Zenon, <1>1, <1>7 DEF ProcessDueTimeouts, Elapse, AdvanceTime, links, scopeVars
<1>8. ASSUME NEW t \in Tasks, WithTimeoutRefused(t) PROVE ScopeInv' /\ ScopeMembership'
  BY Zenon, <1>8, RefusedScope
<1>9. ASSUME NEW p \in Scopes \cup {None}, CreateScope(p) PROVE ScopeInv' /\ ScopeMembership'
  BY Zenon, <1>9, CreateScopeLinks DEF CreateScope, links, ScopeMembership
<1>10. ASSUME NEW s \in Scopes, NEW t \in Tasks, AttachTask(s, t) PROVE ScopeInv' /\ ScopeMembership'
  BY Zenon, <1>10, AttachScope
<1>11. CASE Reset
  <2>1. ScopeInv'
    BY Zenon, <1>11, EmptyList DEF Reset, ScopeInv
  <2>2. ScopeMembership'
    BY Zenon, <1>11, EmptyList DEF Reset, ScopeMembership
  <2>3. QED
    BY Zenon, <2>1, <2>2
<1>12. CASE UNCHANGED vars
  BY Zenon, <1>1, <1>12 DEF vars, links, scopeVars
<1>13. QED
  BY Zenon, <1>2, <1>3, <1>4, <1>5, <1>6, <1>7, <1>8, <1>9, <1>10, <1>11, <1>12 DEF Next

\* What cancel_scope reaches is closed under the links of the children: a scope
\* below a reached one is reached, and so is every task that names one.
LEMMA CancelScopeReaches ==
  ASSUME TableInv, ScopeInv, ScopeMembership, NEW r \in Scopes, CancelScope(r),
         NEW s \in scope_cancelled', s \notin scope_cancelled
  PROVE  /\ \A x \in scopes : scope_parent[x] = s => x \in scope_cancelled'
         /\ \A t \in tasks : parent_scope[t] = s => t \in cancelled'
<1>1. /\ s \in Subtree(r) /\ s \in scopes
      /\ scope_cancelled' = scope_cancelled \cup Subtree(r)
      /\ cancelled' = cancelled \cup WithInner(UNION {Range(children[x]) : x \in Subtree(r)})
  BY Zenon DEF CancelScope, Subtree
<1>2. scopes \subseteq Scopes /\ None \notin Scopes /\ tasks \subseteq Tasks
  BY BoundsAssumption DEF ScopeInv, TableInv, Scopes, Tasks, None
<1>3. ASSUME NEW x \in scopes, scope_parent[x] = s PROVE x \in Subtree(r)
  <2>1. x \in Range(child_scopes[s])
    BY Zenon, <1>1, <1>2, <1>3 DEF ScopeInv
  <2>2. ASSUME NEW C \in SUBSET scopes, r \in C, \A p \in C : Range(child_scopes[p]) \subseteq C PROVE x \in C
    <3>1. s \in C
      BY Zenon, <1>1, <2>2 DEF Subtree
    <3>2. QED
      BY Zenon, <2>1, <2>2, <3>1
  <2>3. QED
    BY Zenon, <2>2 DEF Subtree
<1>4. ASSUME NEW t \in tasks, parent_scope[t] = s
      PROVE  t \in WithInner(UNION {Range(children[x]) : x \in Subtree(r)})
  <2>1. t \in Range(children[s])
    BY Zenon, <1>1, <1>2, <1>4 DEF ScopeMembership
  <2>2. t \in UNION {Range(children[x]) : x \in Subtree(r)}
    BY Zenon, <1>1, <2>1
  <2>3. QED
    BY Zenon, <2>2 DEF WithInner
<1>5. QED
  BY Zenon, <1>1, <1>3, <1>4

-----------------------------------------------------------------------------
(* The tree of scopes, and the order in which join_scope goes through it   *)

\* A child is listed once, by its parent, and was created after it.
TreeInv ==
  \A p \in Scopes :
    /\ IsInjective(child_scopes[p])
    /\ \A c \in Range(child_scopes[p]) : p \in scopes /\ c \in scopes /\ scope_parent[c] = p /\ p < c

LEMMA TreeStep ==
  ASSUME ScopeInv, TreeInv, [Next]_vars
  PROVE  TreeInv'
<1>1. ASSUME UNCHANGED <<scopes, scope_parent, child_scopes>> PROVE TreeInv'
  BY Zenon, <1>1 DEF TreeInv
<1>2. ASSUME NEW p \in Scopes \cup {None}, CreateScope(p) PROVE TreeInv'
  <2>1. PICK x : x = nscopes + 1
    BY Zenon
  <2>2. /\ p = None \/ p \in scopes
        /\ scopes' = scopes \cup {x}
        /\ scope_parent' = [scope_parent EXCEPT ![x] = p]
        /\ child_scopes' = IF p = None THEN child_scopes ELSE [child_scopes EXCEPT ![p] = Append(child_scopes[p], x)]
    BY <1>2, <2>1 DEF CreateScope
  <2>3. /\ x \in Scopes /\ x \notin scopes /\ scopes \subseteq Scopes /\ None \notin Scopes
        /\ \A q \in scopes : q < x
    BY <1>2, <2>1, BoundsAssumption DEF CreateScope, ScopeInv, Scopes, None
  <2>4. scope_parent'[x] = p /\ \A y \in scopes : scope_parent'[y] = scope_parent[y]
    BY <2>2, <2>3 DEF ScopeInv
  <2>5. ASSUME NEW q \in Scopes
        PROVE  /\ IsInjective(child_scopes'[q])
               /\ \A c \in Range(child_scopes'[q]) : q \in scopes' /\ c \in scopes' /\ scope_parent'[c] = q /\ q < c
    <3>1. child_scopes[q] \in Seq(Scopes) /\ x \notin Range(child_scopes[q]) /\ IsInjective(child_scopes[q])
      BY Zenon, <2>3 DEF ScopeInv, TreeInv
    <3>2. PICK l : l = Append(child_scopes[q], x)
      BY Zenon
    <3>3. IsInjective(l) /\ \A c : c \in Range(l) <=> c \in Range(child_scopes[q]) \/ c = x
      BY Zenon, <2>3, <3>1, <3>2, PushedFacts
    <3>4. (q = p => child_scopes'[q] = l) /\ (q # p => child_scopes'[q] = child_scopes[q])
      BY <2>2, <2>3, <3>2 DEF ScopeInv
    <3>5. \A c \in Range(child_scopes[q]) : q \in scopes' /\ c \in scopes' /\ scope_parent'[c] = q /\ q < c
      BY Zenon, <2>2, <2>4 DEF TreeInv
    <3>6. CASE q # p
      BY Zenon, <3>1, <3>4, <3>5, <3>6
    <3>7. CASE q = p
      <4>1. q \in scopes /\ x \in scopes' /\ scope_parent'[x] = q /\ q < x
        BY Zenon, <2>2, <2>3, <2>4, <3>7
      <4>2. QED
        BY Zenon, <2>2, <3>1, <3>3, <3>4, <3>5, <3>7, <4>1
    <3>8. QED
      BY Zenon, <3>6, <3>7
  <2>6. QED
    BY Zenon, <2>5 DEF TreeInv
<1>3. CASE Reset
  BY <1>3 DEF Reset, TreeInv, Range, IsInjective
<1>4. QED
  BY Zenon, <1>1, <1>2, <1>3 DEF Next, vars, scopeVars, Ready, Start, SpawnReady, WithTimeout, CompleteTask,
     FailTask, TaskFail, CancelTask, CancelScope, JoinScope, ProcessDueTimeouts, Elapse, AdvanceTime,
     WithTimeoutRefused, AttachTask

\* What cancel_scope and join_scope reach from a scope is the least set of scopes
\* that holds it and the children of its members.
LEMMA SubtreeLeast ==
  ASSUME NEW x, NEW C \in SUBSET scopes, x \in C, \A p \in C : Range(child_scopes[p]) \subseteq C
  PROVE  \A y \in Subtree(x) : y \in C
BY Zenon DEF Subtree

LEMMA SubtreeSelf ==
  ASSUME ScopeInv, NEW x \in scopes
  PROVE  /\ x \in Subtree(x) /\ Subtree(x) \subseteq scopes
         /\ scopes \subseteq Scopes /\ Scopes \subseteq Int /\ None \notin Scopes
<1>1. x \in Subtree(x) /\ Subtree(x) \subseteq scopes
  BY Zenon DEF Subtree
<1>2. scopes \subseteq Scopes /\ Scopes \subseteq Int /\ None \notin Scopes
  BY BoundsAssumption DEF ScopeInv, Scopes, None
<1>3. QED
  BY Zenon, <1>1, <1>2

LEMMA SubtreeChild ==
  ASSUME ScopeInv, TreeInv, NEW x \in scopes, NEW y \in Subtree(x), NEW c \in Range(child_scopes[y])
  PROVE  c \in Subtree(x)
<1>1. y \in scopes /\ y \in Scopes
  BY Zenon, SubtreeSelf
<1>2. c \in scopes
  BY Zenon, <1>1 DEF TreeInv
<1>3. ASSUME NEW C \in SUBSET scopes, x \in C, \A p \in C : Range(child_scopes[p]) \subseteq C PROVE c \in C
  BY Zenon, <1>3 DEF Subtree
<1>4. QED
  BY Zenon, <1>2, <1>3 DEF Subtree

LEMMA SubtreeTrans ==
  ASSUME ScopeInv, TreeInv, NEW x \in scopes, NEW y \in Subtree(x), NEW z \in Subtree(y)
  PROVE  z \in Subtree(x)
<1>1. PICK C : C = Subtree(x)
  BY Zenon
<1>2. C \in SUBSET scopes /\ y \in C /\ \A p \in C : Range(child_scopes[p]) \subseteq C
  BY Zenon, <1>1, SubtreeSelf, SubtreeChild
<1>3. QED
  BY Zenon, <1>1, <1>2, SubtreeLeast

\* A scope is not older than one it is below.
LEMMA SubtreeLater ==
  ASSUME ScopeInv, TreeInv, NEW x \in scopes, NEW y \in Subtree(x)
  PROVE  x <= y
<1>1. PICK C : C = {c \in scopes : x <= c}
  BY Zenon
<1>2. scopes \subseteq Scopes /\ scopes \subseteq Int
  BY Zenon, SubtreeSelf
<1>3. C \in SUBSET scopes /\ x \in C
  BY <1>1, <1>2
<1>4. ASSUME NEW p \in C, NEW c \in Range(child_scopes[p]) PROVE c \in C
  <2>1. c \in scopes /\ p < c /\ p \in scopes /\ x <= p
    BY Zenon, <1>1, <1>2 DEF TreeInv
  <2>2. x <= c
    BY <1>2, <2>1
  <2>3. QED
    BY Zenon, <1>1, <2>1, <2>2
<1>5. y \in C
  BY Zenon, <1>3, <1>4, SubtreeLeast
<1>6. QED
  BY Zenon, <1>1, <1>5

\* Below x means below its parent, which is x or below it.
LEMMA SubtreeParent ==
  ASSUME ScopeInv, TreeInv, NEW x \in scopes, NEW y \in Subtree(x), y # x
  PROVE  scope_parent[y] \in Subtree(x)
<1>1. PICK C : C = {c \in Subtree(x) : c = x \/ scope_parent[c] \in Subtree(x)}
  BY Zenon
<1>2. C \in SUBSET scopes /\ x \in C
  BY Zenon, <1>1, SubtreeSelf
<1>3. ASSUME NEW p \in C, NEW c \in Range(child_scopes[p]) PROVE c \in C
  <2>1. p \in Subtree(x) /\ p \in Scopes
    BY Zenon, <1>1, SubtreeSelf
  <2>2. c \in Subtree(x) /\ scope_parent[c] = p
    BY Zenon, <2>1, SubtreeChild DEF TreeInv
  <2>3. QED
    BY Zenon, <1>1, <2>1, <2>2
<1>4. y \in C
  BY Zenon, <1>2, <1>3, SubtreeLeast
<1>5. QED
  BY Zenon, <1>1, <1>4

\* The child of x that y is below.
LEMMA SubtreeVia ==
  ASSUME ScopeInv, TreeInv, NEW x \in scopes, NEW y \in Subtree(x), y # x
  PROVE  \E i \in DOMAIN child_scopes[x] : y \in Subtree(child_scopes[x][i])
<1>1. PICK C : C = {c \in scopes : c = x \/ \E i \in DOMAIN child_scopes[x] : c \in Subtree(child_scopes[x][i])}
  BY Zenon
<1>2. C \in SUBSET scopes /\ x \in C
  BY Zenon, <1>1
<1>3. ASSUME NEW p \in C, NEW c \in Range(child_scopes[p]) PROVE c \in C
  <2>1. p \in scopes /\ p \in Scopes /\ c \in scopes
    BY Zenon, <1>1, SubtreeSelf DEF TreeInv
  <2>2. CASE p = x
    <3>1. PICK i \in DOMAIN child_scopes[x] : child_scopes[x][i] = c
      BY Zenon, <1>3, <2>2 DEF Range
    <3>2. c \in Subtree(child_scopes[x][i])
      BY Zenon, <2>1, <3>1, SubtreeSelf
    <3>3. QED
      BY Zenon, <1>1, <2>1, <3>2
  <2>3. CASE p # x
    <3>1. PICK i \in DOMAIN child_scopes[x] : p \in Subtree(child_scopes[x][i])
      BY Zenon, <1>1, <2>3
    <3>2. child_scopes[x][i] \in scopes
      <4>1. x \in Scopes /\ child_scopes[x][i] \in Range(child_scopes[x])
        BY Zenon, <3>1, SubtreeSelf DEF Range
      <4>2. QED
        BY Zenon, <4>1 DEF TreeInv
    <3>3. c \in Subtree(child_scopes[x][i])
      BY Zenon, <1>3, <3>1, <3>2, SubtreeChild
    <3>4. QED
      BY Zenon, <1>1, <2>1, <3>3
  <2>4. QED
    BY Zenon, <2>2, <2>3
<1>4. y \in C
  BY Zenon, <1>2, <1>3, SubtreeLeast
<1>5. QED
  BY Zenon, <1>1, <1>4

\* Of two scopes that z is below, one is below the other.
LEMMA SubtreeChain ==
  ASSUME ScopeInv, TreeInv, NEW x \in scopes, NEW y \in scopes, NEW z \in Subtree(x), z \in Subtree(y)
  PROVE  x \in Subtree(y) \/ y \in Subtree(x)
<1>1. PICK C : C = {c \in Subtree(x) : c \in Subtree(y) => x \in Subtree(y) \/ y \in Subtree(x)}
  BY Zenon
<1>2. C \in SUBSET scopes /\ x \in C
  BY Zenon, <1>1, SubtreeSelf
<1>3. ASSUME NEW p \in C, NEW c \in Range(child_scopes[p]) PROVE c \in C
  <2>1. p \in Subtree(x) /\ p \in Scopes
    BY Zenon, <1>1, SubtreeSelf
  <2>2. c \in Subtree(x) /\ scope_parent[c] = p
    BY Zenon, <1>3, <2>1, SubtreeChild DEF TreeInv
  <2>3. ASSUME c \in Subtree(y), c # y PROVE x \in Subtree(y) \/ y \in Subtree(x)
    <3>1. p \in Subtree(y)
      BY Zenon, <2>2, <2>3, SubtreeParent
    <3>2. QED
      BY Zenon, <1>1, <3>1
  <2>4. QED
    BY Zenon, <1>1, <2>2, <2>3
<1>4. z \in C
  BY Zenon, <1>2, <1>3, SubtreeLeast
<1>5. QED
  BY Zenon, <1>1, <1>4

\* Nothing is below two children of one scope.
LEMMA SubtreeApart ==
  ASSUME ScopeInv, TreeInv, NEW p \in scopes,
         NEW i \in DOMAIN child_scopes[p], NEW j \in DOMAIN child_scopes[p],
         NEW z \in Subtree(child_scopes[p][i]), z \in Subtree(child_scopes[p][j])
  PROVE  i = j
<1>1. PICK c : c = child_scopes[p][i]
  BY Zenon
<1>2. PICK d : d = child_scopes[p][j]
  BY Zenon
<1>3. /\ p \in Int /\ c \in scopes /\ c \in Int /\ scope_parent[c] = p /\ p < c
      /\ d \in scopes /\ d \in Int /\ scope_parent[d] = p /\ p < d
  BY Zenon, <1>1, <1>2, SubtreeSelf DEF TreeInv, Range
<1>4. ~ c <= p /\ ~ d <= p
  BY <1>3
<1>5. ASSUME c # d PROVE FALSE
  <2>1. CASE c \in Subtree(d)
    <3>1. p \in Subtree(d)
      BY Zenon, <1>3, <1>5, <2>1, SubtreeParent
    <3>2. QED
      BY Zenon, <1>3, <1>4, <3>1, SubtreeLater
  <2>2. CASE d \in Subtree(c)
    <3>1. p \in Subtree(c)
      BY Zenon, <1>3, <1>5, <2>2, SubtreeParent
    <3>2. QED
      BY Zenon, <1>3, <1>4, <3>1, SubtreeLater
  <2>3. QED
    BY Zenon, <1>1, <1>2, <1>3, <2>1, <2>2, SubtreeChain
<1>6. QED
  BY Zenon, <1>1, <1>2, <1>5, SubtreeSelf DEF TreeInv, IsInjective

\* join_scope goes through the scopes below one in a strict total order.
LEMMA BeforeIrreflexive ==
  ASSUME ScopeInv, TreeInv, NEW x
  PROVE  ~ ScopeBefore(x, x)
<1>1. ASSUME NEW p \in scopes, NEW i \in DOMAIN child_scopes[p], NEW j \in DOMAIN child_scopes[p], i < j,
             x \in Subtree(child_scopes[p][i]), x \in Subtree(child_scopes[p][j])
      PROVE  FALSE
  <2>1. i = j /\ child_scopes[p] \in Seq(Scopes)
    BY Zenon, <1>1, SubtreeApart, SubtreeSelf DEF ScopeInv
  <2>2. QED
    BY <1>1, <2>1
<1>2. QED
  BY Zenon, <1>1 DEF ScopeBefore

\* x and y are below the children i and j of p.
Parted(p, i, j, x, y) ==
  /\ p \in scopes /\ i \in DOMAIN child_scopes[p] /\ j \in DOMAIN child_scopes[p] /\ i < j
  /\ x \in Subtree(child_scopes[p][i]) /\ y \in Subtree(child_scopes[p][j])

LEMMA PartedFacts ==
  ASSUME ScopeInv, TreeInv, NEW p, NEW i, NEW j, NEW x, NEW y, Parted(p, i, j, x, y)
  PROVE  /\ p \in scopes /\ child_scopes[p][i] \in scopes /\ child_scopes[p][j] \in scopes
         /\ x \in Subtree(p) /\ x \in scopes /\ x # p
         /\ y \in Subtree(p) /\ y \in scopes /\ y # p
<1>1. p \in scopes /\ p \in Scopes /\ scopes \subseteq Int
  BY Zenon, SubtreeSelf DEF Parted
<1>2. ASSUME NEW k \in DOMAIN child_scopes[p], NEW z \in Subtree(child_scopes[p][k])
      PROVE  child_scopes[p][k] \in scopes /\ z \in Subtree(p) /\ z \in scopes /\ z # p
  <2>1. PICK c : c = child_scopes[p][k]
    BY Zenon
  <2>2. c \in Range(child_scopes[p])
    BY Zenon, <2>1 DEF Range
  <2>3. c \in scopes /\ p < c
    BY Zenon, <1>1, <2>2 DEF TreeInv
  <2>4. c \in Subtree(p) /\ z \in Subtree(c) /\ z \in scopes
    BY Zenon, <1>1, <1>2, <2>1, <2>2, <2>3, SubtreeSelf, SubtreeChild
  <2>5. z \in Subtree(p) /\ c <= z
    BY Zenon, <1>1, <2>3, <2>4, SubtreeTrans, SubtreeLater
  <2>6. z # p
    BY <1>1, <2>3, <2>4, <2>5
  <2>7. QED
    BY Zenon, <2>1, <2>3, <2>4, <2>5, <2>6
<1>3. QED
  BY Zenon, <1>1, <1>2 DEF Parted

LEMMA BeforeCases ==
  ASSUME ScopeInv, TreeInv, NEW x, NEW y
  PROVE  ScopeBefore(x, y) <=> (x # y /\ x \in Subtree(y)) \/ \E p, i, j : Parted(p, i, j, x, y)
BY Zenon DEF ScopeBefore, Parted

\* The branch of p on which q lies holds all that is below q.
LEMMA PartedInside ==
  ASSUME ScopeInv, TreeInv, NEW p \in scopes, NEW q \in Subtree(p), q # p,
         NEW i \in DOMAIN child_scopes[p], NEW z \in Subtree(q), z \in Subtree(child_scopes[p][i])
  PROVE  \A w \in Subtree(q) : w \in Subtree(child_scopes[p][i])
<1>1. PICK k \in DOMAIN child_scopes[p] : q \in Subtree(child_scopes[p][k])
  BY Zenon, SubtreeVia
<1>2. child_scopes[p][k] \in scopes
  <2>1. p \in Scopes /\ child_scopes[p][k] \in Range(child_scopes[p])
    BY Zenon, SubtreeSelf DEF Range
  <2>2. QED
    BY Zenon, <2>1 DEF TreeInv
<1>3. \A w \in Subtree(q) : w \in Subtree(child_scopes[p][k])
  BY Zenon, <1>1, <1>2, SubtreeTrans
<1>4. k = i
  BY Zenon, <1>3, SubtreeApart
<1>5. QED
  BY Zenon, <1>3, <1>4

LEMMA BeforeTransitive ==
  ASSUME ScopeInv, TreeInv, NEW x \in scopes, NEW y \in scopes, NEW z \in scopes,
         ScopeBefore(x, y), ScopeBefore(y, z)
  PROVE  ScopeBefore(x, z)
<1>0. scopes \subseteq Int
  BY Zenon, SubtreeSelf
<1>1. CASE x # y /\ x \in Subtree(y) /\ y # z /\ y \in Subtree(z)
  <2>1. x \in Subtree(z) /\ y <= x /\ z <= y
    BY Zenon, <1>1, SubtreeTrans, SubtreeLater
  <2>2. x # z
    BY <1>0, <1>1, <2>1
  <2>3. QED
    BY Zenon, <2>1, <2>2, BeforeCases
<1>2. ASSUME x \in Subtree(y), NEW p, NEW i, NEW j, Parted(p, i, j, y, z) PROVE ScopeBefore(x, z)
  <2>1. Parted(p, i, j, x, z)
    BY Zenon, <1>2, PartedFacts, SubtreeTrans DEF Parted
  <2>2. QED
    BY Zenon, <2>1, BeforeCases
<1>3. ASSUME NEW p, NEW i, NEW j, Parted(p, i, j, x, y), y \in Subtree(z), y # z PROVE ScopeBefore(x, z)
  <2>1. p \in scopes /\ x \in Subtree(p) /\ x # p /\ y \in Subtree(p)
    BY Zenon, <1>3, PartedFacts
  <2>2. CASE z = p
    BY Zenon, <2>1, <2>2, BeforeCases
  <2>3. CASE z \in Subtree(p) /\ z # p
    <3>1. z \in Subtree(child_scopes[p][j])
      BY Zenon, <1>3, <2>1, <2>3, PartedInside, SubtreeSelf DEF Parted
    <3>2. Parted(p, i, j, x, z)
      BY Zenon, <1>3, <3>1 DEF Parted
    <3>3. QED
      BY Zenon, <3>2, BeforeCases
  <2>4. CASE p \in Subtree(z) /\ z # p
    <3>1. x \in Subtree(z) /\ z <= p /\ p <= x
      BY Zenon, <2>1, <2>4, SubtreeTrans, SubtreeLater
    <3>2. x # z
      BY <1>0, <2>1, <2>4, <3>1
    <3>3. QED
      BY Zenon, <3>1, <3>2, BeforeCases
  <2>5. QED
    BY Zenon, <1>3, <2>1, <2>2, <2>3, <2>4, SubtreeChain
<1>4. ASSUME NEW p, NEW i, NEW j, Parted(p, i, j, x, y), NEW q, NEW k, NEW l, Parted(q, k, l, y, z)
      PROVE  ScopeBefore(x, z)
  <2>1. /\ p \in scopes /\ x \in Subtree(p) /\ y \in Subtree(p)
        /\ q \in scopes /\ y \in Subtree(q) /\ z \in Subtree(q)
    BY Zenon, <1>4, PartedFacts
  <2>2. CASE p = q
    <3>1. j = k
      BY Zenon, <1>4, <2>2, SubtreeApart DEF Parted
    <3>2. i < l
      <4>1. child_scopes[p] \in Seq(Scopes)
        BY Zenon, <2>1, SubtreeSelf DEF ScopeInv
      <4>2. i \in DOMAIN child_scopes[p] /\ j \in DOMAIN child_scopes[p] /\ l \in DOMAIN child_scopes[p]
        BY Zenon, <1>4, <2>2 DEF Parted
      <4>3. i \in Int /\ j \in Int /\ l \in Int
        BY <4>1, <4>2
      <4>4. i < j /\ j < l
        BY Zenon, <1>4, <3>1 DEF Parted
      <4>5. QED
        BY <4>3, <4>4
    <3>3. Parted(p, i, l, x, z)
      BY Zenon, <1>4, <2>2, <3>2 DEF Parted
    <3>4. QED
      BY Zenon, <3>3, BeforeCases
  <2>3. CASE q \in Subtree(p) /\ p # q
    <3>1. z \in Subtree(child_scopes[p][j])
      BY Zenon, <1>4, <2>1, <2>3, PartedInside DEF Parted
    <3>2. Parted(p, i, j, x, z)
      BY Zenon, <1>4, <3>1 DEF Parted
    <3>3. QED
      BY Zenon, <3>2, BeforeCases
  <2>4. CASE p \in Subtree(q) /\ p # q
    <3>1. x \in Subtree(child_scopes[q][k])
      BY Zenon, <1>4, <2>1, <2>4, PartedInside DEF Parted
    <3>2. Parted(q, k, l, x, z)
      BY Zenon, <1>4, <3>1 DEF Parted
    <3>3. QED
      BY Zenon, <3>2, BeforeCases
  <2>5. QED
    BY Zenon, <2>1, <2>2, <2>3, <2>4, SubtreeChain
<1>5. QED
  BY Zenon, <1>1, <1>2, <1>3, <1>4, BeforeCases

LEMMA BeforeTotal ==
  ASSUME ScopeInv, TreeInv, NEW s \in scopes, NEW x \in Subtree(s), NEW y \in Subtree(s), x # y
  PROVE  ScopeBefore(x, y) \/ ScopeBefore(y, x)
<1>1. PICK C : C = {a \in Subtree(s) : x \in Subtree(a) =>
                     y \in Subtree(a) \/ ScopeBefore(x, y) \/ ScopeBefore(y, x)}
  BY Zenon
<1>2. C \in SUBSET scopes /\ s \in C /\ x \in scopes /\ y \in scopes
  BY Zenon, <1>1, SubtreeSelf
<1>3. ASSUME NEW p \in C, NEW c \in Range(child_scopes[p]) PROVE c \in C
  <2>1. p \in Subtree(s) /\ p \in scopes /\ c \in Subtree(s)
    BY Zenon, <1>1, <1>2, SubtreeChild
  <2>2. PICK i \in DOMAIN child_scopes[p] : child_scopes[p][i] = c
    BY Zenon DEF Range
  <2>3. ASSUME x \in Subtree(c), y \in Subtree(p)
        PROVE  y \in Subtree(c) \/ ScopeBefore(x, y) \/ ScopeBefore(y, x)
    <3>1. CASE y = p
      <4>1. c \in Subtree(p) /\ x \in Subtree(p)
        BY Zenon, <2>1, <2>3, SubtreeSelf, SubtreeChild, SubtreeTrans
      <4>2. QED
        BY Zenon, <3>1, <4>1 DEF ScopeBefore
    <3>2. CASE y # p
      <4>1. PICK j \in DOMAIN child_scopes[p] : y \in Subtree(child_scopes[p][j])
        BY Zenon, <2>1, <2>3, <3>2, SubtreeVia
      <4>2. child_scopes[p] \in Seq(Scopes)
        BY Zenon, <2>1, SubtreeSelf DEF ScopeInv
      <4>3. i = j \/ i < j \/ j < i
        BY <2>2, <4>1, <4>2
      <4>4. QED
        BY Zenon, <2>1, <2>2, <2>3, <4>1, <4>3 DEF ScopeBefore
    <3>3. QED
      BY Zenon, <3>1, <3>2
  <2>4. ASSUME x \in Subtree(c) PROVE x \in Subtree(p)
    BY Zenon, <2>1, <2>4, SubtreeSelf, SubtreeChild, SubtreeTrans
  <2>5. QED
    BY Zenon, <1>1, <2>1, <2>3, <2>4
<1>4. x \in C
  BY Zenon, <1>2, <1>3, SubtreeLeast
<1>5. x \in Subtree(x)
  BY Zenon, <1>2, SubtreeSelf
<1>6. QED
  BY Zenon, <1>1, <1>4, <1>5 DEF ScopeBefore

\* The tasks that join_scope comes to are in the table, each on one list.
LEMMA FreshFacts ==
  ASSUME TableInv, ScopeInv, TreeInv, ScopeMembership, NEW s \in scopes, NEW t \in Fresh(s)
  PROVE  /\ t \in tasks /\ t \in Tasks /\ join_order[t] = None
         /\ parent_scope[t] \in Subtree(s) /\ parent_scope[t] \in scopes
         /\ t \in Range(children[parent_scope[t]])
<1>1. PICK x \in Subtree(s) : t \in Range(children[x])
  BY Zenon DEF Fresh
<1>2. x \in scopes /\ x \in Scopes
  BY Zenon, SubtreeSelf
<1>3. t \in Tasks
  <2>1. children[x] \in Seq(Tasks)
    BY Zenon, <1>2 DEF ScopeInv
  <2>2. \A i \in DOMAIN children[x] : children[x][i] \in Tasks
    BY <2>1
  <2>3. QED
    BY Zenon, <1>1, <2>2 DEF Range
<1>4. t \in tasks /\ parent_scope[t] = x
  BY Zenon, <1>1, <1>2, <1>3 DEF ScopeMembership
<1>5. QED
  BY Zenon, <1>1, <1>2, <1>3, <1>4 DEF Fresh

\* A task has one place in the lists.
LEMMA PlaceOnce ==
  ASSUME ScopeInv, ScopeMembership, NEW x \in scopes, NEW y \in scopes,
         NEW i \in DOMAIN children[x], NEW j \in DOMAIN children[y], children[x][i] = children[y][j]
  PROVE  x = y /\ i = j
<1>1. x \in Scopes /\ y \in Scopes
  BY Zenon, SubtreeSelf
<1>2. PICK t : t = children[x][i] /\ t \in Range(children[x]) /\ t \in Range(children[y])
  BY Zenon DEF Range
<1>3. t \in Tasks
  <2>1. children[x] \in Seq(Tasks)
    BY Zenon, <1>1 DEF ScopeInv
  <2>2. QED
    BY <1>2, <2>1
<1>4. x = y
  <2>1. parent_scope[t] = x
    BY Zenon, <1>1, <1>2, <1>3 DEF ScopeMembership
  <2>2. parent_scope[t] = y
    BY Zenon, <1>1, <1>2, <1>3 DEF ScopeMembership
  <2>3. QED
    BY Zenon, <2>1, <2>2
<1>5. QED
  BY Zenon, <1>1, <1>4 DEF ScopeMembership, IsInjective

LEMMA TaskIrreflexive ==
  ASSUME ScopeInv, TreeInv, ScopeMembership, NEW t
  PROVE  ~ TaskBefore(t, t)
<1>1. SUFFICES ASSUME NEW x \in scopes, NEW y \in scopes,
                      NEW i \in DOMAIN children[x], NEW j \in DOMAIN children[y],
                      children[x][i] = t, children[y][j] = t, ScopeBefore(x, y) \/ (x = y /\ i < j)
               PROVE  FALSE
  BY Zenon DEF TaskBefore
<1>2. x = y /\ i = j
  BY Zenon, <1>1, PlaceOnce
<1>3. children[x] \in Seq(Tasks)
  BY Zenon, SubtreeSelf DEF ScopeInv
<1>4. ~ i < j
  BY <1>2, <1>3
<1>5. QED
  BY Zenon, <1>1, <1>2, <1>4, BeforeIrreflexive

LEMMA TaskTransitive ==
  ASSUME ScopeInv, TreeInv, ScopeMembership, NEW t, NEW u, NEW v, TaskBefore(t, u), TaskBefore(u, v)
  PROVE  TaskBefore(t, v)
<1>1. PICK x \in scopes, y \in scopes : \E i \in DOMAIN children[x], j \in DOMAIN children[y] :
         /\ children[x][i] = t /\ children[y][j] = u /\ (ScopeBefore(x, y) \/ (x = y /\ i < j))
  BY Zenon DEF TaskBefore
<1>2. PICK i \in DOMAIN children[x], j \in DOMAIN children[y] :
         /\ children[x][i] = t /\ children[y][j] = u /\ (ScopeBefore(x, y) \/ (x = y /\ i < j))
  BY Zenon, <1>1
<1>3. PICK w \in scopes, z \in scopes : \E k \in DOMAIN children[w], l \in DOMAIN children[z] :
         /\ children[w][k] = u /\ children[z][l] = v /\ (ScopeBefore(w, z) \/ (w = z /\ k < l))
  BY Zenon DEF TaskBefore
<1>4. PICK k \in DOMAIN children[w], l \in DOMAIN children[z] :
         /\ children[w][k] = u /\ children[z][l] = v /\ (ScopeBefore(w, z) \/ (w = z /\ k < l))
  BY Zenon, <1>3
<1>5. y = w /\ j = k
  <2>1. children[y][j] = children[w][k]
    BY Zenon, <1>2, <1>4
  <2>2. QED
    BY ZenonT(60), <2>1, PlaceOnce
<1>6. CASE x = y /\ y = z /\ i < j /\ k < l
  <2>1. children[x] \in Seq(Tasks)
    BY Zenon, SubtreeSelf DEF ScopeInv
  <2>2. i < l
    BY <1>5, <1>6, <2>1
  <2>3. QED
    BY Zenon, <1>2, <1>4, <1>6, <2>2 DEF TaskBefore
<1>7. CASE ScopeBefore(x, z)
  BY Zenon, <1>2, <1>4, <1>7 DEF TaskBefore
<1>8. QED
  BY Zenon, <1>2, <1>4, <1>5, <1>6, <1>7, BeforeTransitive

LEMMA TaskTotal ==
  ASSUME TableInv, ScopeInv, TreeInv, ScopeMembership, NEW s \in scopes,
         NEW t \in Fresh(s), NEW u \in Fresh(s), t # u
  PROVE  TaskBefore(t, u) \/ TaskBefore(u, t)
<1>1. PICK x \in Subtree(s) : x = parent_scope[t] /\ t \in Range(children[x])
  BY Zenon, FreshFacts
<1>2. PICK y \in Subtree(s) : y = parent_scope[u] /\ u \in Range(children[y])
  BY Zenon, FreshFacts
<1>3. PICK i \in DOMAIN children[x] : children[x][i] = t
  BY Zenon, <1>1 DEF Range
<1>4. PICK j \in DOMAIN children[y] : children[y][j] = u
  BY Zenon, <1>2 DEF Range
<1>5. x \in scopes /\ y \in scopes
  BY Zenon, SubtreeSelf
<1>6. CASE x = y
  <2>1. children[x] \in Seq(Tasks)
    BY Zenon, <1>5, SubtreeSelf DEF ScopeInv
  <2>2. i < j \/ j < i
    BY <1>3, <1>4, <1>6, <2>1
  <2>3. QED
    BY Zenon, <1>3, <1>4, <1>5, <1>6, <2>2 DEF TaskBefore
<1>7. CASE x # y
  BY Zenon, <1>3, <1>4, <1>5, <1>7, BeforeTotal DEF TaskBefore
<1>8. QED
  BY Zenon, <1>6, <1>7

-----------------------------------------------------------------------------
(* Join orders                                                             *)

\* What comes before each element of a finite set, in a strict total order, numbers
\* the set from 0 without a gap.  OrdersHold, at the end, takes it from the library.
Ordered(S, R) ==
  /\ \A t \in S : <<t, t>> \notin R
  /\ \A t, u, v \in S : <<t, u>> \in R /\ <<u, v>> \in R => <<t, v>> \in R
  /\ \A t, u \in S : t # u => <<t, u>> \in R \/ <<u, t>> \in R
Numbers(S, r) ==
  /\ Cardinality(S) \in Nat /\ \A t \in S : r[t] \in 0..(Cardinality(S) - 1)
  /\ \A t, u \in S : r[t] = r[u] => t = u
  /\ \A k \in 0..(Cardinality(S) - 1) : \E t \in S : r[t] = k
Orders ==
  \A n \in Nat : \A S \in SUBSET (1..n) : \A R :
    Ordered(S, R) => Numbers(S, [t \in S |-> Cardinality({u \in S : <<u, t>> \in R})])

\* join_scope hands out next_join_order and what follows it, once each.
LEMMA FreshNumbers ==
  ASSUME Orders, TableInv, ScopeInv, TreeInv, ScopeMembership, NEW s \in scopes
  PROVE  Numbers(Fresh(s), [t \in Fresh(s) |-> Cardinality(Earlier(s, t))])
<1>1. PICK F : F = Fresh(s)
  BY Zenon
<1>2. F \in SUBSET (1..MaxTasks) /\ MaxTasks \in Nat
  BY Zenon, <1>1, FreshFacts, BoundsAssumption DEF Tasks
<1>3. PICK R : R = {r \in F \X F : TaskBefore(r[1], r[2])}
  BY Zenon
<1>4. \A t, u \in F : <<t, u>> \in R <=> TaskBefore(t, u)
  BY <1>3
<1>5. \A t \in F : <<t, t>> \notin R
  BY Zenon, <1>4, TaskIrreflexive
<1>6. \A t, u, v \in F : <<t, u>> \in R /\ <<u, v>> \in R => <<t, v>> \in R
  BY Zenon, <1>4, TaskTransitive
<1>7. \A t, u \in F : t # u => <<t, u>> \in R \/ <<u, t>> \in R
  BY Zenon, <1>1, <1>4, TaskTotal
<1>8. Numbers(F, [t \in F |-> Cardinality({u \in F : <<u, t>> \in R})])
  <2>1. Ordered(F, R)
    BY Zenon, <1>5, <1>6, <1>7 DEF Ordered
  <2>2. QED
    BY Zenon, <1>2, <2>1 DEF Orders
<1>9. \A t \in F : Cardinality(Earlier(s, t)) = Cardinality({u \in F : <<u, t>> \in R})
  <2>1. \A t \in F : Earlier(s, t) = {u \in F : <<u, t>> \in R}
    BY Zenon, <1>1, <1>4 DEF Earlier
  <2>2. QED
    BY Zenon, <2>1
<1>10. [t \in F |-> Cardinality(Earlier(s, t))] = [t \in F |-> Cardinality({u \in F : <<u, t>> \in R})]
  BY Zenon, <1>9
<1>11. QED
  BY Zenon, <1>1, <1>8, <1>10

\* The orders handed out so far, task by task; a task that is not in the table has none.
JoinInv ==
  /\ join_order \in [Tasks -> Nat] /\ next_join_order \in Nat /\ 1 <= next_join_order
  /\ \A t \in Tasks : join_order[t] # None => t \in tasks /\ join_order[t] < next_join_order
  /\ \A k \in 1..(next_join_order - 1) : \E t \in tasks : join_order[t] = k
  /\ \A t, u \in tasks : join_order[t] = join_order[u] /\ join_order[t] # None => t = u

LEMMA JoinStep ==
  ASSUME Orders, TableInv, ScopeInv, TreeInv, ScopeMembership, JoinInv, NEW s \in scopes, JoinScope(s)
  PROVE  JoinInv'
<1>1. PICK F : F = Fresh(s)
  BY Zenon
<1>2. PICK m : m = Cardinality(F)
  BY Zenon
<1>3. PICK r : r = [t \in F |-> Cardinality(Earlier(s, t))]
  BY Zenon
<1>4. /\ m \in Nat /\ \A t \in F : r[t] \in 0..(m - 1)
      /\ \A t, u \in F : r[t] = r[u] => t = u
      /\ \A k \in 0..(m - 1) : \E t \in F : r[t] = k
  <2>1. Numbers(F, r)
    BY Zenon, <1>1, <1>3, FreshNumbers
  <2>2. QED
    BY Zenon, <1>2, <2>1 DEF Numbers
<1>5. \A t \in F : t \in tasks /\ t \in Tasks /\ join_order[t] = None
  BY Zenon, <1>1, FreshFacts
<1>6. tasks \subseteq Tasks
  BY BoundsAssumption DEF TableInv, Tasks
<1>7. PICK n : n = next_join_order
  BY Zenon
<1>8. /\ tasks' = tasks /\ next_join_order' = n + m
      /\ join_order' = [t \in Tasks |-> IF t \in F THEN n + r[t] ELSE join_order[t]]
  <2>1. /\ tasks' = tasks /\ next_join_order' = next_join_order + Cardinality(Fresh(s))
        /\ join_order' = [t \in Tasks |->
             IF t \in Fresh(s) THEN next_join_order + Cardinality(Earlier(s, t)) ELSE join_order[t]]
    BY Zenon DEF JoinScope
  <2>2. \A t \in Tasks : (IF t \in F THEN n + r[t] ELSE join_order[t])
           = (IF t \in Fresh(s) THEN next_join_order + Cardinality(Earlier(s, t)) ELSE join_order[t])
    BY Zenon, <1>1, <1>3, <1>7
  <2>3. QED
    BY Zenon, <1>1, <1>2, <1>7, <2>1, <2>2
<1>9. n \in Nat /\ 1 <= n /\ \A t \in Tasks : join_order[t] \in Nat
  BY Zenon, <1>7 DEF JoinInv
<1>10. /\ \A t \in F : join_order'[t] = n + r[t] /\ r[t] \in Nat /\ r[t] < m
       /\ \A t \in Tasks : t \notin F => join_order'[t] = join_order[t]
  BY <1>4, <1>5, <1>8
<1>11. join_order' \in [Tasks -> Nat] /\ next_join_order' \in Nat /\ 1 <= next_join_order'
  BY <1>4, <1>8, <1>9, <1>10
<1>12. ASSUME NEW t \in Tasks, join_order'[t] # None
       PROVE  t \in tasks' /\ join_order'[t] < next_join_order'
  <2>1. CASE t \in F
    BY <1>4, <1>5, <1>8, <1>9, <1>10, <2>1
  <2>2. CASE t \notin F
    <3>1. t \in tasks /\ join_order[t] < n /\ join_order'[t] = join_order[t]
      BY Zenon, <1>7, <1>10, <1>12, <2>2 DEF JoinInv
    <3>2. QED
      BY <1>4, <1>8, <1>9, <3>1
  <2>3. QED
    BY Zenon, <2>1, <2>2
<1>13. ASSUME NEW k \in 1..(next_join_order' - 1) PROVE \E t \in tasks' : join_order'[t] = k
  <2>1. CASE k < n
    <3>1. k \in 1..(n - 1) /\ k # None
      BY <1>4, <1>8, <1>9, <2>1 DEF None
    <3>2. PICK t \in tasks : join_order[t] = k
      BY Zenon, <1>7, <3>1 DEF JoinInv
    <3>3. QED
      BY Zenon, <1>5, <1>6, <1>8, <1>10, <3>1, <3>2
  <2>2. CASE ~ k < n
    <3>1. k - n \in 0..(m - 1) /\ n + (k - n) = k
      BY <1>4, <1>8, <1>9, <2>2
    <3>2. PICK t \in F : r[t] = k - n
      BY Zenon, <1>4, <3>1
    <3>3. QED
      BY Zenon, <1>5, <1>8, <1>10, <3>1, <3>2
  <2>3. QED
    BY Zenon, <2>1, <2>2
<1>14. ASSUME NEW t \in tasks', NEW u \in tasks', join_order'[t] = join_order'[u], join_order'[t] # None
       PROVE  t = u
  <2>1. t \in Tasks /\ u \in Tasks /\ t \in tasks /\ u \in tasks
    BY Zenon, <1>6, <1>8
  <2>2. CASE t \in F /\ u \in F
    <3>1. r[t] = r[u]
      BY <1>9, <1>10, <1>14, <2>2
    <3>2. QED
      BY Zenon, <1>4, <2>2, <3>1
  <2>3. CASE t \notin F /\ u \notin F
    BY Zenon, <1>10, <1>14, <2>1, <2>3 DEF JoinInv
  <2>4. ASSUME NEW a \in F, NEW b \in Tasks, b \notin F, join_order'[a] = join_order'[b], join_order'[b] # None
        PROVE  FALSE
    <3>1. join_order[b] < n /\ join_order'[b] = join_order[b] /\ join_order[b] \in Nat
      BY Zenon, <1>7, <1>9, <1>10, <2>4 DEF JoinInv
    <3>2. QED
      BY <1>9, <1>10, <2>4, <3>1
  <2>5. QED
    BY Zenon, <1>14, <2>1, <2>2, <2>3, <2>4
<1>15. QED
  BY Zenon, <1>11, <1>12, <1>13, <1>14 DEF JoinInv

\* No other step hands out an order, and a new task has none.
LEMMA JoinKept ==
  ASSUME TableInv, JoinInv, [Next]_vars, ~ \E s \in Scopes : JoinScope(s)
  PROVE  JoinInv'
<1>1. CASE Reset
  BY <1>1 DEF Reset, JoinInv, None
<1>2. ASSUME join_order' = join_order, next_join_order' = next_join_order, tasks \subseteq tasks'
      PROVE  JoinInv'
  <2>1. tasks' \subseteq Tasks /\ tasks \subseteq Tasks
    <3>1. TableInv'
      BY Zenon, TableStep
    <3>2. QED
      BY <3>1, BoundsAssumption DEF TableInv, Tasks
  <2>2. \A t \in tasks' : join_order[t] # None => t \in tasks
    BY Zenon, <2>1 DEF JoinInv
  <2>3. QED
    BY Zenon, <1>2, <2>2 DEF JoinInv
<1>3. Reset \/ (join_order' = join_order /\ next_join_order' = next_join_order /\ tasks \subseteq tasks')
  BY Zenon DEF Next, vars, joinVars, Ready, Start, SpawnReady, WithTimeout, Allocate, CompleteTask,
     FailTask, TaskFail, CancelTask, CancelScope, ProcessDueTimeouts, Elapse, AdvanceTime,
     WithTimeoutRefused, CreateScope, AttachTask
<1>4. QED
  BY Zenon, <1>1, <1>2, <1>3

LEMMA JoinDense ==
  ASSUME TableInv, JoinInv
  PROVE  JoinOrdersAreDense
<1>1. tasks \subseteq Tasks
  BY BoundsAssumption DEF TableInv, Tasks
<1>2. ASSUME NEW k PROVE k \in {join_order[t] : t \in tasks} \ {None} <=> k \in 1..(next_join_order - 1)
  <2>1. ASSUME k \in {join_order[t] : t \in tasks} \ {None} PROVE k \in 1..(next_join_order - 1)
    <3>1. PICK t \in tasks : k = join_order[t] /\ k # None
      BY Zenon, <2>1
    <3>2. k \in Nat /\ k < next_join_order /\ next_join_order \in Nat
      BY Zenon, <1>1, <3>1 DEF JoinInv
    <3>3. QED
      BY <3>1, <3>2 DEF None
  <2>2. ASSUME k \in 1..(next_join_order - 1) PROVE k \in {join_order[t] : t \in tasks} \ {None}
    <3>1. k # None
      BY <2>2 DEF None, JoinInv
    <3>2. QED
      BY Zenon, <2>2, <3>1 DEF JoinInv
  <2>3. QED
    BY Zenon, <2>1, <2>2
<1>3. {join_order[t] : t \in tasks} \ {None} = 1..(next_join_order - 1)
  BY Zenon, <1>2
<1>4. QED
  BY Zenon, <1>3 DEF JoinOrdersAreDense, JoinInv

-----------------------------------------------------------------------------
(* The jobs of the worker queue: theorems about BackgroundTasks, for every    *)
(* number of jobs and workers, every queue bound and every number of panics.  *)

\* A job exists from the moment its spawner queues it.
SpawnInv ==
  /\ \A t \in Queued : spawn[t] = "returned"
  /\ \A w \in Workers : job[w] # NoJob => spawn[job[w]] = "returned"
  /\ \A t \in tasks : spawn[t] \in {"allocated", "returned", "refused"}
  /\ \A w \in Workers : job[w] = NoJob <=> wpc[w] \in {"recv", "dead"}

\* recv moves a job out of the queue: it is in one place.
JobInv ==
  /\ \A i, j \in DOMAIN queue : queue[i] = queue[j] => i = j
  /\ \A w \in Workers : job[w] # NoJob => job[w] \notin Queued
  /\ \A v, w \in Workers : job[v] = job[w] /\ job[v] # NoJob => v = w

\* Publishing the outcome is the last thing done for a task, and until then its
\* hook is registered unless it was cancelled.
HookInv ==
  /\ \A t \in completed : spawn[t] = "returned" /\ t \notin Queued
  /\ \A w \in Workers : job[w] \notin completed
  /\ tasks \ (cancelled \cup completed) \subseteq hooks
  /\ hooks \cap cancelled = {}

\* A token is set, or about to be, only for a task that is gone or cancelled.
TokenInv ==
  /\ (signalled \cup drained) \cap tasks \subseteq cancelled
  /\ \A t \in signalled \cup drained : spawn[t] # "none"

BackgroundInv ==
  BackgroundTypeOK /\ SpawnInv /\ JobInv /\ HookInv /\ TokenInv /\ RunningWorkHearsCancel

-----------------------------------------------------------------------------
LEMMA Appended ==
  ASSUME NEW S, NEW q \in Seq(S), NEW e \in S
  PROVE  Append(q, e) \in Seq(S) /\ DOMAIN Append(q, e) = 1..(Len(q) + 1)
OBVIOUS

\* What try_send does to the set of queued tasks.
LEMMA AppendFacts ==
  ASSUME BackgroundTypeOK, JobInv, NEW t \in Jobs, t \notin Queued, queue' = Append(queue, t)
  PROVE  /\ queue' \in Seq(Jobs)
         /\ Queued' = Queued \cup {t}
         /\ \A i, j \in DOMAIN queue' : queue'[i] = queue'[j] => i = j
<1>0. queue \in Seq(Jobs) /\ Len(queue) \in Nat /\ DOMAIN queue = 1..Len(queue)
  BY DEF BackgroundTypeOK
<1>1. queue' \in Seq(Jobs) /\ DOMAIN queue' = 1..(Len(queue) + 1)
  BY Zenon, <1>0, Appended
<1>2. \A i \in 1..(Len(queue) + 1) :
        queue'[i] = IF i = Len(queue) + 1 THEN t ELSE queue[i]
  BY <1>0
<1>3. Queued' = Queued \cup {t}
  <2>1. ASSUME NEW u \in Queued' PROVE u \in Queued \cup {t}
    BY <1>0, <1>1, <1>2 DEF Queued
  <2>2. ASSUME NEW u \in Queued PROVE u \in Queued'
    <3>1. PICK i \in DOMAIN queue : u = queue[i]
      BY DEF Queued
    <3>2. i \in DOMAIN queue' /\ queue'[i] = u
      BY <1>0, <1>1, <1>2, <3>1
    <3>3. QED
      BY <3>2 DEF Queued
  <2>3. Len(queue) + 1 \in DOMAIN queue' /\ queue'[Len(queue) + 1] = t
    BY <1>0, <1>1, <1>2
  <2>4. t \in Queued'
    BY <2>3 DEF Queued
  <2>5. QED
    BY <2>1, <2>2, <2>4
<1>4. ASSUME NEW i \in DOMAIN queue', NEW j \in DOMAIN queue', queue'[i] = queue'[j] PROVE i = j
  <2>1. \A k \in DOMAIN queue : queue[k] # t
    BY DEF Queued
  <2>2. i \in DOMAIN queue \/ i = Len(queue) + 1
    BY <1>0, <1>1
  <2>3. j \in DOMAIN queue \/ j = Len(queue) + 1
    BY <1>0, <1>1
  <2>4. \A k \in DOMAIN queue : k # Len(queue) + 1
    BY <1>0
  <2>5. \A k \in DOMAIN queue' : queue'[k] = IF k = Len(queue) + 1 THEN t ELSE queue[k]
    BY Zenon, <1>1, <1>2
  <2>6. QED
    BY Zenon, <1>4, <2>1, <2>2, <2>3, <2>4, <2>5 DEF JobInv
<1>5. QED
  BY <1>1, <1>3, <1>4

\* What recv does to it.
LEMMA TailFacts ==
  ASSUME BackgroundTypeOK, JobInv, queue # <<>>, queue' = Tail(queue)
  PROVE  /\ queue' \in Seq(Jobs)
         /\ Head(queue) \in Jobs /\ Head(queue) \in Queued
         /\ Queued' = Queued \ {Head(queue)}
         /\ \A i, j \in DOMAIN queue' : queue'[i] = queue'[j] => i = j
<1>0. queue \in Seq(Jobs) /\ Len(queue) \in Nat \ {0} /\ DOMAIN queue = 1..Len(queue)
  BY DEF BackgroundTypeOK
<1>1. /\ queue' \in Seq(Jobs) /\ DOMAIN queue' = 1..(Len(queue) - 1)
      /\ \A i \in DOMAIN queue' : queue'[i] = queue[i + 1]
      /\ Head(queue) = queue[1] /\ 1 \in DOMAIN queue
  BY <1>0
<1>2. Head(queue) \in Jobs /\ Head(queue) \in Queued
  BY <1>0, <1>1 DEF Queued
<1>3. \A i, j \in DOMAIN queue' : queue'[i] = queue'[j] => i = j
  <2>1. ASSUME NEW i \in DOMAIN queue', NEW j \in DOMAIN queue', queue'[i] = queue'[j] PROVE i = j
    <3>1. i + 1 \in DOMAIN queue /\ j + 1 \in DOMAIN queue /\ queue[i + 1] = queue[j + 1]
      BY <1>0, <1>1, <2>1
    <3>2. i + 1 = j + 1
      BY <3>1 DEF JobInv
    <3>3. QED
      BY <1>0, <1>1, <3>2
  <2>2. QED
    BY <2>1
<1>4. Queued' = Queued \ {Head(queue)}
  <2>1. ASSUME NEW u \in Queued' PROVE u \in Queued /\ u # Head(queue)
    <3>1. PICK i \in DOMAIN queue' : u = queue'[i]
      BY DEF Queued
    <3>2. i + 1 \in DOMAIN queue /\ u = queue[i + 1] /\ i + 1 # 1
      BY <1>0, <1>1, <3>1
    <3>3. QED
      BY <1>1, <3>2 DEF Queued, JobInv
  <2>2. ASSUME NEW u \in Queued, u # Head(queue) PROVE u \in Queued'
    <3>1. PICK i \in DOMAIN queue : u = queue[i]
      BY DEF Queued
    <3>2. i - 1 \in DOMAIN queue' /\ queue'[i - 1] = u
      BY <1>0, <1>1, <2>2, <3>1
    <3>3. QED
      BY <3>2 DEF Queued
  <2>3. QED
    BY <2>1, <2>2
<1>5. QED
  BY <1>1, <1>2, <1>3, <1>4

LEMMA QueueKept == queue' = queue => Queued' = Queued
BY DEF Queued

\* What becomes of the hooks when the work of a worker has returned and its
\* outcome, if the task is still there to have one, is published.
LEMMA WorkReturns ==
  ASSUME BackgroundInv, NEW w \in Workers, Return(w), queue' = queue, spawn' = spawn, tasks' = tasks,
         cancelled' = cancelled, completed' \subseteq completed \cup ({job[w]} \cap tasks),
         completed \subseteq completed', job[w] \in tasks \ cancelled => job[w] \in completed',
         hooks' = hooks \ ({job[w]} \cap tasks)
  PROVE  JobInv' /\ HookInv'
<1>1. /\ job'[w] = NoJob /\ \A v \in Workers : v # w => job'[v] = job[v]
      /\ job[w] # NoJob /\ spawn[job[w]] = "returned"
  BY DEF Return, BackgroundInv, BackgroundTypeOK, SpawnInv
<1>2. Queued' = Queued
  BY Zenon, QueueKept
<1>3. NoJob \notin completed /\ NoJob \notin tasks
  BY BackgroundAssumption DEF BackgroundInv, BackgroundTypeOK
<1>4. job[w] \notin Queued /\ \A v \in Workers : v # w => job[v] # job[w]
  BY Zenon, <1>1 DEF BackgroundInv, JobInv
<1>5. JobInv'
  <2>1. \A i, j \in DOMAIN queue' : queue'[i] = queue'[j] => i = j
    BY Zenon DEF BackgroundInv, JobInv
  <2>2. ASSUME NEW v \in Workers, job'[v] # NoJob PROVE v # w /\ job'[v] = job[v] /\ job'[v] \notin Queued'
    BY Zenon, <1>1, <1>2, <2>2 DEF BackgroundInv, JobInv
  <2>3. ASSUME NEW v \in Workers, NEW x \in Workers, job'[v] = job'[x], job'[v] # NoJob PROVE v = x
    <3>1. job'[v] = job[v] /\ job'[x] = job[x]
      BY Zenon, <2>2, <2>3
    <3>2. QED
      BY Zenon, <2>3, <3>1 DEF BackgroundInv, JobInv
  <2>4. QED
    BY Zenon, <2>1, <2>2, <2>3 DEF JobInv
<1>6. \A t \in completed' : spawn'[t] = "returned" /\ t \notin Queued'
  BY Zenon, <1>1, <1>2, <1>4 DEF BackgroundInv, HookInv
<1>7. ASSUME NEW v \in Workers PROVE job'[v] \notin completed'
  <2>1. CASE v = w
    BY Zenon, <1>1, <1>3, <2>1
  <2>2. CASE v # w
    BY Zenon, <1>1, <1>4, <2>2 DEF BackgroundInv, HookInv
  <2>3. QED
    BY Zenon, <2>1, <2>2
<1>8. tasks' \ (cancelled' \cup completed') \subseteq hooks' /\ hooks' \cap cancelled' = {}
  BY Zenon DEF BackgroundInv, HookInv
<1>9. QED
  BY Zenon, <1>5, <1>6, <1>7, <1>8 DEF HookInv

LEMMA BackgroundStep == BackgroundInv /\ [BackgroundNext]_backgroundVars => BackgroundInv'
<1> SUFFICES ASSUME BackgroundInv, [BackgroundNext]_backgroundVars PROVE BackgroundInv'
  OBVIOUS
<1> USE DEF taskVars
<1>0. NoJob \notin Jobs
  BY BackgroundAssumption
<1>1. ASSUME NEW t \in Jobs, AllocateTask(t) PROVE BackgroundInv'
  <2>0. Queued' = Queued /\ queue' = queue
    BY <1>1, QueueKept DEF AllocateTask
  <2>1. BackgroundTypeOK'
    BY <1>1, <2>0 DEF AllocateTask, BackgroundInv, BackgroundTypeOK, Places
  <2>2. SpawnInv'
    <3>1. spawn'[t] = "allocated" /\ \A u \in Jobs : u # t => spawn'[u] = spawn[u]
      BY <1>1 DEF AllocateTask, BackgroundInv, BackgroundTypeOK
    <3>2. Queued \subseteq Jobs /\ \A w \in Workers : job[w] # NoJob => job[w] \in Jobs
      BY DEF BackgroundInv, BackgroundTypeOK, Queued
    <3>3. spawn[t] # "returned" /\ tasks \subseteq Jobs
      BY <1>1 DEF AllocateTask, BackgroundInv, BackgroundTypeOK
    <3>4. \A u \in Queued' : spawn'[u] = "returned"
      BY Zenon, <2>0, <3>1, <3>2, <3>3 DEF BackgroundInv, SpawnInv
    <3>5. \A w \in Workers : job'[w] # NoJob => spawn'[job'[w]] = "returned"
      <4>1. job' = job
        BY Zenon, <1>1 DEF AllocateTask
      <4>2. ASSUME NEW w \in Workers, job[w] # NoJob PROVE spawn'[job[w]] = "returned"
        <5>1. spawn[job[w]] = "returned" /\ job[w] \in Jobs
          BY Zenon, <3>2, <4>2 DEF BackgroundInv, SpawnInv
        <5>2. QED
          BY Zenon, <3>1, <3>3, <5>1
      <4>3. QED
        BY Zenon, <4>1, <4>2
    <3>6. \A u \in tasks' : spawn'[u] \in {"allocated", "returned", "refused"}
      BY Zenon, <1>1, <3>1, <3>3 DEF AllocateTask, BackgroundInv, SpawnInv
    <3>7. QED
      BY Zenon, <1>1, <3>4, <3>5, <3>6 DEF AllocateTask, BackgroundInv, SpawnInv
  <2>3. JobInv'
    BY <1>1, <2>0 DEF AllocateTask, BackgroundInv, JobInv
  <2>4. HookInv'
    <3>1. \A u \in Jobs : u # t => spawn'[u] = spawn[u]
      BY <1>1 DEF AllocateTask, BackgroundInv, BackgroundTypeOK
    <3>2. t \notin completed /\ t \notin cancelled /\ completed \subseteq Jobs
      BY Zenon, <1>1 DEF AllocateTask, BackgroundInv, BackgroundTypeOK, SpawnInv
    <3>3. \A u \in completed' : spawn'[u] = "returned" /\ u \notin Queued'
      BY Zenon, <1>1, <2>0, <3>1, <3>2 DEF AllocateTask, BackgroundInv, HookInv
    <3>4. \A w \in Workers : job'[w] \notin completed'
      BY Zenon, <1>1 DEF AllocateTask, BackgroundInv, HookInv
    <3>5. tasks' \ (cancelled' \cup completed') \subseteq hooks' /\ hooks' \cap cancelled' = {}
      BY Zenon, <1>1, <3>2 DEF AllocateTask, BackgroundInv, HookInv
    <3>6. QED
      BY Zenon, <3>3, <3>4, <3>5 DEF HookInv
  <2>5. TokenInv'
    BY <1>1, <2>0 DEF AllocateTask, BackgroundInv, TokenInv
  <2>6. RunningWorkHearsCancel'
    BY <1>1, <2>0 DEF AllocateTask, BackgroundInv, RunningWorkHearsCancel
  <2>7. QED
    BY <2>1, <2>2, <2>3, <2>4, <2>5, <2>6 DEF BackgroundInv
<1>2. ASSUME NEW t \in Jobs, SendJob(t) PROVE BackgroundInv'
  <2>0. Queued' = Queued \cup {t} /\ queue' \in Seq(Jobs) /\ t \notin Queued
        /\ \A i, j \in DOMAIN queue' : queue'[i] = queue'[j] => i = j
    <3>1. t \notin Queued
      BY <1>2 DEF SendJob, BackgroundInv, SpawnInv
    <3>2. QED
      BY <1>2, <3>1, AppendFacts DEF SendJob, BackgroundInv
  <2>1. BackgroundTypeOK'
    BY <1>2, <2>0 DEF SendJob, BackgroundInv, BackgroundTypeOK, Places
  <2>2. SpawnInv'
    BY <1>2, <2>0 DEF SendJob, BackgroundInv, SpawnInv, BackgroundTypeOK
  <2>3. JobInv'
    BY <1>2, <2>0 DEF SendJob, BackgroundInv, JobInv, SpawnInv
  <2>4. HookInv'
    BY <1>2, <2>0 DEF SendJob, BackgroundInv, HookInv
  <2>5. TokenInv'
    BY <1>2, <2>0 DEF SendJob, BackgroundInv, TokenInv
  <2>6. RunningWorkHearsCancel'
    BY <1>2, <2>0 DEF SendJob, BackgroundInv, RunningWorkHearsCancel
  <2>7. QED
    BY <2>1, <2>2, <2>3, <2>4, <2>5, <2>6 DEF BackgroundInv
<1>3. ASSUME NEW t \in Jobs, SendRefused(t) PROVE BackgroundInv'
  <2>0. Queued' = Queued /\ queue' = queue
    BY <1>3, QueueKept DEF SendRefused
  <2>1. BackgroundTypeOK'
    BY <1>3, <2>0 DEF SendRefused, BackgroundInv, BackgroundTypeOK, Places
  <2>2. SpawnInv'
    BY <1>3, <2>0 DEF SendRefused, BackgroundInv, SpawnInv
  <2>3. JobInv'
    BY <1>3, <2>0 DEF SendRefused, BackgroundInv, JobInv
  <2>4. HookInv'
    BY <1>3, <2>0 DEF SendRefused, BackgroundInv, HookInv
  <2>5. TokenInv'
    BY <1>3, <2>0 DEF SendRefused, BackgroundInv, TokenInv
  <2>6. RunningWorkHearsCancel'
    BY <1>3, <2>0 DEF SendRefused, BackgroundInv, RunningWorkHearsCancel
  <2>7. QED
    BY <2>1, <2>2, <2>3, <2>4, <2>5, <2>6 DEF BackgroundInv
<1>4. ASSUME NEW t \in Jobs, RollBack(t) PROVE BackgroundInv'
  <2>0. Queued' = Queued /\ queue' = queue
    BY <1>4, QueueKept DEF RollBack
  <2>1. BackgroundTypeOK'
    BY <1>4, <2>0 DEF RollBack, BackgroundInv, BackgroundTypeOK, Places
  <2>2. SpawnInv'
    BY <1>4, <2>0 DEF RollBack, BackgroundInv, SpawnInv
  <2>3. JobInv'
    BY <1>4, <2>0 DEF RollBack, BackgroundInv, JobInv
  <2>4. HookInv'
    BY <1>4, <2>0 DEF RollBack, BackgroundInv, HookInv
  <2>5. TokenInv'
    BY <1>4, <2>0 DEF RollBack, BackgroundInv, TokenInv
  <2>6. RunningWorkHearsCancel'
    BY <1>4, <2>0 DEF RollBack, BackgroundInv, RunningWorkHearsCancel, SpawnInv
  <2>7. QED
    BY <2>1, <2>2, <2>3, <2>4, <2>5, <2>6 DEF BackgroundInv
<1>5. ASSUME NEW t \in Jobs, CancelJob(t) PROVE BackgroundInv'
  <2>0. Queued' = Queued /\ queue' = queue
    BY <1>5, QueueKept DEF CancelJob
  <2>1. BackgroundTypeOK'
    BY <1>5, <2>0 DEF CancelJob, BackgroundInv, BackgroundTypeOK, Places
  <2>2. SpawnInv'
    BY <1>5, <2>0 DEF CancelJob, BackgroundInv, SpawnInv
  <2>3. JobInv'
    BY <1>5, <2>0 DEF CancelJob, BackgroundInv, JobInv
  <2>4. HookInv'
    BY <1>5, <2>0 DEF CancelJob, BackgroundInv, HookInv
  <2>5. TokenInv'
    BY <1>5, <2>0 DEF CancelJob, BackgroundInv, TokenInv
  <2>6. RunningWorkHearsCancel'
    BY <1>5, <2>0 DEF CancelJob, BackgroundInv, RunningWorkHearsCancel
  <2>7. QED
    BY <2>1, <2>2, <2>3, <2>4, <2>5, <2>6 DEF BackgroundInv
<1>6. ASSUME NEW t \in Jobs, FailJob(t) PROVE BackgroundInv'
  <2>0. Queued' = Queued /\ queue' = queue
    BY <1>6, QueueKept DEF FailJob
  <2>1. BackgroundTypeOK'
    BY <1>6, <2>0 DEF FailJob, BackgroundInv, BackgroundTypeOK, Places
  <2>2. SpawnInv'
    BY <1>6, <2>0 DEF FailJob, BackgroundInv, SpawnInv
  <2>3. JobInv'
    BY <1>6, <2>0 DEF FailJob, BackgroundInv, JobInv
  <2>4. HookInv'
    BY <1>6, <2>0 DEF FailJob, BackgroundInv, HookInv
  <2>5. TokenInv'
    BY <1>6, <2>0 DEF FailJob, BackgroundInv, TokenInv
  <2>6. RunningWorkHearsCancel'
    BY <1>6, <2>0 DEF FailJob, BackgroundInv, RunningWorkHearsCancel
  <2>7. QED
    BY <2>1, <2>2, <2>3, <2>4, <2>5, <2>6 DEF BackgroundInv
<1>7. ASSUME NEW t \in Jobs, RunDrained(t) PROVE BackgroundInv'
  <2>0. Queued' = Queued /\ queue' = queue
    BY <1>7, QueueKept DEF RunDrained
  <2>1. BackgroundTypeOK'
    BY <1>7, <2>0 DEF RunDrained, BackgroundInv, BackgroundTypeOK, Places
  <2>2. SpawnInv'
    BY <1>7, <2>0 DEF RunDrained, BackgroundInv, SpawnInv
  <2>3. JobInv'
    BY <1>7, <2>0 DEF RunDrained, BackgroundInv, JobInv
  <2>4. HookInv'
    BY <1>7, <2>0 DEF RunDrained, BackgroundInv, HookInv
  <2>5. TokenInv'
    BY <1>7, <2>0 DEF RunDrained, BackgroundInv, TokenInv
  <2>6. RunningWorkHearsCancel'
    BY <1>7, <2>0 DEF RunDrained, BackgroundInv, RunningWorkHearsCancel
  <2>7. QED
    BY <2>1, <2>2, <2>3, <2>4, <2>5, <2>6 DEF BackgroundInv
<1>8. ASSUME NEW w \in Workers, Receive(w) PROVE BackgroundInv'
  <2>0. /\ Head(queue) \in Jobs /\ Head(queue) \in Queued
        /\ Queued' = Queued \ {Head(queue)} /\ queue' \in Seq(Jobs)
        /\ \A i, j \in DOMAIN queue' : queue'[i] = queue'[j] => i = j
    BY <1>8, TailFacts DEF Receive, BackgroundInv
  <2>1. BackgroundTypeOK'
    BY <1>8, <2>0 DEF Receive, BackgroundInv, BackgroundTypeOK, Places
  <2>2. SpawnInv'
    BY <1>0, <1>8, <2>0 DEF Receive, BackgroundInv, SpawnInv, BackgroundTypeOK
  <2>3. JobInv'
    BY <1>8, <2>0 DEF Receive, BackgroundInv, JobInv
  <2>4. HookInv'
    BY <1>8, <2>0 DEF Receive, BackgroundInv, HookInv
  <2>5. TokenInv'
    BY <1>8, <2>0 DEF Receive, BackgroundInv, TokenInv
  <2>6. RunningWorkHearsCancel'
    BY <1>8, <2>0 DEF Receive, BackgroundInv, RunningWorkHearsCancel
  <2>7. QED
    BY <2>1, <2>2, <2>3, <2>4, <2>5, <2>6 DEF BackgroundInv
<1>9. ASSUME NEW w \in Workers, SkipCancelled(w) PROVE BackgroundInv'
  <2>0. Queued' = Queued /\ queue' = queue
    BY <1>9, QueueKept DEF SkipCancelled
  <2>1. BackgroundTypeOK'
    BY <1>9, <2>0 DEF SkipCancelled, BackgroundInv, BackgroundTypeOK, Places
  <2>2. SpawnInv'
    BY <1>9, <2>0 DEF SkipCancelled, BackgroundInv, SpawnInv, BackgroundTypeOK
  <2>3. JobInv'
    BY <1>9, <2>0 DEF SkipCancelled, BackgroundInv, JobInv
  <2>4. HookInv'
    BY <1>0, <1>9, <2>0 DEF SkipCancelled, BackgroundInv, HookInv, BackgroundTypeOK
  <2>5. TokenInv'
    BY <1>9, <2>0 DEF SkipCancelled, BackgroundInv, TokenInv
  <2>6. RunningWorkHearsCancel'
    <3>1. wpc'[w] # "work" /\ \A v \in Workers : v # w => wpc'[v] = wpc[v] /\ job'[v] = job[v]
      BY <1>9 DEF SkipCancelled, BackgroundInv, BackgroundTypeOK
    <3>2. QED
      BY Zenon, <1>9, <3>1 DEF SkipCancelled, taskVars, BackgroundInv, RunningWorkHearsCancel
  <2>7. QED
    BY <2>1, <2>2, <2>3, <2>4, <2>5, <2>6 DEF BackgroundInv
<1>10. ASSUME NEW w \in Workers, StartWork(w) PROVE BackgroundInv'
  <2>0. Queued' = Queued /\ queue' = queue
    BY <1>10, QueueKept DEF StartWork
  <2>1. BackgroundTypeOK'
    BY <1>10, <2>0 DEF StartWork, BackgroundInv, BackgroundTypeOK, Places
  <2>2. SpawnInv'
    <3>1. wpc'[w] = "work" /\ \A v \in Workers : v # w => wpc'[v] = wpc[v]
      BY <1>10 DEF StartWork, BackgroundInv, BackgroundTypeOK
    <3>2. job[w] # NoJob
      BY <1>10 DEF StartWork, BackgroundInv, SpawnInv
    <3>3. ASSUME NEW v \in Workers PROVE job'[v] = NoJob <=> wpc'[v] \in {"recv", "dead"}
      BY <1>10, <3>1, <3>2 DEF StartWork, BackgroundInv, SpawnInv
    <3>4. QED
      BY Zenon, <1>10, <2>0, <3>3 DEF StartWork, BackgroundInv, SpawnInv
  <2>3. JobInv'
    BY <1>10, <2>0 DEF StartWork, BackgroundInv, JobInv
  <2>4. HookInv'
    BY <1>10, <2>0 DEF StartWork, BackgroundInv, HookInv
  <2>5. TokenInv'
    BY <1>10, <2>0 DEF StartWork, BackgroundInv, TokenInv
  <2>6. RunningWorkHearsCancel'
    <3>1. \A v \in Workers : v # w => wpc'[v] = wpc[v]
      BY <1>10 DEF StartWork, BackgroundInv, BackgroundTypeOK
    <3>2. job[w] \in hooks \ cancelled
      BY Zenon, <1>10 DEF StartWork, BackgroundInv, HookInv
    <3>3. QED
      BY Zenon, <1>10, <3>1, <3>2 DEF StartWork, BackgroundInv, RunningWorkHearsCancel
  <2>7. QED
    BY <2>1, <2>2, <2>3, <2>4, <2>5, <2>6 DEF BackgroundInv
<1>11. ASSUME NEW w \in Workers, WorkCompletes(w) PROVE BackgroundInv'
  <2>0. Queued' = Queued /\ queue' = queue
    BY <1>11, QueueKept DEF WorkCompletes, Return
  <2>1. BackgroundTypeOK'
    BY <1>11, <2>0 DEF WorkCompletes, Return, BackgroundInv, BackgroundTypeOK, Places
  <2>2. SpawnInv'
    BY <1>11, <2>0 DEF WorkCompletes, Return, BackgroundInv, SpawnInv, BackgroundTypeOK
  <2>3. JobInv' /\ HookInv'
    <3>1. /\ completed' \subseteq completed \cup ({job[w]} \cap tasks) /\ completed \subseteq completed'
          /\ job[w] \in tasks \ cancelled => job[w] \in completed'
      BY Zenon, <1>11 DEF WorkCompletes
    <3>2. hooks' = hooks \ ({job[w]} \cap tasks)
      BY <1>11 DEF WorkCompletes
    <3>3. /\ Return(w) /\ queue' = queue /\ spawn' = spawn /\ tasks' = tasks
          /\ cancelled' = cancelled
      BY Zenon, <1>11 DEF WorkCompletes
    <3>4. QED
      BY Zenon, <3>1, <3>2, <3>3, WorkReturns
  <2>5. TokenInv'
    BY <1>11, <2>0 DEF WorkCompletes, Return, BackgroundInv, TokenInv
  <2>6. RunningWorkHearsCancel'
    <3>1. /\ wpc'[w] # "work" /\ job[w] # NoJob
          /\ \A v \in Workers : v # w => wpc'[v] = wpc[v] /\ job'[v] = job[v]
      BY <1>11 DEF WorkCompletes, Return, BackgroundInv, BackgroundTypeOK, SpawnInv
    <3>2. \A v \in Workers : v # w => job[v] # job[w]
      BY Zenon, <3>1 DEF BackgroundInv, JobInv
    <3>3. /\ hooks \ {job[w]} \subseteq hooks'
          /\ cancelled' = cancelled /\ signalled' = signalled /\ drained' = drained
      BY <1>11 DEF WorkCompletes
    <3>4. QED
      BY Zenon, <3>1, <3>2, <3>3 DEF BackgroundInv, RunningWorkHearsCancel
  <2>7. QED
    BY <2>1, <2>2, <2>3, <2>5, <2>6 DEF BackgroundInv
<1>12. ASSUME NEW w \in Workers, WorkFails(w) PROVE BackgroundInv'
  <2>0. Queued' = Queued /\ queue' = queue
    BY <1>12, QueueKept DEF WorkFails, Return
  <2>1. BackgroundTypeOK'
    BY <1>12, <2>0 DEF WorkFails, Return, BackgroundInv, BackgroundTypeOK, Places
  <2>2. SpawnInv'
    BY <1>12, <2>0 DEF WorkFails, Return, BackgroundInv, SpawnInv, BackgroundTypeOK
  <2>3. JobInv' /\ HookInv'
    <3>1. /\ completed' \subseteq completed \cup ({job[w]} \cap tasks) /\ completed \subseteq completed'
          /\ job[w] \in tasks \ cancelled => job[w] \in completed'
      BY Zenon, <1>12 DEF WorkFails
    <3>2. hooks' = hooks \ ({job[w]} \cap tasks)
      BY <1>12 DEF WorkFails
    <3>3. /\ Return(w) /\ queue' = queue /\ spawn' = spawn /\ tasks' = tasks
          /\ cancelled' = cancelled
      BY Zenon, <1>12 DEF WorkFails
    <3>4. QED
      BY Zenon, <3>1, <3>2, <3>3, WorkReturns
  <2>5. TokenInv'
    BY <1>0, <1>12, <2>0 DEF WorkFails, Return, BackgroundInv, TokenInv, BackgroundTypeOK
  <2>6. RunningWorkHearsCancel'
    <3>1. /\ wpc'[w] # "work" /\ job[w] # NoJob
          /\ \A v \in Workers : v # w => wpc'[v] = wpc[v] /\ job'[v] = job[v]
      BY <1>12 DEF WorkFails, Return, BackgroundInv, BackgroundTypeOK, SpawnInv
    <3>2. \A v \in Workers : v # w => job[v] # job[w]
      BY Zenon, <3>1 DEF BackgroundInv, JobInv
    <3>3. /\ hooks \ {job[w]} \subseteq hooks'
          /\ cancelled' = cancelled /\ signalled' = signalled /\ drained' = drained
      BY <1>12 DEF WorkFails
    <3>4. QED
      BY Zenon, <3>1, <3>2, <3>3 DEF BackgroundInv, RunningWorkHearsCancel
  <2>7. QED
    BY <2>1, <2>2, <2>3, <2>5, <2>6 DEF BackgroundInv
<1>13. ASSUME NEW w \in Workers, WorkPanics(w) PROVE BackgroundInv'
  <2>0. /\ Queued' \subseteq Queued /\ queue' \in Seq(Jobs)
        /\ \A i, j \in DOMAIN queue' : queue'[i] = queue'[j] => i = j
    <3>1. CASE queue' = queue
      BY <3>1, QueueKept DEF BackgroundInv, BackgroundTypeOK, JobInv
    <3>2. CASE queue' = <<>>
      BY <3>2 DEF Queued
    <3>3. QED
      BY Zenon, <1>13, <3>1, <3>2 DEF WorkPanics
  <2>1. BackgroundTypeOK'
    <3>1. lost' \subseteq Jobs
      BY <1>13 DEF WorkPanics, BackgroundInv, BackgroundTypeOK, SpawnInv, Queued
    <3>2. QED
      BY <1>0, <1>13, <2>0, <3>1 DEF WorkPanics, BackgroundInv, BackgroundTypeOK, Places
  <2>2. SpawnInv'
    BY <1>0, <1>13, <2>0 DEF WorkPanics, BackgroundInv, SpawnInv, BackgroundTypeOK
  <2>3. JobInv'
    BY <1>0, <1>13, <2>0 DEF WorkPanics, BackgroundInv, JobInv, BackgroundTypeOK
  <2>4. HookInv'
    BY <1>0, <1>13, <2>0 DEF WorkPanics, BackgroundInv, HookInv, BackgroundTypeOK
  <2>5. TokenInv'
    BY <1>0, <1>13, <2>0 DEF WorkPanics, BackgroundInv, TokenInv, BackgroundTypeOK
  <2>6. RunningWorkHearsCancel'
    BY <1>0, <1>13, <2>0 DEF WorkPanics, BackgroundInv, RunningWorkHearsCancel, BackgroundTypeOK
  <2>7. QED
    BY <2>1, <2>2, <2>3, <2>4, <2>5, <2>6 DEF BackgroundInv
<1>14. CASE ResetAsyncState
  <2>0. Queued' = Queued /\ queue' = queue
    BY <1>14, QueueKept DEF ResetAsyncState
  <2>1. BackgroundTypeOK'
    BY <1>0, <1>14, <2>0 DEF ResetAsyncState, BackgroundInv, BackgroundTypeOK, Places
  <2>2. SpawnInv'
    BY <1>0, <1>14, <2>0 DEF ResetAsyncState, BackgroundInv, SpawnInv, BackgroundTypeOK
  <2>3. JobInv'
    BY <1>0, <1>14, <2>0 DEF ResetAsyncState, BackgroundInv, JobInv, BackgroundTypeOK
  <2>4. HookInv'
    BY <1>0, <1>14, <2>0 DEF ResetAsyncState, BackgroundInv, HookInv, BackgroundTypeOK
  <2>5. TokenInv'
    BY <1>0, <1>14, <2>0 DEF ResetAsyncState, BackgroundInv, TokenInv, BackgroundTypeOK, SpawnInv
  <2>6. RunningWorkHearsCancel'
    BY <1>0, <1>14, <2>0 DEF ResetAsyncState, BackgroundInv, RunningWorkHearsCancel, BackgroundTypeOK
  <2>7. QED
    BY <2>1, <2>2, <2>3, <2>4, <2>5, <2>6 DEF BackgroundInv
<1>15. CASE UNCHANGED backgroundVars
  BY <1>15, QueueKept DEF backgroundVars, BackgroundInv, BackgroundTypeOK, SpawnInv, JobInv, HookInv, TokenInv, RunningWorkHearsCancel
<1>16. QED
  BY <1>1, <1>2, <1>3, <1>4, <1>5, <1>6, <1>7, <1>8, <1>9, <1>10, <1>11, <1>12, <1>13, <1>14, <1>15 DEF BackgroundNext, Spawn, Work

LEMMA BackgroundHolds == BackgroundSpec => []BackgroundInv
<1>1. ASSUME BackgroundInit PROVE BackgroundInv
  <2>1. queue = <<>> /\ DOMAIN queue = {} /\ Queued = {}
    BY <1>1 DEF BackgroundInit, Queued
  <2>2. \A w \in Workers : wpc[w] = "recv" /\ job[w] = NoJob
    BY <1>1 DEF BackgroundInit
  <2>3. BackgroundTypeOK
    BY <1>1 DEF BackgroundInit, BackgroundTypeOK, Places
  <2>4. SpawnInv /\ TokenInv
    BY <1>1, <2>1, <2>2 DEF BackgroundInit, SpawnInv, TokenInv
  <2>5. JobInv /\ RunningWorkHearsCancel
    BY <2>1, <2>2 DEF JobInv, RunningWorkHearsCancel
  <2>6. HookInv
    BY <1>1 DEF BackgroundInit, HookInv
  <2>7. QED
    BY <2>3, <2>4, <2>5, <2>6 DEF BackgroundInv
<1>2. QED
  BY <1>1, BackgroundStep, PTL DEF BackgroundSpec

\* Every reachable state is well typed; in particular no cancel hook is left for
\* a task that is gone.
THEOREM BackgroundTypeCorrect == BackgroundSpec => []BackgroundTypeOK
BY BackgroundHolds, PTL DEF BackgroundInv

\* While work runs, cancelling or resetting its task sets the token the work polls.
THEOREM CancelIsHeard == BackgroundSpec => []RunningWorkHearsCancel
BY BackgroundHolds, PTL DEF BackgroundInv

\* A spawn that reports an error has left no task, no hook and no job.
THEOREM RefusedSpawnLeavesNothing == BackgroundSpec => []RefusedLeavesNothing
<1>1. BackgroundInv => RefusedLeavesNothing
  BY DEF BackgroundInv, BackgroundTypeOK, SpawnInv, RefusedLeavesNothing, Running
<1>2. QED
  BY <1>1, BackgroundHolds, PTL

\* No token is set for a task that still waits for its work.
THEOREM TokenOnlyWhenCancelled == BackgroundSpec => []TokenMeansCancelled
<1>1. BackgroundInv => TokenMeansCancelled
  BY DEF BackgroundInv, TokenInv, TokenMeansCancelled, Pending
<1>2. QED
  BY <1>1, BackgroundHolds, PTL

-----------------------------------------------------------------------------
\* Every task is in some hand afterwards, or lost, that was in one before.
LEMMA HandedOver ==
  ASSUME OnlyPanicsOrphan, Pending' \subseteq Pending, lost \subseteq lost',
         \A u \in Pending' : InHand(u) => InHand(u)' \/ u \in lost'
  PROVE  OnlyPanicsOrphan'
BY Zenon DEF OnlyPanicsOrphan

\* A step that adds no pending task and leaves all hands and losses alone.
LEMMA KeptInHand ==
  ASSUME OnlyPanicsOrphan, Pending' \subseteq Pending, queue' = queue, spawn' = spawn, job' = job,
         lost' = lost
  PROVE  OnlyPanicsOrphan'
<1>1. Queued' = Queued /\ Running' = Running
  BY QueueKept DEF Running
<1>2. QED
  BY Zenon, <1>1 DEF OnlyPanicsOrphan, InHand

\* A step leaves every pending task in somebody's hand, or lost.
LEMMA OrphanStep == BackgroundInv /\ OnlyPanicsOrphan /\ [BackgroundNext]_backgroundVars => OnlyPanicsOrphan'
<1> SUFFICES ASSUME BackgroundInv, OnlyPanicsOrphan, [BackgroundNext]_backgroundVars PROVE OnlyPanicsOrphan'
  OBVIOUS
<1> USE DEF OnlyPanicsOrphan, InHand, Pending, Running, taskVars
<1>1. ASSUME NEW t \in Jobs, AllocateTask(t) PROVE OnlyPanicsOrphan'
  <2>1. Queued' = Queued /\ Running' = Running /\ lost' = lost
    BY <1>1, QueueKept DEF AllocateTask
  <2>2. Pending' \subseteq Pending \cup {t}
    BY <1>1 DEF AllocateTask
  <2>3. /\ spawn'[t] = "allocated"
        /\ \A u \in Jobs : u # t => spawn'[u] = spawn[u]
    BY <1>1 DEF AllocateTask, BackgroundInv, BackgroundTypeOK
  <2>4. Pending \subseteq Jobs
    BY DEF BackgroundInv, BackgroundTypeOK
  <2>5. ASSUME NEW u \in Pending' PROVE InHand(u)' \/ u \in lost'
    <3>1. CASE u = t
      BY Zenon, <2>3, <3>1
    <3>2. CASE u # t
      <4>1. u \in Pending /\ spawn'[u] = spawn[u]
        BY Zenon, <2>2, <2>3, <2>4, <2>5, <3>2
      <4>2. QED
        BY Zenon, <2>1, <4>1
    <3>3. QED
      BY Zenon, <3>1, <3>2
  <2>6. QED
    BY Zenon, <2>5
<1>2. ASSUME NEW t \in Jobs, SendJob(t) PROVE OnlyPanicsOrphan'
  <2>1. Queued' = Queued \cup {t}
    BY <1>2, AppendFacts DEF SendJob, BackgroundInv, SpawnInv
  <2>2. Running' = Running /\ lost' = lost
    BY <1>2 DEF SendJob
  <2>3. Pending' \subseteq Pending
    BY <1>2 DEF SendJob
  <2>4. Pending \subseteq Jobs
    BY DEF BackgroundInv, BackgroundTypeOK
  <2>5. \A u \in Jobs : u # t => spawn'[u] = spawn[u]
    BY <1>2 DEF SendJob, BackgroundInv, BackgroundTypeOK
  <2>6. ASSUME NEW u \in Pending', InHand(u) PROVE InHand(u)'
    <3>1. CASE u = t
      BY Zenon, <2>1, <2>3, <2>5, <2>6, <3>1
    <3>2. CASE u # t
      BY Zenon, <2>1, <2>2, <2>3, <2>4, <2>5, <2>6, <3>2
    <3>3. QED
      BY Zenon, <3>1, <3>2
  <2>7. QED
    BY Zenon, <2>2, <2>3, <2>6, HandedOver
<1>3. ASSUME NEW t \in Jobs, SendRefused(t) PROVE OnlyPanicsOrphan'
  <2>1. Queued' = Queued
    BY <1>3, QueueKept DEF SendRefused
  <2>2. Running' = Running /\ lost' = lost
    BY <1>3 DEF SendRefused
  <2>3. Pending' \subseteq Pending
    BY <1>3 DEF SendRefused
  <2>4. Pending \subseteq Jobs
    BY DEF BackgroundInv, BackgroundTypeOK
  <2>5. spawn'[t] = "refused" /\ \A u \in Jobs : u # t => spawn'[u] = spawn[u]
    BY <1>3 DEF SendRefused, BackgroundInv, BackgroundTypeOK
  <2>6. ASSUME NEW u \in Pending', InHand(u) PROVE InHand(u)'
    <3>1. CASE u = t
      BY Zenon, <2>1, <2>3, <2>5, <2>6, <3>1
    <3>2. CASE u # t
      BY Zenon, <2>1, <2>2, <2>3, <2>4, <2>5, <2>6, <3>2
    <3>3. QED
      BY Zenon, <3>1, <3>2
  <2>7. QED
    BY Zenon, <2>2, <2>3, <2>6, HandedOver
<1>4. ASSUME NEW t \in Jobs, RollBack(t) PROVE OnlyPanicsOrphan'
  <2>1. Queued' = Queued
    BY <1>4, QueueKept DEF RollBack
  <2>2. Running' = Running /\ lost' = lost
    BY <1>4 DEF RollBack
  <2>3. Pending' \subseteq Pending \ {t}
    BY <1>4 DEF RollBack
  <2>4. Pending \subseteq Jobs
    BY DEF BackgroundInv, BackgroundTypeOK
  <2>5. \A u \in Jobs : u # t => spawn'[u] = spawn[u]
    BY <1>4 DEF RollBack, BackgroundInv, BackgroundTypeOK
  <2>6. ASSUME NEW u \in Pending', InHand(u) PROVE InHand(u)'
    <3>1. CASE u = t
      BY Zenon, <2>1, <2>3, <2>5, <2>6, <3>1
    <3>2. CASE u # t
      BY Zenon, <2>1, <2>2, <2>3, <2>4, <2>5, <2>6, <3>2
    <3>3. QED
      BY Zenon, <3>1, <3>2
  <2>7. QED
    BY Zenon, <2>2, <2>3, <2>6, HandedOver
<1>5. ASSUME NEW t \in Jobs, CancelJob(t) PROVE OnlyPanicsOrphan'
  <2>1. Pending' \subseteq Pending
    BY <1>5 DEF CancelJob
  <2>2. QED
    BY Zenon, <1>5, <2>1, KeptInHand DEF CancelJob
<1>6. ASSUME NEW t \in Jobs, FailJob(t) PROVE OnlyPanicsOrphan'
  <2>1. Pending' \subseteq Pending
    BY <1>6 DEF FailJob
  <2>2. QED
    BY Zenon, <1>6, <2>1, KeptInHand DEF FailJob
<1>7. ASSUME NEW t \in Jobs, RunDrained(t) PROVE OnlyPanicsOrphan'
  <2>1. Pending' \subseteq Pending
    BY <1>7 DEF RunDrained
  <2>2. QED
    BY Zenon, <1>7, <2>1, KeptInHand DEF RunDrained
<1>8. ASSUME NEW w \in Workers, Receive(w) PROVE OnlyPanicsOrphan'
  <2>1. Queued' = Queued \ {Head(queue)}
    BY <1>8, TailFacts DEF Receive, BackgroundInv
  <2>2. job'[w] = Head(queue) /\ Head(queue) # NoJob
    BY <1>8, TailFacts, BackgroundAssumption DEF Receive, BackgroundInv, BackgroundTypeOK
  <2>3. job[w] = NoJob /\ \A v \in Workers : v # w => job'[v] = job[v]
    BY <1>8 DEF Receive, BackgroundInv, BackgroundTypeOK, SpawnInv
  <2>4. Running \cup {Head(queue)} \subseteq Running'
    BY <2>2, <2>3
  <2>5. Pending' = Pending /\ spawn' = spawn /\ lost' = lost
    BY <1>8 DEF Receive
  <2>6. QED
    BY Zenon, <2>1, <2>4, <2>5, HandedOver
<1>9. ASSUME NEW w \in Workers, SkipCancelled(w) PROVE OnlyPanicsOrphan'
  <2>1. Queued' = Queued
    BY <1>9, QueueKept DEF SkipCancelled
  <2>2. \A v \in Workers : v # w => job'[v] = job[v]
    BY <1>9 DEF SkipCancelled, BackgroundInv, BackgroundTypeOK
  <2>3. Running \ {job[w]} \subseteq Running'
    BY <2>2
  <2>4. Pending' = Pending /\ job[w] \notin Pending /\ spawn' = spawn /\ lost' = lost
    BY <1>9 DEF SkipCancelled
  <2>5. QED
    BY Zenon, <2>1, <2>3, <2>4, HandedOver
<1>10. ASSUME NEW w \in Workers, StartWork(w) PROVE OnlyPanicsOrphan'
  <2>1. Pending' \subseteq Pending
    BY <1>10 DEF StartWork
  <2>2. QED
    BY Zenon, <1>10, <2>1, KeptInHand DEF StartWork
<1>11. ASSUME NEW w \in Workers, WorkCompletes(w) PROVE OnlyPanicsOrphan'
  <2>1. Queued' = Queued
    BY <1>11, QueueKept DEF WorkCompletes
  <2>2. Running \ {job[w]} \subseteq Running'
    <3>1. \A v \in Workers : v # w => job'[v] = job[v]
      BY <1>11 DEF WorkCompletes, Return, BackgroundInv, BackgroundTypeOK
    <3>2. QED
      BY <3>1
  <2>3. Pending' \subseteq Pending \ {job[w]}
    BY <1>11 DEF WorkCompletes
  <2>4. spawn' = spawn /\ lost' = lost
    BY <1>11 DEF WorkCompletes
  <2>5. QED
    BY <2>1, <2>2, <2>3, <2>4
<1>12. ASSUME NEW w \in Workers, WorkFails(w) PROVE OnlyPanicsOrphan'
  <2>1. Queued' = Queued
    BY <1>12, QueueKept DEF WorkFails
  <2>2. Running \ {job[w]} \subseteq Running'
    <3>1. \A v \in Workers : v # w => job'[v] = job[v]
      BY <1>12 DEF WorkFails, Return, BackgroundInv, BackgroundTypeOK
    <3>2. QED
      BY <3>1
  <2>3. Pending' \subseteq Pending \ {job[w]}
    BY <1>12 DEF WorkFails
  <2>4. spawn' = spawn /\ lost' = lost
    BY <1>12 DEF WorkFails
  <2>5. QED
    BY <2>1, <2>2, <2>3, <2>4
<1>13. ASSUME NEW w \in Workers, WorkPanics(w) PROVE OnlyPanicsOrphan'
  <2>1. Queued' = IF Alive = {w} THEN {} ELSE Queued
    <3>1. CASE Alive = {w}
      <4>1. queue' = <<>>
        BY Zenon, <1>13, <3>1 DEF WorkPanics
      <4>2. DOMAIN queue' = {}
        BY <4>1
      <4>3. Queued' = {}
        BY Zenon, <4>2 DEF Queued
      <4>4. QED
        BY Zenon, <3>1, <4>3
    <3>2. CASE Alive # {w}
      BY Zenon, <1>13, <3>2, QueueKept DEF WorkPanics
    <3>3. QED
      BY Zenon, <3>1, <3>2
  <2>2. \A v \in Workers : v # w => job'[v] = job[v]
    BY <1>13 DEF WorkPanics, BackgroundInv, BackgroundTypeOK
  <2>3. Running \ {job[w]} \subseteq Running'
    BY <2>2
  <2>4. /\ Pending' = Pending /\ spawn' = spawn /\ lost \cup {job[w]} \subseteq lost'
        /\ Queued \subseteq Queued' \cup lost'
    BY <1>13, <2>1 DEF WorkPanics
  <2>5. QED
    BY Zenon, <2>3, <2>4, HandedOver
<1>14. CASE ResetAsyncState
  <2>1. Queued' = Queued
    BY <1>14, QueueKept DEF ResetAsyncState
  <2>2. QED
    BY <1>14, <2>1 DEF ResetAsyncState, BackgroundInv, BackgroundTypeOK, SpawnInv
<1>15. CASE UNCHANGED backgroundVars
  <2>1. Queued' = Queued
    BY <1>15, QueueKept DEF backgroundVars
  <2>2. QED
    BY <1>15, <2>1 DEF backgroundVars, taskVars
<1>16. QED
  BY <1>1, <1>2, <1>3, <1>4, <1>5, <1>6, <1>7, <1>8, <1>9, <1>10, <1>11, <1>12, <1>13, <1>14, <1>15 DEF BackgroundNext, Spawn, Work

\* Whatever is spawned, cancelled and reset, only a panic leaves a pending task
\* without a job that will settle it.
THEOREM NobodyElseOrphans == BackgroundSpec => []OnlyPanicsOrphan
<1>1. BackgroundInit => OnlyPanicsOrphan
  BY DEF BackgroundInit, OnlyPanicsOrphan, Pending
<1>2. QED
  BY <1>1, OrphanStep, BackgroundHolds, PTL DEF BackgroundSpec

-----------------------------------------------------------------------------
(* Numbering, from the library                                             *)

INSTANCE FiniteSetTheorems

LEMMA RanksAreDense ==
  ASSUME NEW n \in Nat, NEW K \in SUBSET (1..n)
  PROVE  /\ Cardinality(K) \in Nat
         /\ \A i \in K : Rank(K, i) \in 1..Cardinality(K)
         /\ \A i, j \in K : Rank(K, i) = Rank(K, j) => i = j
         /\ \A k \in 1..Cardinality(K) : \E i \in K : Rank(K, i) = k
<1>0. IsFiniteSet(1..n) /\ \A i \in K : i \in Int
  BY FS_Interval
<1>1. IsFiniteSet(K)
  BY Zenon, <1>0, FS_Subset
<1>2. \A i \in K : {j \in K : j <= i} \in SUBSET K /\ i \in {j \in K : j <= i}
  OBVIOUS
<1>3. \A i \in K : IsFiniteSet({j \in K : j <= i}) /\ Rank(K, i) \in Nat /\ Rank(K, i) <= Cardinality(K)
  BY Zenon, <1>1, <1>2, FS_Subset, FS_CardinalityType DEF Rank
<1>4. \A i \in K : Rank(K, i) # 0
  BY Zenon, <1>2, <1>3, FS_EmptySet DEF Rank
<1>5. ASSUME NEW i \in K, NEW j \in K, i < j PROVE Rank(K, i) # Rank(K, j)
  <2>1. {m \in K : m <= i} \in SUBSET {m \in K : m <= j}
    <3>1. \A m \in K : m <= i => m <= j
      BY <1>0, <1>5
    <3>2. QED
      BY Zenon, <3>1
  <2>2. j \in {m \in K : m <= j} /\ j \notin {m \in K : m <= i}
    BY <1>5
  <2>3. {m \in K : m <= i} # {m \in K : m <= j}
    BY Zenon, <2>2
  <2>4. QED
    BY Zenon, <1>3, <2>1, <2>3, FS_Subset DEF Rank
<1>6. Cardinality(K) \in Nat
  BY Zenon, <1>1, FS_CardinalityType
<1>7. \A i \in K : Rank(K, i) \in 1..Cardinality(K)
  <2>1. ASSUME NEW r \in Nat, r # 0, r <= Cardinality(K) PROVE r \in 1..Cardinality(K)
    BY <1>6, <2>1
  <2>2. QED
    BY Zenon, <1>3, <1>4, <2>1
<1>8. \A i, j \in K : Rank(K, i) = Rank(K, j) => i = j
  <2>1. ASSUME NEW i \in K, NEW j \in K, Rank(K, i) = Rank(K, j) PROVE i = j
    <3>1. ~ (i < j) /\ ~ (j < i)
      BY Zenon, <1>5, <2>1
    <3>2. QED
      BY <3>1
  <2>2. QED
    BY Zenon, <2>1
<1>9. PICK F : F = [i \in K |-> Rank(K, i)]
  BY Zenon
<1>10. F \in Injection(K, 1..Cardinality(K))
  <2>1. F \in [K -> 1..Cardinality(K)]
    BY Zenon, <1>7, <1>9
  <2>2. \A i, j \in K : F[i] = F[j] => i = j
    BY Zenon, <1>8, <1>9
  <2>3. QED
    BY Zenon, <2>1, <2>2 DEF Injection, IsInjective
<1>11. IsFiniteSet(1..Cardinality(K)) /\ Cardinality(1..Cardinality(K)) = Cardinality(K)
  BY <1>6, FS_Interval
<1>12. F \in Surjection(K, 1..Cardinality(K))
  BY Zenon, <1>1, <1>10, <1>11, FS_Injection
<1>13. \A k \in 1..Cardinality(K) : \E i \in K : Rank(K, i) = k
  BY Zenon, <1>9, <1>12 DEF Surjection
<1>14. QED
  BY Zenon, <1>6, <1>7, <1>8, <1>13

LEMMA RanksHold == Ranks
BY Zenon, RanksAreDense DEF Ranks

LEMMA OrderNumbers ==
  ASSUME NEW n \in Nat, NEW S \in SUBSET (1..n), NEW R, Ordered(S, R)
  PROVE  Numbers(S, [t \in S |-> Cardinality({u \in S : <<u, t>> \in R})])
<1>1. IsFiniteSet(1..n)
  BY FS_Interval
<1>2. IsFiniteSet(S) /\ Cardinality(S) \in Nat
  BY Zenon, <1>1, FS_Subset, FS_CardinalityType
<1>3. PICK m \in Nat : m = Cardinality(S)
  BY Zenon, <1>2
<1>4. PICK D : D = [t \in S |-> {u \in S : <<u, t>> \in R}]
  BY Zenon
<1>5. PICK r : r = [t \in S |-> Cardinality({u \in S : <<u, t>> \in R})]
  BY Zenon
<1>6. \A t \in S : r[t] = Cardinality(D[t]) /\ D[t] \in SUBSET S /\ \A u : u \in D[t] <=> u \in S /\ <<u, t>> \in R
  BY Zenon, <1>4, <1>5
<1>7. \A t \in S : t \notin D[t]
  BY Zenon, <1>6 DEF Ordered
<1>8. ASSUME NEW t \in S PROVE IsFiniteSet(D[t]) /\ r[t] \in 0..(m - 1)
  <2>1. IsFiniteSet(D[t]) /\ Cardinality(D[t]) <= Cardinality(S) /\ (Cardinality(S) = Cardinality(D[t]) => S = D[t])
    BY Zenon, <1>2, <1>6, FS_Subset
  <2>2. r[t] \in Nat /\ r[t] <= m /\ r[t] # m
    BY Zenon, <1>3, <1>6, <1>7, <2>1, FS_CardinalityType
  <2>3. QED
    BY <2>1, <2>2
<1>9. ASSUME NEW t \in S, NEW u \in S, <<t, u>> \in R PROVE r[t] # r[u]
  <2>1. D[t] \in SUBSET D[u]
    BY Zenon, <1>6, <1>9 DEF Ordered
  <2>2. t \in D[u] /\ t \notin D[t] /\ IsFiniteSet(D[u])
    BY Zenon, <1>6, <1>7, <1>8, <1>9
  <2>3. Cardinality(D[u]) = Cardinality(D[t]) => D[u] = D[t]
    BY Zenon, <2>1, <2>2, FS_Subset
  <2>4. QED
    BY Zenon, <1>6, <2>2, <2>3
<1>10. \A t, u \in S : r[t] = r[u] => t = u
  BY Zenon, <1>9 DEF Ordered
<1>11. IsFiniteSet(0..(m - 1)) /\ Cardinality(0..(m - 1)) = m
  BY FS_Interval
<1>12. r \in Injection(S, 0..(m - 1))
  <2>1. r \in [S -> 0..(m - 1)]
    BY Zenon, <1>5, <1>8
  <2>2. QED
    BY Zenon, <1>10, <2>1 DEF Injection, IsInjective
<1>13. r \in Surjection(S, 0..(m - 1))
  BY Zenon, <1>2, <1>3, <1>11, <1>12, FS_Injection
<1>14. \A k \in 0..(m - 1) : \E t \in S : r[t] = k
  BY Zenon, <1>13 DEF Surjection
<1>15. Numbers(S, r)
  BY Zenon, <1>2, <1>3, <1>8, <1>10, <1>14 DEF Numbers
<1>16. QED
  BY Zenon, <1>5, <1>15

LEMMA OrdersHold == Orders
BY Zenon, OrderNumbers DEF Orders

LEMMA ScopeHolds == Spec => [](ScopeInv /\ ScopeMembership)
<1>1. ASSUME Init PROVE ScopeInv /\ ScopeMembership
  <2>1. 0 \in 0..MaxScopes
    BY BoundsAssumption
  <2>2. ScopeInv
    BY Zenon, <1>1, <2>1, EmptyList DEF Init, ScopeInv
  <2>3. ScopeMembership
    BY Zenon, <1>1, EmptyList DEF Init, ScopeMembership
  <2>4. QED
    BY Zenon, <2>2, <2>3
<1>2. TableInv /\ ScopeInv /\ ScopeMembership /\ [Next]_vars => ScopeInv' /\ ScopeMembership'
  BY Zenon, RanksHold, ScopeStep
<1>3. QED
  BY <1>1, <1>2, TableHolds, PTL DEF Spec

\* A task is on the list of the scope it names, once, and on no other, however it
\* was spawned, wrapped, taken back or moved by attach_task_to_scope.
THEOREM ListsMatchTheirTasks == Spec => []ScopeMembership
BY ScopeHolds, PTL

\* The step that cancels a scope cancels the scopes right below it and every task
\* that names it, although cancel_scope only follows the lists.
THEOREM CancelGoesDown == Spec => CancelReachesChildren
<1>1. ASSUME TableInv, ScopeInv, ScopeMembership, [Next]_vars,
             NEW s \in scope_cancelled', s \notin scope_cancelled
      PROVE  /\ \A x \in scopes : scope_parent[x] = s => x \in scope_cancelled'
             /\ \A t \in tasks : parent_scope[t] = s => t \in cancelled'
  <2>1. CASE \E r \in Scopes : CancelScope(r)
    BY Zenon, <1>1, <2>1, CancelScopeReaches
  <2>2. CASE Reset
    BY Zenon, <1>1, <2>2 DEF Reset
  <2>3. CASE scope_cancelled' = scope_cancelled
    BY Zenon, <1>1, <2>3
  <2>4. scope_cancelled' = scope_cancelled \/ Reset \/ \E r \in Scopes : CancelScope(r)
    BY Zenon, <1>1 DEF Next, vars, scopeVars, Ready, Start, SpawnReady, WithTimeout, CompleteTask,
         FailTask, TaskFail, CancelTask, JoinScope, ProcessDueTimeouts, Elapse, AdvanceTime,
         WithTimeoutRefused, CreateScope, AttachTask
  <2>5. QED
    BY Zenon, <2>1, <2>2, <2>3, <2>4
<1>2. TableInv /\ ScopeInv /\ ScopeMembership /\ [Next]_vars
        => [\A s \in scope_cancelled' \ scope_cancelled :
              /\ \A x \in scopes : scope_parent[x] = s => x \in scope_cancelled'
              /\ \A t \in tasks : parent_scope[t] = s => t \in cancelled']_vars
  BY Zenon, <1>1
<1>3. QED
  BY <1>2, TableHolds, ScopeHolds, PTL DEF Spec, CancelReachesChildren

LEMMA JoinHolds == Spec => [](TreeInv /\ JoinInv)
<1>1. Init => TreeInv /\ JoinInv
  <2>1. Init => TreeInv
    BY DEF Init, TreeInv, Range, IsInjective
  <2>2. Init => JoinInv
    BY DEF Init, JoinInv, None
  <2>3. QED
    BY <2>1, <2>2
<1>2. TableInv /\ ScopeInv /\ ScopeMembership /\ TreeInv /\ JoinInv /\ [Next]_vars => TreeInv' /\ JoinInv'
  <2>1. SUFFICES ASSUME TableInv, ScopeInv, ScopeMembership, TreeInv, JoinInv, [Next]_vars
                 PROVE  TreeInv' /\ JoinInv'
    BY Zenon
  <2>2. TreeInv'
    BY Zenon, <2>1, TreeStep
  <2>3. ASSUME NEW s \in Scopes, JoinScope(s) PROVE JoinInv'
    <3>1. s \in scopes
      BY Zenon, <2>3 DEF JoinScope
    <3>2. QED
      BY Zenon, <2>1, <2>3, <3>1, OrdersHold, JoinStep
  <2>4. ASSUME ~ \E s \in Scopes : JoinScope(s) PROVE JoinInv'
    BY Zenon, <2>1, <2>4, JoinKept
  <2>5. QED
    BY Zenon, <2>2, <2>3, <2>4
<1>3. QED
  BY <1>1, <1>2, TableHolds, ScopeHolds, PTL DEF Spec

\* However scopes are nested and joined again, join_scope gives each task one
\* order, and the orders in use are those below next_join_order.
THEOREM OrdersStayDense == Spec => []JoinOrdersAreDense
<1>1. TableInv /\ JoinInv => JoinOrdersAreDense
  BY Zenon, JoinDense
<1>2. QED
  BY <1>1, TableHolds, JoinHolds, PTL
==============================================================================
