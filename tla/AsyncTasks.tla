------------------------------ MODULE AsyncTasks ------------------------------
(***************************************************************************)
(* Structured concurrency over scalar tasks: completion, cancellation,     *)
(* timeouts and the tree of scopes of the async task registry.  Every      *)
(* operation runs under the registry lock, so each is one action; what is  *)
(* hard is the long sequences of them, over tasks that are wrapped, moved  *)
(* between scopes, joined and cancelled in any order.                      *)
(*                                                                         *)
(* Handles are numbers in order of allocation and are never reused.  The   *)
(* flags of a task record are sets of tasks.  The value a task produces is *)
(* its own number, 0 until then.                                           *)
(***************************************************************************)
EXTENDS Integers, Sequences, FiniteSets, Functions, Retain, TaskTable

CONSTANTS
  MaxTasks, MaxScopes,   \* bounds on allocations
  MaxTime,               \* bound on the clock
  Delays                 \* delays given to with_timeout and advance_time

ASSUME BoundsAssumption ==
  MaxTasks \in Nat /\ MaxScopes \in Nat /\ MaxTime \in Nat /\ Delays \subseteq Nat

Tasks == 1..MaxTasks
Scopes == 1..MaxScopes
None == 0                \* no scope, no inner task, no join order
NoDeadline == -1

VARIABLES
  ntasks, value,                            \* tasks allocated so far; what they produced
  parent_scope, timeout_inner, deadline_ms, join_order,
  nscopes, scopes,
  scope_parent, child_scopes, children, scope_cancelled,
  next_join_order, now

links == <<parent_scope, timeout_inner, deadline_ms>>
scopeVars == <<nscopes, scopes, scope_parent, child_scopes, scope_cancelled>>
joinVars == <<join_order, next_join_order>>
vars == <<ntasks, tasks, completed, failed, cancelled, value, links, scopeVars,
          children, joinVars, now>>

Init ==
  /\ ntasks = 0 /\ tasks = {} /\ completed = {} /\ failed = {} /\ cancelled = {}
  /\ value = [t \in Tasks |-> 0]
  /\ parent_scope = [t \in Tasks |-> None]
  /\ timeout_inner = [t \in Tasks |-> None]
  /\ deadline_ms = [t \in Tasks |-> NoDeadline]
  /\ join_order = [t \in Tasks |-> None]
  /\ nscopes = 0 /\ scopes = {} /\ scope_cancelled = {}
  /\ scope_parent = [s \in Scopes |-> None]
  /\ child_scopes = [s \in Scopes |-> <<>>]
  /\ children = [s \in Scopes |-> <<>>]
  /\ next_join_order = 1 /\ now = 0

-----------------------------------------------------------------------------
(* Allocation                                                              *)

\* The children lists once a new task t is pushed on the list of scope s.
Pushed(s, t) ==
  IF s \in scopes THEN [children EXCEPT ![s] = Append(@, t)] ELSE children

\* allocate_task_with_completion_impl.
Allocate(t, v, scope, inner, deadline, done) ==
  /\ ntasks < MaxTasks /\ t = ntasks + 1
  /\ ntasks' = t
  /\ tasks' = tasks \cup {t}
  /\ value' = [value EXCEPT ![t] = v]
  /\ completed' = IF done THEN completed \cup {t} ELSE completed
  /\ parent_scope' = [parent_scope EXCEPT ![t] = scope]
  /\ timeout_inner' = [timeout_inner EXCEPT ![t] = inner]
  /\ deadline_ms' = [deadline_ms EXCEPT ![t] = deadline]
  /\ children' = Pushed(scope, t)

\* std.async.task.ready
Ready ==
  /\ Allocate(ntasks + 1, ntasks + 1, None, None, NoDeadline, TRUE)
  /\ UNCHANGED <<failed, cancelled, scopeVars, joinVars, now>>

\* A task that background work or I/O will complete.
Start ==
  /\ Allocate(ntasks + 1, 0, None, None, NoDeadline, FALSE)
  /\ UNCHANGED <<failed, cancelled, scopeVars, joinVars, now>>

\* std.async.scope.spawn_ready
SpawnReady(s) ==
  /\ s \in scopes
  /\ Allocate(ntasks + 1, ntasks + 1, s, None, NoDeadline, TRUE)
  /\ UNCHANGED <<failed, cancelled, scopeVars, joinVars, now>>

-----------------------------------------------------------------------------
(* Completion                                                              *)

\* complete_task: a cancelled task keeps its value.
CompleteTask(t) ==
  /\ t \in tasks
  /\ IF t \in cancelled
     THEN UNCHANGED <<value, completed>>
     ELSE /\ value' = [value EXCEPT ![t] = t]
          /\ completed' = completed \cup {t}
  /\ UNCHANGED <<ntasks, tasks, failed, cancelled, links, scopeVars, children, joinVars, now>>

\* fail_task, by a worker.
FailTask(t) ==
  /\ t \in tasks
  /\ failed' = failed \cup {t}
  /\ completed' = completed \cup {t}
  /\ UNCHANGED <<ntasks, tasks, cancelled, value, links, scopeVars, children, joinVars, now>>

\* std.async.task.fail, by the program: the task is not marked completed.
TaskFail(t) ==
  /\ t \in tasks
  /\ failed' = failed \cup {t}
  /\ UNCHANGED <<ntasks, tasks, completed, cancelled, value, links, scopeVars, children,
                 joinVars, now>>

-----------------------------------------------------------------------------
(* Cancellation                                                            *)

\* The tasks that cancel_task reaches from S: it recurses into timeout_inner.
WithInner(S) ==
  {t \in tasks : \A C \in SUBSET tasks :
     (/\ S \subseteq C
      /\ \A w \in C : timeout_inner[w] \in tasks => timeout_inner[w] \in C) => t \in C}

\* The scopes that cancel_scope reaches from s: it recurses into child_scopes.
Subtree(s) ==
  {x \in scopes : \A C \in SUBSET scopes :
     (/\ s \in C
      /\ \A p \in C : Range(child_scopes[p]) \subseteq C) => x \in C}

\* Mutant: the wrapped task goes on.
CancelTaskOnly(t) ==
  /\ t \in tasks
  /\ cancelled' = cancelled \cup {t}
  /\ UNCHANGED <<ntasks, tasks, completed, failed, value, links, scopeVars, children,
                 joinVars, now>>

CancelTask(t) ==
  /\ t \in tasks
  /\ cancelled' = cancelled \cup WithInner({t})
  /\ UNCHANGED <<ntasks, tasks, completed, failed, value, links, scopeVars, children,
                 joinVars, now>>

\* Mutant: child scopes are flagged but their tasks are not cancelled.
CancelScopeShallow(s) ==
  /\ s \in scopes
  /\ scope_cancelled' = scope_cancelled \cup Subtree(s)
  /\ cancelled' = cancelled \cup WithInner(Range(children[s]))
  /\ UNCHANGED <<ntasks, tasks, completed, failed, value, links, nscopes, scopes,
                 scope_parent, child_scopes, children, joinVars, now>>

CancelScope(s) ==
  /\ s \in scopes
  /\ scope_cancelled' = scope_cancelled \cup Subtree(s)
  /\ cancelled' = cancelled \cup WithInner(UNION {Range(children[x]) : x \in Subtree(s)})
  /\ UNCHANGED <<ntasks, tasks, completed, failed, value, links, nscopes, scopes,
                 scope_parent, child_scopes, children, joinVars, now>>

-----------------------------------------------------------------------------
(* Timeouts                                                                *)

\* The tasks whose deadline has passed at time n.
Due(n) == {t \in tasks : deadline_ms[t] # NoDeadline /\ deadline_ms[t] <= n /\ t \notin cancelled}

\* process_due_timeouts, run by poll, join, join_status, is_cancelled and by
\* the reactor's timer events.
ProcessDueTimeouts ==
  /\ cancelled' = cancelled \cup WithInner(Due(now))
  /\ UNCHANGED <<ntasks, tasks, completed, failed, value, links, scopeVars, children,
                 joinVars, now>>

\* std.async.scheduler.advance_time
AdvanceTime(d) ==
  /\ now + d <= MaxTime
  /\ now' = now + d
  /\ cancelled' = cancelled \cup WithInner(Due(now + d))
  /\ UNCHANGED <<ntasks, tasks, completed, failed, value, links, scopeVars, children, joinVars>>

\* Wall-clock time passes: nothing runs.
Elapse ==
  /\ now < MaxTime
  /\ now' = now + 1
  /\ UNCHANGED <<ntasks, tasks, completed, failed, cancelled, value, links, scopeVars,
                 children, joinVars>>

\* std.async.task.with_timeout: the wrapper is born completed with the value the
\* inner task has at that moment, in the scope of the inner task.
WithTimeout(t, d) ==
  LET w == ntasks + 1 IN
  /\ t \in tasks
  /\ Allocate(w, value[t], parent_scope[t], t, now + d, TRUE)
  /\ cancelled' = cancelled \cup WithInner(Due(now)) \cup (IF d = 0 THEN {w} \cup WithInner({t}) ELSE {})
  /\ UNCHANGED <<failed, scopeVars, joinVars, now>>

\* Mutant: the removed wrapper stays on the list of its scope.
WithTimeoutRefusedKept(t) ==
  /\ t \in tasks
  /\ ntasks < MaxTasks
  /\ ntasks' = ntasks + 1
  /\ children' = Pushed(parent_scope[t], ntasks + 1)
  /\ UNCHANGED <<tasks, completed, failed, cancelled, value, links, scopeVars, joinVars, now>>

\* The reactor refuses the timer: the wrapper is removed again.
WithTimeoutRefused(t) ==
  /\ t \in tasks
  /\ ntasks < MaxTasks
  /\ ntasks' = ntasks + 1
  /\ LET s == parent_scope[t] IN
     children' = IF s \in scopes
                 THEN [children EXCEPT ![s] = Without(Append(@, ntasks + 1), ntasks + 1)]
                 ELSE children
  /\ UNCHANGED <<tasks, completed, failed, cancelled, value, links, scopeVars, joinVars, now>>

-----------------------------------------------------------------------------
(* Scopes                                                                  *)

\* create_scope, with no parent or under an existing one.
CreateScope(p) ==
  LET s == nscopes + 1 IN
  /\ nscopes < MaxScopes
  /\ p = None \/ p \in scopes
  /\ nscopes' = s
  /\ scopes' = scopes \cup {s}
  /\ scope_parent' = [scope_parent EXCEPT ![s] = p]
  /\ child_scopes' = IF p = None THEN child_scopes
                     ELSE [child_scopes EXCEPT ![p] = Append(@, s)]
  /\ UNCHANGED <<ntasks, tasks, completed, failed, cancelled, value, links, scope_cancelled,
                 children, joinVars, now>>

\* attach_task_to_scope: the task leaves the list of its old scope.
AttachTask(s, t) ==
  LET old == parent_scope[t]
      left == IF old \in scopes THEN [children EXCEPT ![old] = Without(@, t)] ELSE children IN
  /\ s \in scopes /\ t \in tasks
  /\ parent_scope' = [parent_scope EXCEPT ![t] = s]
  /\ children' = IF t \in Range(left[s]) THEN left ELSE [left EXCEPT ![s] = Append(@, t)]
  /\ UNCHANGED <<ntasks, tasks, completed, failed, cancelled, value, timeout_inner, deadline_ms,
                 scopeVars, joinVars, now>>

\* join_scope is done with scope x before it comes to the tasks of y: x is below y,
\* or they are below two children of one scope, in the order of its list.
ScopeBefore(x, y) ==
  \/ x # y /\ x \in Subtree(y)
  \/ \E p \in scopes : \E i, j \in DOMAIN child_scopes[p] :
       i < j /\ x \in Subtree(child_scopes[p][i]) /\ y \in Subtree(child_scopes[p][j])

\* It comes to task t before task u.
TaskBefore(t, u) ==
  \E x, y \in scopes : \E i \in DOMAIN children[x], j \in DOMAIN children[y] :
    /\ children[x][i] = t /\ children[y][j] = u
    /\ ScopeBefore(x, y) \/ (x = y /\ i < j)

\* The tasks it comes to for the first time, and those of them it numbers before t.
Fresh(s) == {t \in UNION {Range(children[x]) : x \in Subtree(s)} : join_order[t] = None}
Earlier(s, t) == {u \in Fresh(s) : TaskBefore(u, t)}

\* Mutant: the counter restarts for every scope.
JoinScopeRestarts(s) ==
  /\ s \in scopes
  /\ cancelled' = cancelled \cup WithInner(Due(now))
  /\ join_order' = [t \in Tasks |->
       IF t \in Fresh(s) THEN 1 + Cardinality(Earlier(s, t)) ELSE join_order[t]]
  /\ next_join_order' = next_join_order + Cardinality(Fresh(s))
  /\ UNCHANGED <<ntasks, tasks, completed, failed, value, links, scopeVars, children, now>>

\* join_scope: due timeouts first; the tasks not joined before are numbered.
JoinScope(s) ==
  /\ s \in scopes
  /\ cancelled' = cancelled \cup WithInner(Due(now))
  /\ join_order' = [t \in Tasks |->
       IF t \in Fresh(s) THEN next_join_order + Cardinality(Earlier(s, t)) ELSE join_order[t]]
  /\ next_join_order' = next_join_order + Cardinality(Fresh(s))
  /\ UNCHANGED <<ntasks, tasks, completed, failed, value, links, scopeVars, children, now>>

-----------------------------------------------------------------------------
\* reset_async_state: every table is emptied and the clock starts again.
Reset ==
  /\ tasks' = {} /\ completed' = {} /\ failed' = {} /\ cancelled' = {}
  /\ value' = [t \in Tasks |-> 0]
  /\ parent_scope' = [t \in Tasks |-> None]
  /\ timeout_inner' = [t \in Tasks |-> None]
  /\ deadline_ms' = [t \in Tasks |-> NoDeadline]
  /\ join_order' = [t \in Tasks |-> None]
  /\ scopes' = {} /\ scope_cancelled' = {}
  /\ scope_parent' = [s \in Scopes |-> None]
  /\ child_scopes' = [s \in Scopes |-> <<>>]
  /\ children' = [s \in Scopes |-> <<>>]
  /\ next_join_order' = 1 /\ now' = 0
  /\ UNCHANGED <<ntasks, nscopes>>

Next ==
  \/ Ready \/ Start \/ ProcessDueTimeouts \/ Elapse \/ Reset
  \/ \E t \in Tasks : CompleteTask(t) \/ FailTask(t) \/ TaskFail(t) \/ CancelTask(t)
                      \/ WithTimeoutRefused(t)
  \/ \E t \in Tasks, d \in Delays : WithTimeout(t, d)
  \/ \E d \in Delays : AdvanceTime(d)
  \/ \E s \in Scopes : SpawnReady(s) \/ CancelScope(s) \/ JoinScope(s)
  \/ \E p \in Scopes \cup {None} : CreateScope(p)
  \/ \E s \in Scopes, t \in Tasks : AttachTask(s, t)

Spec == Init /\ [][Next]_vars

-----------------------------------------------------------------------------
(* Properties                                                              *)

TypeOK ==
  /\ ntasks \in 0..MaxTasks /\ nscopes \in 0..MaxScopes
  /\ tasks \subseteq 1..ntasks /\ scopes \subseteq 1..nscopes
  /\ completed \subseteq tasks /\ failed \subseteq tasks /\ cancelled \subseteq tasks
  /\ value \in [Tasks -> 0..MaxTasks]
  /\ parent_scope \in [Tasks -> Scopes \cup {None}]
  /\ timeout_inner \in [Tasks -> Tasks \cup {None}]
  /\ deadline_ms \in [Tasks -> Nat \cup {NoDeadline}]
  /\ scope_cancelled \subseteq scopes
  /\ scope_parent \in [Scopes -> Scopes \cup {None}]
  /\ child_scopes \in [Scopes -> Seq(Scopes)]
  /\ children \in [Scopes -> Seq(Tasks)]
  /\ join_order \in [Tasks -> Nat] /\ next_join_order \in Nat
  /\ now \in 0..MaxTime

\* The two directions of membership agree whatever is attached, moved, wrapped
\* or rolled back: a task is on the list of the scope it names, once, and on no
\* other; so no join counts it twice and no cancellation misses it.
ScopeMembership ==
  \A s \in Scopes :
    /\ IsInjective(children[s])
    /\ \A t \in Tasks : t \in Range(children[s]) <=> t \in tasks /\ parent_scope[t] = s

\* A cancelled timeout wrapper has taken its inner task with it, whether it was
\* cancelled by hand, by its deadline, or with its scope.
CancelledWrapperTakesInner ==
  \A w \in cancelled : timeout_inner[w] # None => timeout_inner[w] \in cancelled

\* A scope that becomes cancelled takes along its child scopes and every task
\* that names it, found through the children's own links to it.
CancelReachesChildren ==
  [][\A s \in scope_cancelled' \ scope_cancelled :
       /\ \A x \in scopes : scope_parent[x] = s => x \in scope_cancelled'
       /\ \A t \in tasks : parent_scope[t] = s => t \in cancelled']_vars

\* A cancelled task stays cancelled and never takes a value, even when its
\* background work completes afterwards.
CancelledIsFinal ==
  [][\A t \in cancelled \cap tasks' : t \in cancelled' /\ value'[t] = value[t]]_vars

\* Join orders are handed out once each and without gaps, over every scope and
\* every repeated join.
JoinOrdersAreDense ==
  /\ {join_order[t] : t \in tasks} \ {None} = 1..(next_join_order - 1)
  /\ \A t, u \in tasks : join_order[t] = join_order[u] /\ join_order[t] # None => t = u
=============================================================================
