------------------------ MODULE CoroutineFramesProofs ------------------------
(* Theorems about CoroutineFrames, for any number of tasks and threads.     *)
EXTENDS CoroutineFrames, TLAPS

(* The inductive invariant.                                                 *)

\* A thread inside a poll is the only one there, and the poll's record and
\* frame are untouched.
PollInv ==
  /\ \A th \in Threads : Polls(th) => on[th] \in polling
  /\ \A a, b \in Threads : Polls(a) /\ Polls(b) /\ on[a] = on[b] => a = b
  /\ \A t \in polling : t \in present /\ state[t] = "Polling"

\* An AsyncFrameDrop owns its frame alone, and a frame taken out of the
\* registry is in one.
HoldInv ==
  /\ \A th \in Threads : held[th] \in Tasks => pc[th] = "drop" /\ place[held[th]] = "taken"
  /\ \A a, b \in Threads : held[a] \in Tasks /\ held[a] = held[b] => a = b
  /\ \A t \in Tasks : place[t] = "taken" => \E th \in Threads : held[th] = t

\* The drop callback ran at most once, and only for frames that were retired.
DropInv ==
  /\ \A t \in Tasks : drops[t] = 0 \/ (drops[t] = 1 /\ place[t] = "retired")
  /\ \A t \in present : place[t] = "retired" => drops[t] = 1

\* What the state of a record says about its frame and its flags.
StateInv ==
  /\ \A t \in Tasks : place[t] = "none" => t \notin present /\ state[t] = "Created"
  /\ \A t \in present : state[t] \notin Terminal => place[t] = "registry"
  /\ \A t \in present : state[t] \in {"Ready", "Failed"} => place[t] # "registry"
  /\ \A t \in drop_in_progress : state[t] \in Terminal
  /\ \A t \in cancel_requested : t \in polling \/ state[t] = "Cancelled"

IInv == TypeOK /\ PollInv /\ HoldInv /\ DropInv /\ StateInv

LEMMA UnlinkedType ==
  ASSUME TypeOK, NEW p \in Tasks
  PROVE  Unlinked(p) \in [Tasks -> SUBSET Tasks]
BY DEF TypeOK, Unlinked

\* The conjuncts of IInv under a step that leaves what they speak of alone.
LEMMA PollFrame ==
  ASSUME PollInv, UNCHANGED <<present, polling>>,
         \A t \in present : state[t] = "Polling" => state'[t] = "Polling",
         \A th \in Threads : Polls(th)' => Polls(th) /\ on'[th] = on[th]
  PROVE  PollInv'
BY DEF PollInv

LEMMA HoldFrame ==
  ASSUME HoldInv, UNCHANGED <<held, place>>,
         \A th \in Threads : pc[th] = "drop" => pc'[th] = "drop"
  PROVE  HoldInv'
BY DEF HoldInv

LEMMA DropFrame ==
  ASSUME DropInv, UNCHANGED <<place, drops, present>>
  PROVE  DropInv'
BY DEF DropInv

LEMMA StateFrame ==
  ASSUME StateInv, UNCHANGED <<place, present, state, polling, cancel_requested>>,
         drop_in_progress' \subseteq drop_in_progress
  PROVE  StateInv'
BY DEF StateInv

\* What finish_poll does with a final status: the frame is there, and it moves
\* into the AsyncFrameDrop of the thread.
LEMMA FinishFacts ==
  ASSUME IInv, NEW th \in Threads, NEW status \in Terminal, FinishFinal(th, status)
  PROVE  /\ on[th] \in Tasks /\ on[th] \in present /\ on[th] \in polling
         /\ state[on[th]] = "Polling" /\ place[on[th]] = "registry"
         /\ pc[th] = "poll" /\ held[th] \notin Tasks
         /\ polling' = polling \ {on[th]}
         /\ drop_in_progress' = drop_in_progress \cup {on[th]}
         /\ UNCHANGED <<present, cancel_requested, drops, on, tasks>>
         /\ \A x \in Tasks : state'[x] = IF x = on[th] THEN status ELSE state[x]
         /\ \A x \in Tasks : place'[x] = IF x = on[th] THEN "taken" ELSE place[x]
         /\ \A h \in Threads : held'[h] = IF h = th THEN on[th] ELSE held[h]
         /\ \A h \in Threads : pc'[h] = IF h = th THEN "drop" ELSE pc[h]
<1>1. pc[th] = "poll" /\ on[th] \in polling
  BY DEF FinishFinal, IInv, PollInv, Polls
<1>2. on[th] \in Tasks /\ on[th] \in present /\ state[on[th]] = "Polling"
  BY <1>1 DEF IInv, TypeOK, PollInv
<1>3. place[on[th]] = "registry" /\ held[th] \notin Tasks
  BY <1>1, <1>2 DEF IInv, StateInv, HoldInv, Terminal
<1>4. /\ polling' = polling \ {on[th]}
      /\ drop_in_progress' = drop_in_progress \cup {on[th]}
      /\ UNCHANGED <<present, cancel_requested, drops, on, tasks>>
  BY DEF FinishFinal, TakeFrame
<1>5. /\ \A x \in Tasks : state'[x] = IF x = on[th] THEN status ELSE state[x]
      /\ \A x \in Tasks : place'[x] = IF x = on[th] THEN "taken" ELSE place[x]
  BY <1>3 DEF FinishFinal, TakeFrame, IInv, TypeOK
<1>6. /\ \A h \in Threads : held'[h] = IF h = th THEN on[th] ELSE held[h]
      /\ \A h \in Threads : pc'[h] = IF h = th THEN "drop" ELSE pc[h]
  BY <1>3 DEF FinishFinal, TakeFrame, Goto, IInv, TypeOK
<1>7. QED
  BY <1>1, <1>2, <1>3, <1>4, <1>5, <1>6

LEMMA FinishStep ==
  ASSUME IInv, NEW th \in Threads, NEW status \in Terminal, FinishFinal(th, status),
         failed' \subseteq Tasks, cancelled' \subseteq Tasks,
         on[th] \in cancel_requested => status = "Cancelled"
  PROVE  IInv'
<1> DEFINE t == on[th]
<1>0. /\ t \in Tasks /\ t \in present /\ t \in polling
      /\ state[t] = "Polling" /\ place[t] = "registry"
      /\ pc[th] = "poll" /\ held[th] \notin Tasks
      /\ polling' = polling \ {t}
      /\ drop_in_progress' = drop_in_progress \cup {t}
      /\ UNCHANGED <<present, cancel_requested, drops, on, tasks>>
      /\ \A x \in Tasks : state'[x] = IF x = t THEN status ELSE state[x]
      /\ \A x \in Tasks : place'[x] = IF x = t THEN "taken" ELSE place[x]
      /\ \A h \in Threads : held'[h] = IF h = th THEN t ELSE held[h]
      /\ \A h \in Threads : pc'[h] = IF h = th THEN "drop" ELSE pc[h]
  BY FinishFacts
<1>1. TypeOK'
  <2>1. parents' \in [Tasks -> SUBSET Tasks]
    BY <1>0, UnlinkedType DEF FinishFinal, IInv
  <2>2. /\ state' \in [Tasks -> States] /\ child' \in [Tasks -> Tasks \cup {None}]
        /\ wake_queue' \subseteq Tasks /\ asleep' \subseteq Tasks /\ completed' \subseteq Tasks
    BY <1>0 DEF FinishFinal, IInv, TypeOK, States
  <2>3. /\ place' \in [Tasks -> Places] /\ pc' \in [Threads -> Labels]
        /\ held' \in [Threads -> Tasks \cup {None, Dummy}]
    BY <1>0 DEF FinishFinal, TakeFrame, Goto, IInv, TypeOK, Places, Labels
  <2>4. QED
    BY <1>0, <2>1, <2>2, <2>3 DEF IInv, TypeOK
<1>2. PollInv'
  BY <1>0 DEF IInv, TypeOK, PollInv, Polls
<1>3. HoldInv'
  <2>1. ASSUME NEW h \in Threads, held'[h] \in Tasks
        PROVE  pc'[h] = "drop" /\ place'[held'[h]] = "taken"
    BY <1>0, <2>1 DEF IInv, HoldInv
  <2>2. ASSUME NEW a \in Threads, NEW b \in Threads, held'[a] \in Tasks, held'[a] = held'[b]
        PROVE  a = b
    <3>1. \A h \in Threads : held[h] # t
      BY <1>0 DEF IInv, HoldInv
    <3>2. QED
      BY <1>0, <2>2, <3>1 DEF IInv, HoldInv
  <2>3. ASSUME NEW x \in Tasks, place'[x] = "taken" PROVE \E h \in Threads : held'[h] = x
    <3>1. CASE x = t
      BY <1>0, <3>1
    <3>2. CASE x # t
      <4>1. PICK h \in Threads : held[h] = x
        BY <1>0, <2>3, <3>2 DEF IInv, HoldInv
      <4>2. h # th
        BY <1>0, <4>1
      <4>3. QED
        BY <1>0, <4>1, <4>2
    <3>3. QED
      BY <3>1, <3>2
  <2>4. QED
    BY <2>1, <2>2, <2>3 DEF HoldInv
<1>4. DropInv'
  BY <1>0 DEF IInv, TypeOK, DropInv
<1>5. StateInv'
  <2>0. t \in cancel_requested => status = "Cancelled"
    OBVIOUS
  <2>1. \A x \in Tasks : place'[x] = "none" => x \notin present /\ state'[x] = "Created"
    BY <1>0 DEF IInv, StateInv
  <2>2. ASSUME NEW x \in present
        PROVE  /\ state'[x] \notin Terminal => place'[x] = "registry"
               /\ state'[x] \in {"Ready", "Failed"} => place'[x] # "registry"
    <3>1. CASE x = t
      BY <1>0, <3>1
    <3>2. CASE x # t
      <4>1. state'[x] = state[x] /\ place'[x] = place[x]
        BY <1>0, <3>2 DEF IInv, TypeOK
      <4>2. QED
        BY <4>1 DEF IInv, StateInv
    <3>3. QED
      BY <3>1, <3>2
  <2>3. \A x \in drop_in_progress' : state'[x] \in Terminal
    BY <1>0 DEF IInv, TypeOK, StateInv
  <2>4. ASSUME NEW x \in cancel_requested PROVE x \in polling' \/ state'[x] = "Cancelled"
    <3>1. x \in Tasks /\ (x \in polling \/ state[x] = "Cancelled")
      BY DEF IInv, TypeOK, StateInv
    <3>2. CASE x = t
      BY <1>0, <2>0, <3>2
    <3>3. CASE x # t
      BY <1>0, <3>1, <3>3
    <3>4. QED
      BY <3>2, <3>3
  <2>5. QED
    BY <1>0, <2>1, <2>2, <2>3, <2>4 DEF StateInv
<1>6. QED
  BY <1>1, <1>2, <1>3, <1>4, <1>5 DEF IInv

\* take_cancel_drop takes a frame only from a record that is already cancelled.
LEMMA CancelDropFacts ==
  ASSUME IInv, NEW th \in Threads, CancelDrop(th)
  PROVE  /\ on[th] \in Tasks /\ state[on[th]] = "Cancelled" /\ held[th] \notin Tasks
         /\ pc[th] = "cancel"
         /\ drop_in_progress' = drop_in_progress \cup {on[th]}
         /\ UNCHANGED <<present, polling, cancel_requested, drops, on>>
         /\ UNCHANGED <<child, parents, wake_queue, asleep, tasks, completed, failed, cancelled>>
         /\ state' = state
         /\ \A x \in Tasks : place'[x] = IF x = on[th] /\ place[x] = "registry"
                                           THEN "taken" ELSE place[x]
         /\ \A h \in Threads : held'[h] = IF h = th
              THEN IF place[on[th]] = "registry" THEN on[th] ELSE Dummy ELSE held[h]
         /\ \A h \in Threads : pc'[h] = IF h = th THEN "drop" ELSE pc[h]
<1>1. on[th] \in Tasks /\ state[on[th]] = "Cancelled" /\ pc[th] = "cancel"
  BY DEF CancelDrop, IInv, TypeOK, StateInv
<1>2. held[th] \notin Tasks
  BY <1>1 DEF IInv, HoldInv
<1>3. state' = state
  BY <1>1 DEF CancelDrop, IInv, TypeOK
<1>4. /\ drop_in_progress' = drop_in_progress \cup {on[th]}
      /\ UNCHANGED <<present, polling, cancel_requested, drops, on>>
      /\ UNCHANGED <<child, parents, wake_queue, asleep, tasks, completed, failed, cancelled>>
  BY DEF CancelDrop, TakeFrame, taskVars
<1>5. \A x \in Tasks : place'[x] = IF x = on[th] /\ place[x] = "registry"
                                     THEN "taken" ELSE place[x]
  BY <1>1 DEF CancelDrop, TakeFrame, IInv, TypeOK
<1>6. /\ \A h \in Threads : held'[h] = IF h = th
           THEN IF place[on[th]] = "registry" THEN on[th] ELSE Dummy ELSE held[h]
      /\ \A h \in Threads : pc'[h] = IF h = th THEN "drop" ELSE pc[h]
  BY <1>1 DEF CancelDrop, TakeFrame, Goto, IInv, TypeOK
<1>7. QED
  BY <1>1, <1>2, <1>3, <1>4, <1>5, <1>6

LEMMA CancelDropStep ==
  ASSUME IInv, NEW th \in Threads, CancelDrop(th)
  PROVE  IInv'
<1> DEFINE t == on[th]
<1>0. /\ t \in Tasks /\ state[t] = "Cancelled" /\ held[th] \notin Tasks
      /\ pc[th] = "cancel"
      /\ drop_in_progress' = drop_in_progress \cup {t}
      /\ UNCHANGED <<present, polling, cancel_requested, drops, on>>
      /\ UNCHANGED <<child, parents, wake_queue, asleep, tasks, completed, failed, cancelled>>
      /\ state' = state
      /\ \A x \in Tasks : place'[x] = IF x = t /\ place[x] = "registry"
                                        THEN "taken" ELSE place[x]
      /\ \A h \in Threads : held'[h] = IF h = th
           THEN IF place[t] = "registry" THEN t ELSE Dummy ELSE held[h]
      /\ \A h \in Threads : pc'[h] = IF h = th THEN "drop" ELSE pc[h]
  BY CancelDropFacts
<1>1. TypeOK'
  <2>1. /\ place' \in [Tasks -> Places] /\ pc' \in [Threads -> Labels]
        /\ held' \in [Threads -> Tasks \cup {None, Dummy}]
    BY <1>0 DEF CancelDrop, TakeFrame, Goto, IInv, TypeOK, Places, Labels
  <2>2. QED
    BY <1>0, <2>1 DEF IInv, TypeOK
<1>2. PollInv'
  BY <1>0, PollFrame DEF IInv, Polls
<1>3. HoldInv'
  <2>1. ASSUME NEW h \in Threads, held'[h] \in Tasks
        PROVE  pc'[h] = "drop" /\ place'[held'[h]] = "taken"
    BY <1>0, <2>1, NoneAssumption DEF IInv, HoldInv
  <2>2. ASSUME NEW a \in Threads, NEW b \in Threads, held'[a] \in Tasks, held'[a] = held'[b]
        PROVE  a = b
    BY <1>0, <2>2, NoneAssumption DEF IInv, HoldInv
  <2>3. ASSUME NEW x \in Tasks, place'[x] = "taken" PROVE \E h \in Threads : held'[h] = x
    <3>1. CASE x = t /\ place[x] = "registry"
      BY <1>0, <3>1
    <3>2. CASE ~(x = t /\ place[x] = "registry")
      <4>1. PICK h \in Threads : held[h] = x
        BY <1>0, <2>3, <3>2 DEF IInv, HoldInv
      <4>2. h # th
        BY <1>0, <4>1
      <4>3. QED
        BY <1>0, <4>1, <4>2
    <3>3. QED
      BY <3>1, <3>2
  <2>4. QED
    BY <2>1, <2>2, <2>3 DEF HoldInv
<1>4. DropInv'
  BY <1>0 DEF IInv, TypeOK, DropInv
<1>5. StateInv'
  <2>1. ASSUME NEW x \in Tasks
        PROVE  /\ place'[x] = "none" => place[x] = "none"
               /\ x # t => place'[x] = place[x]
               /\ place[x] # "registry" => place'[x] # "registry"
    BY <1>0
  <2>2. present \subseteq Tasks /\ state[t] \in Terminal
    BY <1>0 DEF IInv, TypeOK, Terminal
  <2>3. \A x \in present : state[x] \notin Terminal => place'[x] = "registry"
    BY <2>1, <2>2 DEF IInv, StateInv
  <2>4. QED
    BY <1>0, <2>1, <2>2, <2>3 DEF IInv, StateInv
<1>6. QED
  BY <1>1, <1>2, <1>3, <1>4, <1>5 DEF IInv

\* request_cancel leaves a polled or terminal record in its state.
LEMMA CancelTaskStep ==
  ASSUME IInv, NEW t \in Tasks, CancelTask(t)
  PROVE  /\ StateInv'
         /\ \A x \in present : state[x] = "Polling" => x \notin polling \/ state'[x] = "Polling"
<1>1. UNCHANGED <<present, polling, place, drop_in_progress>>
  BY DEF CancelTask, frameVars
<1>2. CASE t \in present /\ state[t] \notin Terminal
  <2>1. /\ cancel_requested' = cancel_requested \cup {t}
        /\ \A x \in Tasks : state'[x] = IF x = t /\ t \notin polling THEN "Cancelled" ELSE state[x]
    BY <1>2 DEF CancelTask, IInv, TypeOK
  <2>2. place[t] = "registry" /\ present \subseteq Tasks /\ t \notin drop_in_progress
    BY <1>2 DEF IInv, TypeOK, StateInv
  <2>3. drop_in_progress \subseteq Tasks /\ cancel_requested \subseteq Tasks
    BY DEF IInv, TypeOK
  <2>4. /\ \A x \in Tasks : place[x] = "none" => x \notin present /\ state'[x] = "Created"
        /\ \A x \in present : state'[x] \notin Terminal => place[x] = "registry"
    BY <2>1, <2>2 DEF IInv, StateInv, Terminal
  <2>5. \A x \in present : state'[x] \in {"Ready", "Failed"} => place[x] # "registry"
    BY <2>1, <2>2 DEF IInv, StateInv
  <2>6. \A x \in drop_in_progress : state'[x] \in Terminal
    BY <2>1, <2>2, <2>3 DEF IInv, StateInv
  <2>7. \A x \in cancel_requested' : x \in polling \/ state'[x] = "Cancelled"
    BY <2>1, <2>3 DEF IInv, StateInv
  <2>8. QED
    BY <1>1, <2>1, <2>2, <2>4, <2>5, <2>6, <2>7 DEF StateInv
<1>3. CASE ~(t \in present /\ state[t] \notin Terminal)
  <2>1. UNCHANGED <<cancel_requested, state>>
    BY <1>3 DEF CancelTask
  <2>2. QED
    BY <1>1, <2>1, StateFrame DEF IInv
<1>4. QED
  BY <1>2, <1>3

LEMMA Step == IInv /\ [Next]_vars => IInv'
<1> SUFFICES ASSUME IInv, [Next]_vars PROVE IInv'
  OBVIOUS
<1> USE NoneAssumption DEF frameVars, taskVars, threadVars, Goto
<1>1. ASSUME NEW t \in Tasks, Create(t) PROVE IInv'
  <2>1. TypeOK'
    BY <1>1 DEF IInv, TypeOK, Create, Labels, States, Terminal, Places
  <2>2. PollInv'
    BY <1>1 DEF IInv, PollInv, Create, Polls
  <2>3. HoldInv'
    BY <1>1 DEF IInv, HoldInv, TypeOK, Create
  <2>4. DropInv'
    BY <1>1 DEF IInv, DropInv, TypeOK, Create
  <2>5. StateInv'
    BY <1>1 DEF IInv, StateInv, TypeOK, Create, Terminal
  <2>6. QED
    BY <2>1, <2>2, <2>3, <2>4, <2>5 DEF IInv
<1>2. ASSUME NEW t \in Tasks, RequestCancel(t) PROVE IInv'
  <2>1. TypeOK'
    BY <1>2 DEF IInv, TypeOK, RequestCancel, CancelTask, Labels, States, Terminal, Places
  <2>2. PollInv'
    BY <1>2 DEF IInv, PollInv, TypeOK, RequestCancel, CancelTask, Polls
  <2>3. HoldInv'
    BY <1>2, HoldFrame DEF IInv, TypeOK, RequestCancel, CancelTask
  <2>4. DropInv'
    BY <1>2, DropFrame DEF IInv, RequestCancel, CancelTask
  <2>5. StateInv'
    BY <1>2, CancelTaskStep DEF RequestCancel
  <2>6. QED
    BY <2>1, <2>2, <2>3, <2>4, <2>5 DEF IInv
<1>3. ASSUME NEW th \in Threads, NEW t \in Tasks, BeginPoll(th, t) PROVE IInv'
  <2>1. TypeOK'
    BY <1>3 DEF IInv, TypeOK, BeginPoll, Labels, States, Terminal, Places
  <2>2. PollInv'
    BY <1>3 DEF IInv, PollInv, TypeOK, BeginPoll, Polls
  <2>3. HoldInv'
    BY <1>3, HoldFrame DEF IInv, TypeOK, BeginPoll
  <2>4. DropInv'
    BY <1>3, DropFrame DEF IInv, BeginPoll
  <2>5. StateInv'
    BY <1>3 DEF IInv, StateInv, TypeOK, BeginPoll, Terminal
  <2>6. QED
    BY <2>1, <2>2, <2>3, <2>4, <2>5 DEF IInv
<1>4. ASSUME NEW th \in Threads, NEW t \in Tasks, Subscribe(th, t) PROVE IInv'
  <2>0. on[th] \in Tasks /\ Unlinked(on[th]) \in [Tasks -> SUBSET Tasks]
    BY <1>4, UnlinkedType DEF IInv, TypeOK, PollInv, Polls, Subscribe
  <2>1. TypeOK'
    <3>1. parents' \in [Tasks -> SUBSET Tasks]
      BY <1>4, <2>0 DEF Subscribe
    <3>2. QED
      BY <1>4, <2>0, <3>1 DEF IInv, TypeOK, Subscribe, Labels, States, Terminal, Places
  <2>2. PollInv'
    BY <1>4, PollFrame DEF IInv, TypeOK, Subscribe, Polls
  <2>3. HoldInv'
    BY <1>4, HoldFrame DEF IInv, TypeOK, Subscribe
  <2>4. DropInv'
    BY <1>4, DropFrame DEF IInv, Subscribe
  <2>5. StateInv'
    BY <1>4, StateFrame DEF IInv, Subscribe
  <2>6. QED
    BY <2>1, <2>2, <2>3, <2>4, <2>5 DEF IInv
<1>5. ASSUME NEW th \in Threads, NEW t \in Tasks, BeginCancel(th, t) PROVE IInv'
  <2>1. TypeOK'
    BY <1>5 DEF IInv, TypeOK, BeginCancel, CancelTask, Labels, States, Terminal, Places
  <2>2. PollInv'
    BY <1>5 DEF IInv, PollInv, TypeOK, BeginCancel, CancelTask, Polls
  <2>3. HoldInv'
    BY <1>5, HoldFrame DEF IInv, TypeOK, BeginCancel, CancelTask
  <2>4. DropInv'
    BY <1>5, DropFrame DEF IInv, BeginCancel, CancelTask
  <2>5. StateInv'
    BY <1>5, CancelTaskStep DEF BeginCancel
  <2>6. QED
    BY <2>1, <2>2, <2>3, <2>4, <2>5 DEF IInv
<1>6. ASSUME NEW th \in Threads, NEW t \in Tasks, Wake(th, t) PROVE IInv'
  <2>1. TypeOK'
    BY <1>6 DEF IInv, TypeOK, Wake, Labels, States, Terminal, Places
  <2>2. PollInv'
    BY <1>6, PollFrame DEF IInv, TypeOK, Wake, Polls
  <2>3. HoldInv'
    BY <1>6, HoldFrame DEF IInv, TypeOK, Wake
  <2>4. DropInv'
    BY <1>6, DropFrame DEF IInv, Wake
  <2>5. StateInv'
    BY <1>6, StateFrame DEF IInv, Wake
  <2>6. QED
    BY <2>1, <2>2, <2>3, <2>4, <2>5 DEF IInv
<1>7. ASSUME NEW th \in Threads, SubscribeWakes(th) PROVE IInv'
  <2>1. TypeOK'
    BY <1>7 DEF IInv, TypeOK, SubscribeWakes, Labels, States, Terminal, Places
  <2>2. PollInv'
    BY <1>7, PollFrame DEF IInv, TypeOK, SubscribeWakes, Polls
  <2>3. HoldInv'
    BY <1>7, HoldFrame DEF IInv, TypeOK, SubscribeWakes
  <2>4. DropInv'
    BY <1>7, DropFrame DEF IInv, SubscribeWakes
  <2>5. StateInv'
    BY <1>7, StateFrame DEF IInv, SubscribeWakes
  <2>6. QED
    BY <2>1, <2>2, <2>3, <2>4, <2>5 DEF IInv
<1>8. ASSUME NEW th \in Threads, FinishPending(th) PROVE IInv'
  <2>0. /\ on[th] \in Tasks /\ on[th] \in present /\ place[on[th]] = "registry"
        /\ on[th] \notin drop_in_progress /\ pc[th] = "poll"
        /\ \A x \in Tasks : state'[x] = IF x = on[th] THEN "Pending" ELSE state[x]
        /\ \A h \in Threads : pc'[h] = IF h = th THEN "take_wakes" ELSE pc[h]
    <3>1. on[th] \in Tasks /\ on[th] \in present /\ state[on[th]] = "Polling"
      BY <1>8 DEF IInv, TypeOK, PollInv, Polls, FinishPending
    <3>2. place[on[th]] = "registry" /\ on[th] \notin drop_in_progress
      BY <3>1 DEF IInv, StateInv, Terminal
    <3>3. QED
      BY <1>8, <3>1, <3>2 DEF IInv, TypeOK, FinishPending
  <2>1. TypeOK'
    BY <1>8 DEF IInv, TypeOK, FinishPending, Labels, States, Terminal, Places
  <2>2. PollInv'
    <3>1. polling' = polling \ {on[th]} /\ on' = on /\ present' = present /\ polling \subseteq Tasks
      BY <1>8 DEF FinishPending, IInv, TypeOK
    <3>2. QED
      BY <2>0, <3>1 DEF IInv, PollInv, Polls
  <2>3. HoldInv'
    BY <1>8, HoldFrame DEF IInv, TypeOK, FinishPending
  <2>4. DropInv'
    BY <1>8, DropFrame DEF IInv, FinishPending
  <2>5. StateInv'
    <3>1. /\ polling' = polling \ {on[th]} /\ on[th] \notin cancel_requested
          /\ UNCHANGED <<present, place, drop_in_progress, cancel_requested>>
      BY <1>8 DEF FinishPending
    <3>2. /\ present \subseteq Tasks /\ drop_in_progress \subseteq Tasks
          /\ cancel_requested \subseteq Tasks
      BY DEF IInv, TypeOK
    <3>3. QED
      <4>1. ASSUME NEW x \in Tasks, x # on[th] PROVE state'[x] = state[x]
        BY <2>0, <4>1
      <4>2. \A x \in drop_in_progress : x # on[th]
        BY <2>0
      <4>3. \A x \in cancel_requested : x # on[th] /\ (x \in polling' \/ state'[x] = "Cancelled")
        BY <3>1, <3>2, <4>1 DEF IInv, StateInv
      <4>4. \A x \in drop_in_progress : state'[x] \in Terminal
        BY <3>2, <4>1, <4>2 DEF IInv, StateInv
      <4>5. \A x \in Tasks : place[x] = "none" => x \notin present /\ state'[x] = "Created"
        BY <2>0, <4>1 DEF IInv, StateInv
      <4>6. ASSUME NEW x \in present
            PROVE  /\ state'[x] \notin Terminal => place[x] = "registry"
                   /\ state'[x] \in {"Ready", "Failed"} => place[x] # "registry"
        BY <2>0, <3>2, <4>1 DEF IInv, StateInv
      <4>7. QED
        BY <3>1, <4>3, <4>4, <4>5, <4>6 DEF StateInv
  <2>6. QED
    BY <2>1, <2>2, <2>3, <2>4, <2>5 DEF IInv
<1>9. ASSUME NEW th \in Threads, FinishReady(th) PROVE IInv'
  <2>1. failed' \subseteq Tasks /\ cancelled' \subseteq Tasks
    BY <1>9 DEF FinishReady, FinishFinal, IInv, TypeOK
  <2>2. QED
    BY <1>9, <2>1, FinishStep DEF FinishReady, Terminal
<1>10. ASSUME NEW th \in Threads, FinishFailed(th) PROVE IInv'
  <2>1. failed' \subseteq Tasks /\ cancelled' \subseteq Tasks
    BY <1>10 DEF FinishFailed, FinishFinal, IInv, TypeOK
  <2>2. QED
    BY <1>10, <2>1, FinishStep DEF FinishFailed, Terminal
<1>11. ASSUME NEW th \in Threads, FinishCancelled(th) PROVE IInv'
  <2>1. failed' \subseteq Tasks /\ cancelled' \subseteq Tasks
    BY <1>11 DEF FinishCancelled, FinishFinal, IInv, TypeOK
  <2>2. QED
    BY <1>11, <2>1, FinishStep DEF FinishCancelled, Terminal
<1>12. ASSUME NEW th \in Threads, InvokeDrop(th) PROVE IInv'
  <2> DEFINE u == held[th]
  <2>1. /\ \A x \in Tasks : drops'[x] = IF x = u THEN drops[x] + 1 ELSE drops[x]
        /\ \A x \in Tasks : place'[x] = IF x = u THEN "retired" ELSE place[x]
        /\ UNCHANGED <<present, state, polling, drop_in_progress, cancel_requested, on>>
    BY <1>12 DEF InvokeDrop
  <2>2. /\ \A h \in Threads : held'[h] = IF h = th THEN None ELSE held[h]
        /\ \A h \in Threads : pc'[h] = IF h = th THEN "complete_drop" ELSE pc[h]
    BY <1>12 DEF InvokeDrop, IInv, TypeOK
  <2>3. u \in Tasks => place[u] = "taken"
    BY DEF IInv, HoldInv
  <2>4. TypeOK'
    <3>1. drops' \in [Tasks -> Nat] /\ place' \in [Tasks -> Places]
      BY <1>12 DEF InvokeDrop, IInv, TypeOK, Places
    <3>2. pc' \in [Threads -> Labels] /\ held' \in [Threads -> Tasks \cup {None, Dummy}]
      BY <1>12 DEF InvokeDrop, IInv, TypeOK, Labels
    <3>3. QED
      BY <1>12, <3>1, <3>2 DEF InvokeDrop, IInv, TypeOK
  <2>5. PollInv'
    BY <2>1, <2>2, PollFrame DEF IInv, Polls
  <2>6. HoldInv'
    <3>1. ASSUME NEW h \in Threads, held'[h] \in Tasks
          PROVE  h # th /\ held'[h] = held[h] /\ held[h] # u
      BY <2>2, <3>1 DEF IInv, HoldInv
    <3>2. ASSUME NEW h \in Threads, held'[h] \in Tasks
          PROVE  pc'[h] = "drop" /\ place'[held'[h]] = "taken"
      <4>1. h # th /\ held'[h] = held[h] /\ held[h] # u
        BY <3>1, <3>2
      <4>2. pc[h] = "drop" /\ place[held[h]] = "taken"
        BY <3>2, <4>1 DEF IInv, HoldInv
      <4>3. QED
        BY <2>1, <2>2, <3>2, <4>1, <4>2
    <3>3. ASSUME NEW a \in Threads, NEW b \in Threads, held'[a] \in Tasks, held'[a] = held'[b]
          PROVE  a = b
      <4>1. held[a] = held'[a] /\ held[b] = held'[b]
        BY <3>1, <3>3
      <4>2. QED
        BY <3>3, <4>1 DEF IInv, HoldInv
    <3>4. ASSUME NEW x \in Tasks, place'[x] = "taken" PROVE \E h \in Threads : held'[h] = x
      <4>1. x # u /\ place[x] = "taken"
        BY <2>1, <3>4
      <4>2. PICK h \in Threads : held[h] = x
        BY <4>1 DEF IInv, HoldInv
      <4>3. QED
        BY <2>2, <4>1, <4>2
    <3>5. QED
      BY <3>2, <3>3, <3>4 DEF HoldInv
  <2>7. DropInv'
    <3>1. ASSUME NEW x \in Tasks
          PROVE  drops'[x] = 0 \/ (drops'[x] = 1 /\ place'[x] = "retired")
      BY <2>1, <2>3 DEF IInv, DropInv
    <3>2. ASSUME NEW x \in present, place'[x] = "retired" PROVE drops'[x] = 1
      <4>1. x \in Tasks
        BY DEF IInv, TypeOK
      <4>2. CASE x = u
        <5>1. drops[x] = 0
          BY <2>3, <4>1, <4>2 DEF IInv, DropInv
        <5>2. drops'[x] = drops[x] + 1
          BY <2>1, <4>1, <4>2
        <5>3. QED
          BY <5>1, <5>2
      <4>3. CASE x # u
        BY <2>1, <3>2, <4>1, <4>3 DEF IInv, DropInv
      <4>4. QED
        BY <4>2, <4>3
    <3>3. QED
      BY <2>1, <3>1, <3>2 DEF DropInv
  <2>8. StateInv'
    <3>1. ASSUME NEW x \in Tasks
          PROVE  /\ place'[x] = "none" => place[x] = "none"
                 /\ place[x] = "registry" <=> place'[x] = "registry"
      BY <2>1, <2>3
    <3>2. present \subseteq Tasks
      BY DEF IInv, TypeOK
    <3>3. QED
      BY <2>1, <3>1, <3>2 DEF IInv, StateInv
  <2>9. QED
    BY <2>4, <2>5, <2>6, <2>7, <2>8 DEF IInv
<1>13. ASSUME NEW th \in Threads, CompleteDrop(th) PROVE IInv'
  <2>1. TypeOK'
    BY <1>13 DEF IInv, TypeOK, CompleteDrop, Labels, States, Terminal, Places
  <2>2. PollInv'
    BY <1>13, PollFrame DEF IInv, TypeOK, CompleteDrop, Polls
  <2>3. HoldInv'
    BY <1>13, HoldFrame DEF IInv, TypeOK, CompleteDrop
  <2>4. DropInv'
    BY <1>13, DropFrame DEF IInv, CompleteDrop
  <2>5. StateInv'
    BY <1>13, StateFrame DEF IInv, CompleteDrop
  <2>6. QED
    BY <2>1, <2>2, <2>3, <2>4, <2>5 DEF IInv
<1>14. ASSUME NEW th \in Threads, TakeWakes(th) PROVE IInv'
  <2>1. TypeOK'
    BY <1>14 DEF IInv, TypeOK, TakeWakes, Labels, States, Terminal, Places
  <2>2. PollInv'
    BY <1>14, PollFrame DEF IInv, TypeOK, TakeWakes, Polls
  <2>3. HoldInv'
    BY <1>14, HoldFrame DEF IInv, TypeOK, TakeWakes
  <2>4. DropInv'
    BY <1>14, DropFrame DEF IInv, TakeWakes
  <2>5. StateInv'
    BY <1>14, StateFrame DEF IInv, TakeWakes
  <2>6. QED
    BY <2>1, <2>2, <2>3, <2>4, <2>5 DEF IInv
<1>15. ASSUME NEW th \in Threads, CancelDrop(th) PROVE IInv'
  BY <1>15, CancelDropStep
<1>16. ASSUME NEW th \in Threads, CancelNothing(th) PROVE IInv'
  <2>1. TypeOK'
    BY <1>16 DEF IInv, TypeOK, CancelNothing, Labels, States, Terminal, Places
  <2>2. PollInv'
    BY <1>16, PollFrame DEF IInv, TypeOK, CancelNothing, Polls
  <2>3. HoldInv'
    BY <1>16, HoldFrame DEF IInv, TypeOK, CancelNothing
  <2>4. DropInv'
    BY <1>16, DropFrame DEF IInv, CancelNothing
  <2>5. StateInv'
    BY <1>16, StateFrame DEF IInv, CancelNothing
  <2>6. QED
    BY <2>1, <2>2, <2>3, <2>4, <2>5 DEF IInv
<1>17. ASSUME NEW th \in Threads, CancelStale(th) PROVE IInv'
  <2>1. TypeOK'
    BY <1>17 DEF IInv, TypeOK, CancelStale, Labels, States, Terminal, Places
  <2>2. PollInv'
    BY <1>17, PollFrame DEF IInv, TypeOK, CancelStale, Polls
  <2>3. HoldInv'
    BY <1>17, HoldFrame DEF IInv, TypeOK, CancelStale
  <2>4. DropInv'
    BY <1>17, DropFrame DEF IInv, CancelStale
  <2>5. StateInv'
    BY <1>17, StateFrame DEF IInv, CancelStale
  <2>6. QED
    BY <2>1, <2>2, <2>3, <2>4, <2>5 DEF IInv
<1>18. CASE Reset
  <2>1. TypeOK'
    BY <1>18 DEF IInv, TypeOK, Reset, Places
  <2>2. PollInv'
    BY <1>18 DEF IInv, PollInv, Reset, Polls
  <2>3. HoldInv'
    BY <1>18 DEF IInv, HoldInv, TypeOK, Reset
  <2>4. DropInv'
    BY <1>18 DEF IInv, DropInv, StateInv, TypeOK, Reset
  <2>5. StateInv'
    <3>1. /\ present' = {t \in present : t \in polling \/ t \in drop_in_progress}
          /\ cancel_requested' \subseteq cancel_requested
          /\ UNCHANGED <<state, polling, drop_in_progress>>
      BY <1>18 DEF Reset
    <3>2. ASSUME NEW x \in Tasks
          PROVE  /\ place'[x] = "none" => place[x] = "none"
                 /\ x \in present' => place'[x] = place[x]
                 /\ place[x] # "registry" => place'[x] # "registry"
      BY <1>18 DEF Reset
    <3>3. QED
      BY <3>1, <3>2 DEF IInv, TypeOK, StateInv
  <2>6. QED
    BY <2>1, <2>2, <2>3, <2>4, <2>5 DEF IInv
<1>19. ASSUME NEW t \in Tasks, TaskFail(t) PROVE IInv'
  <2>1. TypeOK'
    BY <1>19 DEF IInv, TypeOK, TaskFail
  <2>2. PollInv' /\ HoldInv' /\ DropInv' /\ StateInv'
    BY <1>19, PollFrame, HoldFrame, DropFrame, StateFrame DEF IInv, TaskFail, Polls
  <2>3. QED
    BY <2>1, <2>2 DEF IInv
<1>20. CASE UNCHANGED vars
  <2>1. TypeOK'
    BY <1>20 DEF vars, IInv, TypeOK
  <2>2. PollInv' /\ HoldInv' /\ DropInv' /\ StateInv'
    BY <1>20, PollFrame, HoldFrame, DropFrame, StateFrame DEF vars, IInv, Polls
  <2>3. QED
    BY <2>1, <2>2 DEF IInv
<1>21. QED
  BY <1>1, <1>2, <1>3, <1>4, <1>5, <1>6, <1>7, <1>8, <1>9, <1>10, <1>11, <1>12, <1>13, <1>14, <1>15, <1>16, <1>17, <1>18, <1>19, <1>20 DEF Next

LEMMA Base == Init => IInv
<1> SUFFICES ASSUME Init PROVE IInv
  OBVIOUS
<1>1. TypeOK
  BY DEF Init, TypeOK, Labels, States, Places
<1>2. PollInv
  BY DEF Init, PollInv, Polls
<1>3. HoldInv
  BY NoneAssumption DEF Init, HoldInv
<1>4. DropInv /\ StateInv
  BY DEF Init, DropInv, StateInv
<1>5. QED
  BY <1>1, <1>2, <1>3, <1>4 DEF IInv

LEMMA Invariant == Spec => []IInv
BY Base, Step, PTL DEF Spec

\* Every reachable state of the frame registry is well typed.
THEOREM TypeCorrect == Spec => []TypeOK
<1>1. IInv => TypeOK
  BY DEF IInv
<1>2. QED
  BY <1>1, Invariant, PTL

\* No cancel, drop or reset takes a frame away from the generated code that is
\* running in it, and begin_poll lets one thread in at a time.
THEOREM PollerOwnsItsFrame == Spec => []PolledFrameIsOwned
<1>1. IInv => PolledFrameIsOwned
  <2> SUFFICES ASSUME IInv, NEW th \in Threads, Polls(th)
      PROVE  /\ on[th] \in present
             /\ place[on[th]] = "registry"
             /\ drops[on[th]] = 0
             /\ \A other \in Threads : Polls(other) /\ on[other] = on[th] => other = th
    BY DEF PolledFrameIsOwned
  <2>1. on[th] \in Tasks /\ on[th] \in present /\ state[on[th]] = "Polling"
    BY DEF IInv, PollInv, TypeOK
  <2>2. place[on[th]] = "registry"
    BY <2>1 DEF IInv, StateInv, Terminal
  <2>3. drops[on[th]] = 0
    BY <2>1, <2>2 DEF IInv, DropInv
  <2>4. QED
    BY <2>1, <2>2, <2>3 DEF IInv, PollInv
<1>2. QED
  BY <1>1, Invariant, PTL

\* The drop callback of a frame runs at most once: finish_poll and
\* take_cancel_drop leave a dummy behind, and an AsyncFrameDrop has one owner.
THEOREM DropAtMostOnce == Spec => []DroppedAtMostOnce
<1>1. IInv => DroppedAtMostOnce
  <2> SUFFICES ASSUME IInv, NEW t \in Tasks PROVE drops[t] <= 1
    BY DEF DroppedAtMostOnce
  <2>1. drops[t] = 0 \/ drops[t] = 1
    BY DEF IInv, DropInv
  <2>2. QED
    BY <2>1
<1>2. QED
  BY <1>1, Invariant, PTL

\* finish_poll never leaves the frame of a finished coroutine undropped.
THEOREM FinishedFramesAreDropped == Spec => []FinishedIsDropped
<1>1. IInv => FinishedIsDropped
  <2> SUFFICES ASSUME IInv, NEW t \in present, state[t] \in {"Ready", "Failed"}
      PROVE  drops[t] = 1 \/ \E th \in Threads : pc[th] = "drop" /\ held[th] = t
    BY DEF FinishedIsDropped
  <2>1. t \in Tasks /\ place[t] \in {"taken", "retired"}
    BY DEF IInv, StateInv, TypeOK, Places
  <2>2. CASE place[t] = "taken"
    <3>1. PICK th \in Threads : held[th] = t
      BY <2>1, <2>2 DEF IInv, HoldInv
    <3>2. pc[th] = "drop"
      BY <2>1, <3>1 DEF IInv, HoldInv
    <3>3. QED
      BY <3>1, <3>2
  <2>3. CASE place[t] = "retired"
    BY <2>1, <2>3 DEF IInv, DropInv
  <2>4. QED
    BY <2>1, <2>2, <2>3
<1>2. QED
  BY <1>1, Invariant, PTL

\* A poll or a cancellation never replaces a terminal state: a record that is
\* polled is not terminal, and a record marked for cancellation is polled or
\* already cancelled.
THEOREM TerminalStaysFinal == Spec => TerminalIsFinal
<1>1. IInv /\ [Next]_vars => [\A t \in Tasks : state[t] \in Terminal => state'[t] = state[t]]_vars
  <2> SUFFICES ASSUME IInv, [Next]_vars, NEW u \in Tasks, state[u] \in Terminal PROVE state'[u] = state[u]
    OBVIOUS
  <2> USE DEF frameVars, taskVars, threadVars
  <2>1. ASSUME NEW t \in Tasks, Create(t) PROVE state'[u] = state[u]
    BY <2>1 DEF Create
  <2>2. ASSUME NEW t \in Tasks, RequestCancel(t) PROVE state'[u] = state[u]
    BY <2>2 DEF IInv, TypeOK, Terminal, RequestCancel, CancelTask
  <2>3. ASSUME NEW th \in Threads, NEW t \in Tasks, BeginPoll(th, t) PROVE state'[u] = state[u]
    BY <2>3 DEF IInv, TypeOK, Terminal, BeginPoll
  <2>4. ASSUME NEW th \in Threads, NEW t \in Tasks, Subscribe(th, t) PROVE state'[u] = state[u]
    BY <2>4 DEF Subscribe
  <2>5. ASSUME NEW th \in Threads, NEW t \in Tasks, BeginCancel(th, t) PROVE state'[u] = state[u]
    BY <2>5 DEF IInv, TypeOK, Terminal, BeginCancel, CancelTask
  <2>6. ASSUME NEW th \in Threads, NEW t \in Tasks, Wake(th, t) PROVE state'[u] = state[u]
    BY <2>6 DEF Wake
  <2>7. ASSUME NEW th \in Threads, SubscribeWakes(th) PROVE state'[u] = state[u]
    BY <2>7 DEF SubscribeWakes
  <2>8. ASSUME NEW th \in Threads, FinishPending(th) PROVE state'[u] = state[u]
    BY <2>8 DEF IInv, TypeOK, PollInv, Polls, Terminal, FinishPending
  <2>9. ASSUME NEW th \in Threads, FinishReady(th) PROVE state'[u] = state[u]
    BY <2>9, FinishFacts DEF FinishReady, Terminal
  <2>10. ASSUME NEW th \in Threads, FinishFailed(th) PROVE state'[u] = state[u]
    BY <2>10, FinishFacts DEF FinishFailed, Terminal
  <2>11. ASSUME NEW th \in Threads, FinishCancelled(th) PROVE state'[u] = state[u]
    BY <2>11, FinishFacts DEF FinishCancelled, Terminal
  <2>12. ASSUME NEW th \in Threads, InvokeDrop(th) PROVE state'[u] = state[u]
    BY <2>12 DEF InvokeDrop
  <2>13. ASSUME NEW th \in Threads, CompleteDrop(th) PROVE state'[u] = state[u]
    BY <2>13 DEF CompleteDrop
  <2>14. ASSUME NEW th \in Threads, TakeWakes(th) PROVE state'[u] = state[u]
    BY <2>14 DEF TakeWakes
  <2>15. ASSUME NEW th \in Threads, CancelDrop(th) PROVE state'[u] = state[u]
    BY <2>15, CancelDropFacts
  <2>16. ASSUME NEW th \in Threads, CancelNothing(th) PROVE state'[u] = state[u]
    BY <2>16 DEF CancelNothing
  <2>17. ASSUME NEW th \in Threads, CancelStale(th) PROVE state'[u] = state[u]
    BY <2>17 DEF CancelStale
  <2>18. CASE Reset
    BY <2>18 DEF Reset
  <2>19. ASSUME NEW t \in Tasks, TaskFail(t) PROVE state'[u] = state[u]
    BY <2>19 DEF TaskFail
  <2>20. CASE UNCHANGED vars
    BY <2>20 DEF vars
  <2>21. QED
    BY <2>1, <2>2, <2>3, <2>4, <2>5, <2>6, <2>7, <2>8, <2>9, <2>10, <2>11, <2>12, <2>13, <2>14, <2>15, <2>16, <2>17, <2>18, <2>19, <2>20 DEF Next
<1>2. QED
  BY <1>1, Invariant, PTL DEF Spec, TerminalIsFinal

-----------------------------------------------------------------------------
(* Two properties that are inductive together with IInv.                    *)

\* The task table holds only tasks that were created, and its flags belong to
\* tasks it holds.
TableInv ==
  /\ completed \subseteq tasks /\ cancelled \subseteq tasks
  /\ \A t \in Tasks : place[t] = "none" => t \notin tasks
  /\ TableAgreesWithFrame

LEMMA TableFrame ==
  ASSUME TypeOK, TableInv,
         UNCHANGED <<tasks, completed, failed, cancelled>>,
         UNCHANGED <<present, state, polling, cancel_requested>>,
         \A x \in Tasks : place'[x] = "none" => place[x] = "none"
  PROVE  TableInv'
BY DEF TypeOK, TableInv, TableAgreesWithFrame

LEMMA CancelTable ==
  ASSUME IInv, TableInv, NEW t \in Tasks, CancelTask(t)
  PROVE  TableInv'
<1>1. /\ cancelled' = cancelled \cup {t} /\ t \in tasks
      /\ UNCHANGED <<present, polling, place, tasks, completed, failed>>
  BY DEF CancelTask, frameVars
<1>2. CASE t \in present /\ state[t] \notin Terminal
  <2>1. /\ cancel_requested' = cancel_requested \cup {t}
        /\ \A x \in Tasks : state'[x] = IF x = t /\ t \notin polling THEN "Cancelled" ELSE state[x]
    BY <1>2 DEF CancelTask, IInv, TypeOK
  <2>2. present \subseteq Tasks
    BY DEF IInv, TypeOK
  <2>3. completed' \cup cancelled' \subseteq tasks' /\ \A x \in Tasks : place'[x] = "none" => x \notin tasks'
    BY <1>1 DEF TableInv
  <2>4. TableAgreesWithFrame'
    BY <1>1, <1>2, <2>1, <2>2 DEF TableInv, TableAgreesWithFrame, Terminal
  <2>5. QED
    BY <2>3, <2>4 DEF TableInv
<1>3. CASE ~(t \in present /\ state[t] \notin Terminal)
  <2>1. UNCHANGED <<cancel_requested, state>>
    BY <1>3 DEF CancelTask
  <2>2. QED
    BY <1>1, <1>3, <2>1 DEF TableInv, TableAgreesWithFrame
<1>4. QED
  BY <1>2, <1>3

LEMMA TableStep == IInv /\ TableInv /\ [Next]_vars => TableInv'
<1> SUFFICES ASSUME IInv, TableInv, [Next]_vars PROVE TableInv'
  OBVIOUS
<1> USE DEF frameVars, taskVars, threadVars
<1>1. ASSUME NEW t \in Tasks, Create(t) PROVE TableInv'
  <2>1. /\ tasks' = tasks \cup {t} /\ present' = present \cup {t}
        /\ \A x \in Tasks : place'[x] = IF x = t THEN "registry" ELSE place[x]
        /\ UNCHANGED <<state, polling, cancel_requested, completed, failed, cancelled>>
    BY <1>1 DEF Create, IInv, TypeOK
  <2>2. t \notin tasks /\ t \notin present /\ state[t] = "Created"
    BY <1>1 DEF Create, IInv, StateInv, TableInv
  <2>3. QED
    BY <2>1, <2>2 DEF TableInv, TableAgreesWithFrame
<1>2. ASSUME NEW t \in Tasks, RequestCancel(t) PROVE TableInv'
  BY <1>2, CancelTable DEF RequestCancel
<1>3. ASSUME NEW th \in Threads, NEW t \in Tasks, BeginPoll(th, t) PROVE TableInv'
  <2>1. t \in present /\ state[t] \notin Terminal /\ t \notin polling
    BY <1>3 DEF BeginPoll, IInv, PollInv, Polls, Terminal
  <2>2. /\ polling' = polling \cup {t} /\ completed' = completed
        /\ \A x \in Tasks : state'[x] = IF x = t THEN "Polling" ELSE state[x]
        /\ UNCHANGED <<present, place, tasks, failed, cancelled, cancel_requested>>
    BY <1>3 DEF BeginPoll, IInv, TypeOK
  <2>3. present \subseteq Tasks
    BY DEF IInv, TypeOK
  <2>4. completed' \cup cancelled' \subseteq tasks' /\ \A x \in Tasks : place'[x] = "none" => x \notin tasks'
    BY <2>1, <2>2 DEF TableInv
  <2>5. TableAgreesWithFrame'
    BY <2>1, <2>2, <2>3 DEF TableInv, TableAgreesWithFrame, Terminal
  <2>6. QED
    BY <2>4, <2>5 DEF TableInv
<1>4. ASSUME NEW th \in Threads, NEW t \in Tasks, Subscribe(th, t) PROVE TableInv'
  BY <1>4, TableFrame DEF IInv, Subscribe
<1>5. ASSUME NEW th \in Threads, NEW t \in Tasks, BeginCancel(th, t) PROVE TableInv'
  BY <1>5, CancelTable DEF BeginCancel
<1>6. ASSUME NEW th \in Threads, NEW t \in Tasks, Wake(th, t) PROVE TableInv'
  BY <1>6, TableFrame DEF IInv, Wake
<1>7. ASSUME NEW th \in Threads, SubscribeWakes(th) PROVE TableInv'
  BY <1>7, TableFrame DEF IInv, SubscribeWakes
<1>8. ASSUME NEW th \in Threads, FinishPending(th) PROVE TableInv'
  <2>1. on[th] \in present /\ state[on[th]] \notin Terminal /\ on[th] \notin cancel_requested
    BY <1>8 DEF FinishPending, IInv, PollInv, Polls, Terminal
  <2>2. /\ polling' = polling \ {on[th]} /\ completed' = completed \ {on[th]}
        /\ \A x \in Tasks : state'[x] = IF x = on[th] THEN "Pending" ELSE state[x]
        /\ UNCHANGED <<present, place, tasks, failed, cancelled, cancel_requested>>
    BY <1>8 DEF FinishPending, IInv, TypeOK
  <2>3. present \subseteq Tasks
    BY DEF IInv, TypeOK
  <2>4. completed' \cup cancelled' \subseteq tasks' /\ \A x \in Tasks : place'[x] = "none" => x \notin tasks'
    BY <2>1, <2>2 DEF TableInv
  <2>5. TableAgreesWithFrame'
    <3>1. ASSUME NEW x \in tasks \cap present, x # on[th]
          PROVE  state'[x] = state[x] /\ (x \in completed' <=> x \in completed)
      BY <2>2, <2>3, <3>1
    <3>2. on[th] \in tasks => on[th] \notin cancelled
      BY <2>1 DEF TableInv, TableAgreesWithFrame
    <3>3. ASSUME NEW x \in tasks \cap present, x # on[th]
          PROVE  /\ state'[x] = "Ready" => x \in completed'
                 /\ state'[x] = "Failed" => x \in completed' \cap failed
                 /\ state'[x] = "Cancelled" => x \in cancelled
                 /\ x \in completed' => state'[x] \in Terminal
                 /\ x \in cancelled => state'[x] \in Terminal \/ x \in polling' \cap cancel_requested
      BY <2>2, <3>1, <3>3 DEF TableInv, TableAgreesWithFrame
    <3>4. state'[on[th]] = "Pending"
      BY <2>1, <2>2, <2>3
    <3>5. QED
      BY <2>2, <3>2, <3>3, <3>4 DEF TableAgreesWithFrame
  <2>6. QED
    BY <2>4, <2>5 DEF TableInv
<1>9. ASSUME NEW th \in Threads, FinishReady(th) PROVE TableInv'
  <2>1. /\ on[th] \in Tasks /\ state[on[th]] = "Polling" /\ on[th] \notin cancel_requested
        /\ polling' = polling \ {on[th]} /\ UNCHANGED <<present, cancel_requested, tasks>>
        /\ \A x \in Tasks : state'[x] = IF x = on[th] THEN "Ready" ELSE state[x]
        /\ \A x \in Tasks : place'[x] = "none" => place[x] = "none"
    BY <1>9, FinishFacts DEF FinishReady, Terminal
  <2>2. /\ completed' = completed \cup ({on[th]} \cap tasks)
        /\ failed' = failed \ {on[th]}
        /\ cancelled' = cancelled \ {on[th]}
    BY <1>9 DEF FinishReady, FinishFinal
  <2>3. present \subseteq Tasks
    BY DEF IInv, TypeOK
  <2>4. completed' \cup cancelled' \subseteq tasks' /\ \A x \in Tasks : place'[x] = "none" => x \notin tasks'
    BY <2>1, <2>2 DEF TableInv
  <2>5. TableAgreesWithFrame'
    BY <2>1, <2>2, <2>3 DEF TableInv, TableAgreesWithFrame, Terminal
  <2>6. QED
    BY <2>4, <2>5 DEF TableInv
<1>10. ASSUME NEW th \in Threads, FinishFailed(th) PROVE TableInv'
  <2>1. /\ on[th] \in Tasks /\ state[on[th]] = "Polling" /\ on[th] \notin cancel_requested
        /\ polling' = polling \ {on[th]} /\ UNCHANGED <<present, cancel_requested, tasks>>
        /\ \A x \in Tasks : state'[x] = IF x = on[th] THEN "Failed" ELSE state[x]
        /\ \A x \in Tasks : place'[x] = "none" => place[x] = "none"
    BY <1>10, FinishFacts DEF FinishFailed, Terminal
  <2>2. /\ completed' = completed \cup ({on[th]} \cap tasks)
        /\ failed' = failed \cup ({on[th]} \cap tasks)
        /\ cancelled' = cancelled
    BY <1>10 DEF FinishFailed, FinishFinal
  <2>3. present \subseteq Tasks
    BY DEF IInv, TypeOK
  <2>4. completed' \cup cancelled' \subseteq tasks' /\ \A x \in Tasks : place'[x] = "none" => x \notin tasks'
    BY <2>1, <2>2 DEF TableInv
  <2>5. TableAgreesWithFrame'
    BY <2>1, <2>2, <2>3 DEF TableInv, TableAgreesWithFrame, Terminal
  <2>6. QED
    BY <2>4, <2>5 DEF TableInv
<1>11. ASSUME NEW th \in Threads, FinishCancelled(th) PROVE TableInv'
  <2>1. /\ on[th] \in Tasks /\ state[on[th]] = "Polling"
        /\ polling' = polling \ {on[th]} /\ UNCHANGED <<present, cancel_requested, tasks>>
        /\ \A x \in Tasks : state'[x] = IF x = on[th] THEN "Cancelled" ELSE state[x]
        /\ \A x \in Tasks : place'[x] = "none" => place[x] = "none"
    BY <1>11, FinishFacts DEF FinishCancelled, Terminal
  <2>2. /\ completed' = completed \cup ({on[th]} \cap tasks)
        /\ failed' = failed
        /\ cancelled' = cancelled \cup ({on[th]} \cap tasks)
    BY <1>11 DEF FinishCancelled, FinishFinal
  <2>3. present \subseteq Tasks
    BY DEF IInv, TypeOK
  <2>4. completed' \cup cancelled' \subseteq tasks' /\ \A x \in Tasks : place'[x] = "none" => x \notin tasks'
    BY <2>1, <2>2 DEF TableInv
  <2>5. TableAgreesWithFrame'
    BY <2>1, <2>2, <2>3 DEF TableInv, TableAgreesWithFrame, Terminal
  <2>6. QED
    BY <2>4, <2>5 DEF TableInv
<1>12. ASSUME NEW th \in Threads, InvokeDrop(th) PROVE TableInv'
  BY <1>12, TableFrame DEF IInv, InvokeDrop
<1>13. ASSUME NEW th \in Threads, CompleteDrop(th) PROVE TableInv'
  BY <1>13, TableFrame DEF IInv, CompleteDrop
<1>14. ASSUME NEW th \in Threads, TakeWakes(th) PROVE TableInv'
  BY <1>14, TableFrame DEF IInv, TakeWakes
<1>15. ASSUME NEW th \in Threads, CancelDrop(th) PROVE TableInv'
  BY <1>15, CancelDropFacts, TableFrame DEF IInv
<1>16. ASSUME NEW th \in Threads, CancelNothing(th) PROVE TableInv'
  BY <1>16, TableFrame DEF IInv, CancelNothing
<1>17. ASSUME NEW th \in Threads, CancelStale(th) PROVE TableInv'
  BY <1>17, TableFrame DEF IInv, CancelStale
<1>18. CASE Reset
  BY <1>18 DEF Reset, TableInv, TableAgreesWithFrame
<1>19. ASSUME NEW t \in Tasks, TaskFail(t) PROVE TableInv'
  <2>1. failed' = failed \cup {t}
    BY <1>19 DEF TaskFail
  <2>2. /\ UNCHANGED <<tasks, completed, cancelled, place>>
        /\ UNCHANGED <<present, state, polling, cancel_requested>>
    BY <1>19 DEF TaskFail
  <2>3. QED
    BY <2>1, <2>2 DEF TableInv, TableAgreesWithFrame
<1>20. CASE UNCHANGED vars
  BY <1>20, TableFrame DEF vars, IInv
<1>21. QED
  BY <1>1, <1>2, <1>3, <1>4, <1>5, <1>6, <1>7, <1>8, <1>9, <1>10, <1>11, <1>12, <1>13, <1>14, <1>15, <1>16, <1>17, <1>18, <1>19, <1>20 DEF Next

\* The flags that join_scope reads show the result that a poll would return, and a task
\* shows as completed only when its frame is terminal.  std.async.task.fail and a
\* late cancellation add a flag to the result and take none away.
THEOREM TableAgreement == Spec => []TableAgreesWithFrame
<1>1. Init => TableInv
  BY DEF Init, TableInv, TableAgreesWithFrame
<1>2. TableInv => TableAgreesWithFrame
  BY DEF TableInv
<1>3. QED
  BY <1>1, <1>2, TableStep, Invariant, PTL DEF Spec

\* A task that was not created yet is linked to nobody.
LinkInv ==
  /\ \A t, u \in Tasks : place[t] = "none" => t \notin parents[u] /\ child[u] # t
  /\ \A t \in Tasks : place[t] = "none" => parents[t] = {} /\ child[t] = None
  /\ ParentsAreKnown

LEMMA LinkFrame ==
  ASSUME LinkInv, UNCHANGED <<child, parents, present>>, present \subseteq Tasks,
         \A x \in Tasks : place'[x] = "none" => place[x] = "none",
         \A x \in Tasks : state[x] \in Terminal => state'[x] \in Terminal
  PROVE  LinkInv'
BY DEF LinkInv, ParentsAreKnown

LEMMA FinishLink ==
  ASSUME IInv, LinkInv, NEW th \in Threads, NEW status \in Terminal, FinishFinal(th, status)
  PROVE  LinkInv'
<1> DEFINE t == on[th]
<1>1. t \in Tasks /\ t \in present /\ state[t] = "Polling" /\ place[t] = "registry"
  BY DEF IInv, TypeOK, PollInv, Polls, StateInv, FinishFinal, Terminal
<1>2. /\ present' = present
      /\ \A x \in Tasks : child'[x] = IF x = t THEN None ELSE child[x]
      /\ \A x \in Tasks : state'[x] = IF x = t THEN status ELSE state[x]
      /\ \A x \in Tasks : place'[x] = IF x = t THEN "taken" ELSE place[x]
      /\ \A x \in Tasks : parents'[x] = IF x = t THEN {}
                                        ELSE IF x = child[t] THEN parents[x] \ {t} ELSE parents[x]
  BY <1>1 DEF IInv, TypeOK, FinishFinal, TakeFrame, Unlinked
<1>3. ASSUME NEW u \in Tasks, place'[u] = "none"
      PROVE  /\ parents'[u] = {} /\ child'[u] = None
             /\ \A v \in Tasks : u \notin parents'[v] /\ child'[v] # u
  <2>1. u # t /\ place[u] = "none"
    BY <1>2, <1>3
  <2>2. parents[u] = {} /\ child[u] = None /\ u # None
    BY <2>1, NoneAssumption DEF LinkInv
  <2>3. ASSUME NEW v \in Tasks PROVE u \notin parents[v] /\ child[v] # u
    BY <2>1 DEF LinkInv
  <2>4. ASSUME NEW v \in Tasks PROVE u \notin parents'[v] /\ child'[v] # u
    <3>1. parents'[v] \subseteq parents[v]
      BY <1>2
    <3>2. child'[v] = None \/ child'[v] = child[v]
      BY <1>2
    <3>3. QED
      BY <2>2, <2>3, <3>1, <3>2
  <2>5. QED
    BY <1>2, <2>1, <2>2, <2>4
<1>4. ASSUME NEW p \in present, NEW c \in present
      PROVE  /\ p \in parents'[c] => child'[p] = c
             /\ child'[p] = c /\ state'[c] \notin Terminal => p \in parents'[c]
  <2>1. p \in Tasks /\ c \in Tasks /\ c # None
    BY NoneAssumption DEF IInv, TypeOK
  <2>2. /\ p \in parents[c] => child[p] = c
        /\ child[p] = c /\ state[c] \notin Terminal => p \in parents[c]
    BY DEF LinkInv, ParentsAreKnown
  <2>3. CASE p = t \/ c = t
    <3>1. CASE c = t
      BY <1>2, <2>1, <3>1
    <3>2. CASE p = t /\ c # t
      <4>1. child'[p] = None
        BY <1>2, <2>1, <3>2
      <4>2. p \notin parents'[c]
        BY <1>2, <2>1, <2>2, <3>2
      <4>3. QED
        BY <2>1, <4>1, <4>2
    <3>3. QED
      BY <2>3, <3>1, <3>2
  <2>4. CASE p # t /\ c # t
    <3>1. /\ child'[p] = child[p] /\ state'[c] = state[c]
          /\ p \in parents'[c] <=> p \in parents[c]
      BY <1>2, <2>1, <2>4
    <3>2. QED
      BY <2>2, <3>1
  <2>5. QED
    BY <2>3, <2>4
<1>5. QED
  BY <1>2, <1>3, <1>4 DEF LinkInv, ParentsAreKnown

LEMMA LinkStep == IInv /\ LinkInv /\ [Next]_vars => LinkInv'
<1> SUFFICES ASSUME IInv, LinkInv, [Next]_vars PROVE LinkInv'
  OBVIOUS
<1> USE DEF frameVars, taskVars, threadVars
<1>1. ASSUME NEW t \in Tasks, Create(t) PROVE LinkInv'
  <2>1. /\ present' = present \cup {t} /\ place[t] = "none"
        /\ \A x \in Tasks : place'[x] = IF x = t THEN "registry" ELSE place[x]
        /\ UNCHANGED <<child, parents, state>>
    BY <1>1 DEF Create, IInv, TypeOK
  <2>2. \A u \in Tasks : t \notin parents[u] /\ child[u] # t
    BY <2>1 DEF LinkInv
  <2>3. parents[t] = {} /\ child[t] = None
    BY <2>1 DEF LinkInv
  <2>4. ParentsAreKnown'
    <3>1. present \subseteq Tasks
      BY DEF IInv, TypeOK
    <3>2. ASSUME NEW p \in present', NEW c \in present'
          PROVE  /\ p \in parents[c] => child[p] = c
                 /\ child[p] = c /\ state[c] \notin Terminal => p \in parents[c]
      <4>1. p \in Tasks /\ c \in Tasks /\ c # None
        BY <2>1, <3>1, NoneAssumption
      <4>2. CASE p = t \/ c = t
        BY <2>2, <2>3, <4>1, <4>2
      <4>3. CASE p \in present /\ c \in present
        BY <4>3 DEF LinkInv, ParentsAreKnown
      <4>4. QED
        BY <2>1, <4>2, <4>3
    <3>3. QED
      BY <2>1, <3>2 DEF ParentsAreKnown
  <2>5. QED
    BY <2>1, <2>4 DEF LinkInv
<1>2. ASSUME NEW t \in Tasks, RequestCancel(t) PROVE LinkInv'
  BY <1>2, LinkFrame DEF IInv, TypeOK, RequestCancel, CancelTask, Terminal
<1>3. ASSUME NEW th \in Threads, NEW t \in Tasks, BeginPoll(th, t) PROVE LinkInv'
  BY <1>3, LinkFrame DEF IInv, TypeOK, BeginPoll, Terminal
<1>4. ASSUME NEW th \in Threads, NEW t \in Tasks, Subscribe(th, t) PROVE LinkInv'
  <2> DEFINE p == on[th]
  <2>1. p \in Tasks /\ p \in present /\ t \in present /\ p # t
    BY <1>4 DEF Subscribe, IInv, TypeOK, PollInv, Polls
  <2>2. place[p] # "none" /\ place[t] # "none"
    BY <2>1 DEF IInv, StateInv
  <2>3. /\ UNCHANGED <<present, state, place>>
        /\ \A x \in Tasks : child'[x] = IF x = p THEN t ELSE child[x]
    BY <1>4 DEF Subscribe, IInv, TypeOK
  <2>4. \A x \in Tasks : parents'[x] =
          IF x = t THEN (IF x = child[p] THEN parents[x] \ {p} ELSE parents[x]) \cup {p}
          ELSE IF x = child[p] THEN parents[x] \ {p} ELSE parents[x]
    BY <1>4 DEF Subscribe, Unlinked
  <2>5. ASSUME NEW u \in Tasks, place[u] = "none"
        PROVE  /\ parents'[u] = {} /\ child'[u] = None
               /\ \A v \in Tasks : u \notin parents'[v] /\ child'[v] # u
    <3>1. /\ u # p /\ u # t /\ parents[u] = {} /\ child[u] = None
          /\ \A v \in Tasks : u \notin parents[v] /\ child[v] # u
      BY <2>2, <2>5 DEF LinkInv
    <3>2. \A v \in Tasks : parents'[v] \subseteq parents[v] \cup {p}
      BY <2>4
    <3>3. parents'[u] = {} /\ child'[u] = None
      BY <2>1, <2>3, <2>4, <3>1
    <3>4. \A v \in Tasks : u \notin parents'[v] /\ child'[v] # u
      BY <2>3, <3>1, <3>2
    <3>5. QED
      BY <3>3, <3>4
  <2>6. ASSUME NEW q \in present, NEW c \in present
        PROVE  /\ q \in parents'[c] => child'[q] = c
               /\ child'[q] = c /\ state[c] \notin Terminal => q \in parents'[c]
    <3>1. q \in Tasks /\ c \in Tasks
      BY DEF IInv, TypeOK
    <3>2. /\ q \in parents[c] => child[q] = c
          /\ child[q] = c /\ state[c] \notin Terminal => q \in parents[c]
      BY DEF LinkInv, ParentsAreKnown
    <3>3. CASE q = p
      BY <2>3, <2>4, <3>1, <3>2, <3>3
    <3>4. CASE q # p
      <4>1. child'[q] = child[q] /\ (q \in parents'[c] <=> q \in parents[c])
        <5>1. child'[q] = child[q]
          BY <2>3, <3>1, <3>4
        <5>2. parents'[c] \in {parents[c], parents[c] \ {p}, parents[c] \cup {p},
                               (parents[c] \ {p}) \cup {p}}
          BY <2>4, <3>1
        <5>3. QED
          BY <3>4, <5>1, <5>2
      <4>2. QED
        BY <3>2, <4>1
    <3>5. QED
      BY <3>3, <3>4
  <2>7. QED
    BY <2>3, <2>5, <2>6 DEF LinkInv, ParentsAreKnown
<1>5. ASSUME NEW th \in Threads, NEW t \in Tasks, BeginCancel(th, t) PROVE LinkInv'
  BY <1>5, LinkFrame DEF IInv, TypeOK, BeginCancel, CancelTask, Terminal
<1>6. ASSUME NEW th \in Threads, NEW t \in Tasks, Wake(th, t) PROVE LinkInv'
  BY <1>6, LinkFrame DEF IInv, TypeOK, Wake
<1>7. ASSUME NEW th \in Threads, SubscribeWakes(th) PROVE LinkInv'
  BY <1>7, LinkFrame DEF IInv, TypeOK, SubscribeWakes
<1>8. ASSUME NEW th \in Threads, FinishPending(th) PROVE LinkInv'
  BY <1>8, LinkFrame DEF IInv, TypeOK, PollInv, Polls, FinishPending, Terminal
<1>9. ASSUME NEW th \in Threads, FinishReady(th) PROVE LinkInv'
  BY <1>9, FinishLink DEF FinishReady, Terminal
<1>10. ASSUME NEW th \in Threads, FinishFailed(th) PROVE LinkInv'
  BY <1>10, FinishLink DEF FinishFailed, Terminal
<1>11. ASSUME NEW th \in Threads, FinishCancelled(th) PROVE LinkInv'
  BY <1>11, FinishLink DEF FinishCancelled, Terminal
<1>12. ASSUME NEW th \in Threads, InvokeDrop(th) PROVE LinkInv'
  BY <1>12, LinkFrame DEF IInv, TypeOK, InvokeDrop
<1>13. ASSUME NEW th \in Threads, CompleteDrop(th) PROVE LinkInv'
  BY <1>13, LinkFrame DEF IInv, TypeOK, CompleteDrop
<1>14. ASSUME NEW th \in Threads, TakeWakes(th) PROVE LinkInv'
  BY <1>14, LinkFrame DEF IInv, TypeOK, TakeWakes
<1>15. ASSUME NEW th \in Threads, CancelDrop(th) PROVE LinkInv'
  BY <1>15, CancelDropFacts, LinkFrame DEF IInv, TypeOK
<1>16. ASSUME NEW th \in Threads, CancelNothing(th) PROVE LinkInv'
  BY <1>16, LinkFrame DEF IInv, TypeOK, CancelNothing
<1>17. ASSUME NEW th \in Threads, CancelStale(th) PROVE LinkInv'
  BY <1>17, LinkFrame DEF IInv, TypeOK, CancelStale
<1>18. CASE Reset
  <2>1. present' \subseteq present /\ present \subseteq Tasks /\ state' = state
    BY <1>18 DEF Reset, IInv, TypeOK
  <2>2. ASSUME NEW x \in Tasks
        PROVE  /\ place'[x] = "none" => place[x] = "none"
               /\ child'[x] = None \/ child'[x] = child[x]
               /\ parents'[x] = {} \/ parents'[x] = parents[x]
               /\ x \in present' => child'[x] = child[x] /\ parents'[x] = parents[x]
    BY <1>18 DEF Reset
  <2>3. ASSUME NEW u \in Tasks, place'[u] = "none"
        PROVE  /\ parents'[u] = {} /\ child'[u] = None
               /\ \A v \in Tasks : u \notin parents'[v] /\ child'[v] # u
    <3>1. place[u] = "none" /\ u # None
      BY <2>2, <2>3, NoneAssumption
    <3>2. /\ parents[u] = {} /\ child[u] = None
          /\ \A v \in Tasks : u \notin parents[v] /\ child[v] # u
      BY <3>1 DEF LinkInv
    <3>3. QED
      BY <2>2, <3>1, <3>2
  <2>4. ParentsAreKnown'
    BY <2>1, <2>2 DEF LinkInv, ParentsAreKnown
  <2>5. QED
    BY <2>3, <2>4 DEF LinkInv
<1>19. ASSUME NEW t \in Tasks, TaskFail(t) PROVE LinkInv'
  BY <1>19, LinkFrame DEF IInv, TypeOK, TaskFail
<1>20. CASE UNCHANGED vars
  BY <1>20, LinkFrame DEF vars, IInv, TypeOK
<1>21. QED
  BY <1>1, <1>2, <1>3, <1>4, <1>5, <1>6, <1>7, <1>8, <1>9, <1>10, <1>11, <1>12, <1>13, <1>14, <1>15, <1>16, <1>17, <1>18, <1>19, <1>20 DEF Next

\* finish_poll finds every parent that awaits the coroutine, and only those.
THEOREM ParentsStayKnown == Spec => []ParentsAreKnown
<1>1. Init => LinkInv
  BY NoneAssumption DEF Init, LinkInv, ParentsAreKnown
<1>2. LinkInv => ParentsAreKnown
  BY DEF LinkInv
<1>3. QED
  BY <1>1, <1>2, LinkStep, Invariant, PTL DEF Spec

\* A sleeping coroutine has its record, and SubscribersAreWoken.
SleepInv == asleep \subseteq present /\ SubscribersAreWoken

\* A step that puts no coroutine to sleep, finishes none, and hands a wake on only to
\* the coroutine that it wakes.
LEMMA SleepFrame ==
  ASSUME IInv, SleepInv, UNCHANGED <<present, child>>, asleep' \subseteq asleep,
         asleep' \cap wake_queue \subseteq wake_queue',
         \A x \in Tasks : state'[x] \in {"Ready", "Failed"} => state'[x] = state[x]
  PROVE  SleepInv'
<1>1. asleep' \subseteq present'
  BY DEF SleepInv
<1>2. ASSUME NEW p \in asleep', NEW c \in present', child'[p] = c, state'[c] \in {"Ready", "Failed"}
      PROVE  p \in wake_queue'
  <2>1. p \in asleep /\ c \in present /\ child[p] = c /\ state[c] \in {"Ready", "Failed"}
    BY <1>2 DEF IInv, TypeOK
  <2>2. p \in wake_queue
    BY <2>1 DEF SleepInv, SubscribersAreWoken
  <2>3. QED
    BY <2>2
<1>3. QED
  BY <1>1, <1>2 DEF SleepInv, SubscribersAreWoken

LEMMA FinishSleep ==
  ASSUME IInv, LinkInv, SleepInv, NEW th \in Threads, NEW status \in Terminal,
         FinishFinal(th, status)
  PROVE  SleepInv'
<1> DEFINE t == on[th]
<1>0. t \in present /\ t \in Tasks /\ state[t] = "Polling"
  BY DEF FinishFinal, IInv, PollInv, Polls, TypeOK
<1>1. present' = present /\ \A x \in Tasks : x # t => state'[x] = state[x]
  BY DEF FinishFinal, TakeFrame, IInv, TypeOK
<1>2. /\ asleep' = asleep \ {t} /\ wake_queue' = wake_queue \cup parents[t]
      /\ \A x \in Tasks : x # t => child'[x] = child[x]
  BY DEF FinishFinal, IInv, TypeOK
<1>3. ASSUME NEW p \in asleep', NEW c \in present, child'[p] = c, state'[c] \in {"Ready", "Failed"}
      PROVE  p \in wake_queue'
  <2>1. p \in asleep /\ p # t /\ p \in present /\ p \in Tasks /\ c \in Tasks /\ child[p] = c
    BY <1>2, <1>3 DEF SleepInv, IInv, TypeOK
  <2>2. CASE c = t
    <3>1. p \in parents[t]
      BY <1>0, <2>1, <2>2 DEF LinkInv, ParentsAreKnown, Terminal
    <3>2. QED
      BY <1>2, <3>1
  <2>3. CASE c # t
    BY <1>1, <1>2, <1>3, <2>1, <2>3 DEF SleepInv, SubscribersAreWoken
  <2>4. QED
    BY <2>2, <2>3
<1>4. QED
  BY <1>1, <1>2, <1>3 DEF SleepInv, SubscribersAreWoken

LEMMA CancelSleep ==
  ASSUME IInv, SleepInv, NEW t \in Tasks, CancelTask(t)
  PROVE  SleepInv'
<1>1. UNCHANGED <<present, child>> /\ asleep' = asleep \ (wake_queue \cup {t})
  BY DEF CancelTask
<1>2. \A x \in Tasks : state'[x] \in {"Ready", "Failed"} => state'[x] = state[x]
  BY DEF CancelTask, IInv, TypeOK
<1>3. QED
  BY <1>1, <1>2, SleepFrame

LEMMA SleepStep == IInv /\ LinkInv /\ SleepInv /\ [Next]_vars => SleepInv'
<1> SUFFICES ASSUME IInv, LinkInv, SleepInv, [Next]_vars PROVE SleepInv'
  OBVIOUS
<1> USE DEF frameVars, taskVars, threadVars
<1>1. ASSUME NEW t \in Tasks, Create(t) PROVE SleepInv'
  <2>1. /\ present' = present \cup {t} /\ UNCHANGED <<child, state, wake_queue, asleep>>
        /\ state[t] = "Created"
    BY <1>1 DEF Create, IInv, StateInv
  <2>2. QED
    BY <2>1 DEF SleepInv, SubscribersAreWoken
<1>2. ASSUME NEW t \in Tasks, RequestCancel(t) PROVE SleepInv'
  BY <1>2, CancelSleep DEF RequestCancel
<1>3. ASSUME NEW th \in Threads, NEW t \in Tasks, BeginPoll(th, t) PROVE SleepInv'
  BY <1>3, SleepFrame DEF BeginPoll, IInv, TypeOK
<1>4. ASSUME NEW th \in Threads, NEW t \in Tasks, Subscribe(th, t) PROVE SleepInv'
  <2> DEFINE q == on[th]
  <2>1. q \in present /\ q \in Tasks
    BY <1>4 DEF Subscribe, IInv, TypeOK, PollInv, Polls
  <2>2. /\ UNCHANGED <<present, state>> /\ asleep' = asleep \cup {q}
        /\ child'[q] = t /\ \A x \in Tasks : x # q => child'[x] = child[x]
    BY <1>4, <2>1 DEF Subscribe, IInv, TypeOK
  <2>3. wake_queue \subseteq wake_queue' /\ (state[t] \in Terminal => q \in wake_queue')
    BY <1>4 DEF Subscribe
  <2>4. ASSUME NEW p \in asleep', NEW c \in present, child'[p] = c, state[c] \in {"Ready", "Failed"}
        PROVE  p \in wake_queue'
    <3>1. CASE p = q
      BY <2>2, <2>3, <2>4, <3>1 DEF Terminal
    <3>2. CASE p # q
      BY <2>2, <2>3, <2>4, <3>2 DEF SleepInv, SubscribersAreWoken, IInv, TypeOK
    <3>3. QED
      BY <3>1, <3>2
  <2>5. QED
    BY <2>1, <2>2, <2>4 DEF SleepInv, SubscribersAreWoken
<1>5. ASSUME NEW th \in Threads, NEW t \in Tasks, BeginCancel(th, t) PROVE SleepInv'
  BY <1>5, CancelSleep DEF BeginCancel
<1>6. ASSUME NEW th \in Threads, NEW t \in Tasks, Wake(th, t) PROVE SleepInv'
  BY <1>6, SleepFrame DEF Wake
<1>7. ASSUME NEW th \in Threads, SubscribeWakes(th) PROVE SleepInv'
  BY <1>7, SleepFrame DEF SubscribeWakes
<1>8. ASSUME NEW th \in Threads, FinishPending(th) PROVE SleepInv'
  BY <1>8, SleepFrame DEF FinishPending, IInv, TypeOK
<1>9. ASSUME NEW th \in Threads, FinishReady(th) PROVE SleepInv'
  BY <1>9, FinishSleep DEF FinishReady, Terminal
<1>10. ASSUME NEW th \in Threads, FinishFailed(th) PROVE SleepInv'
  BY <1>10, FinishSleep DEF FinishFailed, Terminal
<1>11. ASSUME NEW th \in Threads, FinishCancelled(th) PROVE SleepInv'
  BY <1>11, FinishSleep DEF FinishCancelled, Terminal
<1>12. ASSUME NEW th \in Threads, InvokeDrop(th) PROVE SleepInv'
  BY <1>12, SleepFrame DEF InvokeDrop
<1>13. ASSUME NEW th \in Threads, CompleteDrop(th) PROVE SleepInv'
  BY <1>13, SleepFrame DEF CompleteDrop
<1>14. ASSUME NEW th \in Threads, TakeWakes(th) PROVE SleepInv'
  BY <1>14, SleepFrame DEF TakeWakes
<1>15. ASSUME NEW th \in Threads, CancelDrop(th) PROVE SleepInv'
  BY <1>15, CancelDropFacts, SleepFrame
<1>16. ASSUME NEW th \in Threads, CancelNothing(th) PROVE SleepInv'
  BY <1>16, SleepFrame DEF CancelNothing
<1>17. ASSUME NEW th \in Threads, CancelStale(th) PROVE SleepInv'
  BY <1>17, SleepFrame DEF CancelStale
<1>18. CASE Reset
  <2>1. /\ present' \subseteq present /\ asleep' = asleep \cap present'
        /\ wake_queue' = wake_queue \cap present' /\ state' = state
    BY <1>18 DEF Reset
  <2>2. \A x \in Tasks : x \in present' => child'[x] = child[x]
    BY <1>18 DEF Reset
  <2>3. QED
    BY <2>1, <2>2 DEF SleepInv, SubscribersAreWoken, IInv, TypeOK
<1>19. ASSUME NEW t \in Tasks, TaskFail(t) PROVE SleepInv'
  BY <1>19, SleepFrame DEF TaskFail
<1>20. CASE UNCHANGED vars
  BY <1>20, SleepFrame DEF vars
<1>21. QED
  BY <1>1, <1>2, <1>3, <1>4, <1>5, <1>6, <1>7, <1>8, <1>9, <1>10, <1>11, <1>12, <1>13, <1>14, <1>15, <1>16, <1>17, <1>18, <1>19, <1>20 DEF Next

\* However a poll of the child and a subscription to it interleave, the coroutine
\* that awaits it is woken when it has returned or failed.
THEOREM NobodySleepsOverAResult == Spec => []SubscribersAreWoken
<1>1. Init => LinkInv /\ SleepInv
  BY NoneAssumption DEF Init, LinkInv, ParentsAreKnown, SleepInv, SubscribersAreWoken
<1>2. SleepInv => SubscribersAreWoken
  BY DEF SleepInv
<1>3. QED
  BY <1>1, <1>2, LinkStep, SleepStep, Invariant, PTL DEF Spec
=============================================================================
