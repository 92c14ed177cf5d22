--------------------- MODULE DistributedTrainingProofs ---------------------
(***************************************************************************)
(* Theorems about DistributedTraining, for any set of workers, any number  *)
(* of steps, of connections and of breaks.                                 *)
(***************************************************************************)
EXTENDS DistributedTraining, TLAPS

UpFrame ==
  [type : {"HELLO"}, worker : Workers]
  \cup [type : {"GRADIENTS"}, step : Nat, replica : Seq(Nat), loss : Losses]
  \cup {Beat}
DownFrame == {Assign, Done} \cup [type : {"ACK"}, round : Nat]

Attached == {"assign", "submit", "reply"}
Waiting == {"attach", "assign", "failed", "gave up", "confused"}

TypeOK ==
  /\ coord \in {"running", "ok", "Protocol", "Io", "WorkerLost"}
  /\ current_step \in Nat
  /\ pending \in [Workers -> Seq(Nat) \cup {None}]
  /\ bindings \in [Workers -> Conns \cup {None}]
  /\ conns \subseteq Conns
  /\ worker_id \in [Conns -> Workers \cup {None}]
  /\ link \in [Conns -> {"open", "cut"}]
  /\ up \in [Conns -> Seq(UpFrame)] /\ down \in [Conns -> Seq(DownFrame)]
  /\ wpc \in [Workers -> Attached \cup Waiting \cup {"done"}]
  /\ stream \in [Workers -> Conns \cup {None}]
  /\ attempts \in [Workers -> Nat] /\ acked_steps \in [Workers -> Nat]
  /\ replica \in [Workers -> Seq(Nat)]

\* A worker has a stream while it is attached, and none shares it.
Streams ==
  \A w \in Workers :
    /\ stream[w] # None <=> wpc[w] \in Attached
    /\ \A v \in Workers : stream[v] = stream[w] /\ stream[w] # None => v = w

\* What is left of a connection when one of its ends is closed.
Ends ==
  \A t \in Conns :
    /\ t \notin conns => up[t] = <<>> /\ worker_id[t] = None /\ link[t] = "cut"
    /\ link[t] = "open" => \E w \in Workers : stream[w] = t
    /\ (\A w \in Workers : stream[w] # t) => down[t] = <<>>

Bound == \A w \in Workers, t \in Conns : bindings[w] = t <=> worker_id[t] = w

\* HELLO comes first, and gradients come after it.
GreetingOn(t) ==
  /\ \A i \in DOMAIN up[t] :
       /\ up[t][i].type = "HELLO" => /\ i = 1 /\ worker_id[t] = None
                                     /\ \A w \in Workers : stream[w] = t => up[t][i].worker = w
       /\ worker_id[t] = None => up[t][i].type # "GRADIENTS"
  /\ \A w \in Workers : stream[w] = t =>
       /\ worker_id[t] \in {w, None}
       /\ t \in conns /\ worker_id[t] = None => wpc[w] = "assign" /\ down[t] = <<>>
Greeting == \A t \in Conns : GreetingOn(t)

\* The rank w of connection t cannot move on before the coordinator answers on t.
Stands(w, t) ==
  \/ stream[w] = t /\ wpc[w] = "reply" /\ down[t] = <<>>
  \/ stream[w] # t /\ wpc[w] \in Waiting /\ (wpc[w] = "assign" => down[stream[w]] = <<>>)

\* A gradient on its way is the one its rank stands at.
FlightOf(w, t, i) ==
  /\ up[t][i].step = acked_steps[w] + 1 /\ up[t][i].replica = replica[w]
  /\ pending[w] = None /\ Stands(w, t)
  /\ \A j \in DOMAIN up[t] : up[t][j].type = "GRADIENTS" => j = i
InFlight ==
  \A w \in Workers, t \in Conns : worker_id[t] = w =>
    \A i \in DOMAIN up[t] : up[t][i].type = "GRADIENTS" => FlightOf(w, t, i)

\* So is one that waits for its round.
Contributed ==
  \A w \in Workers : pending[w] # None =>
    /\ bindings[w] # None /\ Stands(w, bindings[w])
    /\ pending[w] = replica[w] /\ acked_steps[w] = current_step

\* A worker has at most the one frame before it that it waits for.
Answers ==
  \A w \in Workers : stream[w] # None =>
    /\ Len(down[stream[w]]) <= 1
    /\ wpc[w] = "submit" => down[stream[w]] = <<>>
    /\ \A i \in DOMAIN down[stream[w]] :
         /\ wpc[w] = "assign" => down[stream[w]][i] = Assign
         /\ wpc[w] = "reply" =>
              /\ current_step = acked_steps[w] + 1
              /\ down[stream[w]][i] = IF DoneSent THEN Done ELSE Ack(current_step)

Progress ==
  \A w \in Workers :
    /\ acked_steps[w] <= current_step /\ current_step <= acked_steps[w] + 1
    /\ wpc[w] = "done" => acked_steps[w] = Steps /\ replica[w] = Rounds(Steps - 1)
    /\ wpc[w] # "done" => acked_steps[w] < Steps /\ replica[w] = Rounds(acked_steps[w])

\* No worker got a frame that it did not expect.
NobodyConfused == \A w \in Workers : wpc[w] # "confused"

IInv ==
  /\ TypeOK /\ Streams /\ Ends /\ Bound /\ Greeting /\ InFlight /\ Contributed /\ Answers
  /\ Progress /\ NobodyConfused

\* Nothing above depends on which losses the workers get.
LossOK == loss \in [Workers -> Losses]

-----------------------------------------------------------------------------
(* Facts about the state                                                   *)

\* A worker that is attached has a connection of its own.
LEMMA AttachedStream ==
  ASSUME TypeOK, Streams, NEW w \in Workers, wpc[w] \in Attached
  PROVE  /\ stream[w] \in Conns
         /\ \A v \in Workers : stream[v] = stream[w] => v = w
  BY Zenon DEF TypeOK, Streams

LEMMA NoneIsNone == None \notin Workers /\ None \notin Nat /\ None \notin Seq(Nat) /\ None \notin Conns
  BY TrainingAssumption DEF Conns

LEMMA AppendItems ==
  ASSUME NEW S, NEW q \in Seq(S), NEW e \in S
  PROVE  /\ Append(q, e) \in Seq(S)
         /\ \A i \in DOMAIN Append(q, e) :
              \/ i \in DOMAIN q /\ Append(q, e)[i] = q[i]
              \/ i = Len(q) + 1 /\ i \notin DOMAIN q /\ Append(q, e)[i] = e
         /\ q = <<>> => Len(Append(q, e)) = 1
  OBVIOUS

LEMMA TailItems ==
  ASSUME NEW S, NEW q \in Seq(S), q # <<>>
  PROVE  /\ Tail(q) \in Seq(S) /\ Head(q) \in S /\ Head(q) = q[1] /\ 1 \in DOMAIN q
         /\ \A i \in DOMAIN Tail(q) : i + 1 \in DOMAIN q /\ Tail(q)[i] = q[i + 1] /\ i # 0
         /\ Len(q) <= 1 => Tail(q) = <<>>
  OBVIOUS

LEMMA PrefixItems ==
  ASSUME NEW S, NEW q \in Seq(S), NEW p \in Prefixes(q)
  PROVE  /\ p \in Seq(S) /\ Len(p) <= Len(q)
         /\ \A i \in DOMAIN p : i \in DOMAIN q /\ p[i] = q[i]
         /\ q = <<>> => p = <<>>
  BY DEF Prefixes

\* The frames of a that count are frames of b.
Kept(a, b) ==
  \A i \in DOMAIN a : a[i].type \in {"HELLO", "GRADIENTS"} => i \in DOMAIN b /\ a[i] = b[i]

LEMMA KeptSame ==
  ASSUME NEW a
  PROVE  Kept(a, a)
  BY Zenon DEF Kept

LEMMA GreetingLocal ==
  ASSUME NEW t \in Conns, GreetingOn(t), Kept(up'[t], up[t]), worker_id'[t] = worker_id[t],
         t \in conns' => t \in conns, down[t] = <<>> => down'[t] = <<>>,
         \A w \in Workers : stream'[w] = t => stream[w] = t /\ wpc'[w] = wpc[w]
  PROVE  GreetingOn(t)'
<1>1. \A i \in DOMAIN up'[t] :
        /\ up'[t][i].type = "HELLO" =>
             /\ i = 1 /\ worker_id'[t] = None
             /\ \A w \in Workers : stream'[w] = t => up'[t][i].worker = w
        /\ worker_id'[t] = None => up'[t][i].type # "GRADIENTS"
  BY DEF GreetingOn, Kept
<1>2. \A w \in Workers : stream'[w] = t =>
        /\ worker_id'[t] \in {w, None}
        /\ t \in conns' /\ worker_id'[t] = None => wpc'[w] = "assign" /\ down'[t] = <<>>
  BY DEF GreetingOn
<1>q. QED
  BY Zenon, <1>1, <1>2 DEF GreetingOn

LEMMA FlightLocal ==
  ASSUME InFlight, NEW w \in Workers, NEW t \in Conns, worker_id[t] = w, Kept(up'[t], up[t]),
         NEW i \in DOMAIN up'[t], up'[t][i].type = "GRADIENTS",
         acked_steps'[w] = acked_steps[w], replica'[w] = replica[w],
         pending[w] = None => pending'[w] = None, Stands(w, t) => Stands(w, t)'
  PROVE  FlightOf(w, t, i)'
<1>1. /\ i \in DOMAIN up[t] /\ up'[t][i] = up[t][i]
      /\ \A j \in DOMAIN up'[t] : up'[t][j].type = "GRADIENTS" => j \in DOMAIN up[t] /\ up'[t][j] = up[t][j]
  BY Zenon DEF Kept
<1>2. FlightOf(w, t, i)
  BY Zenon, <1>1 DEF InFlight
<1>q. QED
  BY Zenon, <1>1, <1>2 DEF FlightOf

LEMMA RoundsGrow ==
  ASSUME NEW n \in Nat
  PROVE  Rounds(n) \in Seq(Nat) /\ Append(Rounds(n), n + 1) = Rounds(n + 1)
  BY DEF Rounds

\* The frame before a worker is the one it waits for, and the only one.
LEMMA AnswerRead ==
  ASSUME IInv, NEW w \in Workers, wpc[w] \in {"assign", "reply"}, Frames(w) # <<>>
  PROVE  /\ Tail(Frames(w)) = <<>>
         /\ wpc[w] = "assign" => Head(Frames(w)) = Assign
         /\ wpc[w] = "reply" =>
              /\ current_step = acked_steps[w] + 1
              /\ Head(Frames(w)) = IF DoneSent THEN Done ELSE Ack(current_step)
<1>1. stream[w] \in Conns /\ stream[w] # None
  BY Zenon, AttachedStream, NoneIsNone DEF IInv, Attached
<1>2. Frames(w) \in Seq(DownFrame) /\ Len(Frames(w)) <= 1
  BY Zenon, <1>1 DEF IInv, TypeOK, Frames, Answers
<1>3. Tail(Frames(w)) = <<>> /\ Head(Frames(w)) = Frames(w)[1] /\ 1 \in DOMAIN Frames(w)
  BY Zenon, <1>2, TailItems
<1>q. QED
  BY Zenon, <1>1, <1>3 DEF IInv, Answers, Frames

\* A worker that is about to move on has no gradient with the coordinator.
LEMMA NotStanding ==
  ASSUME IInv, NEW w \in Workers,
         \/ wpc[w] = "submit"
         \/ wpc[w] \in {"assign", "reply"} /\ down[stream[w]] # <<>>
  PROVE  /\ pending[w] = None
         /\ \A t \in Conns : worker_id[t] = w => \A i \in DOMAIN up[t] : up[t][i].type # "GRADIENTS"
<1>1. \A t : ~Stands(w, t)
  BY Zenon DEF Stands, Waiting
<1>q. QED
  BY Zenon, <1>1 DEF IInv, InFlight, FlightOf, Contributed

-----------------------------------------------------------------------------
(* The worker's steps                                                      *)

\* A worker drops its stream, at a point where it has nothing to read that it still
\* needs, or with the last answer.
LEMMA LeaveKeeps ==
  ASSUME IInv, NEW w \in Workers, wpc[w] \in Attached, Leave(w),
         NEW p \in {"attach", "failed", "done"},
         wpc' = [wpc EXCEPT ![w] = p],
         p = "done" => /\ wpc[w] = "reply" /\ down[stream[w]] # <<>>
                       /\ acked_steps[w] + 1 = Steps /\ current_step = Steps,
         acked_steps' = IF p = "done" THEN [acked_steps EXCEPT ![w] = Steps] ELSE acked_steps,
         UNCHANGED <<coordVars, attempts, replica>>
  PROVE  IInv'
<1> DEFINE t == stream[w]
<1>0. /\ TypeOK /\ Streams /\ Ends /\ Bound /\ Greeting
      /\ InFlight /\ Contributed /\ Answers /\ Progress /\ NobodyConfused
  BY Zenon DEF IInv
<1>t. t \in Conns /\ \A v \in Workers : stream[v] = t => v = w
  BY Zenon, <1>0, AttachedStream
<1>u. /\ UNCHANGED <<coord, lost, current_step, pending, bindings, conns, worker_id, up, replica, attempts>>
      /\ wpc'[w] = p /\ stream'[w] = None /\ link'[t] = "cut" /\ down'[t] = <<>>
      /\ \A v \in Workers \ {w} : wpc'[v] = wpc[v] /\ stream'[v] = stream[v] /\ acked_steps'[v] = acked_steps[v]
      /\ \A s \in Conns \ {t} : link'[s] = link[s] /\ down'[s] = down[s]
      /\ acked_steps'[w] = IF p = "done" THEN Steps ELSE acked_steps[w]
  BY Zenon, <1>0, <1>t DEF Leave, TypeOK, coordVars
<1>1. TypeOK'
  <2>1. wpc' \in [Workers -> Attached \cup Waiting \cup {"done"}]
    BY Zenon, <1>0 DEF TypeOK, Waiting
  <2>2. stream' \in [Workers -> Conns \cup {None}] /\ link' \in [Conns -> {"open", "cut"}]
    BY Zenon, <1>0, <1>t DEF TypeOK, Leave
  <2>3. down' \in [Conns -> Seq(DownFrame)]
    BY <1>0, <1>t DEF TypeOK, Leave
  <2>4. acked_steps' \in [Workers -> Nat]
    BY Zenon, <1>0, TrainingAssumption DEF TypeOK
  <2>q. QED
    BY Zenon, <1>0, <1>u, <2>1, <2>2, <2>3, <2>4 DEF TypeOK
<1>2. Streams'
  BY <1>0, <1>t, <1>u DEF Streams, Attached
<1>3. Ends'
  <2> SUFFICES ASSUME NEW s \in Conns
               PROVE  /\ s \notin conns => up[s] = <<>> /\ worker_id[s] = None /\ link'[s] = "cut"
                      /\ link'[s] = "open" => \E v \in Workers : stream'[v] = s
                      /\ (\A v \in Workers : stream'[v] # s) => down'[s] = <<>>
    BY Zenon, <1>u DEF Ends
  <2>1. CASE s = t
    BY Zenon, <1>0, <1>u, <2>1 DEF Ends
  <2>2. CASE s # t
    BY <1>0, <1>t, <1>u, <2>2 DEF Ends
  <2>q. QED
    BY Zenon, <2>1, <2>2
<1>4. Bound'
  BY <1>0, <1>u DEF Bound
<1>5. Greeting'
  BY <1>0, <1>t, <1>u, NoneIsNone DEF Greeting, GreetingOn
<1>s. \A v \in Workers, s \in Conns : Stands(v, s) =>
        Stands(v, s)' /\ acked_steps'[v] = acked_steps[v]
  <2> SUFFICES ASSUME NEW v \in Workers, NEW s \in Conns, Stands(v, s)
               PROVE  Stands(v, s)' /\ acked_steps'[v] = acked_steps[v]
    BY Zenon
  <2>1. CASE v = w
    <3>1. p # "done"
      BY Zenon, <2>1 DEF Stands, Waiting
    <3>q. QED
      BY Zenon, <1>u, <2>1, <3>1, NoneIsNone DEF Stands, Waiting
  <2>2. CASE v # w
    <3>1. wpc[v] = "assign" => stream[v] \in Conns \ {t}
      BY Zenon, <1>0, <1>t, <2>2 DEF Streams, TypeOK, Attached
    <3>2. stream'[v] = stream[v] /\ wpc'[v] = wpc[v] /\ acked_steps'[v] = acked_steps[v]
      BY Zenon, <1>u, <2>2
    <3>3. down[s] = <<>> => down'[s] = <<>>
      BY Zenon, <1>u
    <3>q. QED
      BY <1>u, <3>1, <3>2, <3>3 DEF Stands
  <2>q. QED
    BY Zenon, <2>1, <2>2
<1>6. InFlight'
  BY <1>0, <1>u, <1>s DEF InFlight, FlightOf
<1>7. Contributed'
  BY <1>0, <1>u, <1>s DEF Contributed, TypeOK
<1>8. Answers'
  <2> SUFFICES ASSUME NEW v \in Workers, stream'[v] # None
               PROVE  /\ Len(down'[stream'[v]]) <= 1
                      /\ wpc'[v] = "submit" => down'[stream'[v]] = <<>>
                      /\ \A i \in DOMAIN down'[stream'[v]] :
                           /\ wpc'[v] = "assign" => down'[stream'[v]][i] = Assign
                           /\ wpc'[v] = "reply" =>
                                /\ current_step = acked_steps'[v] + 1
                                /\ down'[stream'[v]][i] = IF DoneSent THEN Done ELSE Ack(current_step)
    BY Zenon, <1>u DEF Answers, DoneSent
  <2>1. v # w
    BY Zenon, <1>u
  <2>2. stream'[v] = stream[v] /\ stream[v] \in Conns \ {t}
    BY ZenonT(30), <1>0, <1>t, <1>u, <2>1 DEF TypeOK
  <2>3. down'[stream'[v]] = down[stream[v]] /\ wpc'[v] = wpc[v] /\ acked_steps'[v] = acked_steps[v]
    BY Zenon, <1>u, <2>1, <2>2
  <2>q. QED
    BY ZenonT(60), <1>0, <2>2, <2>3 DEF Answers
<1>9. Progress'
  <2>1. acked_steps[w] \in Nat /\ Steps \in Nat /\ wpc[w] # "done"
    BY Zenon, <1>0, TrainingAssumption DEF TypeOK, Attached
  <2>2. p = "done" => acked_steps[w] = Steps - 1
    BY <2>1
  <2>q. QED
    BY <1>0, <1>u, <2>1, <2>2, TrainingAssumption DEF Progress
<1>10. NobodyConfused'
  BY Zenon, <1>0, <1>u DEF NobodyConfused
<1>q. QED
  BY Zenon, <1>1, <1>2, <1>3, <1>4, <1>5, <1>6, <1>7, <1>8, <1>9, <1>10 DEF IInv

LEMMA AttemptFailsKeeps ==
  ASSUME IInv, NEW w \in Workers, AttemptFails(w)
  PROVE  IInv'
<1>1. /\ wpc[w] \in Attached /\ Leave(w) /\ wpc' = [wpc EXCEPT ![w] = "attach"]
      /\ acked_steps' = acked_steps /\ UNCHANGED <<coordVars, attempts, replica>>
  BY Zenon DEF AttemptFails, Attached
<1>q. QED
  BY Zenon, <1>1, LeaveKeeps

LEMMA ReattachKeeps ==
  ASSUME IInv, NEW w \in Workers, Reattach(w)
  PROVE  IInv'
<1>1. /\ wpc[w] \in Attached /\ Leave(w) /\ wpc' = [wpc EXCEPT ![w] = "attach"]
      /\ acked_steps' = acked_steps /\ UNCHANGED <<coordVars, attempts, replica>>
  BY Zenon DEF Reattach, Attached
<1>q. QED
  BY Zenon, <1>1, LeaveKeeps

LEMMA WorkerFailsKeeps ==
  ASSUME IInv, NEW w \in Workers, WorkerFails(w)
  PROVE  IInv'
<1>1. /\ wpc[w] \in Attached /\ Leave(w) /\ wpc' = [wpc EXCEPT ![w] = "failed"]
      /\ acked_steps' = acked_steps /\ UNCHANGED <<coordVars, attempts, replica>>
  BY Zenon DEF WorkerFails, Attached
<1>q. QED
  BY Zenon, <1>1, LeaveKeeps

\* Every frame that a worker waiting for its answer finds is ACK or DONE, and DONE is
\* the answer to the last step only.
LEMMA ReadDoneKeeps ==
  ASSUME IInv, NEW w \in Workers, ReadDone(w)
  PROVE  IInv'
<1>0. /\ wpc[w] = "reply" /\ Frames(w) # <<>> /\ Head(Frames(w)).type # "ACK"
  BY Zenon DEF ReadDone
<1>a. Head(Frames(w)) = Done
  BY <1>0, AnswerRead DEF Done, Ack
<1>1. /\ wpc[w] = "reply" /\ Frames(w) # <<>> /\ Head(Frames(w)) = Done
      /\ Leave(w) /\ wpc' = [wpc EXCEPT ![w] = "done"]
      /\ acked_steps' = [acked_steps EXCEPT ![w] = Steps]
      /\ UNCHANGED <<coordVars, attempts, replica>>
  BY Zenon, <1>0, <1>a DEF ReadDone
<1>2. current_step = acked_steps[w] + 1 /\ DoneSent
  BY <1>1, AnswerRead DEF Done, Ack
<1>3. acked_steps[w] \in Nat /\ current_step \in Nat /\ Steps \in Nat /\ acked_steps[w] < Steps
  BY Zenon, <1>1, TrainingAssumption DEF IInv, TypeOK, Progress
<1>4. acked_steps[w] + 1 = Steps /\ current_step = Steps
  BY <1>2, <1>3 DEF DoneSent
<1>5. wpc[w] \in Attached /\ down[stream[w]] # <<>>
  BY Zenon, <1>1 DEF Attached, Frames
<1>q. QED
  BY Zenon, <1>1, <1>4, <1>5, LeaveKeeps

\* A worker reads the frame it waits for, and goes on to its next step.
LEMMA ReadKeeps ==
  ASSUME IInv, NEW w \in Workers, wpc[w] \in {"assign", "reply"}, Frames(w) # <<>>, Read(w),
         wpc' = [wpc EXCEPT ![w] = "submit"],
         NEW n \in Nat, n < Steps, n <= current_step, current_step <= n + 1,
         acked_steps' = [acked_steps EXCEPT ![w] = n],
         replica' = [replica EXCEPT ![w] = Rounds(n)],
         attempts' \in [Workers -> Nat], UNCHANGED coordVars
  PROVE  IInv'
<1> DEFINE t == stream[w]
<1>0. /\ TypeOK /\ Streams /\ Ends /\ Bound /\ Greeting
      /\ InFlight /\ Contributed /\ Answers /\ Progress /\ NobodyConfused
  BY Zenon DEF IInv
<1>t. t \in Conns /\ \A v \in Workers : stream[v] = t => v = w
  BY Zenon, <1>0, AttachedStream DEF Attached
<1>n. down[t] # <<>> /\ Tail(down[t]) = <<>>
  BY Zenon, AnswerRead DEF Frames
<1>u. /\ UNCHANGED <<coord, lost, current_step, pending, bindings, conns, worker_id, up, link, stream>>
      /\ wpc'[w] = "submit" /\ down'[t] = <<>> /\ acked_steps'[w] = n /\ replica'[w] = Rounds(n)
      /\ \A v \in Workers \ {w} : /\ wpc'[v] = wpc[v] /\ acked_steps'[v] = acked_steps[v]
                                  /\ replica'[v] = replica[v]
      /\ \A s \in Conns \ {t} : down'[s] = down[s]
  BY <1>0, <1>t, <1>n DEF Read, TypeOK, coordVars
<1>1. TypeOK'
  <2>1. wpc' \in [Workers -> Attached \cup Waiting \cup {"done"}]
    BY Zenon, <1>0 DEF TypeOK, Attached
  <2>2. down' \in [Conns -> Seq(DownFrame)]
    BY <1>0, <1>t, <1>n DEF TypeOK, Read
  <2>3. acked_steps' \in [Workers -> Nat] /\ replica' \in [Workers -> Seq(Nat)]
    BY Zenon, <1>0, RoundsGrow DEF TypeOK
  <2>q. QED
    BY Zenon, <1>0, <1>u, <2>1, <2>2, <2>3 DEF TypeOK
<1>2. Streams'
  BY Zenon, <1>0, <1>t, <1>u DEF Streams, Attached
<1>3. Ends'
  BY <1>0, <1>t, <1>u DEF Ends
<1>4. Bound'
  BY <1>0, <1>u DEF Bound
<1>5. Greeting'
  BY <1>0, <1>t, <1>u, <1>n DEF Greeting, GreetingOn
<1>m. /\ pending[w] = None
      /\ \A s \in Conns : worker_id[s] = w => \A i \in DOMAIN up[s] : up[s][i].type # "GRADIENTS"
  BY Zenon, <1>n, NotStanding
<1>s. \A v \in Workers \ {w}, s \in Conns : Stands(v, s) => Stands(v, s)'
  <2> SUFFICES ASSUME NEW v \in Workers \ {w}, NEW s \in Conns, Stands(v, s)
               PROVE  Stands(v, s)'
    BY Zenon
  <2>1. wpc[v] = "assign" => stream[v] \in Conns \ {t}
    BY Zenon, <1>0, <1>t DEF Streams, TypeOK, Attached
  <2>2. stream'[v] = stream[v] /\ wpc'[v] = wpc[v]
    BY Zenon, <1>u
  <2>3. down[s] = <<>> => down'[s] = <<>>
    BY Zenon, <1>u
  <2>q. QED
    BY Zenon, <1>u, <2>1, <2>2, <2>3 DEF Stands
<1>6. InFlight'
  BY <1>0, <1>u, <1>s, <1>m DEF InFlight, FlightOf
<1>7. Contributed'
  BY <1>0, <1>u, <1>s, <1>m DEF Contributed, TypeOK
<1>8. Answers'
  <2> SUFFICES ASSUME NEW v \in Workers, stream[v] # None
               PROVE  /\ Len(down'[stream[v]]) <= 1
                      /\ wpc'[v] = "submit" => down'[stream[v]] = <<>>
                      /\ \A i \in DOMAIN down'[stream[v]] :
                           /\ wpc'[v] = "assign" => down'[stream[v]][i] = Assign
                           /\ wpc'[v] = "reply" =>
                                /\ current_step = acked_steps'[v] + 1
                                /\ down'[stream[v]][i] = IF DoneSent THEN Done ELSE Ack(current_step)
    BY ZenonT(30), <1>u DEF Answers, DoneSent
  <2>1. CASE v = w
    <3>1. Len(<<>>) <= 1 /\ DOMAIN <<>> = {}
      OBVIOUS
    <3>q. QED
      BY Zenon, <1>u, <2>1, <3>1
  <2>2. CASE v # w
    <3>1. stream[v] \in Conns \ {t}
      BY Zenon, <1>0, <1>t, <2>2 DEF TypeOK
    <3>2. down'[stream[v]] = down[stream[v]] /\ wpc'[v] = wpc[v] /\ acked_steps'[v] = acked_steps[v]
      BY Zenon, <1>u, <2>2, <3>1
    <3>q. QED
      BY ZenonT(30), <1>0, <3>2 DEF Answers
  <2>q. QED
    BY Zenon, <2>1, <2>2
<1>9. Progress'
  BY <1>0, <1>u DEF Progress
<1>10. NobodyConfused'
  BY Zenon, <1>0, <1>u DEF NobodyConfused
<1>q. QED
  BY Zenon, <1>1, <1>2, <1>3, <1>4, <1>5, <1>6, <1>7, <1>8, <1>9, <1>10 DEF IInv

LEMMA ReadAssignKeeps ==
  ASSUME IInv, NEW w \in Workers, ReadAssign(w)
  PROVE  IInv'
<1>1. /\ wpc[w] = "assign" /\ Frames(w) # <<>> /\ Read(w) /\ wpc' = [wpc EXCEPT ![w] = "submit"]
      /\ acked_steps' = acked_steps /\ replica' = replica
      /\ attempts' = [attempts EXCEPT ![w] = 0] /\ UNCHANGED coordVars
  BY Zenon DEF ReadAssign
<1>2. /\ acked_steps[w] \in Nat /\ acked_steps[w] < Steps /\ replica[w] = Rounds(acked_steps[w])
      /\ acked_steps[w] <= current_step /\ current_step <= acked_steps[w] + 1
  BY Zenon, <1>1 DEF IInv, Progress, TypeOK
<1>3. /\ acked_steps' = [acked_steps EXCEPT ![w] = acked_steps[w]]
      /\ replica' = [replica EXCEPT ![w] = Rounds(acked_steps[w])]
      /\ attempts' \in [Workers -> Nat]
  BY Zenon, <1>1, <1>2 DEF IInv, TypeOK
<1>4. wpc[w] \in {"assign", "reply"}
  BY Zenon, <1>1
<1>q. QED
  BY Zenon, <1>1, <1>2, <1>3, <1>4, ReadKeeps

\* An ACK is for the step that was submitted, and the last answer is never an ACK.
LEMMA ReadAckKeeps ==
  ASSUME IInv, NEW w \in Workers, ReadAck(w)
  PROVE  IInv'
<1>1. /\ wpc[w] = "reply" /\ Frames(w) # <<>> /\ Head(Frames(w)).type = "ACK"
      /\ replica' = [replica EXCEPT ![w] = Append(replica[w], Head(Frames(w)).round)]
      /\ acked_steps' = [acked_steps EXCEPT ![w] = acked_steps[w] + 1]
      /\ acked_steps[w] + 1 < Steps => Read(w) /\ wpc' = [wpc EXCEPT ![w] = "submit"]
      /\ UNCHANGED <<coordVars, attempts>>
  BY Zenon DEF ReadAck
<1>2. /\ current_step = acked_steps[w] + 1
      /\ Head(Frames(w)) = IF DoneSent THEN Done ELSE Ack(current_step)
  BY Zenon, <1>1, AnswerRead
<1>3. ~DoneSent /\ Head(Frames(w)).round = acked_steps[w] + 1
  BY <1>1, <1>2 DEF Done, Ack
<1>4. /\ acked_steps[w] \in Nat /\ replica[w] = Rounds(acked_steps[w]) /\ current_step \in Nat
      /\ Steps \in Nat
  BY Zenon, <1>1, TrainingAssumption DEF IInv, Progress, TypeOK
<1>5. acked_steps[w] + 1 < Steps /\ acked_steps[w] + 1 \in Nat
  BY <1>2, <1>3, <1>4 DEF DoneSent
<1>6. replica' = [replica EXCEPT ![w] = Rounds(acked_steps[w] + 1)]
  BY Zenon, <1>1, <1>3, <1>4, RoundsGrow
<1>7. attempts' \in [Workers -> Nat] /\ UNCHANGED coordVars /\ wpc[w] \in {"assign", "reply"}
  BY Zenon, <1>1 DEF IInv, TypeOK
<1>8. acked_steps[w] + 1 <= current_step /\ current_step <= acked_steps[w] + 1 + 1
  BY <1>2, <1>4
<1> DEFINE n == acked_steps[w] + 1
<1> HIDE DEF n
<1>9. /\ n \in Nat /\ n < Steps /\ n <= current_step /\ current_step <= n + 1
      /\ acked_steps' = [acked_steps EXCEPT ![w] = n] /\ replica' = [replica EXCEPT ![w] = Rounds(n)]
  BY Zenon, <1>1, <1>5, <1>6, <1>8 DEF n
<1>q. QED
  BY Zenon, <1>1, <1>5, <1>7, <1>9, ReadKeeps

\* A fresh connection carries HELLO and nothing else.
LEMMA ConnectKeeps ==
  ASSUME IInv, NEW w \in Workers, NEW t \in Conns, Connect(w, t)
  PROVE  IInv'
<1>0. /\ TypeOK /\ Streams /\ Ends /\ Bound /\ Greeting
      /\ InFlight /\ Contributed /\ Answers /\ Progress /\ NobodyConfused
  BY Zenon DEF IInv
<1>t. /\ t \notin conns /\ \A v \in Workers : stream[v] # t
      /\ up[t] = <<>> /\ worker_id[t] = None /\ down[t] = <<>>
  BY Zenon, <1>0 DEF Connect, Free, Ends
<1>u. /\ UNCHANGED <<coord, current_step, pending, bindings, worker_id, down, acked_steps, replica>>
      /\ wpc[w] = "attach" /\ wpc'[w] = "assign" /\ stream'[w] = t /\ conns' = conns \cup {t}
      /\ link'[t] = "open" /\ up'[t] = <<Hello(w)>>
      /\ \A v \in Workers \ {w} : wpc'[v] = wpc[v] /\ stream'[v] = stream[v]
      /\ \A s \in Conns \ {t} : link'[s] = link[s] /\ up'[s] = up[s]
  BY Zenon, <1>0 DEF Connect, TypeOK
<1>h. /\ Hello(w) \in UpFrame /\ <<Hello(w)>> \in Seq(UpFrame)
      /\ DOMAIN <<Hello(w)>> = {1} /\ <<Hello(w)>>[1] = Hello(w)
      /\ Hello(w).type = "HELLO" /\ Hello(w).worker = w
  BY DEF Hello, UpFrame
<1>1. TypeOK'
  <2>1. wpc' \in [Workers -> Attached \cup Waiting \cup {"done"}]
    BY Zenon, <1>0 DEF TypeOK, Attached, Connect
  <2>2. stream' \in [Workers -> Conns \cup {None}] /\ link' \in [Conns -> {"open", "cut"}]
    BY Zenon, <1>0 DEF TypeOK, Connect
  <2>3. up' \in [Conns -> Seq(UpFrame)]
    BY Zenon, <1>0, <1>h DEF TypeOK, Connect
  <2>4. attempts' \in [Workers -> Nat] /\ conns' \subseteq Conns
    BY <1>0 DEF TypeOK, Connect
  <2>q. QED
    BY Zenon, <1>0, <1>u, <2>1, <2>2, <2>3, <2>4 DEF TypeOK
<1>2. Streams'
  BY <1>0, <1>t, <1>u, NoneIsNone DEF Streams, Attached
<1>3. Ends'
  <2> SUFFICES ASSUME NEW s \in Conns
               PROVE  /\ s \notin conns' => up'[s] = <<>> /\ worker_id[s] = None /\ link'[s] = "cut"
                      /\ link'[s] = "open" => \E v \in Workers : stream'[v] = s
                      /\ (\A v \in Workers : stream'[v] # s) => down[s] = <<>>
    BY Zenon, <1>u DEF Ends
  <2>1. CASE s = t
    BY Zenon, <1>u, <2>1
  <2>2. CASE s # t
    <3>1. stream[w] # s
      BY <1>0, <1>u, NoneIsNone DEF Streams, Attached
    <3>q. QED
      BY <1>0, <1>u, <2>2, <3>1 DEF Ends
  <2>q. QED
    BY Zenon, <2>1, <2>2
<1>4. Bound'
  BY Zenon, <1>0, <1>u DEF Bound
<1>5. Greeting'
  <2> SUFFICES ASSUME NEW s \in Conns PROVE GreetingOn(s)'
    BY Zenon DEF Greeting
  <2>1. CASE s = t
    BY <1>t, <1>u, <1>h, <2>1 DEF GreetingOn
  <2>2. CASE s # t
    BY <1>0, <1>u, <2>2 DEF Greeting, GreetingOn
  <2>q. QED
    BY Zenon, <2>1, <2>2
<1>s. \A v \in Workers, s \in Conns : s # t /\ Stands(v, s) => Stands(v, s)'
  <2> SUFFICES ASSUME NEW v \in Workers, NEW s \in Conns, s # t, Stands(v, s)
               PROVE  Stands(v, s)'
    BY Zenon
  <2>1. CASE v = w
    BY Zenon, <1>t, <1>u, <2>1 DEF Stands, Waiting
  <2>2. CASE v # w
    BY Zenon, <1>u, <2>2 DEF Stands
  <2>q. QED
    BY Zenon, <2>1, <2>2
<1>6. InFlight'
  BY <1>0, <1>t, <1>u, <1>s, NoneIsNone DEF InFlight, FlightOf
<1>7. Contributed'
  <2> SUFFICES ASSUME NEW v \in Workers, pending[v] # None
               PROVE  /\ bindings[v] # None /\ Stands(v, bindings[v])'
                      /\ pending[v] = replica[v] /\ acked_steps[v] = current_step
    BY Zenon, <1>u DEF Contributed, Stands
  <2>1. bindings[v] \in Conns /\ Stands(v, bindings[v])
    BY Zenon, <1>0 DEF Contributed, TypeOK
  <2>2. bindings[v] # t
    BY <1>0, <1>t, <2>1, NoneIsNone DEF Bound
  <2>q. QED
    BY Zenon, <1>0, <1>s, <1>u, <2>1, <2>2 DEF Contributed, Stands
<1>8. Answers'
  BY <1>0, <1>t, <1>u DEF Answers, DoneSent
<1>9. Progress'
  BY Zenon, <1>0, <1>u DEF Progress
<1>10. NobodyConfused'
  BY Zenon, <1>0, <1>u DEF NobodyConfused
<1>q. QED
  BY Zenon, <1>1, <1>2, <1>3, <1>4, <1>5, <1>6, <1>7, <1>8, <1>9, <1>10 DEF IInv

\* Nothing but the number of an attempt changes.
LEMMA AttemptKeeps ==
  ASSUME IInv, attempts' \in [Workers -> Nat],
         UNCHANGED <<coord, current_step, pending, bindings, conns, worker_id, link, up, down,
                     wpc, stream, acked_steps, replica>>
  PROVE  IInv'
<1>1. TypeOK' /\ NobodyConfused'
  BY Zenon DEF IInv, TypeOK, NobodyConfused
<1>2. Streams' /\ Ends' /\ Bound'
  BY ZenonT(30) DEF IInv, Streams, Ends, Bound
<1>3. Greeting'
  BY ZenonT(30) DEF IInv, Greeting, GreetingOn
<1>s. \A v, s : Stands(v, s)' <=> Stands(v, s)
  BY Zenon DEF Stands
<1>4. InFlight'
  BY ZenonT(60), <1>s DEF IInv, InFlight, FlightOf
<1>5. Contributed'
  BY Zenon DEF IInv, Contributed, Stands
<1>6. Answers'
  BY Zenon DEF IInv, Answers, DoneSent
<1>7. Progress'
  BY Zenon DEF IInv, Progress
<1>q. QED
  BY Zenon, <1>1, <1>2, <1>3, <1>4, <1>5, <1>6, <1>7 DEF IInv

LEMMA ConnectFailsKeeps ==
  ASSUME IInv, NEW w \in Workers, ConnectFails(w)
  PROVE  IInv'
<1>1. UNCHANGED <<coord, current_step, pending, bindings, conns, worker_id, link, up, down,
                  wpc, stream, acked_steps, replica>>
  BY Zenon DEF ConnectFails, coordVars, netVars
<1>2. attempts' \in [Workers -> Nat]
  BY DEF IInv, ConnectFails, TypeOK
<1>q. QED
  BY Zenon, <1>1, <1>2, AttemptKeeps

LEMMA GiveUpKeeps ==
  ASSUME IInv, NEW w \in Workers, GiveUp(w)
  PROVE  IInv'
<1>0. /\ TypeOK /\ Streams /\ Ends /\ Bound /\ Greeting
      /\ InFlight /\ Contributed /\ Answers /\ Progress /\ NobodyConfused
  BY Zenon DEF IInv
<1>u. /\ UNCHANGED <<coord, current_step, pending, bindings, conns, worker_id, link, up, down,
                     stream, attempts, acked_steps, replica>>
      /\ wpc[w] = "attach" /\ wpc'[w] = "gave up" /\ stream[w] = None
      /\ \A v \in Workers \ {w} : wpc'[v] = wpc[v]
  BY Zenon, <1>0 DEF GiveUp, coordVars, netVars, TypeOK, Streams, Attached
<1>1. TypeOK'
  <2>1. wpc' \in [Workers -> Attached \cup Waiting \cup {"done"}]
    BY Zenon, <1>0 DEF TypeOK, GiveUp, Waiting
  <2>q. QED
    BY Zenon, <1>0, <1>u, <2>1 DEF TypeOK
<1>2. Streams'
  BY Zenon, <1>0, <1>u DEF Streams, Attached
<1>c. UNCHANGED <<pending, bindings, conns, worker_id, link, up, down, stream, acked_steps, replica>>
  BY Zenon, <1>u
<1>3. Ends' /\ Bound'
  <2>1. Ends'
    BY Zenon, <1>0, <1>c DEF Ends
  <2>2. Bound'
    BY Zenon, <1>0, <1>c DEF Bound
  <2>q. QED
    BY Zenon, <2>1, <2>2
<1>v. \A s \in Conns, v \in Workers : stream[v] = s => wpc'[v] = wpc[v]
  BY Zenon, <1>u, NoneIsNone
<1>4. Greeting'
  <2> SUFFICES ASSUME NEW s \in Conns PROVE GreetingOn(s)'
    BY Zenon DEF Greeting
  <2>1. /\ Kept(up'[s], up[s]) /\ worker_id'[s] = worker_id[s] /\ (s \in conns' => s \in conns)
        /\ down[s] = <<>> => down'[s] = <<>>
        /\ \A v \in Workers : stream'[v] = s => stream[v] = s /\ wpc'[v] = wpc[v]
    BY Zenon, <1>c, <1>v, KeptSame
  <2>q. QED
    BY Zenon, <1>0, <2>1, GreetingLocal DEF Greeting
<1>s. \A v \in Workers, s \in Conns : Stands(v, s) => Stands(v, s)'
  BY Zenon, <1>u, NoneIsNone DEF Stands, Waiting
<1>5. InFlight'
  BY <1>0, <1>c, <1>s DEF InFlight, FlightOf
<1>6. Contributed'
  BY <1>0, <1>u, <1>s DEF Contributed, TypeOK
<1>7. Answers'
  BY ZenonT(30), <1>0, <1>u DEF Answers, DoneSent
<1>8. Progress' /\ NobodyConfused'
  BY Zenon, <1>0, <1>u DEF Progress, NobodyConfused
<1>q. QED
  BY Zenon, <1>1, <1>2, <1>3, <1>4, <1>5, <1>6, <1>7, <1>8 DEF IInv

\* A worker submits on the connection its rank is bound to, or into the void.
LEMMA SubmitKeeps ==
  ASSUME IInv, LossOK, NEW w \in Workers, Submit(w)
  PROVE  IInv'
<1> DEFINE t == stream[w]
           g == Gradients(acked_steps[w] + 1, replica[w], loss[w])
<1>0. /\ TypeOK /\ Streams /\ Ends /\ Bound /\ Greeting
      /\ InFlight /\ Contributed /\ Answers /\ Progress /\ NobodyConfused
  BY Zenon DEF IInv
<1>t. /\ wpc[w] = "submit" /\ t \in Conns /\ \A v \in Workers : stream[v] = t => v = w
  BY Zenon, <1>0, AttachedStream DEF Submit, Attached
<1>u. /\ UNCHANGED <<coord, current_step, pending, bindings, conns, worker_id, link, down,
                     stream, attempts, acked_steps, replica>>
      /\ wpc'[w] = "reply" /\ \A v \in Workers \ {w} : wpc'[v] = wpc[v]
  BY Zenon, <1>0 DEF Submit, coordVars, TypeOK
<1>g. g \in UpFrame /\ g.type = "GRADIENTS" /\ g.step = acked_steps[w] + 1 /\ g.replica = replica[w]
  BY <1>0 DEF Gradients, UpFrame, TypeOK, LossOK
<1>p. /\ up' \in [Conns -> Seq(UpFrame)]
      /\ \A s \in Conns \ {t} : up'[s] = up[s]
      /\ link[t] = "cut" => up' = up
      /\ link[t] = "open" => up'[t] = Append(up[t], g)
  BY <1>0, <1>t, <1>g, AppendItems DEF Submit, TypeOK
<1>a. \A i \in DOMAIN Append(up[t], g) :
        \/ i \in DOMAIN up[t] /\ Append(up[t], g)[i] = up[t][i]
        \/ i = Len(up[t]) + 1 /\ i \notin DOMAIN up[t] /\ Append(up[t], g)[i] = g
  BY <1>0, <1>t, <1>g, AppendItems DEF TypeOK
<1>o. link[t] \in {"open", "cut"} /\ (link[t] = "open" => t \in conns /\ worker_id[t] = w)
  BY ZenonT(30), <1>0, <1>t DEF Ends, Greeting, GreetingOn, TypeOK
<1>m. /\ pending[w] = None /\ down[t] = <<>>
      /\ \A s \in Conns : worker_id[s] = w => \A i \in DOMAIN up[s] : up[s][i].type # "GRADIENTS"
  BY Zenon, <1>0, <1>t, NotStanding, NoneIsNone DEF Answers
<1>1. TypeOK'
  <2>1. wpc' \in [Workers -> Attached \cup Waiting \cup {"done"}]
    BY Zenon, <1>0 DEF TypeOK, Submit, Attached
  <2>q. QED
    BY Zenon, <1>0, <1>u, <1>p, <2>1 DEF TypeOK
<1>2. Streams'
  BY Zenon, <1>0, <1>t, <1>u DEF Streams, Attached
<1>3. Ends'
  BY <1>0, <1>t, <1>u, <1>p, <1>o DEF Ends
<1>4. Bound'
  BY Zenon, <1>0, <1>u DEF Bound
<1>5. Greeting'
  <2> SUFFICES ASSUME NEW s \in Conns PROVE GreetingOn(s)'
    BY Zenon DEF Greeting
  <2>1. CASE up'[s] = up[s]
    BY <1>0, <1>t, <1>u, <2>1 DEF Greeting, GreetingOn
  <2>2. CASE s = t /\ link[t] = "open"
    <3>1. worker_id[s] = w /\ worker_id[s] # None
      BY Zenon, <1>o, <2>2, NoneIsNone
    <3>2. \A i \in DOMAIN up'[s] : up'[s][i].type # "HELLO"
      <4>1. \A i \in DOMAIN up[t] : up[t][i].type # "HELLO"
        BY Zenon, <1>0, <1>t, <2>2, <3>1 DEF Greeting, GreetingOn
      <4>2. \A i \in DOMAIN Append(up[t], g) : Append(up[t], g)[i].type # "HELLO"
        BY Zenon, <1>a, <1>g, <4>1
      <4>q. QED
        BY Zenon, <1>p, <2>2, <4>2
    <3>q. QED
      BY Zenon, <1>t, <1>u, <2>2, <3>1, <3>2 DEF GreetingOn
  <2>q. QED
    BY Zenon, <1>p, <1>o, <2>1, <2>2
<1>s. \A v \in Workers \ {w}, s \in Conns : Stands(v, s) => Stands(v, s)'
  BY Zenon, <1>u DEF Stands
<1>6. InFlight'
  <2> SUFFICES ASSUME NEW v \in Workers, NEW s \in Conns, worker_id'[s] = v,
                      NEW i \in DOMAIN up'[s], up'[s][i].type = "GRADIENTS"
               PROVE  FlightOf(v, s, i)'
    BY Zenon DEF InFlight
  <2>1. CASE v # w
    <3>1. worker_id[s] = v /\ Kept(up'[s], up[s])
      BY Zenon, <1>p, <1>o, <1>u, <2>1, KeptSame
    <3>2. acked_steps'[v] = acked_steps[v] /\ replica'[v] = replica[v] /\ pending'[v] = pending[v]
      BY Zenon, <1>u
    <3>q. QED
      BY Zenon, <1>0, <1>s, <2>1, <3>1, <3>2, FlightLocal
  <2>2. CASE v = w
    <3>0. worker_id[s] = v
      BY Zenon, <1>u
    <3>1. s = t /\ link[t] = "open"
      BY Zenon, <1>p, <1>m, <1>o, <2>2, <3>0
    <3>2. i = Len(up[t]) + 1 /\ up'[s][i] = g
      BY ZenonT(30), <1>p, <1>a, <1>m, <2>2, <3>0, <3>1
    <3>3. \A j \in DOMAIN up'[s] : up'[s][j].type = "GRADIENTS" => j = i
      <4> SUFFICES ASSUME NEW j \in DOMAIN Append(up[t], g), Append(up[t], g)[j].type = "GRADIENTS"
                   PROVE  j = i
        BY Zenon, <1>p, <3>1
      <4>1. j \notin DOMAIN up[t]
        BY Zenon, <1>a, <1>m, <2>2, <3>0, <3>1
      <4>q. QED
        BY Zenon, <1>a, <3>2, <4>1
    <3>4. Stands(v, s)'
      BY Zenon, <1>u, <1>m, <2>2, <3>1 DEF Stands
    <3>q. QED
      BY Zenon, <1>g, <1>m, <1>u, <2>2, <3>2, <3>3, <3>4 DEF FlightOf
  <2>q. QED
    BY Zenon, <2>1, <2>2
<1>7. Contributed'
  BY ZenonT(30), <1>0, <1>u, <1>s, <1>m DEF Contributed, TypeOK
<1>8. Answers'
  BY <1>0, <1>t, <1>u, <1>m DEF Answers, DoneSent
<1>9. Progress'
  BY Zenon, <1>0, <1>t, <1>u DEF Progress
<1>10. NobodyConfused'
  BY Zenon, <1>0, <1>u DEF NobodyConfused
<1>q. QED
  BY Zenon, <1>1, <1>2, <1>3, <1>4, <1>5, <1>6, <1>7, <1>8, <1>9, <1>10 DEF IInv

LEMMA HeartbeatKeeps ==
  ASSUME IInv, NEW w \in Workers, Heartbeat(w)
  PROVE  IInv'
<1> DEFINE t == stream[w]
<1>0. /\ TypeOK /\ Streams /\ Ends /\ Bound /\ Greeting
      /\ InFlight /\ Contributed /\ Answers /\ Progress /\ NobodyConfused
  BY Zenon DEF IInv
<1>t. t \in Conns /\ link[t] = "open" /\ \A v \in Workers : stream[v] = t => v = w
  BY Zenon, <1>0, AttachedStream DEF Heartbeat, Attached
<1>u. UNCHANGED <<coord, current_step, pending, bindings, conns, worker_id, link, down,
                  wpc, stream, attempts, acked_steps, replica>>
  BY Zenon DEF Heartbeat, coordVars, workerVars
<1>b. Beat \in UpFrame /\ Beat.type \notin {"HELLO", "GRADIENTS"}
  BY Zenon DEF Beat, UpFrame
<1>p. /\ up' \in [Conns -> Seq(UpFrame)] /\ \A s \in Conns \ {t} : up'[s] = up[s]
      /\ up'[t] = Append(up[t], Beat)
  BY <1>0, <1>t, <1>b, AppendItems DEF Heartbeat, TypeOK
<1>a. \A s \in Conns : \A i \in DOMAIN up'[s] :
        \/ i \in DOMAIN up[s] /\ up'[s][i] = up[s][i]
        \/ up'[s][i] = Beat
  <2>1. \A i \in DOMAIN up'[t] : (i \in DOMAIN up[t] /\ up'[t][i] = up[t][i]) \/ up'[t][i] = Beat
    BY SMTT(60), <1>0, <1>t, <1>p, <1>b, AppendItems DEF TypeOK
  <2>q. QED
    BY Zenon, <1>p, <2>1
<1>1. TypeOK' /\ Streams' /\ Bound'
  BY <1>0, <1>u, <1>p DEF TypeOK, Streams, Bound
<1>2. Ends'
  BY ZenonT(30), <1>0, <1>t, <1>u, <1>p DEF Ends
<1>3. Greeting'
  BY <1>0, <1>u, <1>a, <1>b DEF Greeting, GreetingOn
<1>4. InFlight'
  BY <1>0, <1>u, <1>a, <1>b DEF InFlight, FlightOf, Stands
<1>5. Contributed' /\ Answers' /\ Progress' /\ NobodyConfused'
  BY ZenonT(30), <1>0, <1>u DEF Contributed, Stands, Answers, DoneSent, Progress, NobodyConfused
<1>q. QED
  BY Zenon, <1>1, <1>2, <1>3, <1>4, <1>5 DEF IInv

-----------------------------------------------------------------------------
(* Connections that go down                                                *)

LEMMA BreakKeeps ==
  ASSUME IInv, NEW t \in Conns, Break(t)
  PROVE  IInv'
<1>0. /\ TypeOK /\ Streams /\ Ends /\ Bound /\ Greeting
      /\ InFlight /\ Contributed /\ Answers /\ Progress /\ NobodyConfused
  BY Zenon DEF IInv
<1>u. UNCHANGED <<coord, current_step, pending, bindings, conns, worker_id,
                  wpc, stream, attempts, acked_steps, replica>>
  BY Zenon DEF Break, coordVars, workerVars
<1>c. PICK u \in Prefixes(up[t]), d \in Prefixes(down[t]) :
        up' = [up EXCEPT ![t] = u] /\ down' = [down EXCEPT ![t] = d]
  BY Zenon DEF Break
<1>i. /\ u \in Seq(UpFrame) /\ \A i \in DOMAIN u : i \in DOMAIN up[t] /\ u[i] = up[t][i]
      /\ up[t] = <<>> => u = <<>>
  BY <1>0, PrefixItems DEF TypeOK
<1>j. /\ d \in Seq(DownFrame) /\ Len(d) <= Len(down[t])
      /\ \A i \in DOMAIN d : i \in DOMAIN down[t] /\ d[i] = down[t][i]
      /\ down[t] = <<>> => d = <<>>
  BY <1>0, PrefixItems DEF TypeOK
<1>p. \A s \in Conns :
        /\ up'[s] = IF s = t THEN u ELSE up[s]
        /\ down'[s] = IF s = t THEN d ELSE down[s]
        /\ link'[s] = IF s = t THEN "cut" ELSE link[s]
  BY <1>0, <1>c DEF Break, TypeOK
<1>a. \A s \in Conns :
        /\ \A i \in DOMAIN up'[s] : i \in DOMAIN up[s] /\ up'[s][i] = up[s][i]
        /\ up[s] = <<>> => up'[s] = <<>>
  BY Zenon, <1>p, <1>i
<1>b. \A s \in Conns :
        /\ \A i \in DOMAIN down'[s] : i \in DOMAIN down[s] /\ down'[s][i] = down[s][i]
        /\ down[s] = <<>> => down'[s] = <<>>
  BY Zenon, <1>p, <1>j
<1>l. \A s \in Conns : link[s] = "cut" => link'[s] = "cut"
  BY Zenon, <1>p
<1>n. \A s \in Conns : Len(down[s]) <= 1 => Len(down'[s]) <= 1
  <2>1. Len(d) \in Nat /\ Len(down[t]) \in Nat
    BY <1>0, <1>j DEF TypeOK
  <2>q. QED
    BY <1>p, <1>j, <2>1
<1>1. TypeOK'
  <2>1. up' \in [Conns -> Seq(UpFrame)]
    BY Zenon, <1>0, <1>c, <1>i DEF TypeOK
  <2>2. down' \in [Conns -> Seq(DownFrame)]
    BY Zenon, <1>0, <1>c, <1>j DEF TypeOK
  <2>3. link' \in [Conns -> {"open", "cut"}]
    BY Zenon, <1>0 DEF Break, TypeOK
  <2>q. QED
    BY Zenon, <1>0, <1>u, <2>1, <2>2, <2>3 DEF TypeOK
<1>2. Streams' /\ Bound'
  BY Zenon, <1>0, <1>u DEF Streams, Bound
<1>3. Ends'
  BY ZenonT(30), <1>0, <1>u, <1>a, <1>b, <1>p DEF Ends
<1>k. \A s \in Conns : Kept(up'[s], up[s])
  BY Zenon, <1>a DEF Kept
<1>4. Greeting'
  <2> SUFFICES ASSUME NEW s \in Conns PROVE GreetingOn(s)'
    BY Zenon DEF Greeting
  <2>1. /\ worker_id'[s] = worker_id[s] /\ (s \in conns' => s \in conns)
        /\ down[s] = <<>> => down'[s] = <<>>
        /\ \A v \in Workers : stream'[v] = s => stream[v] = s /\ wpc'[v] = wpc[v]
    BY Zenon, <1>b, <1>u
  <2>q. QED
    BY Zenon, <1>0, <1>k, <2>1, GreetingLocal DEF Greeting
<1>s. \A v \in Workers, s \in Conns : Stands(v, s) => Stands(v, s)'
  <2> SUFFICES ASSUME NEW v \in Workers, NEW s \in Conns, Stands(v, s)
               PROVE  Stands(v, s)'
    BY Zenon
  <2>1. wpc[v] = "assign" => stream[v] \in Conns
    BY Zenon, <1>0 DEF Streams, TypeOK, Attached
  <2>q. QED
    BY Zenon, <1>u, <1>b, <2>1 DEF Stands
<1>5. InFlight'
  <2> SUFFICES ASSUME NEW v \in Workers, NEW s \in Conns, worker_id'[s] = v,
                      NEW i \in DOMAIN up'[s], up'[s][i].type = "GRADIENTS"
               PROVE  FlightOf(v, s, i)'
    BY Zenon DEF InFlight
  <2>1. /\ worker_id[s] = v /\ acked_steps'[v] = acked_steps[v] /\ replica'[v] = replica[v]
        /\ pending[v] = None => pending'[v] = None
    BY Zenon, <1>u
  <2>q. QED
    BY Zenon, <1>0, <1>k, <1>s, <2>1, FlightLocal
<1>6. Contributed'
  BY Zenon, <1>0, <1>u, <1>s DEF Contributed, TypeOK
<1>7. Answers'
  <2> SUFFICES ASSUME NEW v \in Workers, stream[v] # None
               PROVE  /\ Len(down'[stream[v]]) <= 1
                      /\ wpc[v] = "submit" => down'[stream[v]] = <<>>
                      /\ \A i \in DOMAIN down'[stream[v]] :
                           /\ wpc[v] = "assign" => down'[stream[v]][i] = Assign
                           /\ wpc[v] = "reply" =>
                                /\ current_step = acked_steps[v] + 1
                                /\ down'[stream[v]][i] = IF DoneSent THEN Done ELSE Ack(current_step)
    BY Zenon, <1>u DEF Answers, DoneSent
  <2>1. stream[v] \in Conns
    BY Zenon, <1>0 DEF TypeOK
  <2>2. Len(down'[stream[v]]) <= 1 /\ (wpc[v] = "submit" => down'[stream[v]] = <<>>)
    BY Zenon, <1>0, <1>b, <1>n, <2>1 DEF Answers
  <2>3. \A i \in DOMAIN down'[stream[v]] :
          i \in DOMAIN down[stream[v]] /\ down'[stream[v]][i] = down[stream[v]][i]
    BY Zenon, <1>b, <2>1
  <2>q. QED
    BY Zenon, <1>0, <2>2, <2>3 DEF Answers
<1>8. Progress' /\ NobodyConfused'
  BY Zenon, <1>0, <1>u DEF Progress, NobodyConfused
<1>q. QED
  BY Zenon, <1>1, <1>2, <1>3, <1>4, <1>5, <1>6, <1>7, <1>8 DEF IInv

\* The pending gradient goes with the connection it came over.
LEMMA RetireKeeps ==
  ASSUME IInv, NEW t \in Conns, Retire(t)
  PROVE  IInv'
<1>0. /\ TypeOK /\ Streams /\ Ends /\ Bound /\ Greeting
      /\ InFlight /\ Contributed /\ Answers /\ Progress /\ NobodyConfused
  BY Zenon DEF IInv
<1>u. /\ UNCHANGED <<coord, current_step, link, down, wpc, stream, attempts, acked_steps, replica>>
      /\ conns' = conns \ {t} /\ link[t] = "cut"
      /\ worker_id'[t] = None /\ up'[t] = <<>>
      /\ \A s \in Conns \ {t} : worker_id'[s] = worker_id[s] /\ up'[s] = up[s]
  BY Zenon, <1>0 DEF Retire, workerVars, TypeOK
<1>b. \A w \in Workers :
        /\ bindings'[w] = IF worker_id[t] = w THEN None ELSE bindings[w]
        /\ pending'[w] = IF worker_id[t] = w THEN None ELSE pending[w]
  BY Zenon, <1>0 DEF Retire, Bound
<1>1. TypeOK'
  <2>1. up' \in [Conns -> Seq(UpFrame)] /\ worker_id' \in [Conns -> Workers \cup {None}]
    BY <1>0 DEF TypeOK, Retire
  <2>2. bindings' \in [Workers -> Conns \cup {None}]
    BY Zenon, <1>0 DEF TypeOK, Retire
  <2>3. pending' \in [Workers -> Seq(Nat) \cup {None}]
    BY Zenon, <1>0 DEF TypeOK, Retire
  <2>q. QED
    BY Zenon, <1>0, <1>u, <2>1, <2>2, <2>3 DEF TypeOK
<1>2. Streams' /\ Progress' /\ NobodyConfused'
  BY Zenon, <1>0, <1>u DEF Streams, Progress, NobodyConfused
<1>3. Ends'
  BY Zenon, <1>0, <1>u DEF Ends
<1>4. Bound'
  BY SMTT(60), <1>0, <1>u, <1>b, NoneIsNone DEF Bound
<1>5. Greeting'
  <2> SUFFICES ASSUME NEW s \in Conns PROVE GreetingOn(s)'
    BY Zenon DEF Greeting
  <2>1. CASE s = t
    <3>1. DOMAIN <<>> = {}
      OBVIOUS
    <3>q. QED
      BY Zenon, <1>u, <2>1, <3>1 DEF GreetingOn
  <2>2. CASE s # t
    <3>1. Kept(up'[s], up[s]) /\ worker_id'[s] = worker_id[s]
      BY Zenon, <1>u, <2>2, KeptSame
    <3>2. /\ s \in conns' => s \in conns
          /\ down[s] = <<>> => down'[s] = <<>>
          /\ \A v \in Workers : stream'[v] = s => stream[v] = s /\ wpc'[v] = wpc[v]
      BY Zenon, <1>u
    <3>q. QED
      BY Zenon, <1>0, <3>1, <3>2, GreetingLocal DEF Greeting
  <2>q. QED
    BY Zenon, <2>1, <2>2
<1>s. \A v \in Workers, s \in Conns : Stands(v, s) => Stands(v, s)'
  BY Zenon, <1>u DEF Stands
<1>6. InFlight'
  <2> SUFFICES ASSUME NEW v \in Workers, NEW s \in Conns, worker_id'[s] = v,
                      NEW i \in DOMAIN up'[s], up'[s][i].type = "GRADIENTS"
               PROVE  FlightOf(v, s, i)'
    BY Zenon DEF InFlight
  <2>1. s # t
    BY Zenon, <1>u, NoneIsNone
  <2>2. Kept(up'[s], up[s]) /\ worker_id[s] = v
    BY Zenon, <1>u, <2>1, KeptSame
  <2>3. /\ acked_steps'[v] = acked_steps[v] /\ replica'[v] = replica[v]
        /\ pending[v] = None => pending'[v] = None
    BY Zenon, <1>b, <1>u
  <2>q. QED
    BY Zenon, <1>0, <1>s, <2>2, <2>3, FlightLocal
<1>7. Contributed'
  <2> SUFFICES ASSUME NEW v \in Workers, pending'[v] # None
               PROVE  /\ bindings'[v] # None /\ Stands(v, bindings[v])'
                      /\ pending'[v] = replica[v] /\ acked_steps[v] = current_step
    BY Zenon, <1>u DEF Contributed, Stands
  <2>1. pending'[v] = pending[v] /\ bindings'[v] = bindings[v]
    BY Zenon, <1>b
  <2>2. bindings[v] \in Conns /\ Stands(v, bindings[v])
    BY Zenon, <1>0, <2>1 DEF Contributed, TypeOK
  <2>3. Stands(v, bindings[v])'
    BY Zenon, <1>s, <2>1, <2>2 DEF Stands
  <2>q. QED
    BY Zenon, <1>0, <2>1, <2>2, <2>3 DEF Contributed
<1>8. Answers'
  BY Zenon, <1>0, <1>u DEF Answers, DoneSent
<1>q. QED
  BY Zenon, <1>1, <1>2, <1>3, <1>4, <1>5, <1>6, <1>7, <1>8 DEF IInv

\* What is left when the coordinator has returned.
LEMMA EndKeeps ==
  ASSUME IInv, NEW outcome \in {"ok", "Io", "WorkerLost", "Protocol"}, End(outcome)
  PROVE  IInv'
<1>0. /\ TypeOK /\ Streams /\ Ends /\ Bound /\ Greeting
      /\ InFlight /\ Contributed /\ Answers /\ Progress /\ NobodyConfused
  BY Zenon DEF IInv
<1>u. /\ UNCHANGED <<current_step, wpc, stream, attempts, acked_steps, replica>>
      /\ coord' = outcome /\ conns' = {} /\ worker_id' = [t \in Conns |-> None]
      /\ bindings' = [w \in Workers |-> None] /\ pending' = [w \in Workers |-> None]
      /\ link' = [t \in Conns |-> "cut"] /\ up' = [t \in Conns |-> <<>>]
  BY Zenon DEF End, workerVars
<1>v. \A t \in Conns : worker_id'[t] = None /\ link'[t] = "cut" /\ up'[t] = <<>>
  BY Zenon, <1>u
<1>w. \A w \in Workers : bindings'[w] = None /\ pending'[w] = None
  BY Zenon, <1>u
<1>c. PICK lasts \in [Conns -> UNION {Prefixes(down[t]) : t \in Conns}] :
        /\ \A t \in Conns : lasts[t] \in Prefixes(down[t])
        /\ down' = lasts
  BY Zenon DEF End
<1>b. \A t \in Conns :
        /\ down'[t] \in Seq(DownFrame) /\ Len(down'[t]) <= Len(down[t])
        /\ \A i \in DOMAIN down'[t] : i \in DOMAIN down[t] /\ down'[t][i] = down[t][i]
        /\ down[t] = <<>> => down'[t] = <<>>
  <2> TAKE t \in Conns
  <2>1. down'[t] \in Prefixes(down[t]) /\ down[t] \in Seq(DownFrame)
    BY Zenon, <1>0, <1>c DEF TypeOK
  <2>q. QED
    BY Zenon, <2>1, PrefixItems
<1>n. \A t \in Conns : Len(down[t]) <= 1 => Len(down'[t]) <= 1
  <2> TAKE t \in Conns
  <2>0. down[t] \in Seq(DownFrame) /\ down'[t] \in Seq(DownFrame)
    BY Zenon, <1>0, <1>b DEF TypeOK
  <2>1. Len(down[t]) \in Nat /\ Len(down'[t]) \in Nat
    BY <2>0
  <2>q. QED
    BY <1>b, <2>1
<1>1. TypeOK'
  <2>1. down' \in [Conns -> Seq(DownFrame)]
    BY Zenon, <1>b, <1>c
  <2>2. up' \in [Conns -> Seq(UpFrame)]
    BY <1>u
  <2>q. QED
    BY Zenon, <1>0, <1>u, <2>1, <2>2 DEF TypeOK
<1>2. Streams' /\ Progress'
  BY Zenon, <1>0, <1>u DEF Streams, Progress
<1>3. Ends'
  BY ZenonT(30), <1>0, <1>u, <1>v, <1>b DEF Ends
<1>4. Bound' /\ Contributed'
  BY Zenon, <1>v, <1>w, NoneIsNone DEF Bound, Contributed
<1>5. Greeting'
  BY <1>u, <1>v DEF Greeting, GreetingOn
<1>6. InFlight'
  BY <1>v DEF InFlight, FlightOf
<1>7. Answers'
  <2>1. /\ UNCHANGED <<stream, wpc, acked_steps, current_step>>
        /\ \A w \in Workers : stream[w] # None => stream[w] \in Conns
    BY Zenon, <1>0, <1>u DEF TypeOK
  <2> SUFFICES ASSUME NEW v \in Workers, stream[v] # None
               PROVE  /\ Len(down'[stream[v]]) <= 1
                      /\ wpc[v] = "submit" => down'[stream[v]] = <<>>
                      /\ \A i \in DOMAIN down'[stream[v]] :
                           /\ wpc[v] = "assign" => down'[stream[v]][i] = Assign
                           /\ wpc[v] = "reply" =>
                                /\ current_step = acked_steps[v] + 1
                                /\ down'[stream[v]][i] = IF DoneSent THEN Done ELSE Ack(current_step)
    BY Zenon, <2>1 DEF Answers, DoneSent
  <2>q. QED
    BY ZenonT(30), <1>0, <1>b, <1>n, <2>1 DEF Answers
<1>8. NobodyConfused'
  BY Zenon, <1>0, <1>u DEF NobodyConfused
<1>q. QED
  BY Zenon, <1>1, <1>2, <1>3, <1>4, <1>5, <1>6, <1>7, <1>8 DEF IInv

-----------------------------------------------------------------------------
(* The coordinator handles a frame                                         *)

LEMMA UpFrames ==
  ASSUME NEW f \in UpFrame
  PROVE  /\ f.type \in {"HELLO", "GRADIENTS", "HEARTBEAT"}
         /\ f.type = "HELLO" => f.worker \in Workers
         /\ f.type = "GRADIENTS" => f.step \in Nat /\ f.replica \in Seq(Nat) /\ f.loss \in Losses
  BY DEF UpFrame, Beat

\* The frame popped, and the ones behind it.
LEMMA Popped ==
  ASSUME IInv, NEW t \in Conns, NEW ty, Pops(t, ty)
  PROVE  /\ t \in conns /\ up[t] # <<>> /\ Head(up[t]) = up[t][1] /\ Head(up[t]).type = ty
         /\ 1 \in DOMAIN up[t] /\ Head(up[t]) \in UpFrame /\ Tail(up[t]) \in Seq(UpFrame)
         /\ \A i \in DOMAIN Tail(up[t]) : i + 1 \in DOMAIN up[t] /\ Tail(up[t])[i] = up[t][i + 1] /\ i + 1 # 1
<1>1. up[t] \in Seq(UpFrame) /\ up[t] # <<>> /\ t \in conns /\ Head(up[t]).type = ty
  BY Zenon DEF IInv, TypeOK, Pops
<1>q. QED
  BY <1>1, TailItems

\* GRADIENTS comes over the connection its rank is bound to, and is the only one.
LEMMA PoppedGradients ==
  ASSUME IInv, NEW t \in Conns, Pops(t, "GRADIENTS")
  PROVE  /\ worker_id[t] \in Workers /\ bindings[worker_id[t]] = t /\ pending[worker_id[t]] = None
         /\ Head(up[t]).step = acked_steps[worker_id[t]] + 1
         /\ Head(up[t]).replica = replica[worker_id[t]]
         /\ Stands(worker_id[t], t)
         /\ \A i \in DOMAIN Tail(up[t]) : Tail(up[t])[i].type = "HEARTBEAT"
         /\ \A v \in Workers : stream[v] = t => v = worker_id[t]
         /\ worker_id[t] # None /\ \A s \in Conns : worker_id[s] = worker_id[t] => s = t
<1>1. /\ Head(up[t]) = up[t][1] /\ up[t][1].type = "GRADIENTS" /\ 1 \in DOMAIN up[t]
      /\ Tail(up[t]) \in Seq(UpFrame)
      /\ \A i \in DOMAIN Tail(up[t]) : i + 1 \in DOMAIN up[t] /\ Tail(up[t])[i] = up[t][i + 1] /\ i + 1 # 1
  BY Popped
<1>2. worker_id[t] \in Workers /\ worker_id[t] # None
  BY <1>1, NoneIsNone DEF IInv, Greeting, GreetingOn, TypeOK
<1>3. /\ pending[worker_id[t]] = None /\ up[t][1].step = acked_steps[worker_id[t]] + 1
      /\ up[t][1].replica = replica[worker_id[t]] /\ Stands(worker_id[t], t)
      /\ \A j \in DOMAIN up[t] : up[t][j].type = "GRADIENTS" => j = 1
  BY ZenonT(30), <1>1, <1>2 DEF IInv, InFlight, FlightOf
<1>4. \A j \in DOMAIN up[t] : up[t][j].type # "HELLO"
  BY Zenon, <1>2 DEF IInv, Greeting, GreetingOn
<1>5. \A i \in DOMAIN Tail(up[t]) : Tail(up[t])[i].type = "HEARTBEAT"
  <2> TAKE i \in DOMAIN Tail(up[t])
  <2>1. Tail(up[t])[i] \in UpFrame
    BY <1>1
  <2>2. Tail(up[t])[i].type \notin {"HELLO", "GRADIENTS"}
    BY ZenonT(30), <1>1, <1>3, <1>4
  <2>q. QED
    BY Zenon, <2>1, <2>2, UpFrames
<1>6. bindings[worker_id[t]] = t
  BY Zenon, <1>2 DEF IInv, Bound
<1>8. \A s \in Conns : worker_id[s] = worker_id[t] => s = t
  BY Zenon, <1>2, <1>6 DEF IInv, Bound
<1>7. \A v \in Workers : stream[v] = t => v = worker_id[t]
  BY Zenon, <1>2 DEF IInv, Greeting, GreetingOn
<1>q. QED
  BY Zenon, <1>1, <1>2, <1>3, <1>5, <1>6, <1>7, <1>8

\* No frame that the coordinator gets is out of order: one that it refuses comes from
\* a worker whose loss is not finite.
LEMMA BadFrames ==
  ASSUME IInv, NEW t \in Conns, BadFrame(t)
  PROVE  /\ t \in conns /\ Pops(t, "GRADIENTS") /\ ~OutOfOrder(t)
         /\ Head(up[t]).loss = "diverged"
<1>1. ~(Pops(t, "ASSIGN") \/ Pops(t, "ACK") \/ Pops(t, "DONE"))
  <2> SUFFICES ASSUME NEW ty \in {"ASSIGN", "ACK", "DONE"}, Pops(t, ty) PROVE FALSE
    BY Zenon
  <2>1. Head(up[t]) \in UpFrame /\ Head(up[t]).type = ty
    BY Zenon, Popped
  <2>q. QED
    BY Zenon, <2>1, UpFrames
<1>2. Pops(t, "HELLO") => worker_id[t] = None
  BY Popped DEF IInv, Greeting, GreetingOn
<1>3. Pops(t, "GRADIENTS") => ~OutOfOrder(t)
  <2> SUFFICES ASSUME Pops(t, "GRADIENTS") PROVE ~OutOfOrder(t)
    BY Zenon
  <2> DEFINE w == worker_id[t]
  <2>1. /\ w \in Workers /\ w # None /\ pending[w] = None /\ Head(up[t]).step = acked_steps[w] + 1
    BY ZenonT(30), PoppedGradients, NoneIsNone
  <2>2. /\ acked_steps[w] \in Nat /\ current_step \in Nat
        /\ acked_steps[w] <= current_step /\ current_step <= acked_steps[w] + 1
    BY Zenon, <2>1 DEF IInv, TypeOK, Progress
  <2>q. QED
    BY <2>1, <2>2 DEF OutOfOrder
<1>4. Pops(t, "GRADIENTS") /\ Head(up[t]).loss # "finite"
  BY Zenon, <1>1, <1>2, <1>3 DEF BadFrame, Refused
<1>5. t \in conns /\ Head(up[t]) \in UpFrame /\ Head(up[t]).type = "GRADIENTS"
  BY Zenon, <1>4, Popped
<1>6. Head(up[t]).loss = "diverged"
  BY Zenon, <1>4, <1>5, UpFrames DEF Losses
<1>q. QED
  BY Zenon, <1>3, <1>4, <1>5, <1>6

\* The sender never saw the answer: it is the one frame it gets now.
LEMMA ReplayKeeps ==
  ASSUME IInv, NEW t \in Conns, Replay(t)
  PROVE  IInv'
<1> DEFINE w == worker_id[t]
           a == IF DoneSent THEN Done ELSE Ack(current_step)
<1>0. /\ TypeOK /\ Streams /\ Ends /\ Bound /\ Greeting
      /\ InFlight /\ Contributed /\ Answers /\ Progress /\ NobodyConfused
  BY Zenon DEF IInv
<1>g. /\ worker_id[t] = w /\ w \in Workers /\ w # None /\ bindings[w] = t /\ pending[w] = None /\ Stands(w, t)
      /\ Head(up[t]).step = acked_steps[w] + 1 /\ Head(up[t]).replica = replica[w]
      /\ \A i \in DOMAIN Tail(up[t]) : Tail(up[t])[i].type = "HEARTBEAT"
      /\ \A v \in Workers : stream[v] = t => v = w
      /\ \A s \in Conns : worker_id[s] = w => s = t
  BY Zenon, PoppedGradients DEF Replay
<1> HIDE DEF w
<1>p. /\ t \in conns /\ up' \in [Conns -> Seq(UpFrame)] /\ up'[t] = Tail(up[t])
      /\ \A s \in Conns \ {t} : up'[s] = up[s]
  BY ZenonT(30), <1>0, Popped DEF Replay, TypeOK
<1>h. \A i \in DOMAIN up'[t] : up'[t][i].type = "HEARTBEAT"
  BY Zenon, <1>g, <1>p
<1>u. /\ UNCHANGED <<coord, current_step, pending, bindings, conns, worker_id, link,
                     wpc, stream, attempts, acked_steps, replica>>
      /\ current_step = acked_steps[w] + 1
  BY Zenon, <1>g DEF Replay, coordVars, workerVars
<1>a. a \in DownFrame
  BY Zenon, <1>0 DEF TypeOK, DownFrame, Ack
<1>d. /\ down' \in [Conns -> Seq(DownFrame)]
      /\ down'[t] = IF link[t] = "open" THEN Append(down[t], a) ELSE down[t]
      /\ \A s \in Conns \ {t} : down'[s] = down[s]
  BY <1>0, <1>a, AppendItems DEF Replay, After, Deliverable, TypeOK
<1>1. TypeOK'
  BY Zenon, <1>0, <1>u, <1>p, <1>d DEF TypeOK
<1>2. Streams' /\ Bound' /\ Progress' /\ NobodyConfused'
  BY ZenonT(30), <1>0, <1>u DEF Streams, Bound, Progress, NobodyConfused
<1>3. Ends'
  <2> SUFFICES ASSUME NEW s \in Conns
               PROVE  /\ s \notin conns => up'[s] = <<>> /\ worker_id[s] = None /\ link[s] = "cut"
                      /\ link[s] = "open" => \E v \in Workers : stream[v] = s
                      /\ (\A v \in Workers : stream[v] # s) => down'[s] = <<>>
    BY Zenon, <1>u DEF Ends
  <2>1. CASE s = t
    BY Zenon, <1>0, <1>p, <1>d, <2>1 DEF Ends
  <2>2. CASE s # t
    BY Zenon, <1>0, <1>p, <1>d, <2>2 DEF Ends
  <2>q. QED
    BY Zenon, <2>1, <2>2
<1>4. Greeting'
  <2> SUFFICES ASSUME NEW s \in Conns PROVE GreetingOn(s)'
    BY Zenon DEF Greeting
  <2>1. CASE s = t
    BY Zenon, <1>g, <1>h, <1>u, <2>1 DEF GreetingOn
  <2>2. CASE s # t
    <3>1. up'[s] = up[s] /\ down'[s] = down[s]
      BY Zenon, <1>p, <1>d, <2>2
    <3>2. /\ Kept(up'[s], up[s]) /\ worker_id'[s] = worker_id[s] /\ (s \in conns' => s \in conns)
          /\ \A v \in Workers : stream'[v] = s => stream[v] = s /\ wpc'[v] = wpc[v]
      BY Zenon, <1>u, <3>1, KeptSame
    <3>q. QED
      BY Zenon, <1>0, <3>1, <3>2, GreetingLocal DEF Greeting
  <2>q. QED
    BY Zenon, <2>1, <2>2
<1>s. \A v \in Workers \ {w}, s \in Conns \ {t} : Stands(v, s) => Stands(v, s)'
  <2> SUFFICES ASSUME NEW v \in Workers \ {w}, NEW s \in Conns \ {t}, Stands(v, s)
               PROVE  Stands(v, s)'
    BY Zenon
  <2>1. wpc[v] = "assign" => stream[v] \in Conns \ {t}
    BY ZenonT(30), <1>0, <1>g DEF Streams, TypeOK, Attached
  <2>q. QED
    BY Zenon, <1>u, <1>d, <2>1 DEF Stands
<1>5. InFlight'
  <2> SUFFICES ASSUME NEW v \in Workers, NEW s \in Conns, worker_id'[s] = v,
                      NEW i \in DOMAIN up'[s], up'[s][i].type = "GRADIENTS"
               PROVE  FlightOf(v, s, i)'
    BY Zenon DEF InFlight
  <2>0. worker_id[s] = v
    BY Zenon, <1>u
  <2>1. s # t /\ v # w
    BY Zenon, <1>g, <1>h, <2>0
  <2>2. Kept(up'[s], up[s])
    BY Zenon, <1>p, <2>1, KeptSame
  <2>3. acked_steps'[v] = acked_steps[v] /\ replica'[v] = replica[v] /\ pending'[v] = pending[v]
    BY Zenon, <1>u
  <2>q. QED
    BY Zenon, <1>0, <1>s, <2>0, <2>1, <2>2, <2>3, FlightLocal
<1>6. Contributed'
  <2> SUFFICES ASSUME NEW v \in Workers, pending[v] # None
               PROVE  /\ bindings[v] # None /\ Stands(v, bindings[v])'
                      /\ pending[v] = replica[v] /\ acked_steps[v] = current_step
    BY Zenon, <1>u DEF Contributed, Stands
  <2>1. bindings[v] \in Conns /\ Stands(v, bindings[v]) /\ v # w
    BY <1>0, <1>g DEF Contributed, TypeOK
  <2>2. bindings[v] # t
    BY Zenon, <1>0, <1>g, <2>1 DEF Bound
  <2>q. QED
    BY Zenon, <1>0, <1>s, <1>u, <2>1, <2>2 DEF Contributed, Stands
<1>7. Answers'
  <2> SUFFICES ASSUME NEW v \in Workers, stream[v] # None
               PROVE  /\ Len(down'[stream[v]]) <= 1
                      /\ wpc[v] = "submit" => down'[stream[v]] = <<>>
                      /\ \A i \in DOMAIN down'[stream[v]] :
                           /\ wpc[v] = "assign" => down'[stream[v]][i] = Assign
                           /\ wpc[v] = "reply" =>
                                current_step = acked_steps[v] + 1 /\ down'[stream[v]][i] = a
    BY Zenon, <1>u DEF Answers, DoneSent
  <2>1. CASE stream[v] = t /\ link[t] = "open"
    <3>1. v = w /\ wpc[v] = "reply" /\ down[t] = <<>>
      BY Zenon, <1>g, <2>1 DEF Stands
    <3>2. down'[t] = Append(<<>>, a)
      BY Zenon, <1>d, <2>1, <3>1
    <3>q. QED
      BY <1>u, <2>1, <3>1, <3>2
  <2>2. CASE ~(stream[v] = t /\ link[t] = "open")
    <3>1. down'[stream[v]] = down[stream[v]]
      BY Zenon, <1>0, <1>d, <2>2 DEF TypeOK
    <3>q. QED
      BY Zenon, <1>0, <3>1 DEF Answers
  <2>q. QED
    BY Zenon, <2>1, <2>2
<1>q. QED
  BY Zenon, <1>1, <1>2, <1>3, <1>4, <1>5, <1>6, <1>7 DEF IInv

LEMMA ContributeKeeps ==
  ASSUME IInv, NEW t \in Conns, Contribute(t)
  PROVE  IInv'
<1> DEFINE w == worker_id[t]
<1>0. /\ TypeOK /\ Streams /\ Ends /\ Bound /\ Greeting
      /\ InFlight /\ Contributed /\ Answers /\ Progress /\ NobodyConfused
  BY Zenon DEF IInv
<1>g. /\ worker_id[t] = w /\ w \in Workers /\ w # None /\ bindings[w] = t /\ pending[w] = None /\ Stands(w, t)
      /\ Head(up[t]).step = acked_steps[w] + 1 /\ Head(up[t]).replica = replica[w]
      /\ \A i \in DOMAIN Tail(up[t]) : Tail(up[t])[i].type = "HEARTBEAT"
      /\ \A v \in Workers : stream[v] = t => v = w
      /\ \A s \in Conns : worker_id[s] = w => s = t
  BY Zenon, PoppedGradients DEF Contribute
<1> HIDE DEF w
<1>p. /\ t \in conns /\ up' \in [Conns -> Seq(UpFrame)] /\ up'[t] = Tail(up[t])
      /\ \A s \in Conns \ {t} : up'[s] = up[s]
  BY ZenonT(30), <1>0, Popped DEF Contribute, TypeOK
<1>h. \A i \in DOMAIN up'[t] : up'[t][i].type = "HEARTBEAT"
  BY Zenon, <1>g, <1>p
<1>u. UNCHANGED <<coord, current_step, bindings, conns, worker_id, link, down,
                  wpc, stream, attempts, acked_steps, replica>>
  BY Zenon DEF Contribute, workerVars
<1>c. acked_steps[w] = current_step
  <2>1. acked_steps[w] + 1 = current_step + 1
    BY Zenon, <1>g DEF Contribute
  <2>q. QED
    BY <1>0, <1>g, <2>1 DEF TypeOK
<1>d. /\ pending' \in [Workers -> Seq(Nat) \cup {None}] /\ pending'[w] = replica[w]
      /\ \A v \in Workers \ {w} : pending'[v] = pending[v]
  BY ZenonT(30), <1>0, <1>g DEF Contribute, TypeOK
<1>1. TypeOK'
  BY Zenon, <1>0, <1>u, <1>p, <1>d DEF TypeOK
<1>2. Streams' /\ Bound' /\ Progress' /\ NobodyConfused'
  BY ZenonT(30), <1>0, <1>u DEF Streams, Bound, Progress, NobodyConfused
<1>3. Ends'
  BY Zenon, <1>0, <1>u, <1>p DEF Ends
<1>4. Greeting'
  <2> SUFFICES ASSUME NEW s \in Conns PROVE GreetingOn(s)'
    BY Zenon DEF Greeting
  <2>1. CASE s = t
    BY Zenon, <1>g, <1>h, <1>u, <2>1 DEF GreetingOn
  <2>2. CASE s # t
    <3>1. /\ Kept(up'[s], up[s]) /\ worker_id'[s] = worker_id[s] /\ (s \in conns' => s \in conns)
          /\ down[s] = <<>> => down'[s] = <<>>
          /\ \A v \in Workers : stream'[v] = s => stream[v] = s /\ wpc'[v] = wpc[v]
      BY Zenon, <1>u, <1>p, <2>2, KeptSame
    <3>q. QED
      BY Zenon, <1>0, <3>1, GreetingLocal DEF Greeting
  <2>q. QED
    BY Zenon, <2>1, <2>2
<1>s. \A v \in Workers, s \in Conns : Stands(v, s) => Stands(v, s)'
  BY Zenon, <1>u DEF Stands
<1>5. InFlight'
  <2> SUFFICES ASSUME NEW v \in Workers, NEW s \in Conns, worker_id'[s] = v,
                      NEW i \in DOMAIN up'[s], up'[s][i].type = "GRADIENTS"
               PROVE  FlightOf(v, s, i)'
    BY Zenon DEF InFlight
  <2>0. worker_id[s] = v
    BY Zenon, <1>u
  <2>1. s # t /\ v # w
    BY Zenon, <1>g, <1>h, <2>0
  <2>2. Kept(up'[s], up[s]) /\ pending'[v] = pending[v]
    BY Zenon, <1>p, <1>d, <2>1, KeptSame
  <2>3. acked_steps'[v] = acked_steps[v] /\ replica'[v] = replica[v]
    BY Zenon, <1>u
  <2>q. QED
    BY Zenon, <1>0, <1>s, <2>0, <2>2, <2>3, FlightLocal
<1>6. Contributed'
  <2> SUFFICES ASSUME NEW v \in Workers, pending'[v] # None
               PROVE  /\ bindings[v] # None /\ Stands(v, bindings[v])
                      /\ pending'[v] = replica[v] /\ acked_steps[v] = current_step
    BY Zenon, <1>u DEF Contributed, Stands
  <2>1. CASE v = w
    BY Zenon, <1>g, <1>c, <1>d, <2>1, NoneIsNone
  <2>2. CASE v # w
    BY Zenon, <1>0, <1>d, <2>2 DEF Contributed
  <2>q. QED
    BY Zenon, <2>1, <2>2
<1>7. Answers'
  BY Zenon, <1>0, <1>u DEF Answers, DoneSent
<1>q. QED
  BY Zenon, <1>1, <1>2, <1>3, <1>4, <1>5, <1>6, <1>7 DEF IInv

\* Every rank stands at this round, so that each gets one answer, and it is the one
\* it waits for.
LEMMA CompleteRoundKeeps ==
  ASSUME IInv, NEW t \in Conns, CompleteRound(t)
  PROVE  IInv'
<1> DEFINE w == worker_id[t]
           a == IF LastRound THEN Done ELSE Ack(current_step + 1)
<1>0. /\ TypeOK /\ Streams /\ Ends /\ Bound /\ Greeting
      /\ InFlight /\ Contributed /\ Answers /\ Progress /\ NobodyConfused
  BY Zenon DEF IInv
<1>g. /\ worker_id[t] = w /\ w \in Workers /\ w # None /\ bindings[w] = t /\ pending[w] = None /\ Stands(w, t)
      /\ Head(up[t]).step = acked_steps[w] + 1 /\ Head(up[t]).replica = replica[w]
      /\ \A i \in DOMAIN Tail(up[t]) : Tail(up[t])[i].type = "HEARTBEAT"
      /\ \A v \in Workers : stream[v] = t => v = w
      /\ \A s \in Conns : worker_id[s] = w => s = t
  BY Zenon, PoppedGradients DEF CompleteRound
<1> HIDE DEF w
<1>p. /\ t \in conns /\ up' \in [Conns -> Seq(UpFrame)] /\ up'[t] = Tail(up[t])
      /\ \A s \in Conns \ {t} : up'[s] = up[s]
  BY ZenonT(30), <1>0, Popped DEF CompleteRound, TypeOK
<1>h. \A i \in DOMAIN up'[t] : up'[t][i].type = "HEARTBEAT"
  BY Zenon, <1>g, <1>p
<1>u. /\ UNCHANGED <<coord, bindings, conns, worker_id, link, wpc, stream, attempts, acked_steps, replica>>
      /\ current_step' = current_step + 1
      /\ pending' = [v \in Workers |-> None]
      /\ down' = [s \in Conns |-> IF s \in conns /\ worker_id[s] # None THEN After(s, a) ELSE down[s]]
      /\ \A v \in Workers \ {w} : pending[v] # None
  BY Zenon, <1>g DEF CompleteRound, NoGradients, AllPresent, workerVars
<1>k. \A v \in Workers : /\ bindings[v] \in Conns /\ Stands(v, bindings[v])
                         /\ acked_steps[v] = current_step /\ (v # w => pending[v] # None)
  <2> TAKE v \in Workers
  <2>1. CASE v = w
    <3>1. acked_steps[w] + 1 = current_step + 1
      BY Zenon, <1>g DEF CompleteRound
    <3>q. QED
      BY <1>0, <1>g, <2>1, <3>1 DEF TypeOK
  <2>2. CASE v # w
    BY Zenon, <1>0, <1>u, <2>2 DEF Contributed, TypeOK
  <2>q. QED
    BY Zenon, <2>1, <2>2
<1>l. \A v \in Workers : wpc[v] # "done" /\ current_step < Steps
  BY Zenon, <1>0, <1>k DEF Stands, Waiting, Progress
<1>n. current_step \in Nat /\ current_step + 1 \in Nat /\ Steps \in Nat
  BY <1>0, TrainingAssumption DEF TypeOK
<1>a. a \in DownFrame
  BY Zenon, <1>n DEF DownFrame, Ack
<1>e. a = IF DoneSent' THEN Done ELSE Ack(current_step')
  BY Zenon, <1>u DEF LastRound, DoneSent
\* A connection with an owner and a rank: the owner waits on it for this answer.
<1>o. \A s \in Conns, v \in Workers : stream[v] = s =>
        IF worker_id[s] # None THEN wpc[v] = "reply" /\ down[s] = <<>>
        ELSE wpc[v] = "assign" /\ down[s] = <<>>
  <2> SUFFICES ASSUME NEW s \in Conns, NEW v \in Workers, stream[v] = s
               PROVE  IF worker_id[s] # None THEN wpc[v] = "reply" /\ down[s] = <<>>
                      ELSE wpc[v] = "assign" /\ down[s] = <<>>
    BY Zenon
  <2>1. Stands(v, bindings[v]) /\ (worker_id[s] # None => bindings[v] = s)
    BY <1>0, <1>k DEF Greeting, GreetingOn, Bound
  <2>2. CASE worker_id[s] # None
    BY Zenon, <2>1, <2>2 DEF Stands
  <2>3. CASE worker_id[s] = None
    <3>1. bindings[v] # s
      BY Zenon, <1>0, <2>3, NoneIsNone DEF Bound
    <3>2. wpc[v] \in Waiting /\ (wpc[v] = "assign" => down[s] = <<>>)
      BY Zenon, <2>1, <3>1 DEF Stands
    <3>3. wpc[v] \in Attached
      BY Zenon, <1>0, NoneIsNone DEF Streams
    <3>q. QED
      BY Zenon, <2>3, <3>2, <3>3 DEF Attached, Waiting
  <2>q. QED
    BY Zenon, <2>2, <2>3
<1> HIDE DEF a
<1>d. \A s \in Conns :
        /\ down'[s] \in Seq(DownFrame)
        /\ down'[s] = down[s] \/ (down'[s] = Append(down[s], a) /\ link[s] = "open" /\ worker_id[s] # None)
  <2> TAKE s \in Conns
  <2>1. down[s] \in Seq(DownFrame) /\ Append(down[s], a) \in Seq(DownFrame)
    BY Zenon, <1>0, <1>a, AppendItems DEF TypeOK
  <2>q. QED
    BY Zenon, <1>u, <2>1 DEF After, Deliverable
<1>1. TypeOK'
  <2>1. down' \in [Conns -> Seq(DownFrame)]
    BY Zenon, <1>u, <1>d
  <2>q. QED
    BY Zenon, <1>0, <1>u, <1>p, <1>n, <2>1 DEF TypeOK
<1>2. Streams' /\ Bound' /\ NobodyConfused'
  BY ZenonT(30), <1>0, <1>u DEF Streams, Bound, NobodyConfused
<1>3. Ends'
  <2> SUFFICES ASSUME NEW s \in Conns
               PROVE  /\ s \notin conns => up'[s] = <<>> /\ worker_id[s] = None /\ link[s] = "cut"
                      /\ link[s] = "open" => \E v \in Workers : stream[v] = s
                      /\ (\A v \in Workers : stream[v] # s) => down'[s] = <<>>
    BY Zenon, <1>u DEF Ends
  <2>1. s \notin conns => up'[s] = <<>>
    BY Zenon, <1>0, <1>p DEF Ends
  <2>2. (\A v \in Workers : stream[v] # s) => down'[s] = <<>>
    BY Zenon, <1>0, <1>d DEF Ends
  <2>q. QED
    BY Zenon, <1>0, <2>1, <2>2 DEF Ends
<1>4. Greeting'
  <2> SUFFICES ASSUME NEW s \in Conns PROVE GreetingOn(s)'
    BY Zenon DEF Greeting
  <2>1. CASE s = t
    BY Zenon, <1>g, <1>h, <1>u, <2>1 DEF GreetingOn
  <2>2. CASE s # t
    <3>1. up'[s] = up[s] /\ (worker_id[s] = None => down'[s] = down[s])
      BY Zenon, <1>p, <1>d, <2>2
    <3>2. UNCHANGED <<worker_id, conns, stream, wpc>>
      BY Zenon, <1>u
    <3>q. QED
      BY <1>0, <3>1, <3>2 DEF Greeting, GreetingOn
  <2>q. QED
    BY Zenon, <2>1, <2>2
<1>5. InFlight'
  <2>1. \A v \in Workers, s \in Conns : worker_id[s] = v =>
          \A i \in DOMAIN up'[s] : up'[s][i].type # "GRADIENTS"
    <3> SUFFICES ASSUME NEW v \in Workers, NEW s \in Conns, worker_id[s] = v, NEW i \in DOMAIN up'[s]
                 PROVE  up'[s][i].type # "GRADIENTS"
      BY Zenon
    <3>1. CASE v = w
      BY Zenon, <1>g, <1>h, <3>1
    <3>2. CASE v # w
      <4>1. up'[s] = up[s] /\ pending[v] # None
        BY Zenon, <1>g, <1>k, <1>p, <3>2
      <4>q. QED
        BY Zenon, <1>0, <4>1 DEF InFlight, FlightOf
    <3>q. QED
      BY Zenon, <3>1, <3>2
  <2>q. QED
    BY Zenon, <1>u, <2>1 DEF InFlight, FlightOf
<1>6. Contributed'
  BY Zenon, <1>u DEF Contributed
<1>7. Answers'
  <2> SUFFICES ASSUME NEW v \in Workers, stream[v] # None
               PROVE  /\ Len(down'[stream[v]]) <= 1
                      /\ wpc[v] = "submit" => down'[stream[v]] = <<>>
                      /\ \A i \in DOMAIN down'[stream[v]] :
                           /\ wpc[v] = "assign" => down'[stream[v]][i] = Assign
                           /\ wpc[v] = "reply" =>
                                current_step' = acked_steps[v] + 1 /\ down'[stream[v]][i] = a
    BY SMTT(60), <1>u, <1>e DEF Answers, DoneSent
  <2>1. stream[v] \in Conns
    BY Zenon, <1>0 DEF TypeOK
  <2>2. CASE worker_id[stream[v]] # None
    <3>1. wpc[v] = "reply" /\ down[stream[v]] = <<>>
      BY Zenon, <1>o, <2>1, <2>2
    <3>2. down'[stream[v]] = <<>> \/ down'[stream[v]] = Append(<<>>, a)
      BY Zenon, <1>d, <2>1, <3>1
    <3>3. current_step' = acked_steps[v] + 1
      BY Zenon, <1>u, <1>k
    <3>4. Len(Append(<<>>, a)) = 1 /\ \A i \in DOMAIN Append(<<>>, a) : Append(<<>>, a)[i] = a
      OBVIOUS
    <3>5. Len(<<>>) = 0 /\ DOMAIN <<>> = {}
      OBVIOUS
    <3>6. CASE down'[stream[v]] = <<>>
      BY <3>1, <3>5, <3>6
    <3>7. CASE down'[stream[v]] = Append(<<>>, a)
      BY <3>1, <3>3, <3>4, <3>7
    <3>q. QED
      BY Zenon, <3>2, <3>6, <3>7
  <2>3. CASE worker_id[stream[v]] = None
    <3>1. wpc[v] = "assign" /\ down'[stream[v]] = <<>>
      BY Zenon, <1>o, <1>d, <2>1, <2>3
    <3>q. QED
      BY <3>1
  <2>q. QED
    BY Zenon, <2>2, <2>3
<1>8. Progress'
  BY SMTT(60), <1>0, <1>u, <1>k, <1>l, <1>n DEF Progress
<1>q. QED
  BY Zenon, <1>1, <1>2, <1>3, <1>4, <1>5, <1>6, <1>7, <1>8 DEF IInv

\* The rank moves to the connection its HELLO came over, without a gradient.
LEMMA HandleHelloKeeps ==
  ASSUME IInv, NEW t \in Conns, HandleHello(t)
  PROVE  IInv'
<1> DEFINE w == Head(up[t]).worker
           stale == {s \in conns : bindings[w] = s /\ s # t}
<1>0. /\ TypeOK /\ Streams /\ Ends /\ Bound /\ Greeting
      /\ InFlight /\ Contributed /\ Answers /\ Progress /\ NobodyConfused
  BY Zenon DEF IInv
<1>p. /\ t \in conns /\ Head(up[t]) = up[t][1] /\ 1 \in DOMAIN up[t]
      /\ up[t][1].type = "HELLO" /\ Head(up[t]) \in UpFrame /\ Tail(up[t]) \in Seq(UpFrame)
      /\ \A i \in DOMAIN Tail(up[t]) : i + 1 \in DOMAIN up[t] /\ Tail(up[t])[i] = up[t][i + 1] /\ i + 1 # 1
  BY SMTT(60), Popped DEF HandleHello
<1>g. /\ w \in Workers /\ w # None /\ worker_id[t] = None
      /\ \A v \in Workers : stream[v] = t => v = w /\ wpc[v] = "assign" /\ down[t] = <<>>
      /\ \A i \in DOMAIN Tail(up[t]) : Tail(up[t])[i].type \notin {"HELLO", "GRADIENTS"}
  BY SMTT(60), <1>0, <1>p, UpFrames, NoneIsNone DEF Greeting, GreetingOn
<1>u. /\ UNCHANGED <<coord, current_step, wpc, stream, attempts, acked_steps, replica>>
      /\ conns' = conns \ stale
      /\ worker_id' = [s \in Conns |-> IF s = t THEN w ELSE IF s \in stale THEN None ELSE worker_id[s]]
      /\ bindings' = [bindings EXCEPT ![w] = t]
      /\ pending' = IF stale = {} THEN pending ELSE [pending EXCEPT ![w] = None]
      /\ link' = [s \in Conns |-> IF s \in stale THEN "cut" ELSE link[s]]
      /\ up' = [s \in Conns |-> IF s = t THEN Tail(up[t]) ELSE IF s \in stale THEN <<>> ELSE up[s]]
  BY Zenon DEF HandleHello, workerVars
<1>c. PICK last \in UNION {Prefixes(down[s]) : s \in stale} \cup {<<>>} :
        /\ \A s \in stale : last \in Prefixes(down[s])
        /\ down' = [s \in Conns |-> IF s = t THEN After(t, Assign) ELSE IF s \in stale THEN last ELSE down[s]]
  BY Zenon DEF HandleHello
<1>w. Head(up[t]).worker = w
  BY Zenon
<1>st. /\ stale \subseteq conns /\ t \notin stale
       /\ \A s \in Conns : s \in stale <=> worker_id[s] = w
       /\ stale = {} => bindings[w] = None
  <2>1. \A s \in Conns : bindings[w] = s <=> worker_id[s] = w
    BY Zenon, <1>0, <1>g DEF Bound
  <2>2. \A s \in Conns : worker_id[s] = w => s \in conns /\ s # t
    BY Zenon, <1>0, <1>g DEF Ends
  <2>3. bindings[w] \in Conns \cup {None} /\ conns \subseteq Conns
    BY Zenon, <1>0, <1>g DEF TypeOK
  <2>q. QED
    BY Zenon, <2>1, <2>2, <2>3
<1> HIDE DEF w, stale
<1>v. /\ pending' \in [Workers -> Seq(Nat) \cup {None}] /\ pending'[w] = None
      /\ \A v \in Workers \ {w} : pending'[v] = pending[v]
      /\ bindings' \in [Workers -> Conns \cup {None}] /\ bindings'[w] = t
      /\ \A v \in Workers \ {w} : bindings'[v] = bindings[v]
  BY Zenon, <1>0, <1>g, <1>u, <1>st DEF TypeOK, Contributed
<1>a. /\ worker_id'[t] = w /\ link'[t] = link[t] /\ up'[t] = Tail(up[t])
      /\ \A s \in stale : worker_id'[s] = None /\ link'[s] = "cut" /\ up'[s] = <<>>
      /\ \A s \in Conns : s # t /\ s \notin stale =>
           worker_id'[s] = worker_id[s] /\ link'[s] = link[s] /\ up'[s] = up[s]
  BY Zenon, <1>0, <1>u, <1>st DEF TypeOK
<1>l. \A s \in stale : /\ last \in Seq(DownFrame) /\ Len(last) <= Len(down[s])
                       /\ \A i \in DOMAIN last : i \in DOMAIN down[s] /\ last[i] = down[s][i]
                       /\ down[s] = <<>> => last = <<>>
  <2> TAKE s \in stale
  <2>1. last \in Prefixes(down[s]) /\ down[s] \in Seq(DownFrame)
    BY Zenon, <1>0, <1>c, <1>st DEF TypeOK
  <2>q. QED
    BY Zenon, <2>1, PrefixItems
<1>b. /\ down'[t] = IF link[t] = "open" THEN Append(down[t], Assign) ELSE down[t]
      /\ \A s \in stale : down'[s] = last
      /\ \A s \in Conns : s # t /\ s \notin stale => down'[s] = down[s]
  BY Zenon, <1>0, <1>c, <1>st DEF TypeOK, After, Deliverable
\* The frames for the owner of t, and for everybody else.
<1>d. /\ down'[t] \in Seq(DownFrame)
      /\ (\A v \in Workers : stream[v] # t) => down'[t] = <<>>
      /\ \A v \in Workers : stream[v] = t => down'[t] \in {<<>>, Append(<<>>, Assign)}
  <2>1. Assign \in DownFrame /\ down[t] \in Seq(DownFrame)
    BY Zenon, <1>0 DEF TypeOK, DownFrame
  <2>2. down'[t] \in Seq(DownFrame)
    BY <1>b, <2>1, AppendItems
  <2>q. QED
    BY Zenon, <1>0, <1>b, <1>g, <2>2 DEF Ends
<1>e. \A s \in Conns \ {t} :
        /\ down'[s] \in Seq(DownFrame) /\ Len(down'[s]) <= Len(down[s])
        /\ \A i \in DOMAIN down'[s] : i \in DOMAIN down[s] /\ down'[s][i] = down[s][i]
        /\ down[s] = <<>> => down'[s] = <<>>
  <2> TAKE s \in Conns \ {t}
  <2>1. CASE s \in stale
    <3>1. down'[s] = last
      BY Zenon, <1>b, <2>1
    <3>q. QED
      BY Zenon, <1>l, <2>1, <3>1
  <2>2. CASE s \notin stale
    <3>1. down'[s] = down[s] /\ down[s] \in Seq(DownFrame)
      BY Zenon, <1>0, <1>b, <2>2 DEF TypeOK
    <3>2. Len(down[s]) \in Nat
      BY <3>1
    <3>q. QED
      BY <3>1, <3>2
  <2>q. QED
    BY Zenon, <2>1, <2>2
<1>1. TypeOK'
  <2>1. down' \in [Conns -> Seq(DownFrame)]
    BY Zenon, <1>c, <1>d, <1>e
  <2>2. up' \in [Conns -> Seq(UpFrame)]
    BY SMTT(60), <1>0, <1>u, <1>p DEF TypeOK
  <2>3. worker_id' \in [Conns -> Workers \cup {None}] /\ link' \in [Conns -> {"open", "cut"}]
    BY Zenon, <1>0, <1>u, <1>g DEF TypeOK
  <2>4. conns' \subseteq Conns
    BY Zenon, <1>0, <1>u DEF TypeOK
  <2>q. QED
    BY Zenon, <1>0, <1>u, <1>v, <2>1, <2>2, <2>3, <2>4 DEF TypeOK
<1>2. Streams' /\ Progress' /\ NobodyConfused'
  BY Zenon, <1>0, <1>u DEF Streams, Progress, NobodyConfused
<1>3. Ends'
  <2> SUFFICES ASSUME NEW s \in Conns
               PROVE  /\ s \notin conns' => up'[s] = <<>> /\ worker_id'[s] = None /\ link'[s] = "cut"
                      /\ link'[s] = "open" => \E v \in Workers : stream[v] = s
                      /\ (\A v \in Workers : stream[v] # s) => down'[s] = <<>>
    BY Zenon, <1>u DEF Ends
  <2>1. CASE s = t
    <3>1. s \in conns'
      BY Zenon, <1>u, <1>p, <1>st, <2>1
    <3>2. link'[s] = "open" => \E v \in Workers : stream[v] = s
      BY Zenon, <1>0, <1>a, <2>1 DEF Ends
    <3>q. QED
      BY Zenon, <1>d, <2>1, <3>1, <3>2
  <2>2. CASE s # t
    <3>1. s \notin conns' => up'[s] = <<>> /\ worker_id'[s] = None /\ link'[s] = "cut"
      BY Zenon, <1>0, <1>u, <1>a, <2>2 DEF Ends
    <3>2. link'[s] = "open" => link[s] = "open"
      BY Zenon, <1>a, <2>2
    <3>q. QED
      BY Zenon, <1>0, <1>e, <2>2, <3>1, <3>2 DEF Ends
  <2>q. QED
    BY Zenon, <2>1, <2>2
<1>4. Bound'
  <2> SUFFICES ASSUME NEW v \in Workers, NEW s \in Conns
               PROVE  bindings'[v] = s <=> worker_id'[s] = v
    BY Zenon DEF Bound
  <2>0. bindings[v] = s <=> worker_id[s] = v
    BY Zenon, <1>0 DEF Bound
  <2>1. CASE v = w
    BY ZenonT(30), <1>v, <1>a, <1>st, <2>0, <2>1, NoneIsNone
  <2>2. CASE v # w
    BY <1>v, <1>a, <1>g, <1>st, <2>0, <2>2, NoneIsNone
  <2>q. QED
    BY Zenon, <2>1, <2>2
<1>5. Greeting'
  <2> SUFFICES ASSUME NEW s \in Conns PROVE GreetingOn(s)'
    BY Zenon DEF Greeting
  <2>1. CASE s = t
    BY ZenonT(30), <1>a, <1>g, <1>u, <2>1 DEF GreetingOn
  <2>2. CASE s \in stale
    <3>1. up'[s] = <<>> /\ worker_id'[s] = None /\ s \notin conns'
      BY Zenon, <1>a, <1>u, <2>2
    <3>2. DOMAIN <<>> = {}
      OBVIOUS
    <3>q. QED
      BY Zenon, <3>1, <3>2 DEF GreetingOn
  <2>3. CASE s # t /\ s \notin stale
    <3>1. up'[s] = up[s] /\ worker_id'[s] = worker_id[s] /\ down'[s] = down[s] /\ (s \in conns' <=> s \in conns)
      BY Zenon, <1>a, <1>b, <1>u, <2>3
    <3>2. /\ Kept(up'[s], up[s]) /\ worker_id'[s] = worker_id[s] /\ (s \in conns' => s \in conns)
          /\ \A v \in Workers : stream'[v] = s => stream[v] = s /\ wpc'[v] = wpc[v]
      BY Zenon, <1>u, <3>1, KeptSame
    <3>q. QED
      BY Zenon, <1>0, <3>1, <3>2, GreetingLocal DEF Greeting
  <2>q. QED
    BY Zenon, <2>1, <2>2, <2>3
<1>s. \A v \in Workers \ {w}, s \in Conns \ {t} : Stands(v, s) => Stands(v, s)'
  <2> SUFFICES ASSUME NEW v \in Workers \ {w}, NEW s \in Conns \ {t}, Stands(v, s)
               PROVE  Stands(v, s)'
    BY Zenon
  <2>1. wpc[v] = "assign" => stream[v] \in Conns \ {t}
    BY Zenon, <1>0, <1>g DEF Streams, TypeOK, Attached
  <2>q. QED
    BY Zenon, <1>u, <1>e, <2>1 DEF Stands
<1>6. InFlight'
  <2> SUFFICES ASSUME NEW v \in Workers, NEW s \in Conns, worker_id'[s] = v,
                      NEW i \in DOMAIN up'[s], up'[s][i].type = "GRADIENTS"
               PROVE  FlightOf(v, s, i)'
    BY Zenon DEF InFlight
  <2>1. s # t /\ s \notin stale
    BY ZenonT(30), <1>a, <1>g, NoneIsNone
  <2>2. Kept(up'[s], up[s]) /\ worker_id[s] = v /\ v # w
    BY Zenon, <1>a, <1>st, <2>1, KeptSame
  <2>3. acked_steps'[v] = acked_steps[v] /\ replica'[v] = replica[v] /\ pending'[v] = pending[v]
    BY Zenon, <1>u, <1>v, <2>2
  <2>q. QED
    BY Zenon, <1>0, <1>s, <2>1, <2>2, <2>3, FlightLocal
<1>7. Contributed'
  <2> SUFFICES ASSUME NEW v \in Workers, pending'[v] # None
               PROVE  /\ bindings'[v] # None /\ Stands(v, bindings[v])'
                      /\ pending'[v] = replica[v] /\ acked_steps[v] = current_step
    BY Zenon, <1>u DEF Contributed, Stands
  <2>1. v # w /\ bindings'[v] = bindings[v] /\ pending'[v] = pending[v]
    BY Zenon, <1>v
  <2>2. bindings[v] \in Conns /\ Stands(v, bindings[v])
    BY Zenon, <1>0, <2>1 DEF Contributed, TypeOK
  <2>3. bindings[v] # t
    BY <1>0, <1>g, NoneIsNone DEF Bound
  <2>4. Stands(v, bindings[v])'
    BY Zenon, <1>s, <2>1, <2>2, <2>3 DEF Stands
  <2>q. QED
    BY Zenon, <1>0, <2>1, <2>4 DEF Contributed
<1>8. Answers'
  <2> SUFFICES ASSUME NEW v \in Workers, stream[v] # None
               PROVE  /\ Len(down'[stream[v]]) <= 1
                      /\ wpc[v] = "submit" => down'[stream[v]] = <<>>
                      /\ \A i \in DOMAIN down'[stream[v]] :
                           /\ wpc[v] = "assign" => down'[stream[v]][i] = Assign
                           /\ wpc[v] = "reply" =>
                                /\ current_step = acked_steps[v] + 1
                                /\ down'[stream[v]][i] = IF DoneSent THEN Done ELSE Ack(current_step)
    BY Zenon, <1>u DEF Answers, DoneSent
  <2>1. CASE stream[v] = t
    <3>1. wpc[v] = "assign" /\ down'[t] \in {<<>>, Append(<<>>, Assign)}
      BY Zenon, <1>d, <1>g, <2>1
    <3>2. Len(Append(<<>>, Assign)) = 1 /\ \A i \in DOMAIN Append(<<>>, Assign) : Append(<<>>, Assign)[i] = Assign
      OBVIOUS
    <3>3. Len(<<>>) <= 1 /\ DOMAIN <<>> = {}
      OBVIOUS
    <3>4. CASE down'[stream[v]] = <<>>
      BY Zenon, <3>3, <3>4
    <3>5. CASE down'[stream[v]] = Append(<<>>, Assign)
      BY <3>1, <3>2, <3>5
    <3>q. QED
      BY Zenon, <2>1, <3>1, <3>4, <3>5
  <2>2. CASE stream[v] # t
    <3>1. stream[v] \in Conns \ {t}
      BY Zenon, <1>0, <2>2 DEF TypeOK
    <3>2. /\ Len(down[stream[v]]) \in Nat /\ Len(down'[stream[v]]) \in Nat
          /\ Len(down'[stream[v]]) <= Len(down[stream[v]])
      BY <1>0, <1>e, <3>1 DEF TypeOK
    <3>3. Len(down'[stream[v]]) <= 1
      BY <1>0, <3>2 DEF Answers
    <3>4. \A i \in DOMAIN down'[stream[v]] :
            i \in DOMAIN down[stream[v]] /\ down'[stream[v]][i] = down[stream[v]][i]
      BY Zenon, <1>e, <3>1
    <3>5. wpc[v] = "submit" => down'[stream[v]] = <<>>
      BY Zenon, <1>0, <1>e, <3>1 DEF Answers
    <3>q. QED
      BY Zenon, <1>0, <3>3, <3>4, <3>5 DEF Answers
  <2>q. QED
    BY Zenon, <2>1, <2>2
<1>q. QED
  BY Zenon, <1>1, <1>2, <1>3, <1>4, <1>5, <1>6, <1>7, <1>8 DEF IInv

-----------------------------------------------------------------------------
(* The theorems                                                            *)

LEMMA InitHolds == Init => IInv
<1> SUFFICES ASSUME Init PROVE IInv
  BY Zenon
<1>1. TypeOK
  BY TrainingAssumption DEF Init, TypeOK, Waiting
<1>2. Streams /\ Ends /\ Bound
  BY Zenon, NoneIsNone DEF Init, Streams, Ends, Bound, Attached
<1>3. Greeting /\ InFlight /\ Contributed /\ Answers
  BY NoneIsNone DEF Init, Greeting, GreetingOn, InFlight, FlightOf, Contributed, Answers
<1>4. Rounds(0) = <<>>
  BY DEF Rounds
<1>5. Progress
  BY <1>4, TrainingAssumption DEF Init, Progress
<1>6. NobodyConfused
  BY Zenon DEF Init, NobodyConfused
<1>q. QED
  BY Zenon, <1>1, <1>2, <1>3, <1>5, <1>6 DEF IInv

LEMMA StutterKeeps ==
  ASSUME IInv, UNCHANGED vars
  PROVE  IInv'
<1>1. /\ UNCHANGED <<coord, current_step, pending, bindings, conns, worker_id, link, up, down,
                     wpc, stream, acked_steps, replica>>
      /\ attempts' = attempts
  BY Zenon DEF vars, coordVars, netVars, workerVars
<1>2. attempts' \in [Workers -> Nat]
  BY Zenon, <1>1 DEF IInv, TypeOK
<1>q. QED
  BY Zenon, <1>1, <1>2, AttemptKeeps

LEMMA WorkerStepKeeps ==
  ASSUME IInv, LossOK, NEW w \in Workers, WorkerStep(w) \/ WorkerFails(w) \/ Heartbeat(w)
  PROVE  IInv'
  BY Zenon, ConnectKeeps, ConnectFailsKeeps, GiveUpKeeps, ReadAssignKeeps, AttemptFailsKeeps, SubmitKeeps,
     ReattachKeeps, ReadAckKeeps, ReadDoneKeeps, WorkerFailsKeeps, HeartbeatKeeps
  DEF WorkerStep

LEMMA HandleFrameKeeps ==
  ASSUME IInv, NEW t \in Conns, HandleFrame(t)
  PROVE  IInv'
  BY Zenon, HandleHelloKeeps, EndKeeps, ReplayKeeps, ContributeKeeps, CompleteRoundKeeps
  DEF HandleFrame

LEMMA NextKeeps == IInv /\ LossOK /\ [Next]_vars => IInv'
<1> SUFFICES ASSUME IInv, LossOK, [Next]_vars PROVE IInv'
  BY Zenon
<1>1. CASE \E w \in Workers : WorkerStep(w) \/ WorkerFails(w) \/ Heartbeat(w)
  BY Zenon, <1>1, WorkerStepKeeps
<1>2. CASE \E w \in Workers : SilenceTimeout(w)
  BY Zenon, <1>2, EndKeeps DEF SilenceTimeout
<1>3. CASE \E t \in Conns : Break(t) \/ HandleFrame(t) \/ Retire(t)
  BY Zenon, <1>3, BreakKeeps, HandleFrameKeeps, RetireKeeps
<1>4. CASE Deadline \/ FinishUnbound \/ FinishGrace
  BY Zenon, <1>4, EndKeeps DEF Deadline, FinishUnbound, FinishGrace
<1>5. CASE UNCHANGED vars
  BY Zenon, <1>5, StutterKeeps
<1>q. QED
  BY Zenon, <1>1, <1>2, <1>3, <1>4, <1>5 DEF Next

\* A loss changes with the parameters only.
LEMMA LossKept == LossOK /\ [Next]_vars => LossOK'
<1> SUFFICES ASSUME LossOK, [Next]_vars PROVE LossOK'
  BY Zenon
<1>1. CASE \E w \in Workers : ReadAck(w)
  BY Zenon, <1>1 DEF ReadAck, LossOK
<1>2. CASE loss' = loss
  BY Zenon, <1>2 DEF LossOK
<1>3. CASE \E w \in Workers : WorkerStep(w) /\ ~ReadAck(w)
  BY Zenon, <1>2, <1>3 DEF WorkerStep, Connect, ConnectFails, GiveUp, ReadAssign, AttemptFails, Submit,
     Reattach, ReadDone
<1>4. CASE \E w \in Workers : WorkerFails(w) \/ Heartbeat(w) \/ SilenceTimeout(w)
  BY Zenon, <1>2, <1>4 DEF WorkerFails, Heartbeat, SilenceTimeout, End, workerVars
<1>5. CASE \E t \in Conns : Break(t) \/ HandleFrame(t) \/ Retire(t)
  BY Zenon, <1>2, <1>5 DEF Break, HandleFrame, HandleHello, Replay, Contribute, CompleteRound, Retire,
     End, workerVars
<1>6. CASE Deadline \/ FinishUnbound \/ FinishGrace
  BY Zenon, <1>2, <1>6 DEF Deadline, FinishUnbound, FinishGrace, End, workerVars
<1>7. CASE UNCHANGED vars
  BY Zenon, <1>2, <1>7 DEF vars, workerVars
<1>q. QED
  BY Zenon, <1>1, <1>3, <1>4, <1>5, <1>6, <1>7 DEF Next

\* The inductive invariant: which frames are under way, and where their rank stands.
THEOREM Inductive == Spec => [](IInv /\ LossOK)
<1>1. Init => IInv /\ LossOK
  BY Zenon, InitHolds DEF Init, LossOK
<1>2. IInv /\ LossOK /\ [Next]_vars => IInv' /\ LossOK'
  BY Zenon, NextKeeps, LossKept
<1>q. QED
  BY <1>1, <1>2, PTL DEF Spec

\* Whatever breaks and however often, all replicas are the same sequence of averages
\* (dist_tcp_worker).
THEOREM ReplicasStayEqual == Spec => []ReplicasAgree
<1>1. IInv => ReplicasAgree
  BY Zenon DEF IInv, Progress, ReplicasAgree
<1>q. QED
  BY <1>1, Inductive, PTL

\* No gradient of another round is averaged (dist_coord_handle_frame).
THEOREM RoundsStayUniform == Spec => []RoundIsUniform
<1>1. IInv => RoundIsUniform
  <2> SUFFICES ASSUME IInv, NEW w \in Workers, pending[w] # None
               PROVE  pending[w] = Rounds(current_step)
    BY Zenon DEF RoundIsUniform
  <2>1. /\ pending[w] = replica[w] /\ acked_steps[w] = current_step
        /\ Stands(w, bindings[w])
    BY Zenon DEF IInv, Contributed
  <2>2. wpc[w] # "done"
    BY Zenon, <2>1 DEF Stands, Waiting
  <2>q. QED
    BY Zenon, <2>1, <2>2 DEF IInv, Progress
<1>q. QED
  BY <1>1, Inductive, PTL

\* The one cached answer is enough (last_round).
THEOREM WorkersStayInStep == Spec => []LockStep
<1>1. IInv => LockStep
  BY Zenon DEF IInv, Progress, LockStep
<1>q. QED
  BY <1>1, Inductive, PTL

\* A step that ends the coordinator with a protocol failure handles a bad frame.
LEMMA ProtocolFailure ==
  ASSUME IInv, Running, coord' = "Protocol", [Next]_vars
  PROVE  \E t \in Conns : BadFrame(t)
<1>1. CASE \E w \in Workers : WorkerStep(w)
  BY Zenon, <1>1 DEF WorkerStep, Connect, ConnectFails, GiveUp, ReadAssign, AttemptFails, Submit,
     Reattach, ReadAck, ReadDone, coordVars, Running
<1>2. CASE \E w \in Workers : WorkerFails(w) \/ Heartbeat(w) \/ SilenceTimeout(w)
  BY Zenon, <1>2 DEF WorkerFails, Heartbeat, SilenceTimeout, End, coordVars, Running
<1>3. CASE \E t \in Conns : Break(t) \/ HandleFrame(t) \/ Retire(t)
  BY Zenon, <1>3 DEF Break, HandleFrame, HandleHello, Replay, Contribute, CompleteRound, Retire,
     coordVars, Running
<1>4. CASE Deadline \/ FinishUnbound \/ FinishGrace
  BY Zenon, <1>4 DEF Deadline, FinishUnbound, FinishGrace, End
<1>5. CASE UNCHANGED vars
  BY Zenon, <1>5 DEF vars, coordVars, Running
<1>q. QED
  BY Zenon, <1>1, <1>2, <1>3, <1>4, <1>5 DEF Next

\* Neither side ever takes a delayed or repeated frame for a violation of the protocol:
\* the coordinator fails over a loss that is not finite and nothing else
\* (dist_coord_handle_frame, dist_tcp_worker).
THEOREM ProtocolIsKept == Spec => OnlyDivergenceIsRefused
<1>1. IInv /\ IInv' /\ [Next]_vars =>
        [/\ coord' = "Protocol" /\ Running =>
              \E t \in conns : Pops(t, "GRADIENTS") /\ ~OutOfOrder(t) /\ Head(up[t]).loss = "diverged"
         /\ \A w \in Workers : wpc'[w] # "confused"]_vars
  BY Zenon, ProtocolFailure, BadFrames DEF IInv, NobodyConfused
<1>q. QED
  BY <1>1, Inductive, PTL DEF Spec, OnlyDivergenceIsRefused

\* A rank and its gradient belong to one connection (dist_retire_conn).
THEOREM RankHasOneConnection == Spec => []OneConnectionPerRank
<1>1. IInv => OneConnectionPerRank
  BY Zenon DEF IInv, Bound, Contributed, TypeOK, OneConnectionPerRank
<1>q. QED
  BY <1>1, Inductive, PTL
=============================================================================
