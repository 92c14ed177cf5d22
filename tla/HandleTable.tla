----------------------------- MODULE HandleTable -----------------------------
(***************************************************************************)
(* HandleTable<T>, the generational table behind every object a program    *)
(* refers to by handle.  A table is only used under the lock of the        *)
(* registry that owns it, so every operation is an action; drain is a loop *)
(* under that lock and one action per slot.                                *)
(*                                                                         *)
(* The n-th inserted value is the number n, which also names the handle    *)
(* insert returned for it.  Callers keep their handles and may use any of  *)
(* them at any time, released ones included.  Handles of another kind are  *)
(* rejected without looking at the slots and are left out.                 *)
(***************************************************************************)
EXTENDS Integers, Sequences

CONSTANTS
  MaxGeneration,  \* 65535, the largest u16
  MaxInserts,     \* bound on the values inserted
  SlotRadix       \* 2^32, the width of the slot in a raw handle

ASSUME HandleAssumption ==
  MaxGeneration \in Nat \ {0} /\ MaxInserts \in Nat /\ SlotRadix \in Nat /\ MaxInserts < SlotRadix

None == 0
Values == 1..MaxInserts
Slots == 1..MaxInserts

VARIABLES
  nslots, generation, value,  \* slots
  free,                       \* the stack of released slots, its top first
  out,                        \* the handle whose value take has lent out
  drain,                      \* the slot drain has come to, or None
  inserts, slot_of, generation_of, \* the handles given out
  removals, removals_at, age, \* history: removals per slot, their number when a handle was
                              \* given out, removals from any slot since then
  asked, answer               \* the handle the last operation was called with and what it
                              \* gave its caller

slotVars == <<nslots, generation, value, free>>
handleVars == <<inserts, slot_of, generation_of>>
history == <<removals, removals_at, age>>
vars == <<slotVars, out, drain, handleVars, history, asked, answer>>

Init ==
  /\ nslots = 0 /\ free = <<>>
  /\ generation = [s \in Slots |-> 1] /\ value = [s \in Slots |-> None]
  /\ out = None /\ drain = None
  /\ inserts = 0 /\ slot_of = [n \in Values |-> None] /\ generation_of = [n \in Values |-> 1]
  /\ removals = [s \in Slots |-> 0] /\ removals_at = [n \in Values |-> 0]
  /\ age = [n \in Values |-> 0]
  /\ asked = None /\ answer = None

Idle == out = None /\ drain = None

-----------------------------------------------------------------------------
(* Insertion                                                               *)

\* Value n goes into slot s and HandleId::new names it.
Place(n, s) ==
  /\ inserts < MaxInserts /\ n = inserts + 1
  /\ inserts' = n
  /\ value' = [value EXCEPT ![s] = n]
  /\ slot_of' = [slot_of EXCEPT ![n] = s]
  /\ generation_of' = [generation_of EXCEPT ![n] = generation[s]]
  /\ removals_at' = [removals_at EXCEPT ![n] = removals[s]]
  /\ asked' = n /\ answer' = None
  /\ UNCHANGED <<generation, out, drain, removals, age>>

InsertReused(n) ==
  /\ free # <<>>
  /\ Place(n, Head(free))
  /\ free' = Tail(free)
  /\ UNCHANGED nslots

\* insert_fresh; a new slot has generation 1.
InsertFresh(n) ==
  /\ Place(n, nslots + 1)
  /\ nslots' = nslots + 1
  /\ UNCHANGED free

Insert(n) == InsertReused(n) \/ (free = <<>> /\ InsertFresh(n))

-----------------------------------------------------------------------------
(* Access by handle                                                        *)

\* validate_slot: the slot exists and has the generation of the handle.
SlotValid(n) == generation[slot_of[n]] = generation_of[n]

\* validate and get: the value, if there is one.
Resolved(n) == IF SlotValid(n) THEN value[slot_of[n]] ELSE None

Get(n) ==
  /\ n \in 1..inserts
  /\ asked' = n /\ answer' = Resolved(n)
  /\ UNCHANGED <<slotVars, out, drain, handleVars, history>>

\* take lends the value out and keeps the handle valid.
Take(n) ==
  /\ n \in 1..inserts /\ Resolved(n) # None
  /\ asked' = n /\ answer' = Resolved(n)
  /\ out' = Resolved(n)
  /\ value' = [value EXCEPT ![slot_of[n]] = None]
  /\ UNCHANGED <<nslots, generation, free, drain, handleVars, history>>

\* put, before anything else is done with the table.
Put ==
  /\ out # None
  /\ value' = [value EXCEPT ![slot_of[out]] = out]
  /\ out' = None
  /\ UNCHANGED <<nslots, generation, free, drain, handleVars, history, asked, answer>>

-----------------------------------------------------------------------------
(* Release                                                                 *)

\* Mutant: the handle of the next value is the same.
BumpedNot(g) == g

\* wrapping_add(1).max(1)
Bumped(g) == IF g = MaxGeneration THEN 1 ELSE g + 1

Older == [n \in Values |-> IF n <= inserts THEN age[n] + 1 ELSE age[n]]

\* Slot s loses its value: its generation moves on and it can be reused.
Vacate(s) ==
  /\ value' = [value EXCEPT ![s] = None]
  /\ generation' = [generation EXCEPT ![s] = Bumped(@)]
  /\ free' = <<s>> \o free
  /\ removals' = [removals EXCEPT ![s] = @ + 1] /\ age' = Older

\* Mutant: the generation of the handle is not compared.
RemoveAnyGeneration(n) ==
  /\ n \in 1..inserts /\ value[slot_of[n]] # None
  /\ asked' = n /\ answer' = value[slot_of[n]]
  /\ Vacate(slot_of[n])
  /\ UNCHANGED <<nslots, out, drain, handleVars, removals_at>>

Remove(n) ==
  /\ n \in 1..inserts /\ Resolved(n) # None
  /\ asked' = n /\ answer' = Resolved(n)
  /\ Vacate(slot_of[n])
  /\ UNCHANGED <<nslots, out, drain, handleVars, removals_at>>

\* HandleError::Stale, of remove and take.
Refused(n) ==
  /\ n \in 1..inserts /\ Resolved(n) = None
  /\ asked' = n /\ answer' = None
  /\ UNCHANGED <<slotVars, out, drain, handleVars, history>>

DrainStart ==
  /\ Idle /\ nslots > 0
  /\ drain' = 1
  /\ UNCHANGED <<slotVars, out, handleVars, history, asked, answer>>

\* The body of the loop for one slot.
DrainSlot ==
  /\ drain # None
  /\ IF value[drain] = None
     THEN UNCHANGED <<value, generation, free, removals, age, asked, answer>>
     ELSE asked' = None /\ answer' = value[drain] /\ Vacate(drain)
  /\ drain' = IF drain = nslots THEN None ELSE drain + 1
  /\ UNCHANGED <<nslots, out, handleVars, removals_at>>

Next ==
  \/ Put \/ DrainStart \/ DrainSlot
  \/ Idle /\ \E n \in Values :
       \/ Insert(n) \/ InsertFresh(n) \/ Get(n) \/ Take(n) \/ Remove(n) \/ Refused(n)

Spec == Init /\ [][Next]_vars

-----------------------------------------------------------------------------
(* The raw form of a handle                                                *)

\* HandleId::raw, without the kind: the slot is stored plus one, which here is
\* the number of the slot.
Raw(s, g) == g * SlotRadix + s

\* HandleId::from_raw
RawGeneration(r) == r \div SlotRadix
RawSlot(r) == r % SlotRadix

-----------------------------------------------------------------------------
(* Properties                                                              *)

TypeOK ==
  /\ nslots \in 0..inserts /\ inserts \in 0..MaxInserts
  /\ generation \in [Slots -> 1..MaxGeneration]
  /\ value \in [Slots -> 0..inserts]
  /\ free \in Seq(1..nslots)
  /\ out \in 0..inserts /\ drain \in 0..nslots
  /\ slot_of \in [Values -> 0..nslots] /\ \A n \in 1..inserts : slot_of[n] # None
  /\ generation_of \in [Values -> 1..MaxGeneration]
  /\ removals \in [Slots -> Nat] /\ removals_at \in [Values -> Nat] /\ age \in [Values -> Nat]
  /\ asked \in 0..inserts /\ answer \in 0..inserts

Freed == {free[i] : i \in DOMAIN free}

\* The free list is exactly the empty slots, each of them once, through any
\* sequence of stale removals, drains and reuse: two values never share a slot
\* and no slot is lost, except while its value is lent out.
FreeListIsExact ==
  /\ \A i, j \in DOMAIN free : free[i] = free[j] => i = j
  /\ \A s \in 1..nslots : s \in Freed <=> value[s] = None /\ (out # None => s # slot_of[out])

\* A value is found by its own handle as long as it is in the table.
LiveValuesResolve ==
  \A s \in 1..nslots : value[s] # None => slot_of[value[s]] = s /\ Resolved(value[s]) = value[s]

\* "Reusing a slot therefore cannot make an old value silently refer to a new
\* object", and exactly how far this goes: an old handle finds another value only
\* after its slot was emptied MaxGeneration times.
StaleHandleNeedsWrap ==
  \A n \in 1..inserts : Resolved(n) \notin {None, n} =>
    removals[slot_of[n]] - removals_at[n] >= MaxGeneration

\* The values in the table, the one that is lent out included.
Live == ({value[s] : s \in 1..nslots} \cup {out}) \ {None}

Map == INSTANCE HandleMap WITH Term <- MaxGeneration, used <- 1..inserts, live <- Live,
                               draining <- drain # None

\* The table keeps the promise of HandleMap.
ImplementsMap == Map!Spec
=============================================================================
