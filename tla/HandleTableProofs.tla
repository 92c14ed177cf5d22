-------------------------- MODULE HandleTableProofs --------------------------
(* Theorems about HandleTable, for every width of the generation and every   *)
(* number of insertions.                                                     *)
EXTENDS HandleTable, TLAPS

\* A value in the table, or lent out, and its slot agree on the generation and on
\* the number of removals.
OwnInv ==
  /\ \A s \in 1..nslots : value[s] # None =>
       /\ slot_of[value[s]] = s
       /\ generation_of[value[s]] = generation[s] /\ removals_at[value[s]] = removals[s]
  /\ out # None =>
       /\ value[slot_of[out]] = None
       /\ generation_of[out] = generation[slot_of[out]]
       /\ removals_at[out] = removals[slot_of[out]]
  /\ out # None => drain = None

\* How often the slot of n was emptied since n was put there.
Distance(n) == removals[slot_of[n]] - removals_at[n]

\* The generation of a slot runs through 1..MaxGeneration in a circle.
CycleInv ==
  \A n \in 1..inserts :
    /\ Distance(n) >= 0 /\ Distance(n) <= age[n]
    /\ Distance(n) < MaxGeneration =>
         generation[slot_of[n]] = IF generation_of[n] + Distance(n) <= MaxGeneration
                                  THEN generation_of[n] + Distance(n)
                                  ELSE generation_of[n] + Distance(n) - MaxGeneration

\* No two handles were given out for the same stay in a slot.
UniqueInv ==
  /\ \A m, n \in 1..inserts :
       slot_of[m] = slot_of[n] /\ removals_at[m] = removals_at[n] => m = n
  /\ \A n \in 1..inserts : slot_of[n] \in Freed => Distance(n) > 0

IInv == TypeOK /\ FreeListIsExact /\ OwnInv /\ CycleInv /\ UniqueInv

-----------------------------------------------------------------------------
\* The slots in use are slots.
LEMMA SlotFacts ==
  ASSUME TypeOK
  PROVE  value \in [Slots -> 0..inserts] /\ \A u \in 1..nslots : u \in Slots
<1>1. value \in [Slots -> 0..inserts]
  BY DEF TypeOK
<1>2. /\ nslots \in Nat /\ inserts \in Nat /\ MaxInserts \in Nat /\ nslots <= inserts
      /\ inserts <= MaxInserts
  BY HandleAssumption DEF TypeOK
<1>3. QED
  BY <1>1, <1>2 DEF Slots

\* What a push does to the free list.
LEMMA PushFacts ==
  ASSUME NEW k \in Nat, NEW s \in 1..k, free \in Seq(1..k), s \notin Freed, FreeListIsExact,
         free' = <<s>> \o free
  PROVE  /\ free' \in Seq(1..k)
         /\ Freed' = Freed \cup {s}
         /\ \A i, j \in DOMAIN free' : free'[i] = free'[j] => i = j
<1>0. Len(free) \in Nat /\ DOMAIN free = 1..Len(free)
  OBVIOUS
<1>1. /\ free' \in Seq(1..k) /\ DOMAIN free' = 1..(Len(free) + 1)
      /\ \A i \in 1..(Len(free) + 1) : free'[i] = IF i = 1 THEN s ELSE free[i - 1]
  BY <1>0
<1>2. Freed' = Freed \cup {s}
  <2>1. ASSUME NEW u \in Freed' PROVE u \in Freed \cup {s}
    BY <1>0, <1>1 DEF Freed
  <2>2. ASSUME NEW u \in Freed PROVE u \in Freed'
    <3>1. PICK i \in DOMAIN free : u = free[i]
      BY DEF Freed
    <3>2. i + 1 \in DOMAIN free' /\ free'[i + 1] = u
      BY SMTT(30), <1>0, <1>1, <3>1
    <3>3. QED
      BY <3>2 DEF Freed
  <2>3. 1 \in DOMAIN free' /\ free'[1] = s
    BY <1>0, <1>1
  <2>4. s \in Freed'
    BY <2>3 DEF Freed
  <2>5. QED
    BY <2>1, <2>2, <2>4
<1>3. ASSUME NEW i \in DOMAIN free', NEW j \in DOMAIN free', free'[i] = free'[j] PROVE i = j
  <2>1. \A l \in DOMAIN free : free[l] # s
    BY DEF Freed
  <2>2. \A l, m \in 1..Len(free) : free[l] = free[m] => l = m
    BY <1>0 DEF FreeListIsExact
  <2>3. CASE i = 1 \/ j = 1
    BY SMTT(30), <1>0, <1>1, <1>3, <2>1, <2>3
  <2>4. CASE i # 1 /\ j # 1
    <3>1. i - 1 \in 1..Len(free) /\ j - 1 \in 1..Len(free) /\ i \in Int /\ j \in Int
      BY SMTT(30), <1>0, <1>1, <2>4
    <3>2. free[i - 1] = free[j - 1]
      BY <1>1, <1>3, <2>4
    <3>3. i - 1 = j - 1
      BY <2>2, <3>1, <3>2
    <3>4. QED
      BY <3>1, <3>3
  <2>5. QED
    BY <2>3, <2>4
<1>4. QED
  BY <1>1, <1>2, <1>3

\* What a pop does to it.
LEMMA PopFacts ==
  ASSUME NEW k \in Nat, free \in Seq(1..k), free # <<>>, FreeListIsExact, free' = Tail(free)
  PROVE  /\ free' \in Seq(1..k)
         /\ Head(free) \in 1..k /\ Head(free) \in Freed
         /\ Freed' = Freed \ {Head(free)}
         /\ \A i, j \in DOMAIN free' : free'[i] = free'[j] => i = j
<1>0. Len(free) \in Nat \ {0} /\ DOMAIN free = 1..Len(free) /\ Head(free) = free[1]
  OBVIOUS
<1>1. /\ free' \in Seq(1..k) /\ DOMAIN free' = 1..(Len(free) - 1)
      /\ \A i \in 1..(Len(free) - 1) : free'[i] = free[i + 1]
  BY <1>0
<1>2. Head(free) \in 1..k /\ Head(free) \in Freed
  BY <1>0 DEF Freed
<1>3. \A i, j \in 1..Len(free) : free[i] = free[j] => i = j
  BY <1>0 DEF FreeListIsExact
<1>4. Freed' = Freed \ {Head(free)}
  <2>1. ASSUME NEW u \in Freed' PROVE u \in Freed /\ u # Head(free)
    <3>1. PICK i \in DOMAIN free' : u = free'[i]
      BY DEF Freed
    <3>2. i + 1 \in 1..Len(free) /\ u = free[i + 1] /\ i + 1 # 1 /\ 1 \in 1..Len(free)
      BY <1>0, <1>1, <3>1
    <3>3. QED
      BY <1>0, <1>3, <3>2 DEF Freed
  <2>2. ASSUME NEW u \in Freed, u # Head(free) PROVE u \in Freed'
    <3>1. PICK i \in DOMAIN free : u = free[i]
      BY DEF Freed
    <3>2. i - 1 \in DOMAIN free' /\ free'[i - 1] = u
      BY SMTT(30), <1>0, <1>1, <2>2, <3>1
    <3>3. QED
      BY <3>2 DEF Freed
  <2>3. QED
    BY <2>1, <2>2
<1>5. ASSUME NEW i \in DOMAIN free', NEW j \in DOMAIN free', free'[i] = free'[j] PROVE i = j
  <2>0. i \in 1..(Len(free) - 1) /\ j \in 1..(Len(free) - 1)
    BY <1>1
  <2>1. /\ i + 1 \in 1..Len(free) /\ j + 1 \in 1..Len(free) /\ free[i + 1] = free[j + 1]
        /\ i \in Int /\ j \in Int
    <3>1. i + 1 \in 1..Len(free) /\ j + 1 \in 1..Len(free) /\ i \in Int /\ j \in Int
      BY SMTT(30), <1>0, <2>0
    <3>2. free'[i] = free[i + 1] /\ free'[j] = free[j + 1]
      BY <1>1, <2>0
    <3>3. QED
      BY <1>5, <3>1, <3>2
  <2>2. i + 1 = j + 1
    BY <1>3, <2>1
  <2>3. QED
    BY <2>1, <2>2
<1>6. QED
  BY <1>1, <1>2, <1>4, <1>5
-----------------------------------------------------------------------------
\* A new value goes into slot s, which is new or comes off the free list.
LEMMA PlaceStep ==
  ASSUME IInv, Idle, NEW n \in Values, NEW s \in Slots, Place(n, s),
         nslots' \in {nslots, nslots + 1}, s \in 1..nslots',
         \/ s \in Freed /\ nslots' = nslots
         \/ s = nslots + 1 /\ nslots' = nslots + 1,
         free' \in Seq(1..nslots'), Freed' = Freed \ {s},
         \A i, j \in DOMAIN free' : free'[i] = free'[j] => i = j
  PROVE  IInv'
<1> USE DEF None
<1>a. /\ inserts \in Nat /\ nslots \in Nat /\ MaxInserts \in Nat /\ nslots <= inserts
      /\ inserts < MaxInserts /\ n = inserts + 1 /\ inserts' = n
  BY HandleAssumption DEF Place, IInv, TypeOK
<1>t. /\ generation \in [Slots -> 1..MaxGeneration] /\ value \in [Slots -> 0..inserts]
      /\ slot_of \in [Values -> 0..nslots] /\ generation_of \in [Values -> 1..MaxGeneration]
      /\ removals \in [Slots -> Nat] /\ removals_at \in [Values -> Nat] /\ age \in [Values -> Nat]
      /\ \A m \in 1..inserts : slot_of[m] # None
  BY DEF IInv, TypeOK
<1>u. nslots' \in 0..n /\ nslots' \in Nat /\ nslots' <= MaxInserts
  BY <1>a
<1>v. /\ 1..inserts' = (1..inserts) \cup {n} /\ n \in 1..inserts' /\ n \notin 1..inserts
      /\ \A m \in 1..inserts : m \in Values
  BY <1>a DEF Values
<1>w. /\ \A u \in 1..nslots : u \in 1..nslots' /\ u \in Slots
      /\ \A u \in 1..nslots' : u \in Slots /\ (u # s => u \in 1..nslots)
  BY <1>a, <1>u DEF Slots
<1>x. out = None /\ drain = None /\ out' = None /\ drain' = None /\ answer' = None /\ asked' = n
  BY DEF Place, Idle
<1>0. /\ n = inserts + 1 /\ inserts' = n
      /\ 1..inserts' = (1..inserts) \cup {n} /\ n \in 1..inserts' /\ n \notin 1..inserts
      /\ \A m \in 1..inserts : m \in Values /\ m # n /\ slot_of[m] \in 1..nslots
      /\ out = None /\ out' = None /\ drain' = None
  <2>1. ASSUME NEW m \in 1..inserts PROVE m \in Values /\ m # n /\ slot_of[m] \in 1..nslots
    <3>1. m \in Values /\ m # n /\ slot_of[m] # None
      BY <1>t, <1>v
    <3>2. slot_of[m] \in 0..nslots
      BY <1>t, <3>1
    <3>3. QED
      BY <1>a, <3>1, <3>2
  <2>2. QED
    BY <1>a, <1>v, <1>x, <2>1
<1>1. /\ slot_of'[n] = s /\ generation_of'[n] = generation[s] /\ removals_at'[n] = removals[s]
      /\ value'[s] = n
      /\ \A m \in 1..inserts : /\ slot_of'[m] = slot_of[m] /\ generation_of'[m] = generation_of[m]
                               /\ removals_at'[m] = removals_at[m] /\ age'[m] = age[m]
      /\ \A u \in Slots : u # s => value'[u] = value[u]
      /\ generation' = generation /\ removals' = removals /\ age' = age
  BY <1>a, <1>t, <1>0 DEF Place
<1>2. value[s] = None \/ s = nslots + 1
  BY DEF IInv, FreeListIsExact
<1>3. \A m \in 1..inserts : slot_of[m] = s => Distance(m) > 0
  BY <1>0 DEF IInv, UniqueInv, TypeOK
<1>4. TypeOK'
  <2>1. value' \in [Slots -> 0..inserts']
    BY SMTT(30), <1>a, <1>t DEF Place
  <2>2. slot_of' \in [Values -> 0..nslots']
    <3>1. s \in 0..nslots' /\ \A u \in 0..nslots : u \in 0..nslots'
      BY <1>a, <1>u
    <3>2. slot_of \in [Values -> 0..nslots']
      BY <1>t, <3>1
    <3>3. QED
      BY <3>1, <3>2 DEF Place
  <2>3. \A m \in 1..inserts' : slot_of'[m] # None
    BY <1>a, <1>0, <1>1
  <2>4. generation_of' \in [Values -> 1..MaxGeneration] /\ removals_at' \in [Values -> Nat]
    BY <1>a, <1>t DEF Place
  <2>5. nslots' \in 0..inserts' /\ inserts' \in 0..MaxInserts
    BY <1>a, <1>u
  <2>6. out' \in 0..inserts' /\ drain' \in 0..nslots' /\ answer' \in 0..inserts'
        /\ asked' \in 0..inserts'
    BY <1>a, <1>u, <1>x
  <2>7. QED
    BY <1>t, <1>1, <2>1, <2>2, <2>3, <2>4, <2>5, <2>6 DEF TypeOK
<1>5. FreeListIsExact'
  <2>1. ASSUME NEW u \in 1..nslots' PROVE u \in Freed' <=> value'[u] = None
    <3>1. CASE u = s
      BY <1>a, <1>1, <3>1
    <3>2. CASE u # s
      <4>1. u \in 1..nslots /\ value'[u] = value[u]
        BY <1>w, <1>1, <3>2
      <4>2. QED
        BY <1>0, <3>2, <4>1 DEF IInv, FreeListIsExact
    <3>3. QED
      BY <3>1, <3>2
  <2>2. QED
    BY <1>0, <2>1 DEF FreeListIsExact
<1>6. OwnInv'
  <2>1. ASSUME NEW u \in 1..nslots', value'[u] # None
        PROVE  /\ slot_of'[value'[u]] = u
               /\ generation_of'[value'[u]] = generation'[u] /\ removals_at'[value'[u]] = removals'[u]
    <3>1. CASE u = s
      BY <1>1, <3>1
    <3>2. CASE u # s
      <4>1. u \in 1..nslots /\ u \in Slots /\ value'[u] = value[u]
        BY <1>w, <1>1, <3>2
      <4>2. value[u] \in 1..inserts
        BY SMTT(30), <1>a, <1>t, <2>1, <4>1
      <4>3. QED
        BY SMTT(30), <1>1, <2>1, <4>1, <4>2 DEF IInv, OwnInv
    <3>3. QED
      BY <3>1, <3>2
  <2>2. QED
    BY <1>0, <2>1 DEF OwnInv
<1>7. \A m \in 1..inserts : Distance(m)' = Distance(m)
  BY <1>1 DEF Distance
<1>8. Distance(n)' = 0
  BY <1>0, <1>1 DEF Distance, IInv, TypeOK
<1>9. CycleInv'
  <2>1. ASSUME NEW m \in 1..inserts
        PROVE  /\ Distance(m)' >= 0 /\ Distance(m)' <= age'[m]
               /\ Distance(m)' < MaxGeneration =>
                    generation'[slot_of'[m]] =
                      IF generation_of'[m] + Distance(m)' <= MaxGeneration
                      THEN generation_of'[m] + Distance(m)'
                      ELSE generation_of'[m] + Distance(m)' - MaxGeneration
    BY <1>1, <1>7 DEF IInv, CycleInv
  <2>2. /\ age'[n] \in Nat /\ generation_of'[n] \in 1..MaxGeneration
        /\ generation'[slot_of'[n]] = generation_of'[n]
    BY <1>0, <1>1 DEF IInv, TypeOK
  <2>3. QED
    BY <1>0, <1>8, <2>1, <2>2, HandleAssumption DEF CycleInv
<1>10. UniqueInv'
  <2>1. ASSUME NEW m \in 1..inserts PROVE ~(slot_of'[m] = s /\ removals_at'[m] = removals[s])
    <3>1. CASE slot_of[m] = s
      <4>1. removals_at[m] # removals[s]
        BY <1>t, <1>0, <1>3, <3>1 DEF Distance
      <4>2. QED
        BY <1>1, <4>1
    <3>2. QED
      BY <1>1, <3>1
  <2>2. ASSUME NEW m \in 1..inserts', NEW l \in 1..inserts', slot_of'[m] = slot_of'[l],
               removals_at'[m] = removals_at'[l]
        PROVE  m = l
    <3>1. CASE m = n \/ l = n
      BY SMTT(30), <1>0, <1>1, <2>1, <2>2, <3>1
    <3>2. CASE m # n /\ l # n
      <4>1. m \in 1..inserts /\ l \in 1..inserts
        BY <1>0, <3>2
      <4>2. slot_of[m] = slot_of[l] /\ removals_at[m] = removals_at[l]
        BY <1>1, <2>2, <4>1
      <4>3. QED
        BY <4>1, <4>2 DEF IInv, UniqueInv
    <3>3. QED
      BY <3>1, <3>2
  <2>3. ASSUME NEW m \in 1..inserts', slot_of'[m] \in Freed' PROVE Distance(m)' > 0
    <3>1. m # n
      BY <1>1, <2>3
    <3>2. m \in 1..inserts /\ slot_of[m] \in Freed
      BY <1>0, <1>1, <2>3, <3>1
    <3>3. QED
      BY <1>7, <3>2 DEF IInv, UniqueInv
  <2>4. QED
    BY <2>2, <2>3 DEF UniqueInv
<1>11. QED
  BY <1>4, <1>5, <1>6, <1>9, <1>10 DEF IInv

\* Slot s is emptied.
LEMMA VacateStep ==
  ASSUME IInv, out = None, NEW s \in 1..nslots, value[s] # None, Vacate(s),
         UNCHANGED <<nslots, out, handleVars, removals_at>>,
         answer' \in 0..inserts, asked' \in 0..inserts, drain' \in 0..nslots
  PROVE  IInv'
<1> USE DEF None
<1>a. /\ inserts \in Nat /\ nslots \in Nat /\ MaxInserts \in Nat /\ nslots <= inserts
      /\ inserts <= MaxInserts /\ MaxGeneration \in Nat \ {0}
      /\ inserts' = inserts /\ nslots' = nslots /\ out' = None
      /\ slot_of' = slot_of /\ generation_of' = generation_of /\ removals_at' = removals_at
  BY HandleAssumption DEF IInv, TypeOK, handleVars
<1>t. /\ generation \in [Slots -> 1..MaxGeneration] /\ value \in [Slots -> 0..inserts]
      /\ slot_of \in [Values -> 0..nslots] /\ generation_of \in [Values -> 1..MaxGeneration]
      /\ removals \in [Slots -> Nat] /\ removals_at \in [Values -> Nat] /\ age \in [Values -> Nat]
      /\ \A m \in 1..inserts : slot_of[m] # None
  BY DEF IInv, TypeOK
<1>b. /\ \A u \in 1..nslots : u \in Slots
      /\ \A m \in 1..inserts : m \in Values
  BY <1>a DEF Slots, Values
<1>c. \A m \in 1..inserts : slot_of[m] \in 1..nslots
  <2>1. ASSUME NEW m \in 1..inserts PROVE slot_of[m] \in 1..nslots
    <3>1. slot_of[m] \in 0..nslots /\ slot_of[m] # None
      BY <1>t, <1>b
    <3>2. QED
      BY <1>a, <3>1
  <2>2. QED
    BY <2>1
<1>1. /\ value'[s] = None /\ removals'[s] = removals[s] + 1 /\ generation'[s] = Bumped(generation[s])
      /\ \A u \in Slots : u # s => /\ value'[u] = value[u] /\ removals'[u] = removals[u]
                                   /\ generation'[u] = generation[u]
      /\ \A m \in 1..inserts : age'[m] = age[m] + 1
  BY SMTT(30), <1>a, <1>t, <1>b DEF Vacate, Older
<1>2. s \notin Freed
  BY <1>a DEF IInv, FreeListIsExact
<1>3. /\ free' \in Seq(1..nslots) /\ Freed' = Freed \cup {s}
      /\ \A i, j \in DOMAIN free' : free'[i] = free'[j] => i = j
  BY <1>a, <1>2, PushFacts DEF Vacate, IInv, TypeOK
<1>4. TypeOK'
  <2>1. Bumped(generation[s]) \in 1..MaxGeneration
    <3>1. generation[s] \in 1..MaxGeneration
      BY <1>t, <1>b
    <3>2. QED
      BY <1>a, <3>1 DEF Bumped
  <2>2. generation' \in [Slots -> 1..MaxGeneration]
    BY <1>t, <2>1 DEF Vacate
  <2>3. value' \in [Slots -> 0..inserts]
    <3>1. None \in 0..inserts
      BY <1>a
    <3>2. QED
      BY <1>t, <3>1 DEF Vacate
  <2>4. removals' \in [Slots -> Nat] /\ age' \in [Values -> Nat]
    <3>1. removals' = [removals EXCEPT ![s] = @ + 1] /\ age' = Older
      BY DEF Vacate
    <3>2. removals[s] + 1 \in Nat
      BY <1>t, <1>b
    <3>3. removals' \in [Slots -> Nat]
      BY <1>t, <3>1, <3>2
    <3>4. \A m \in Values : age[m] + 1 \in Nat /\ age[m] \in Nat
      BY <1>t
    <3>5. age' \in [Values -> Nat]
      BY <3>1, <3>4 DEF Older
    <3>6. QED
      BY <3>3, <3>5
  <2>5. QED
    BY <1>a, <1>3, <2>2, <2>3, <2>4 DEF IInv, TypeOK
<1>5. FreeListIsExact'
  <2>1. ASSUME NEW u \in 1..nslots PROVE u \in Freed' <=> value'[u] = None
    BY <1>a, <1>b, <1>1, <1>3 DEF IInv, FreeListIsExact
  <2>2. QED
    BY <1>a, <1>3, <2>1 DEF FreeListIsExact
<1>6. OwnInv'
  <2>1. ASSUME NEW u \in 1..nslots, value'[u] # None
        PROVE  /\ slot_of[value'[u]] = u
               /\ generation_of[value'[u]] = generation'[u] /\ removals_at[value'[u]] = removals'[u]
    BY <1>b, <1>1, <2>1 DEF IInv, OwnInv
  <2>2. QED
    BY <1>a, <2>1 DEF OwnInv
<1>7. \A m \in 1..inserts : slot_of[m] # s => Distance(m)' = Distance(m)
  BY <1>a, <1>b, <1>c, <1>1 DEF Distance
<1>8. \A m \in 1..inserts : slot_of[m] = s => Distance(m)' = Distance(m) + 1
  BY SMTT(30), <1>a, <1>t, <1>b, <1>1 DEF Distance
<1>9. \A m \in 1..inserts : Distance(m) \in Int /\ age[m] \in Nat /\ generation_of[m] \in 1..MaxGeneration
  BY <1>t, <1>b, <1>c DEF Distance
<1>10. CycleInv'
  <2> SUFFICES ASSUME NEW m \in 1..inserts
               PROVE  /\ Distance(m)' >= 0 /\ Distance(m)' <= age'[m]
                      /\ Distance(m)' < MaxGeneration =>
                           generation'[slot_of[m]] =
                             IF generation_of[m] + Distance(m)' <= MaxGeneration
                             THEN generation_of[m] + Distance(m)'
                             ELSE generation_of[m] + Distance(m)' - MaxGeneration
    BY <1>a DEF CycleInv
  <2>1. /\ Distance(m) >= 0 /\ Distance(m) <= age[m]
        /\ Distance(m) < MaxGeneration =>
             generation[slot_of[m]] = IF generation_of[m] + Distance(m) <= MaxGeneration
                                      THEN generation_of[m] + Distance(m)
                                      ELSE generation_of[m] + Distance(m) - MaxGeneration
    BY DEF IInv, CycleInv
  <2>2. CASE slot_of[m] = s
    <3>1. /\ Distance(m)' = Distance(m) + 1 /\ age'[m] = age[m] + 1
          /\ generation'[slot_of[m]] = IF generation[slot_of[m]] = MaxGeneration
                                       THEN 1 ELSE generation[slot_of[m]] + 1
      BY <1>1, <1>8, <2>2 DEF Bumped
    <3>2. QED
      BY <1>a, <1>9, <2>1, <3>1
  <2>3. CASE slot_of[m] # s
    <3>1. /\ Distance(m)' = Distance(m) /\ age'[m] = age[m] + 1
          /\ generation'[slot_of[m]] = generation[slot_of[m]]
      BY <1>b, <1>c, <1>1, <1>7, <2>3
    <3>2. QED
      BY <1>9, <2>1, <3>1
  <2>4. QED
    BY <2>2, <2>3
<1>11. UniqueInv'
  <2>1. ASSUME NEW m \in 1..inserts, slot_of[m] \in Freed' PROVE Distance(m)' > 0
    <3>1. CASE slot_of[m] = s
      BY <1>8, <1>9, <3>1 DEF IInv, CycleInv
    <3>2. CASE slot_of[m] # s
      BY <1>3, <1>7, <2>1, <3>2 DEF IInv, UniqueInv
    <3>3. QED
      BY <3>1, <3>2
  <2>2. QED
    BY <1>a, <2>1 DEF IInv, UniqueInv
<1>12. QED
  BY <1>4, <1>5, <1>6, <1>10, <1>11 DEF IInv

\* What the handle of n resolves to.
LEMMA ResolvedFacts ==
  ASSUME IInv, NEW n \in 1..inserts
  PROVE  /\ slot_of[n] \in 1..nslots /\ slot_of[n] \in Slots /\ n \in Values
         /\ Resolved(n) \in 0..inserts
         /\ Resolved(n) # None => Resolved(n) = value[slot_of[n]]
<1> USE DEF None
<1>1. /\ inserts \in Nat /\ nslots \in Nat /\ MaxInserts \in Nat /\ nslots <= inserts
      /\ inserts <= MaxInserts
  BY HandleAssumption DEF IInv, TypeOK
<1>2. n \in Values
  BY <1>1 DEF Values
<1>3. slot_of[n] \in 0..nslots /\ slot_of[n] # None
  BY <1>2 DEF IInv, TypeOK
<1>4. slot_of[n] \in 1..nslots /\ slot_of[n] \in Slots
  BY <1>1, <1>3 DEF Slots
<1>5. value[slot_of[n]] \in 0..inserts
  BY <1>4 DEF IInv, TypeOK
<1>6. QED
  BY <1>1, <1>2, <1>4, <1>5 DEF Resolved

\* A step that touches neither slots nor handles.
LEMMA FrameStep ==
  ASSUME IInv, UNCHANGED <<slotVars, handleVars, history, out>>,
         answer' \in 0..inserts, asked' \in 0..inserts, drain' \in 0..nslots, 
         out # None => drain' = None
  PROVE  IInv'
<1>1. Freed' = Freed /\ \A n \in 1..inserts : Distance(n)' = Distance(n)
  BY DEF slotVars, handleVars, history, Freed, Distance
<1>2. TypeOK'
  BY DEF IInv, TypeOK, slotVars, handleVars, history
<1>3. FreeListIsExact' /\ OwnInv'
  BY <1>1 DEF IInv, FreeListIsExact, OwnInv, slotVars, handleVars, history
<1>4. CycleInv' /\ UniqueInv'
  BY SMTT(30), <1>1 DEF IInv, CycleInv, UniqueInv, slotVars, handleVars, history
<1>5. QED
  BY <1>2, <1>3, <1>4 DEF IInv

\* take, in slot s.
LEMMA TakeStep ==
  ASSUME IInv, Idle, NEW n \in 1..inserts, Take(n)
  PROVE  IInv'
<1> USE DEF None
<1> DEFINE s == slot_of[n]
           v == Resolved(n)
<1>1. /\ s \in 1..nslots /\ s \in Slots /\ v = value[s] /\ v # None /\ v \in 0..inserts
      /\ slot_of[v] = s /\ generation_of[v] = generation[s] /\ removals_at[v] = removals[s]
  BY ResolvedFacts DEF Take, IInv, OwnInv
<1>2. out = None /\ drain = None /\ out' = v /\ drain' = None
  BY DEF Take, Idle
<1>3. /\ UNCHANGED <<nslots, generation, free, inserts, slot_of, generation_of, removals,
                    removals_at, age>>
      /\ value' = [value EXCEPT ![s] = None] /\ answer' = v /\ asked' = n
  BY DEF Take, handleVars, history
<1>4. value \in [Slots -> 0..inserts] /\ \A u \in 1..nslots : u \in Slots
  BY SlotFacts DEF IInv
<1>5. value'[s] = None /\ \A u \in 1..nslots : u # s => value'[u] = value[u]
  BY <1>1, <1>3, <1>4
<1>6. Freed' = Freed /\ \A m \in 1..inserts : Distance(m)' = Distance(m)
  BY <1>3 DEF Freed, Distance
<1>7. TypeOK'
  <2>1. 0 \in 0..inserts /\ None \in 0..nslots /\ n \in 0..inserts
    BY DEF IInv, TypeOK
  <2>2. value' \in [Slots -> 0..inserts]
    BY <1>3, <1>4, <2>1
  <2>3. QED
    BY <1>1, <1>2, <1>3, <2>1, <2>2 DEF IInv, TypeOK
<1>8. FreeListIsExact'
  <2>1. ASSUME NEW u \in 1..nslots PROVE u \in Freed <=> value'[u] = None /\ u # s
    <3>1. u \in Freed <=> value[u] = None
      BY <1>2 DEF IInv, FreeListIsExact
    <3>2. CASE u = s
      BY <1>1, <3>1, <3>2
    <3>3. CASE u # s
      BY <1>5, <3>1, <3>3
    <3>4. QED
      BY <3>2, <3>3
  <2>2. QED
    BY <1>1, <1>2, <1>3, <1>6, <2>1 DEF IInv, FreeListIsExact
<1>9. OwnInv'
  <2>1. \A u \in 1..nslots : value'[u] # None => u # s /\ value'[u] = value[u]
    BY <1>5
  <2>2. ASSUME NEW u \in 1..nslots, value'[u] # None
        PROVE  /\ slot_of[value'[u]] = u
               /\ generation_of[value'[u]] = generation[u] /\ removals_at[value'[u]] = removals[u]
    <3>1. value'[u] = value[u]
      BY <2>1, <2>2
    <3>2. QED
      BY <2>2, <3>1 DEF IInv, OwnInv
  <2>3. /\ value'[slot_of[out']] = None
        /\ generation_of[out'] = generation[slot_of[out']]
        /\ removals_at[out'] = removals[slot_of[out']]
    BY <1>1, <1>2, <1>5
  <2>4. nslots' = nslots /\ generation' = generation /\ removals' = removals
        /\ slot_of' = slot_of /\ generation_of' = generation_of /\ removals_at' = removals_at
    BY <1>3
  <2>5. QED
    BY <1>2, <2>2, <2>3, <2>4, Zenon DEF OwnInv
<1>10. CycleInv' /\ UniqueInv'
  <2>1. CycleInv'
    BY <1>3 DEF IInv, CycleInv, Distance
  <2>2. UniqueInv'
    BY SMTT(30), <1>3 DEF IInv, UniqueInv, Distance, Freed
  <2>3. QED
    BY <2>1, <2>2
<1>11. QED
  BY <1>7, <1>8, <1>9, <1>10 DEF IInv

\* put, back into the same slot.
LEMMA PutStep ==
  ASSUME IInv, Put
  PROVE  IInv'
<1> USE DEF None
<1> DEFINE s == slot_of[out]
<1>0. out \in 1..inserts
  BY DEF Put, IInv, TypeOK
<1>1. /\ s \in 1..nslots /\ s \in Slots /\ value[s] = None
      /\ generation_of[out] = generation[s] /\ removals_at[out] = removals[s]
      /\ out' = None /\ out # None
  BY <1>0, ResolvedFacts DEF Put, IInv, OwnInv
<1>3. /\ UNCHANGED <<nslots, generation, free, inserts, slot_of, generation_of, removals,
                    removals_at, age, drain, answer, asked>>
      /\ value' = [value EXCEPT ![s] = out]
  BY DEF Put, handleVars, history
<1>4. value \in [Slots -> 0..inserts] /\ \A u \in 1..nslots : u \in Slots
  BY SlotFacts DEF IInv
<1>5. value'[s] = out /\ \A u \in 1..nslots : u # s => value'[u] = value[u]
  BY <1>1, <1>3, <1>4
<1>6. Freed' = Freed /\ \A m \in 1..inserts : Distance(m)' = Distance(m)
  BY <1>3 DEF Freed, Distance
<1>7. TypeOK'
  <2>1. 0 \in 0..inserts /\ out \in 0..inserts
    BY DEF IInv, TypeOK
  <2>2. value' \in [Slots -> 0..inserts]
    BY <1>3, <1>4, <2>1
  <2>3. QED
    BY <1>1, <1>3, <2>1, <2>2 DEF IInv, TypeOK
<1>8. FreeListIsExact'
  <2>1. ASSUME NEW u \in 1..nslots PROVE u \in Freed <=> value'[u] = None
    BY <1>1, <1>5 DEF IInv, FreeListIsExact
  <2>2. QED
    BY <1>1, <1>3, <1>6, <2>1 DEF IInv, FreeListIsExact
<1>9. OwnInv'
  <2>1. ASSUME NEW u \in 1..nslots, value'[u] # None
        PROVE  /\ slot_of[value'[u]] = u
               /\ generation_of[value'[u]] = generation[u] /\ removals_at[value'[u]] = removals[u]
    <3>1. CASE u = s
      BY <1>1, <1>5, <3>1
    <3>2. CASE u # s
      <4>1. value'[u] = value[u]
        BY <1>5, <3>2
      <4>2. QED
        BY <2>1, <4>1 DEF IInv, OwnInv
    <3>3. QED
      BY <3>1, <3>2
  <2>2. out' = None
    BY <1>1
  <2>3. QED
    BY <1>3, <2>1, <2>2 DEF OwnInv
<1>10. CycleInv' /\ UniqueInv'
  <2>1. CycleInv'
    BY <1>3 DEF IInv, CycleInv, Distance
  <2>2. UniqueInv'
    BY <1>3 DEF IInv, UniqueInv, Distance, Freed
  <2>3. QED
    BY <2>1, <2>2
<1>11. QED
  BY <1>7, <1>8, <1>9, <1>10 DEF IInv

-----------------------------------------------------------------------------
LEMMA InsertStep ==
  ASSUME IInv, Idle, NEW n \in Values, InsertReused(n) \/ InsertFresh(n)
  PROVE  IInv'
<1> USE DEF None
<1>a. /\ inserts \in Nat /\ nslots \in Nat /\ MaxInserts \in Nat
      /\ nslots <= inserts /\ inserts <= MaxInserts
  BY HandleAssumption DEF IInv, TypeOK
<1>b. free \in Seq(1..nslots)
  BY DEF IInv, TypeOK
<1>1. CASE InsertReused(n)
  <2> DEFINE s == Head(free)
  <2>1. free' = Tail(free) /\ free # <<>> /\ nslots' = nslots /\ Place(n, s)
    BY <1>1 DEF InsertReused
  <2>2. /\ free' \in Seq(1..nslots') /\ s \in 1..nslots /\ s \in Freed /\ Freed' = Freed \ {s}
        /\ \A i, j \in DOMAIN free' : free'[i] = free'[j] => i = j
    BY <1>a, <1>b, <2>1, PopFacts DEF IInv
  <2>3. s \in Slots
    BY <1>a, <2>2 DEF Slots
  <2>4. QED
    BY <2>1, <2>2, <2>3, PlaceStep
<1>2. CASE InsertFresh(n)
  <2> DEFINE s == nslots + 1
  <2>1. free' = free /\ nslots' = nslots + 1 /\ Place(n, s) /\ inserts < MaxInserts
    BY <1>2 DEF InsertFresh, Place
  <2>2. s \in Slots /\ s \in 1..nslots' /\ 1..nslots \subseteq 1..nslots' /\ s \notin 1..nslots
    BY <1>a, <2>1 DEF Slots
  <2>3. free' \in Seq(1..nslots')
    <3>1. ASSUME NEW S, NEW T, S \subseteq T, NEW q \in Seq(S) PROVE q \in Seq(T)
      <4>1. \A i \in 1..Len(q) : q[i] \in T
        BY <3>1
      <4>2. QED
        BY <4>1
    <3>2. QED
      BY <1>b, <2>1, <2>2, <3>1
  <2>4. Freed' = Freed /\ s \notin Freed
    <3>1. ASSUME NEW S, NEW q \in Seq(S) PROVE \A i \in DOMAIN q : q[i] \in S
      OBVIOUS
    <3>2. \A i \in DOMAIN free : free[i] \in 1..nslots
      BY <1>b, <3>1
    <3>3. QED
      BY <2>1, <2>2, <3>2 DEF Freed
  <2>5. \A i, j \in DOMAIN free' : free'[i] = free'[j] => i = j
    BY <2>1 DEF IInv, FreeListIsExact
  <2>6. QED
    BY <2>1, <2>2, <2>3, <2>4, <2>5, PlaceStep
<1>3. QED
  BY <1>1, <1>2

\* drain, for one slot.
LEMMA DrainStep ==
  ASSUME IInv, DrainSlot
  PROVE  IInv'
<1> USE DEF None
<1>1. drain \in 1..nslots /\ nslots \in Nat /\ inserts \in Nat /\ out = None
  BY DEF DrainSlot, IInv, TypeOK, OwnInv
<1>2. drain' \in 0..nslots
  BY <1>1 DEF DrainSlot
<1>3. CASE value[drain] = None
  <2>1. UNCHANGED <<slotVars, handleVars, history, out>> /\ answer' \in 0..inserts /\ asked' \in 0..inserts
    BY <1>3 DEF DrainSlot, slotVars, history, IInv, TypeOK
  <2>2. QED
    BY <1>1, <1>2, <2>1, FrameStep
<1>4. CASE value[drain] # None
  <2>1. drain \in Slots
    BY <1>1, HandleAssumption DEF IInv, TypeOK, Slots
  <2>2. value[drain] \in 0..inserts
    BY <2>1 DEF IInv, TypeOK
  <2>3. /\ Vacate(drain) /\ answer' = value[drain] /\ asked' = None
        /\ UNCHANGED <<nslots, out, handleVars, removals_at>>
    BY <1>4 DEF DrainSlot
  <2>4. QED
    BY <1>1, <1>2, <1>4, <2>2, <2>3, VacateStep
<1>5. QED
  BY <1>3, <1>4

LEMMA Step == IInv /\ [Next]_vars => IInv'
<1> USE DEF None
<1> SUFFICES ASSUME IInv, [Next]_vars PROVE IInv'
  OBVIOUS
<1>a. nslots \in Nat /\ inserts \in Nat /\ drain \in 0..nslots /\ answer \in 0..inserts
      /\ asked \in 0..inserts
  BY DEF IInv, TypeOK
<1>1. CASE Put
  BY <1>1, PutStep
<1>2. CASE DrainStart
  <2>1. /\ UNCHANGED <<slotVars, handleVars, history, out>> /\ answer' \in 0..inserts /\ asked' \in 0..inserts
        /\ drain' \in 0..nslots /\ out = None
    BY <1>a, <1>2 DEF DrainStart, Idle
  <2>2. QED
    BY <2>1, FrameStep
<1>3. CASE DrainSlot
  BY <1>3, DrainStep
<1>4. ASSUME Idle, NEW n \in Values, Insert(n) \/ InsertFresh(n) PROVE IInv'
  BY <1>4, InsertStep DEF Insert
<1>5. ASSUME Idle, NEW n \in Values, Get(n) \/ Refused(n) PROVE IInv'
  <2>1. n \in 1..inserts
    BY <1>5 DEF Get, Refused
  <2>2. Resolved(n) \in 0..inserts /\ 0 \in 0..inserts /\ n \in 0..inserts
    BY <1>a, <2>1, ResolvedFacts
  <2>3. /\ UNCHANGED <<slotVars, handleVars, history, out>> /\ answer' \in 0..inserts /\ asked' \in 0..inserts
        /\ drain' \in 0..nslots /\ out = None
    BY <1>a, <1>5, <2>2 DEF Get, Refused, Idle
  <2>4. QED
    BY <2>3, FrameStep
<1>6. ASSUME Idle, NEW n \in Values, Take(n) PROVE IInv'
  BY <1>6, TakeStep DEF Take
<1>7. ASSUME Idle, NEW n \in Values, Remove(n) PROVE IInv'
  <2>1. n \in 1..inserts /\ Resolved(n) # None
    BY <1>7 DEF Remove
  <2>2. /\ slot_of[n] \in 1..nslots /\ value[slot_of[n]] # None
        /\ Resolved(n) \in 0..inserts /\ n \in 0..inserts
    BY <1>a, <2>1, ResolvedFacts
  <2>3. /\ Vacate(slot_of[n]) /\ UNCHANGED <<nslots, out, handleVars, removals_at>>
        /\ answer' \in 0..inserts /\ asked' \in 0..inserts /\ drain' \in 0..nslots /\ out = None
    BY <1>a, <1>7, <2>2 DEF Remove, Idle
  <2>4. QED
    BY <2>2, <2>3, VacateStep
<1>8. CASE UNCHANGED vars
  <2>1. /\ UNCHANGED <<slotVars, handleVars, history, out>> /\ answer' \in 0..inserts /\ asked' \in 0..inserts
        /\ drain' \in 0..nslots /\ (out # None => drain' = None)
    BY <1>a, <1>8 DEF vars, IInv, OwnInv
  <2>2. QED
    BY <2>1, FrameStep
<1>9. QED
  BY <1>1, <1>2, <1>3, <1>4, <1>5, <1>6, <1>7, <1>8 DEF Next

LEMMA Start == Init => IInv
<1> USE DEF None
<1> SUFFICES ASSUME Init PROVE IInv
  OBVIOUS
<1>a. MaxInserts \in Nat /\ 1 \in 1..MaxGeneration /\ 0 \in 0..0 /\ 1..0 = {}
  BY HandleAssumption
<1>1. TypeOK
  BY <1>a DEF Init, TypeOK
<1>2. Freed = {} /\ DOMAIN free = {}
  BY DEF Init, Freed
<1>3. FreeListIsExact /\ OwnInv
  BY <1>a, <1>2 DEF Init, FreeListIsExact, OwnInv
<1>4. CycleInv /\ UniqueInv
  BY <1>a DEF Init, CycleInv, UniqueInv
<1>5. QED
  BY <1>1, <1>3, <1>4 DEF IInv

LEMMA Invariant == Spec => []IInv
BY Start, Step, PTL DEF Spec

\* A handle that resolves to a value names that very value, or its slot was
\* emptied a whole round of generations ago.
LEMMA ResolvedIsOwn ==
  ASSUME IInv, NEW n \in 1..inserts, Resolved(n) # None
  PROVE  Resolved(n) = n \/ Distance(n) >= MaxGeneration
<1> USE DEF None
<1> DEFINE s == slot_of[n]
           v == value[s]
<1>1. /\ s \in 1..nslots /\ s \in Slots /\ n \in Values /\ Resolved(n) = v
      /\ v \in 0..inserts /\ v # None
  BY ResolvedFacts
<1>2. generation[s] = generation_of[n]
  BY DEF Resolved, SlotValid
<1>3. /\ generation_of[n] \in 1..MaxGeneration /\ MaxGeneration \in Nat
      /\ removals[s] \in Nat /\ removals_at[n] \in Nat
  BY <1>1, HandleAssumption DEF IInv, TypeOK
<1>4. /\ Distance(n) >= 0
      /\ Distance(n) < MaxGeneration =>
           generation[s] = IF generation_of[n] + Distance(n) <= MaxGeneration
                           THEN generation_of[n] + Distance(n)
                           ELSE generation_of[n] + Distance(n) - MaxGeneration
  BY DEF IInv, CycleInv
<1>5. Distance(n) \in Int
  BY <1>3 DEF Distance
<1>6. Distance(n) < MaxGeneration => Distance(n) = 0
  BY <1>2, <1>3, <1>4, <1>5
<1>7. Distance(n) = 0 => removals_at[n] = removals[s]
  BY <1>3 DEF Distance
<1>8. slot_of[v] = s /\ removals_at[v] = removals[s]
  BY <1>1 DEF IInv, OwnInv
<1>9. v \in 1..inserts
  BY <1>1 DEF IInv, TypeOK
<1>10. Distance(n) = 0 => v = n
  BY <1>7, <1>8, <1>9 DEF IInv, UniqueInv
<1>11. QED
  BY <1>1, <1>3, <1>5, <1>6, <1>10

\* A live value is found by its own handle.
LEMMA LiveResolves ==
  ASSUME IInv, NEW s \in 1..nslots, value[s] # None
  PROVE  slot_of[value[s]] = s /\ Resolved(value[s]) = value[s]
BY DEF IInv, OwnInv, Resolved, SlotValid

-----------------------------------------------------------------------------
\* Every reachable table is well formed: generations stay within 1..MaxGeneration
\* (wrapping_add(1).max(1) never gives 0) and handles name existing slots.
THEOREM TypeCorrect == Spec => []TypeOK
BY Invariant, PTL DEF IInv

\* The free list holds exactly the empty slots, each once, after any sequence of
\* insert, take, put, remove and drain.
THEOREM FreeListStaysExact == Spec => []FreeListIsExact
BY Invariant, PTL DEF IInv

\* get finds every value of the table by the handle insert returned for it.
THEOREM LiveHandlesResolve == Spec => []LiveValuesResolve
<1>1. IInv => LiveValuesResolve
  BY LiveResolves DEF LiveValuesResolve
<1>2. QED
  BY <1>1, Invariant, PTL

\* An old handle finds another object only after its slot was emptied MaxGeneration
\* times: the generation check of validate_slot rules out every earlier reuse.
THEOREM StaleNeedsWrap == Spec => []StaleHandleNeedsWrap
<1>1. IInv => StaleHandleNeedsWrap
  BY ResolvedIsOwn DEF StaleHandleNeedsWrap, Distance
<1>2. QED
  BY <1>1, Invariant, PTL
-----------------------------------------------------------------------------
(* The table implements the map.                                           *)

\* A handle that resolves, or does not, gives what the map allows.
LEMMA NamedFacts ==
  ASSUME IInv, Idle, NEW n \in 1..inserts
  PROVE  Resolved(n) \in Map!Named(n)
<1> USE DEF None
<1>1. /\ slot_of[n] \in 1..nslots /\ n \in Values /\ Resolved(n) \in 0..inserts
      /\ Resolved(n) # None => Resolved(n) = value[slot_of[n]]
  BY ResolvedFacts
<1>2. CASE Resolved(n) # None
  <2>1. Resolved(n) \in Live
    BY <1>1, <1>2 DEF Live
  <2>2. CASE Resolved(n) = n
    BY <2>1, <2>2 DEF Map!Named
  <2>3. CASE Distance(n) >= MaxGeneration
    <3>1. Distance(n) <= age[n] /\ Distance(n) >= 0
      BY DEF IInv, CycleInv
    <3>2. age[n] \in Nat /\ removals[slot_of[n]] \in Nat /\ removals_at[n] \in Nat
      BY <1>1, ResolvedFacts DEF IInv, TypeOK
    <3>3. age[n] >= MaxGeneration
      BY <2>3, <3>1, <3>2, HandleAssumption DEF Distance
    <3>4. QED
      BY <2>1, <3>3 DEF Map!Named
  <2>4. QED
    BY <1>2, <2>2, <2>3, ResolvedIsOwn
<1>3. CASE Resolved(n) = None
  <2>1. n \notin Live
    <3> SUFFICES ASSUME n \in Live PROVE FALSE
      OBVIOUS
    <3>1. n # None
      BY DEF IInv, TypeOK
    <3>2. PICK s \in 1..nslots : value[s] = n
      BY <3>1 DEF Live, Idle
    <3>3. QED
      BY <1>3, <3>1, <3>2, LiveResolves
  <2>2. QED
    BY <1>3, <2>1 DEF Map!Named
<1>4. QED
  BY <1>2, <1>3

\* A slot that loses its value takes just that value out of the map.
LEMMA VacateLive ==
  ASSUME IInv, out = None, out' = None, nslots' = nslots, inserts' = inserts,
         NEW s \in 1..nslots, value[s] # None, Vacate(s)
  PROVE  Live' = Live \ {value[s]} /\ age' = Map!Older
<1> USE DEF None
<1>1. value \in [Slots -> 0..inserts] /\ \A u \in 1..nslots : u \in Slots
  BY SlotFacts DEF IInv
<1>2. value'[s] = None /\ \A u \in 1..nslots : u # s => value'[u] = value[u]
  BY <1>1 DEF Vacate
<1>3. \A u \in 1..nslots : value[u] # None => slot_of[value[u]] = u
  BY DEF IInv, OwnInv
<1>4. \A u \in 1..nslots : u # s => value[u] # value[s]
  BY <1>3
<1>5. ASSUME NEW v \in Live' PROVE v \in Live \ {value[s]}
  <2>1. PICK u \in 1..nslots : v = value'[u] /\ v # None
    BY DEF Live
  <2>2. QED
    BY <1>2, <1>4, <2>1 DEF Live
<1>6. ASSUME NEW v \in Live \ {value[s]} PROVE v \in Live'
  <2>1. PICK u \in 1..nslots : v = value[u] /\ v # None /\ u # s
    BY DEF Live
  <2>2. QED
    BY <1>2, <2>1 DEF Live
<1>7. age' = Map!Older
  <2>1. inserts \in Nat /\ \A n \in Values : n \in 1..inserts <=> n <= inserts
    BY HandleAssumption DEF IInv, TypeOK, Values
  <2>2. QED
    BY <2>1 DEF Vacate, Older, Map!Older
<1>8. QED
  BY <1>5, <1>6, <1>7

LEMMA InsertLive ==
  ASSUME IInv, IInv', Idle, NEW n \in Values, NEW s \in 1..nslots', Place(n, s),
         s \in 1..nslots => value[s] = None,
         s \in Slots, nslots' \in {nslots, nslots + 1}, \A u \in 1..nslots' : u # s => u \in 1..nslots
  PROVE  Map!New(n)
<1> USE DEF None
<1>1. value \in [Slots -> 0..inserts] /\ \A u \in 1..nslots : u \in Slots
  BY SlotFacts DEF IInv
<1>2. /\ inserts \in Nat /\ nslots \in Nat /\ n = inserts + 1 /\ inserts' = n /\ out = None
      /\ out' = None /\ answer' = None /\ asked' = n /\ age' = age
  <2>1. inserts \in Nat /\ nslots \in Nat
    BY HandleAssumption DEF IInv, TypeOK
  <2>2. QED
    BY <2>1 DEF Place, Idle
<1>3. value'[s] = n /\ \A u \in 1..nslots : u # s => value'[u] = value[u]
  BY <1>1 DEF Place
<1>4. 1..nslots \subseteq 1..nslots'
  BY <1>2
<1>5. ASSUME NEW v \in Live' PROVE v \in Live \cup {n}
  <2>1. PICK u \in 1..nslots' : v = value'[u] /\ v # None
    BY <1>2 DEF Live
  <2>2. QED
    BY <1>3, <2>1 DEF Live
<1>6. ASSUME NEW v \in Live PROVE v \in Live'
  <2>1. PICK u \in 1..nslots : v = value[u] /\ v # None
    BY <1>2 DEF Live
  <2>2. value'[u] = v /\ u \in 1..nslots'
    BY <1>3, <1>4, <2>1
  <2>3. QED
    BY <2>1, <2>2 DEF Live
<1>7. n \in Live'
  BY SMTT(30), <1>2, <1>3 DEF Live
<1>8. Live' = Live \cup {n}
  BY <1>5, <1>6, <1>7
<1>9. 1..inserts' = (1..inserts) \cup {n} /\ n \notin 1..inserts
  BY <1>2
<1>q. Map!Quiet
  BY DEF Place, Idle, Map!Quiet
<1>10. QED
  BY <1>q, <1>2, <1>8, <1>9 DEF Map!New

\* Every step of the table is a step of the map, or none.
LEMMA RefinementStep ==
  ASSUME IInv, IInv', [Next]_vars
  PROVE  [Map!Next]_(Map!vars)
<1> USE DEF None
<1>0. \A n \in 1..inserts : n \in Values
  BY ResolvedFacts
<1>1. CASE Put
  <2>1. out \in 1..inserts /\ out # None /\ out' = None
    <3>1. out \in 0..inserts /\ inserts \in Nat
      BY DEF IInv, TypeOK
    <3>2. out # None /\ out' = None
      BY <1>1 DEF Put
    <3>3. QED
      BY <3>1, <3>2
  <2>2. slot_of[out] \in 1..nslots /\ slot_of[out] \in Slots /\ value[slot_of[out]] = None
    BY <2>1, ResolvedFacts DEF IInv, OwnInv
  <2>3. value \in [Slots -> 0..inserts] /\ \A u \in 1..nslots : u \in Slots
    BY SlotFacts DEF IInv
  <2>4. value'[slot_of[out]] = out /\ \A u \in 1..nslots : u # slot_of[out] => value'[u] = value[u]
    BY <1>1, <2>2, <2>3 DEF Put
  <2>5. nslots' = nslots /\ inserts' = inserts /\ age' = age /\ answer' = answer /\ asked' = asked /\ drain' = drain
    BY <1>1 DEF Put, handleVars, history
  <2>6. ASSUME NEW v \in Live' PROVE v \in Live
    <3>1. PICK u \in 1..nslots : v = value'[u] /\ v # None
      BY <2>1, <2>5 DEF Live
    <3>2. QED
      BY <2>1, <2>4, <3>1 DEF Live
  <2>7. ASSUME NEW v \in Live PROVE v \in Live'
    <3>1. CASE v = out
      BY <2>1, <2>2, <2>4, <2>5, <3>1 DEF Live
    <3>2. CASE v # out
      <4>1. PICK u \in 1..nslots : v = value[u] /\ v # None
        BY <3>2 DEF Live
      <4>2. QED
        BY <2>2, <2>4, <2>5, <4>1 DEF Live
    <3>3. QED
      BY <3>1, <3>2
  <2>8. QED
    BY <2>5, <2>6, <2>7 DEF Map!vars
<1>2. CASE UNCHANGED vars
  BY <1>2 DEF vars, slotVars, handleVars, history, Live, Map!vars
<1>2s. CASE DrainStart
  <2>1. Live' = Live /\ inserts' = inserts /\ age' = age /\ answer' = answer /\ asked' = asked
    BY <1>2s DEF DrainStart, slotVars, handleVars, history, Live
  <2>2. drain = None /\ drain' = 1
    BY <1>2s DEF DrainStart, Idle
  <2>3. Map!StartDrain
    BY <2>1, <2>2 DEF Map!StartDrain
  <2>4. QED
    BY <2>3 DEF Map!Next
<1>3. CASE DrainSlot
  <2>1. drain \in 1..nslots /\ out = None
    <3>1. drain \in 0..nslots /\ nslots \in Nat
      BY DEF IInv, TypeOK
    <3>2. drain # None
      BY <1>3 DEF DrainSlot
    <3>3. out = None
      BY <3>2 DEF IInv, OwnInv
    <3>4. QED
      BY <3>1, <3>2, <3>3
  <2>2. CASE value[drain] = None
    <3>1. Live' = Live /\ inserts' = inserts /\ age' = age /\ answer' = answer /\ asked' = asked
          /\ drain # None
      BY <1>3, <2>2 DEF DrainSlot, handleVars, Live
    <3>2. CASE drain' = None
      <4>1. Map!EndDrain
        BY <3>1, <3>2 DEF Map!EndDrain
      <4>2. QED
        BY <4>1 DEF Map!Next
    <3>3. CASE drain' # None
      BY <3>1, <3>3 DEF Map!vars
    <3>4. QED
      BY <3>2, <3>3
  <2>3. CASE value[drain] # None
    <3>1. Vacate(drain) /\ answer' = value[drain] /\ asked' = None
          /\ nslots' = nslots /\ inserts' = inserts
          /\ out' = None /\ drain # None
      BY <1>3, <2>1, <2>3 DEF DrainSlot, handleVars
    <3>2. Live' = Live \ {value[drain]} /\ age' = Map!Older
      BY <2>1, <2>3, <3>1, VacateLive
    <3>3. value[drain] \in Live
      BY SMTT(30), <2>1, <2>3 DEF Live
    <3>4. value[drain] \in 1..inserts
      <4>1. drain \in Slots
        BY <2>1, HandleAssumption DEF IInv, TypeOK, Slots
      <4>2. value[drain] \in 0..inserts /\ inserts \in Nat
        BY <4>1 DEF IInv, TypeOK
      <4>3. QED
        BY <2>3, <4>2
    <3>5. Map!Drop(value[drain])
      BY <3>1, <3>2, <3>3 DEF Map!Drop
    <3>6. QED
      BY <1>0, <3>4, <3>5 DEF Map!Next
  <2>4. QED
    BY <2>2, <2>3
<1>4. ASSUME Idle, NEW n \in Values, Insert(n) \/ InsertFresh(n) PROVE Map!Next
  <2>a. nslots \in Nat /\ inserts \in Nat /\ MaxInserts \in Nat /\ nslots <= inserts
        /\ inserts <= MaxInserts
    BY SMTT(30), HandleAssumption DEF IInv, TypeOK
  <2>b. free \in Seq(1..nslots)
    BY DEF IInv, TypeOK
  <2>1. CASE InsertReused(n)
    <3>1. free # <<>> /\ Place(n, Head(free)) /\ nslots' = nslots /\ free' = Tail(free)
      BY <2>1 DEF InsertReused
    <3>2. Head(free) \in 1..nslots /\ Head(free) \in Freed
      BY <2>a, <2>b, <3>1, PopFacts DEF IInv
    <3>3. value[Head(free)] = None /\ Head(free) \in Slots
      BY <2>a, <3>2 DEF IInv, FreeListIsExact, Slots
    <3>4. Map!New(n)
      BY <1>4, <3>1, <3>2, <3>3, InsertLive
    <3>5. QED
      BY <3>4 DEF Map!Next
  <2>2. CASE InsertFresh(n)
    <3>1. Place(n, nslots + 1) /\ nslots' = nslots + 1 /\ inserts < MaxInserts
      BY <2>2 DEF InsertFresh, Place
    <3>2. /\ nslots + 1 \in Slots /\ nslots + 1 \in 1..nslots'
          /\ \A u \in 1..nslots' : u # nslots + 1 => u \in 1..nslots
      BY <2>a, <3>1 DEF Slots
    <3>3. nslots + 1 \notin 1..nslots
      BY <2>a
    <3>4. Map!New(n)
      BY <1>4, <3>1, <3>2, <3>3, InsertLive
    <3>5. QED
      BY <3>4 DEF Map!Next
  <2>3. QED
    BY <1>4, <2>1, <2>2 DEF Insert
<1>5. ASSUME Idle, NEW n \in Values, Get(n) \/ Refused(n) PROVE Map!Next
  <2>1. n \in 1..inserts /\ answer' = Resolved(n) /\ asked' = n
    BY <1>5 DEF Get, Refused
  <2>2. inserts' = inserts /\ Live' = Live /\ age' = age
    BY <1>5 DEF Get, Refused, handleVars, slotVars, history, Live
  <2>q. Map!Quiet
    BY <1>5 DEF Get, Refused, Idle, Map!Quiet
  <2>3. Map!Lookup(n)
    BY <1>5, <2>q, <2>1, <2>2, NamedFacts DEF Map!Lookup
  <2>4. QED
    BY <2>3 DEF Map!Next
<1>6. ASSUME Idle, NEW n \in Values, Take(n) PROVE Map!Next
  <2> DEFINE s == slot_of[n]
  <2>1. n \in 1..inserts /\ answer' = Resolved(n) /\ asked' = n /\ Resolved(n) # None /\ out' = Resolved(n)
    BY <1>6 DEF Take
  <2>2. s \in 1..nslots /\ s \in Slots /\ Resolved(n) = value[s]
    BY <2>1, ResolvedFacts
  <2>3. value \in [Slots -> 0..inserts] /\ \A u \in 1..nslots : u \in Slots
    BY SlotFacts DEF IInv
  <2>4. value'[s] = None /\ \A u \in 1..nslots : u # s => value'[u] = value[u]
    BY <1>6, <2>2, <2>3 DEF Take
  <2>5. nslots' = nslots /\ inserts' = inserts /\ age' = age /\ out = None
    BY <1>6 DEF Take, handleVars, history, Idle
  <2>6. ASSUME NEW v \in Live' PROVE v \in Live
    BY <2>1, <2>2, <2>4, <2>5 DEF Live
  <2>7. ASSUME NEW v \in Live PROVE v \in Live'
    <3>1. PICK u \in 1..nslots : v = value[u] /\ v # None
      BY <2>5 DEF Live
    <3>2. CASE u = s
      BY <2>1, <2>2, <3>1, <3>2 DEF Live
    <3>3. CASE u # s
      <4>1. value'[u] = v /\ u \in 1..nslots'
        BY <2>4, <2>5, <3>1, <3>3
      <4>2. QED
        BY <3>1, <4>1 DEF Live
    <3>4. QED
      BY <3>2, <3>3
  <2>q. Map!Quiet
    BY <1>6 DEF Take, Idle, Map!Quiet
  <2>8. Map!Lookup(n)
    BY <1>6, <2>q, <2>1, <2>5, <2>6, <2>7, NamedFacts DEF Map!Lookup
  <2>9. QED
    BY <2>8 DEF Map!Next
<1>7. ASSUME Idle, NEW n \in Values, Remove(n) PROVE Map!Next
  <2>1. /\ n \in 1..inserts /\ answer' = Resolved(n) /\ asked' = n /\ Resolved(n) # None
        /\ Vacate(slot_of[n]) /\ nslots' = nslots /\ inserts' = inserts /\ out = None /\ out' = None
    BY <1>7 DEF Remove, handleVars, Idle
  <2>2. slot_of[n] \in 1..nslots /\ Resolved(n) = value[slot_of[n]]
    BY <2>1, ResolvedFacts
  <2>3. Live' = Live \ {Resolved(n)} /\ age' = Map!Older
    BY <2>1, <2>2, VacateLive
  <2>q. Map!Quiet
    BY <1>7 DEF Remove, Idle, Map!Quiet
  <2>4. Map!Release(n)
    BY <1>7, <2>q, <2>1, <2>3, NamedFacts DEF Map!Release
  <2>5. QED
    BY <2>4 DEF Map!Next
<1>8. QED
  BY <1>1, <1>2, <1>2s, <1>3, <1>4, <1>5, <1>6, <1>7 DEF Next

\* HandleTable implements HandleMap: whatever a caller does with its handles,
\* insert, get, take, put, remove and drain answer as if each handle were the name
\* of one value, until MaxGeneration values were released.
THEOREM TableImplementsMap == Spec => ImplementsMap
<1>1. Init => Map!Init
  <2> SUFFICES ASSUME Init PROVE Map!Init
    OBVIOUS
  <2>1. 1..inserts = {} /\ 1..nslots = {}
    BY DEF Init
  <2>2. Live = {}
    BY <2>1 DEF Init, Live
  <2>3. QED
    BY <2>1, <2>2 DEF Init, Map!Init
<1>2. QED
  BY <1>1, Invariant, RefinementStep, PTL DEF Spec, ImplementsMap, Map!Spec
=============================================================================
