------------------------------ MODULE HandleMap ------------------------------
(***************************************************************************)
(* What a handle table promises to the host functions that use it: a       *)
(* handle is a name for one value, until the value is released; a released *)
(* handle names nothing.  Handles are finite, so the promise has a term:   *)
(* once Term values have been released since a handle was given out, it    *)
(* may come to name a later value.                                         *)
(***************************************************************************)
EXTENDS Integers

CONSTANTS
  Values,   \* values, each inserted once; a value also names its handle
  Term,     \* releases after which a handle may be given out again
  None

VARIABLES
  used,     \* values inserted so far
  live,     \* of these, the ones not released
  age,      \* releases since the handle of a value was given out
  draining, \* all values are being released
  asked,    \* the handle the last operation was called with
  answer    \* what it gave its caller

vars == <<used, live, age, draining, asked, answer>>

Init ==
  /\ used = {} /\ live = {} /\ age = [n \in Values |-> 0]
  /\ ~draining
  /\ asked = None /\ answer = None

\* Nobody uses the table while it is drained.
Quiet == ~draining /\ ~draining'

New(n) ==
  /\ Quiet
  /\ n \in Values \ used
  /\ used' = used \cup {n} /\ live' = live \cup {n}
  /\ asked' = n /\ answer' = None
  /\ UNCHANGED age

\* What the handle of n may stand for.
Named(n) ==
  (IF n \in live THEN {n} ELSE {None}) \cup (IF age[n] >= Term THEN live ELSE {})

Lookup(n) ==
  /\ Quiet
  /\ n \in used
  /\ asked' = n /\ answer' \in Named(n)
  /\ UNCHANGED <<used, live, age>>

Older == [n \in Values |-> IF n \in used THEN age[n] + 1 ELSE age[n]]

Release(n) ==
  /\ Quiet
  /\ n \in used
  /\ asked' = n /\ answer' \in Named(n)
  /\ live' = live \ {answer'}
  /\ age' = IF answer' = None THEN age ELSE Older
  /\ UNCHANGED used

StartDrain ==
  /\ ~draining /\ draining'
  /\ UNCHANGED <<used, live, age, asked, answer>>

\* One value of those a drain releases, which may be the last.
Drop(n) ==
  /\ draining
  /\ n \in live
  /\ live' = live \ {n} /\ age' = Older
  /\ asked' = None /\ answer' = n
  /\ UNCHANGED used

EndDrain ==
  /\ draining /\ ~draining'
  /\ UNCHANGED <<used, live, age, asked, answer>>

Next ==
  \/ StartDrain \/ EndDrain
  \/ \E n \in Values : New(n) \/ Lookup(n) \/ Release(n) \/ Drop(n)

Spec == Init /\ [][Next]_vars
=============================================================================
