-------------------------------- MODULE Retain --------------------------------
(***************************************************************************)
(* list.retain(|x| x != t) of a Rust Vec or VecDeque: what is left of list, *)
(* in its order.  The elements that stay are numbered by their rank among   *)
(* the positions that stay, so that proofs need not unfold a recursion.     *)
(***************************************************************************)
EXTENDS Integers, FiniteSets

Kept(list, t) == {i \in DOMAIN list : list[i] # t}
Rank(K, i) == Cardinality({j \in K : j <= i})
Without(list, t) ==
  LET K == Kept(list, t) IN [k \in 1..Cardinality(K) |-> list[CHOOSE i \in K : Rank(K, i) = k]]
=============================================================================
