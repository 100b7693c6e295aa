------------------------------- MODULE Lists --------------------------------
(***************************************************************************)
(* What the planning services do with Python lists: collect the elements   *)
(* that meet a condition, sort by a key, add up numbers.  Nothing here     *)
(* takes an operator as a parameter, so that lemmas about it can be cited. *)
(***************************************************************************)
EXTENDS Integers, Sequences, FiniteSets, Functions

(***************************************************************************)
(* A finite set as a list, in the order of a relation, a set of pairs.     *)
(***************************************************************************)
Arranged(S, before) ==
  [k \in 1..Cardinality(S) |->
     CHOOSE x \in S : Cardinality({y \in S : <<y, x>> \in before}) = k - 1]

Ascending(S) == Arranged(S, {p \in S \X S : p[1] < p[2]})

(***************************************************************************)
(* The elements of a list at some of its positions, which is what a        *)
(* comprehension or a loop with a condition collects.                      *)
(***************************************************************************)
Selected(s, at) == LET order == Ascending(at) IN [k \in DOMAIN order |-> s[order[k]]]

(***************************************************************************)
(* sorted() is stable; key[i] is the key of s[i], a tuple of numbers.      *)
(***************************************************************************)
Lower(a, b) ==
  \E i \in DOMAIN a : a[i] < b[i] /\ \A j \in 1..(i - 1) : a[j] = b[j]

Stable(key) ==
  {p \in (DOMAIN key) \X (DOMAIN key) :
     \/ Lower(key[p[1]], key[p[2]])
     \/ key[p[1]] = key[p[2]] /\ p[1] < p[2]}

Sorted(s, key) ==
  LET order == Arranged(DOMAIN s, Stable(key)) IN [k \in DOMAIN order |-> s[order[k]]]

(***************************************************************************)
(* sum() over the values of a function.                                    *)
(***************************************************************************)
Total(numbers) == FoldFunction(+, 0, numbers)
=============================================================================
