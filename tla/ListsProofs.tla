----------------------------- MODULE ListsProofs -----------------------------
(***************************************************************************)
(* Lemmas, for every finite set, list and key, about what Lists offers:    *)
(* an order arranges a set without loss or repetition, selecting keeps the *)
(* order, sorting permutes, and a sum counts units.                        *)
(***************************************************************************)
EXTENDS Lists, FiniteSetTheorems, FunctionTheorems, TLAPS

(***************************************************************************)
(* A set of numbers has a least one; hence a set that is closed under      *)
(* succession holds all.                                                   *)
(***************************************************************************)
LEMMA Least ==
  ASSUME NEW T \in SUBSET Nat, T # {}
  PROVE \E n \in T : \A m \in T : n =< m
<1>. DEFINE R == OpToRel(<, Nat)
<1>1. IsWellFoundedOn(R, Nat)
  BY NatLessThanWellFounded
<1>2. \A x, y \in Nat : x < y => <<x, y>> \in R
  BY DEF OpToRel
<1>. HIDE DEF R
<1>3. \E x \in T : \A y \in T : ~ (<<y, x>> \in R)
  BY <1>1, WFMin
<1>4. PICK x \in T : \A y \in T : ~ (<<y, x>> \in R)
  BY <1>3
<1>5. ASSUME NEW y \in T PROVE x =< y
  <2>1. ~ (y < x)
    BY <1>2, <1>4
  <2>. QED
    BY <2>1
<1>. QED BY <1>5

LEMMA Induction ==
  ASSUME NEW S, 0 \in S, \A n \in Nat : n \in S => n + 1 \in S
  PROVE  Nat \subseteq S
<1>1. SUFFICES ASSUME Nat \ S # {} PROVE FALSE
  OBVIOUS
<1>2. PICK n \in Nat \ S : \A m \in Nat \ S : n =< m
  BY <1>1, Least
<1>3. n - 1 \in Nat /\ n - 1 \notin Nat \ S
  BY <1>2
<1>. QED
  BY <1>2, <1>3

-----------------------------------------------------------------------------
(***************************************************************************)
(* A sum of numbers counts the pairs of an argument and a smaller number   *)
(* than its value.  The fold that defines the sum is a function that the   *)
(* equation determines, by induction over the number of arguments.         *)
(***************************************************************************)
Units(d, S) == {p \in S \X Nat : p[2] < d[p[1]]}

Folded(d, g) ==
  g = [S \in SUBSET DOMAIN d |-> IF S = {} THEN 0
                                 ELSE d[CHOOSE x \in S : TRUE] + g[S \ {CHOOSE x \in S : TRUE}]]

(***************************************************************************)
(* The sum is that of a function that folds, if there is one.              *)
(***************************************************************************)
LEMMA TotalFolds ==
  ASSUME NEW D, NEW d \in [D -> Nat], NEW f, Folded(d, f)
  PROVE  \E g : Folded(d, g) /\ Total(d) = g[D]
<1>. DEFINE g == CHOOSE h : h = [S \in SUBSET D |->
                    IF S = {} THEN 0 ELSE d[CHOOSE x \in S : TRUE] + h[S \ {CHOOSE x \in S : TRUE}]]
<1>1. Total(d) = g[D]
  BY DEF Total, FoldFunction, FoldFunctionOnSet, MapThenFoldSet
<1>2. Folded(d, f) <=> f = [S \in SUBSET D |->
                    IF S = {} THEN 0 ELSE d[CHOOSE x \in S : TRUE] + f[S \ {CHOOSE x \in S : TRUE}]]
  BY Zenon DEF Folded
<1>3. g = [S \in SUBSET D |->
                    IF S = {} THEN 0 ELSE d[CHOOSE x \in S : TRUE] + g[S \ {CHOOSE x \in S : TRUE}]]
  BY <1>2, Zenon
<1>4. Folded(d, g)
  BY <1>3, Zenon DEF Folded
<1>. QED
  BY <1>1, <1>4

LEMMA UnitsSplit ==
  ASSUME NEW D, NEW d \in [D -> Nat], NEW S \in SUBSET D, NEW x \in S, IsFiniteSet(Units(d, S \ {x}))
  PROVE  /\ IsFiniteSet(Units(d, S))
         /\ Cardinality(Units(d, S)) = d[x] + Cardinality(Units(d, S \ {x}))
<1>. DEFINE A == {x} \X (0..(d[x] - 1))  B == Units(d, S \ {x})
<1>1. Units(d, S) = A \cup B /\ A \cap B = {}
  BY DEF Units
<1>2. IsFiniteSet({x}) /\ Cardinality({x}) = 1
  BY FS_Singleton
<1>3. d[x] \in Nat
  OBVIOUS
<1>4. IsFiniteSet(0..(d[x] - 1)) /\ Cardinality(0..(d[x] - 1)) = d[x]
  <2>. DEFINE n == d[x]
  <2>. HIDE DEF n
  <2>1. IsFiniteSet(0..(n - 1)) /\ Cardinality(0..(n - 1)) = IF 0 > n - 1 THEN 0 ELSE n - 1 - 0 + 1
    BY <1>3, FS_Interval DEF n
  <2>. QED
    BY <1>3, <2>1 DEF n
<1>5. IsFiniteSet(A) /\ Cardinality(A) = 1 * d[x]
  <2>. DEFINE X == {x}  Y == 0..(d[x] - 1)
  <2>1. IsFiniteSet(X) /\ IsFiniteSet(Y) /\ Cardinality(X) = 1 /\ Cardinality(Y) = d[x]
    BY <1>2, <1>4
  <2>. HIDE DEF X, Y
  <2>2. IsFiniteSet(X \X Y) /\ Cardinality(X \X Y) = Cardinality(X) * Cardinality(Y)
    BY ONLY <2>1, FS_Product
  <2>. QED
    BY <2>1, <2>2 DEF X, Y
<1>6. IsFiniteSet(B) /\ Cardinality(B) \in Nat
  BY FS_CardinalityType
<1>. HIDE DEF A, B
<1>7. /\ IsFiniteSet(A \cup B)
      /\ Cardinality(A \cup B) = Cardinality(A) + Cardinality(B) - Cardinality(A \cap B)
  BY <1>5, <1>6, FS_Union
<1>8. Cardinality({}) = 0
  BY FS_EmptySet
<1>9. Cardinality(A) = d[x] /\ d[x] \in Nat
  BY <1>3, <1>5
<1>10. Cardinality(Units(d, S)) = d[x] + Cardinality(B)
  <2>1. Cardinality(A \cap B) = 0
    BY <1>1, <1>8
  <2>2. Cardinality(A \cup B) = d[x] + Cardinality(B)
    BY <1>6, <1>7, <1>9, <2>1
  <2>. QED
    BY <1>1, <2>2
<1>. QED
  BY <1>1, <1>7, <1>10 DEF B

LEMMA UnitsEmpty == ASSUME NEW d PROVE Units(d, {}) = {} /\ IsFiniteSet(Units(d, {})) /\ Cardinality(Units(d, {})) = 0
<1>1. Units(d, {}) = {}
  BY DEF Units
<1>. QED
  BY <1>1, FS_EmptySet

LEMMA UnitsFinite ==
  ASSUME NEW D, NEW d \in [D -> Nat], IsFiniteSet(D)
  PROVE  \A S \in SUBSET D : IsFiniteSet(Units(d, S))
<1>. DEFINE N == {n \in Nat : \A S \in SUBSET D : Cardinality(S) = n => IsFiniteSet(Units(d, S))}
<1>1. \A S \in SUBSET D : IsFiniteSet(S) /\ Cardinality(S) \in Nat
  BY FS_Subset, FS_CardinalityType
<1>2. 0 \in N
  <2>1. ASSUME NEW S \in SUBSET D, Cardinality(S) = 0 PROVE IsFiniteSet(Units(d, S))
    <3>1. S = {}
      BY <1>1, <2>1, FS_EmptySet
    <3>. QED
      BY <3>1, UnitsEmpty
  <2>. QED
    BY <2>1
<1>3. ASSUME NEW n \in Nat, n \in N PROVE n + 1 \in N
  <2>1. ASSUME NEW S \in SUBSET D, Cardinality(S) = n + 1 PROVE IsFiniteSet(Units(d, S))
    <3>1. S # {}
      BY <2>1, FS_EmptySet
    <3>2. PICK x \in S : TRUE
      BY <3>1
    <3>3. S \ {x} \in SUBSET D /\ Cardinality(S \ {x}) = n
      BY <1>1, <2>1, FS_RemoveElement
    <3>4. IsFiniteSet(Units(d, S \ {x}))
      BY <1>3, <3>3
    <3>. QED
      BY <3>4, UnitsSplit
  <2>. QED
    BY <2>1
<1>. HIDE DEF N
<1>4. Nat \subseteq N
  BY <1>2, <1>3, Induction
<1>. QED
  BY <1>1, <1>4 DEF N

LEMMA TotalCounts ==
  ASSUME NEW D, NEW d \in [D -> Nat], IsFiniteSet(D)
  PROVE  Total(d) = Cardinality(Units(d, D))
<1>. DEFINE f == [S \in SUBSET D |-> Cardinality(Units(d, S))]
<1>1. ASSUME NEW S \in SUBSET D, NEW x \in S PROVE Cardinality(Units(d, S)) = d[x] + Cardinality(Units(d, S \ {x}))
  BY UnitsFinite, UnitsSplit
<1>2. Folded(d, f)
  <2>1. ASSUME NEW S \in SUBSET D
        PROVE  f[S] = IF S = {} THEN 0
                                ELSE d[CHOOSE x \in S : TRUE] + f[S \ {CHOOSE x \in S : TRUE}]
    <3>1. CASE S = {}
      BY <3>1, UnitsEmpty
    <3>2. CASE S # {}
      <4>1. PICK x \in S : x = CHOOSE y \in S : TRUE
        BY <3>2
      <4>2. f[S] = d[x] + f[S \ {x}]
        BY <1>1
      <4>. HIDE DEF f
      <4>. QED
        BY <3>2, <4>1, <4>2
    <3>. QED
      BY <3>1, <3>2
  <2>2. DOMAIN d = D
    OBVIOUS
  <2>3. f = [S \in SUBSET D |-> f[S]]
    OBVIOUS
  <2>. HIDE DEF f
  <2>. QED
    BY <2>1, <2>2, <2>3 DEF Folded
<1>3. PICK g : Folded(d, g) /\ Total(d) = g[D]
  BY <1>2, TotalFolds
<1>. DEFINE N == {n \in Nat : \A S \in SUBSET D : Cardinality(S) = n => g[S] = Cardinality(Units(d, S))}
<1>4. \A S \in SUBSET D : IsFiniteSet(S) /\ Cardinality(S) \in Nat
  BY FS_Subset, FS_CardinalityType
<1>5. \A S \in SUBSET D : g[S] = IF S = {} THEN 0
                                ELSE d[CHOOSE x \in S : TRUE] + g[S \ {CHOOSE x \in S : TRUE}]
  BY <1>3 DEF Folded
<1>6. 0 \in N
  <2>1. ASSUME NEW S \in SUBSET D, Cardinality(S) = 0 PROVE g[S] = Cardinality(Units(d, S))
    <3>1. S = {}
      BY <1>4, <2>1, FS_EmptySet
    <3>. QED
      BY <1>5, <3>1, UnitsEmpty
  <2>. QED
    BY <2>1
<1>7. ASSUME NEW n \in Nat, n \in N PROVE n + 1 \in N
  <2>1. ASSUME NEW S \in SUBSET D, Cardinality(S) = n + 1 PROVE g[S] = Cardinality(Units(d, S))
    <3>1. S # {}
      BY <2>1, FS_EmptySet
    <3>2. PICK x \in S : x = CHOOSE y \in S : TRUE
      BY <3>1
    <3>3. S \ {x} \in SUBSET D /\ Cardinality(S \ {x}) = n
      BY <1>4, <2>1, FS_RemoveElement
    <3>4. g[S \ {x}] = Cardinality(Units(d, S \ {x}))
      BY <1>7, <3>3
    <3>5. g[S] = d[x] + g[S \ {x}]
      BY <1>5, <3>1, <3>2
    <3>. QED
      BY <1>1, <3>4, <3>5
  <2>. QED
    BY <2>1
<1>. HIDE DEF N
<1>8. Nat \subseteq N
  BY <1>6, <1>7, Induction
<1>. QED
  BY <1>3, <1>4, <1>8 DEF N
-----------------------------------------------------------------------------
(***************************************************************************)
(* A strict total order on a set arranges it: every element has its place, *)
(* which is the number of elements before it.                              *)
(***************************************************************************)
StrictOrder(S, before) ==
  /\ \A x \in S : <<x, x>> \notin before
  /\ \A x, y \in S : x # y => <<x, y>> \in before \/ <<y, x>> \in before
  /\ \A x, y, z \in S : <<x, y>> \in before /\ <<y, z>> \in before => <<x, z>> \in before

Preceding(S, before, x) == {y \in S : <<y, x>> \in before}

LEMMA PrecedingGrows ==
  ASSUME NEW S, IsFiniteSet(S), NEW before, StrictOrder(S, before),
         NEW x \in S, NEW y \in S, <<x, y>> \in before
  PROVE  Cardinality(Preceding(S, before, x)) < Cardinality(Preceding(S, before, y))
<1>. DEFINE A == Preceding(S, before, x)  B == Preceding(S, before, y)
<1>1. A \subseteq B /\ x \in B /\ x \notin A /\ B \subseteq S
  BY DEF Preceding, StrictOrder
<1>2. IsFiniteSet(B)
  BY <1>1, FS_Subset
<1>. HIDE DEF A, B
<1>3. A \in SUBSET B /\ A # B
  BY <1>1
<1>4. /\ Cardinality(A) \in Nat /\ Cardinality(B) \in Nat
      /\ Cardinality(A) =< Cardinality(B) /\ Cardinality(A) # Cardinality(B)
  BY <1>2, <1>3, FS_Subset, FS_CardinalityType
<1>5. Cardinality(A) < Cardinality(B)
  BY <1>4
<1>. QED
  BY <1>5 DEF A, B

LEMMA PrecedingBounds ==
  ASSUME NEW S, IsFiniteSet(S), NEW before, StrictOrder(S, before), NEW x \in S
  PROVE  Cardinality(Preceding(S, before, x)) + 1 \in 1..Cardinality(S)
<1>1. Preceding(S, before, x) \subseteq S /\ Preceding(S, before, x) # S
  BY DEF Preceding, StrictOrder
<1>2. /\ Cardinality(Preceding(S, before, x)) \in Nat /\ Cardinality(S) \in Nat
      /\ Cardinality(Preceding(S, before, x)) < Cardinality(S)
  BY <1>1, FS_Subset, FS_CardinalityType
<1>. QED
  BY <1>2

LEMMA EveryPlaceTaken ==
  ASSUME NEW S, IsFiniteSet(S), NEW before, StrictOrder(S, before),
         NEW k \in 1..Cardinality(S)
  PROVE  \E x \in S : Cardinality(Preceding(S, before, x)) = k - 1
<1>. DEFINE n == Cardinality(S)
            place == [x \in S |-> Cardinality(Preceding(S, before, x)) + 1]
<1>1. n \in Nat
  BY FS_CardinalityType
<1>2. place \in [S -> 1..n]
  BY PrecedingBounds
<1>3. ASSUME NEW x \in S, NEW y \in S, x # y PROVE place[x] # place[y]
  <2>1. <<x, y>> \in before \/ <<y, x>> \in before
    BY <1>3 DEF StrictOrder
  <2>2. place[x] \in 1..n /\ place[y] \in 1..n
    BY <1>2
  <2>3. place[x] < place[y] \/ place[y] < place[x]
    <3>1. Cardinality(Preceding(S, before, x)) \in Int /\ Cardinality(Preceding(S, before, y)) \in Int
      <4>1. IsFiniteSet(Preceding(S, before, x)) /\ IsFiniteSet(Preceding(S, before, y))
        BY FS_Subset DEF Preceding
      <4>. QED
        BY <4>1, FS_CardinalityType
    <3>2. \/ Cardinality(Preceding(S, before, x)) < Cardinality(Preceding(S, before, y))
          \/ Cardinality(Preceding(S, before, y)) < Cardinality(Preceding(S, before, x))
      BY <2>1, PrecedingGrows
    <3>. QED
      BY <3>1, <3>2
  <2>. HIDE DEF place
  <2>. QED
    BY <1>1, <2>2, <2>3
<1>4. ASSUME \A x \in S : place[x] # k PROVE FALSE
  <2>1. place \in [S -> (1..n) \ {k}]
    BY <1>2, <1>4
  <2>2. IsFiniteSet(1..n) /\ Cardinality(1..n) = n
    BY <1>1, FS_Interval
  <2>3. IsFiniteSet((1..n) \ {k}) /\ Cardinality((1..n) \ {k}) = n - 1
    BY <2>2, FS_RemoveElement
  <2>4. Cardinality((1..n) \ {k}) < Cardinality(S)
    BY <1>1, <2>3
  <2>. HIDE DEF place
  <2>. QED
    BY <1>3, <2>1, <2>3, <2>4, FS_PigeonHole
<1>5. PICK x \in S : place[x] = k
  BY <1>4
<1>6. Cardinality(Preceding(S, before, x)) + 1 = k /\ Cardinality(Preceding(S, before, x)) + 1 \in 1..n
  BY <1>2, <1>5
<1>7. IsFiniteSet(Preceding(S, before, x))
  BY FS_Subset DEF Preceding
<1>8. Cardinality(Preceding(S, before, x)) \in Nat
  BY <1>7, FS_CardinalityType
<1>. QED
  BY <1>6, <1>8

(***************************************************************************)
(* The list holds each element at its place, and no other.                 *)
(***************************************************************************)
LEMMA ArrangedPlaces ==
  ASSUME NEW S, IsFiniteSet(S), NEW before, StrictOrder(S, before)
  PROVE  /\ Arranged(S, before) \in [1..Cardinality(S) -> S]
         /\ \A k \in 1..Cardinality(S), x \in S :
              Arranged(S, before)[k] = x <=> Cardinality(Preceding(S, before, x)) = k - 1
<1>. DEFINE n == Cardinality(S)  list == Arranged(S, before)
<1>0. n \in Nat
  BY FS_CardinalityType
<1>1. list = [k \in 1..n |-> CHOOSE x \in S : Cardinality(Preceding(S, before, x)) = k - 1]
  BY DEF Arranged, Preceding
<1>2. ASSUME NEW k \in 1..n
      PROVE  list[k] \in S /\ Cardinality(Preceding(S, before, list[k])) = k - 1
  <2>1. list[k] = CHOOSE x \in S : Cardinality(Preceding(S, before, x)) = k - 1
    BY <1>1
  <2>. HIDE DEF list
  <2>. QED
    BY <2>1, EveryPlaceTaken
<1>3. list \in [1..n -> S]
  BY <1>1, <1>2
<1>4. ASSUME NEW k \in 1..n, NEW x \in S, Cardinality(Preceding(S, before, x)) = k - 1
      PROVE  list[k] = x
  <2>. DEFINE y == list[k]
  <2>1. y \in S /\ Cardinality(Preceding(S, before, y)) = k - 1
    BY <1>2
  <2>. HIDE DEF y
  <2>2. ~ (<<x, y>> \in before) /\ ~ (<<y, x>> \in before)
    BY <1>0, <1>4, <2>1, PrecedingGrows
  <2>. QED
    BY <2>1, <2>2 DEF StrictOrder, y
<1>. HIDE DEF list
<1>. QED
  BY <1>2, <1>3, <1>4 DEF list

LEMMA ArrangedInOrder ==
  ASSUME NEW S, IsFiniteSet(S), NEW before, StrictOrder(S, before)
  PROVE  /\ Arranged(S, before) \in [1..Cardinality(S) -> S]
         /\ \A x \in S : \E k \in 1..Cardinality(S) : Arranged(S, before)[k] = x
         /\ \A k, l \in 1..Cardinality(S) :
              k < l => <<Arranged(S, before)[k], Arranged(S, before)[l]>> \in before
<1>. DEFINE n == Cardinality(S)  list == Arranged(S, before)
<1>0. n \in Nat
  BY FS_CardinalityType
<1>1. list \in [1..n -> S]
  BY ArrangedPlaces
<1>2. \A k \in 1..n, x \in S : list[k] = x <=> Cardinality(Preceding(S, before, x)) = k - 1
  BY ArrangedPlaces
<1>3. ASSUME NEW x \in S PROVE \E k \in 1..n : list[k] = x
  <2>. DEFINE k == Cardinality(Preceding(S, before, x)) + 1
  <2>1. k \in 1..n
    BY PrecedingBounds
  <2>2. IsFiniteSet(Preceding(S, before, x))
    BY FS_Subset DEF Preceding
  <2>3. Cardinality(Preceding(S, before, x)) \in Nat
    BY <2>2, FS_CardinalityType
  <2>4. Cardinality(Preceding(S, before, x)) = k - 1
    BY <2>3
  <2>. HIDE DEF k, list
  <2>. QED
    BY <1>2, <2>1, <2>4
<1>4. ASSUME NEW k \in 1..n, NEW l \in 1..n, k < l PROVE <<list[k], list[l]>> \in before
  <2>. DEFINE x == list[k]  y == list[l]
  <2>1. x \in S /\ y \in S
    BY <1>1
  <2>2. Cardinality(Preceding(S, before, x)) = k - 1 /\ Cardinality(Preceding(S, before, y)) = l - 1
    BY <1>2, <2>1
  <2>. HIDE DEF x, y
  <2>3. x # y
    BY <1>0, <1>4, <2>2
  <2>4. ~ (<<y, x>> \in before)
    BY <1>0, <1>4, <2>1, <2>2, PrecedingGrows
  <2>. QED
    BY <2>1, <2>3, <2>4 DEF StrictOrder, x, y
<1>. HIDE DEF list
<1>. QED
  BY <1>1, <1>3, <1>4 DEF list

(***************************************************************************)
(* Numbers are arranged from the least to the greatest.                    *)
(***************************************************************************)
LEMMA AscendingOrder ==
  ASSUME NEW S \in SUBSET Int, IsFiniteSet(S)
  PROVE  /\ Ascending(S) \in [1..Cardinality(S) -> S]
         /\ \A x \in S : \E k \in 1..Cardinality(S) : Ascending(S)[k] = x
         /\ \A k, l \in 1..Cardinality(S) : k < l => Ascending(S)[k] < Ascending(S)[l]
<1>. DEFINE before == {p \in S \X S : p[1] < p[2]}
<1>1. \A x, y \in S : <<x, y>> \in before <=> x < y
  OBVIOUS
<1>2. Ascending(S) = Arranged(S, before)
  BY DEF Ascending
<1>. HIDE DEF before
<1>3. StrictOrder(S, before)
  BY <1>1 DEF StrictOrder
<1>4. /\ Arranged(S, before) \in [1..Cardinality(S) -> S]
      /\ \A x \in S : \E k \in 1..Cardinality(S) : Arranged(S, before)[k] = x
      /\ \A k, l \in 1..Cardinality(S) :
           k < l => <<Arranged(S, before)[k], Arranged(S, before)[l]>> \in before
  BY <1>3, ArrangedInOrder
<1>. QED
  BY <1>1, <1>2, <1>4

(***************************************************************************)
(* What is selected from a list are its elements at the given positions,   *)
(* each once, in their order.                                              *)
(***************************************************************************)
LEMMA SelectedPositions ==
  ASSUME NEW s, NEW at \in SUBSET Int, IsFiniteSet(at)
  PROVE  \E f \in [1..Cardinality(at) -> at] :
           /\ Selected(s, at) = [k \in 1..Cardinality(at) |-> s[f[k]]]
           /\ \A i \in at : \E k \in 1..Cardinality(at) : f[k] = i
           /\ \A k, l \in 1..Cardinality(at) : k < l => f[k] < f[l]
<1>. DEFINE f == Ascending(at)
<1>1. /\ f \in [1..Cardinality(at) -> at]
      /\ \A i \in at : \E k \in 1..Cardinality(at) : f[k] = i
      /\ \A k, l \in 1..Cardinality(at) : k < l => f[k] < f[l]
  BY AscendingOrder
<1>2. Selected(s, at) = [k \in DOMAIN f |-> s[f[k]]]
  BY DEF Selected
<1>. HIDE DEF f
<1>. QED
  BY <1>1, <1>2

(***************************************************************************)
(* Tuples of numbers of the same length are totally ordered by Lower.      *)
(***************************************************************************)
LEMMA LowerOrder ==
  ASSUME NEW m \in Nat, NEW a \in [1..m -> Int], NEW b \in [1..m -> Int], NEW c \in [1..m -> Int]
  PROVE  /\ ~ Lower(a, a)
         /\ a # b => Lower(a, b) \/ Lower(b, a)
         /\ Lower(a, b) /\ Lower(b, c) => Lower(a, c)
<1>1. ~ Lower(a, a)
  BY DEF Lower
<1>2. ASSUME a # b PROVE Lower(a, b) \/ Lower(b, a)
  <2>. DEFINE D == {i \in 1..m : a[i] # b[i]}
  <2>1. D # {}
    <3>1. a = [i \in 1..m |-> a[i]] /\ b = [i \in 1..m |-> b[i]]
      OBVIOUS
    <3>2. ASSUME D = {} PROVE a = b
      <4>1. \A i \in 1..m : a[i] = b[i]
        BY <3>2
      <4>. QED
        BY <3>1, <4>1
    <3>. QED
      BY <1>2, <3>2
  <2>a. D \in SUBSET Nat
    OBVIOUS
  <2>2. PICK i \in D : \A j \in D : i =< j
    BY <2>1, <2>a, Least
  <2>3. \A j \in 1..(i - 1) : a[j] = b[j]
    BY <2>2
  <2>4. a[i] < b[i] \/ b[i] < a[i]
    OBVIOUS
  <2>. QED
    BY <2>3, <2>4 DEF Lower
<1>3. ASSUME Lower(a, b), Lower(b, c) PROVE Lower(a, c)
  <2>1. PICK i \in 1..m : a[i] < b[i] /\ \A j \in 1..(i - 1) : a[j] = b[j]
    BY <1>3 DEF Lower
  <2>2. PICK k \in 1..m : b[k] < c[k] /\ \A j \in 1..(k - 1) : b[j] = c[j]
    BY <1>3 DEF Lower
  <2>3. CASE i =< k
    <3>1. b[i] = c[i] \/ b[i] < c[i]
      BY <2>2, <2>3
    <3>2. a[i] < c[i]
      BY <2>1, <3>1
    <3>3. \A j \in 1..(i - 1) : a[j] = c[j]
      BY <2>1, <2>2, <2>3
    <3>. QED
      BY <3>2, <3>3 DEF Lower
  <2>4. CASE k < i
    <3>1. a[k] = b[k]
      BY <2>1, <2>4
    <3>2. a[k] < c[k]
      BY <2>2, <3>1
    <3>3. \A j \in 1..(k - 1) : a[j] = c[j]
      BY <2>1, <2>2, <2>4
    <3>. QED
      BY <3>2, <3>3 DEF Lower
  <2>. QED
    BY <2>3, <2>4
<1>. QED
  BY <1>1, <1>2, <1>3

LEMMA StableOrder ==
  ASSUME NEW n \in Nat, NEW m \in Nat, NEW key \in [1..n -> [1..m -> Int]]
  PROVE  /\ StrictOrder(1..n, Stable(key))
         /\ \A i, j \in 1..n : <<i, j>> \in Stable(key)
                                 <=> Lower(key[i], key[j]) \/ (key[i] = key[j] /\ i < j)
<1>1. ASSUME NEW i \in 1..n, NEW j \in 1..n
      PROVE  <<i, j>> \in Stable(key) <=> Lower(key[i], key[j]) \/ (key[i] = key[j] /\ i < j)
  <2>1. DOMAIN key = 1..n
    OBVIOUS
  <2>2. Stable(key) = {p \in (1..n) \X (1..n) :
                         Lower(key[p[1]], key[p[2]]) \/ (key[p[1]] = key[p[2]] /\ p[1] < p[2])}
    BY <2>1 DEF Stable
  <2>3. <<i, j>> \in (1..n) \X (1..n) /\ <<i, j>>[1] = i /\ <<i, j>>[2] = j
    OBVIOUS
  <2>. QED
    BY <2>2, <2>3
<1>2. ASSUME NEW i \in 1..n PROVE <<i, i>> \notin Stable(key)
  <2>1. ~ Lower(key[i], key[i])
    BY DEF Lower
  <2>2. <<i, i>> \in Stable(key) <=> Lower(key[i], key[i]) \/ (key[i] = key[i] /\ i < i)
    BY <1>1
  <2>. QED
    BY <2>1, <2>2
<1>3. ASSUME NEW i \in 1..n, NEW j \in 1..n, i # j
      PROVE  <<i, j>> \in Stable(key) \/ <<j, i>> \in Stable(key)
  <2>1. key[i] # key[j] => Lower(key[i], key[j]) \/ Lower(key[j], key[i])
    <3>1. key[i] \in [1..m -> Int] /\ key[j] \in [1..m -> Int]
      OBVIOUS
    <3>. QED
      BY ONLY <3>1, m \in Nat, LowerOrder
  <2>2. /\ <<i, j>> \in Stable(key) <=> Lower(key[i], key[j]) \/ (key[i] = key[j] /\ i < j)
        /\ <<j, i>> \in Stable(key) <=> Lower(key[j], key[i]) \/ (key[j] = key[i] /\ j < i)
    BY <1>1
  <2>3. i < j \/ j < i
    BY <1>3
  <2>. QED
    BY <2>1, <2>2, <2>3
<1>4. ASSUME NEW i \in 1..n, NEW j \in 1..n, NEW k \in 1..n,
             <<i, j>> \in Stable(key), <<j, k>> \in Stable(key)
      PROVE  <<i, k>> \in Stable(key)
  <2>1. Lower(key[i], key[j]) /\ Lower(key[j], key[k]) => Lower(key[i], key[k])
    BY LowerOrder
  <2>2. /\ Lower(key[i], key[j]) \/ (key[i] = key[j] /\ i < j)
        /\ Lower(key[j], key[k]) \/ (key[j] = key[k] /\ j < k)
    BY <1>1, <1>4
  <2>3. Lower(key[i], key[k]) \/ (key[i] = key[k] /\ i < k)
    BY <2>1, <2>2
  <2>. QED
    BY <1>1, <2>3
<1>. QED
  BY <1>1, <1>2, <1>3, <1>4 DEF StrictOrder

(***************************************************************************)
(* Sorting permutes a list.                                                *)
(***************************************************************************)
Along(s, f, n) == [k \in 1..n |-> s[f[k]]]

Permutes(f, n) ==
  /\ f \in [1..n -> 1..n]
  /\ \A i \in 1..n : \E k \in 1..n : f[k] = i
  /\ \A k, l \in 1..n : k # l => f[k] # f[l]

Follows(f, n, before) == \A k, l \in 1..n : k < l => <<f[k], f[l]>> \in before

LEMMA SortedPermutes ==
  ASSUME NEW n \in Nat, NEW m \in Nat, NEW s, NEW key \in [1..n -> [1..m -> Int]], DOMAIN s = 1..n
  PROVE  \E f : Permutes(f, n) /\ Follows(f, n, Stable(key)) /\ Sorted(s, key) = Along(s, f, n)
<1>. DEFINE f == Arranged(1..n, Stable(key))
<1>1. StrictOrder(1..n, Stable(key))
  BY StableOrder
<1>2. IsFiniteSet(1..n) /\ Cardinality(1..n) = n
  BY FS_Interval
<1>3. /\ f \in [1..n -> 1..n]
      /\ \A i \in 1..n : \E k \in 1..n : f[k] = i
      /\ \A k, l \in 1..n : k < l => <<f[k], f[l]>> \in Stable(key)
  <2>. DEFINE S == 1..n
  <2>1. IsFiniteSet(S) /\ StrictOrder(S, Stable(key))
    BY <1>1, <1>2
  <2>. HIDE DEF S
  <2>2. /\ Arranged(S, Stable(key)) \in [1..Cardinality(S) -> S]
        /\ \A i \in S : \E k \in 1..Cardinality(S) : Arranged(S, Stable(key))[k] = i
        /\ \A k, l \in 1..Cardinality(S) :
             k < l => <<Arranged(S, Stable(key))[k], Arranged(S, Stable(key))[l]>> \in Stable(key)
    BY <2>1, ArrangedInOrder
  <2>. QED
    BY <1>2, <2>2 DEF S
<1>4. Sorted(s, key) = [k \in DOMAIN f |-> s[f[k]]]
  BY DEF Sorted
<1>. HIDE DEF f
<1>5. ASSUME NEW k \in 1..n, NEW l \in 1..n, k # l PROVE f[k] # f[l]
  <2>1. k < l \/ l < k
    BY <1>5
  <2>2. f[k] \in 1..n /\ f[l] \in 1..n
    BY <1>3
  <2>. QED
    BY <1>1, <1>3, <2>1, <2>2 DEF StrictOrder
<1>6. Sorted(s, key) = Along(s, f, n)
  BY <1>3, <1>4 DEF Along
<1>7. Permutes(f, n) /\ Follows(f, n, Stable(key))
  BY <1>3, <1>5 DEF Permutes, Follows
<1>. QED
  BY <1>6, <1>7

(***************************************************************************)
(* f numbers the elements of I from 1 to n.                                *)
(***************************************************************************)
Numbers(f, n, I) ==
  /\ n \in Nat /\ f \in [1..n -> I]
  /\ \A i \in I : \E k \in 1..n : f[k] = i
  /\ \A k, l \in 1..n : f[k] = f[l] => k = l

(***************************************************************************)
(* Only one list holds the elements of a set in a given order.             *)
(***************************************************************************)
LEMMA CountBelow ==
  ASSUME NEW n \in Nat, NEW k \in 1..n
  PROVE  Cardinality({j \in 1..n : j < k}) = k - 1
<1>1. {j \in 1..n : j < k} = 1..(k - 1)
  OBVIOUS
<1>2. Cardinality(1..(k - 1)) = k - 1
  BY FS_Interval
<1>. QED
  BY <1>1, <1>2

LEMMA PositionsFinite ==
  ASSUME NEW n \in Nat, NEW I \in SUBSET (1..n)
  PROVE  IsFiniteSet(I) /\ Cardinality(I) \in Nat
<1>1. IsFiniteSet(1..n)
  BY FS_Interval
<1>. QED
  BY <1>1, FS_Subset, FS_CardinalityType

LEMMA NumbersCount ==
  ASSUME NEW f, NEW n, NEW X, Numbers(f, n, X)
  PROVE  IsFiniteSet(X) /\ Cardinality(X) = n
<1>. DEFINE D == 1..n
<1>1. /\ f \in [D -> X] /\ n \in Nat
      /\ \A x \in X : \E k \in D : f[k] = x
      /\ \A k, l \in D : f[k] = f[l] => k = l
  BY DEF Numbers
<1>2. IsFiniteSet(D) /\ Cardinality(D) = n
  BY <1>1, FS_Interval
<1>. HIDE DEF D
<1>3. f \in Bijection(D, X)
  BY <1>1, Fun_IsBij
<1>4. ExistsBijection(D, X)
  BY <1>3 DEF ExistsBijection
<1>. QED
  BY <1>2, <1>4, FS_Bijection

LEMMA ArrangedUnique ==
  ASSUME NEW n, NEW S, NEW before, NEW r,
         StrictOrder(S, before), Numbers(r, n, S), Follows(r, n, before)
  PROVE  r = Arranged(S, before)
<1>1. /\ n \in Nat /\ r \in [1..n -> S]
      /\ \A x \in S : \E k \in 1..n : r[k] = x
      /\ \A k, l \in 1..n : r[k] = r[l] => k = l
  BY DEF Numbers
<1>2. \A k, l \in 1..n : k < l => <<r[k], r[l]>> \in before
  BY DEF Follows
<1>3. ASSUME NEW k \in 1..n, NEW l \in 1..n PROVE <<r[k], r[l]>> \in before <=> k < l
  <2>1. r[k] \in S /\ r[l] \in S
    BY <1>1
  <2>2. k < l \/ k = l \/ l < k
    BY <1>1
  <2>3. CASE k = l
    BY <2>1, <2>3 DEF StrictOrder
  <2>4. CASE l < k
    <3>1. <<r[l], r[k]>> \in before
      BY <1>2, <2>4
    <3>2. <<r[k], r[l]>> \notin before
      BY <2>1, <3>1 DEF StrictOrder
    <3>. QED
      BY <2>4, <3>2
  <2>. QED
    BY <1>2, <2>2, <2>3, <2>4
<1>4. IsFiniteSet(S) /\ Cardinality(S) = n
  BY NumbersCount
<1>5. ASSUME NEW k \in 1..n PROVE Cardinality(Preceding(S, before, r[k])) = k - 1
  <2>. DEFINE J == {j \in 1..n : j < k}  P == Preceding(S, before, r[k])
              g == [j \in J |-> r[j]]
  <2>1. g \in Bijection(J, P)
    <3>1. \A j \in J : g[j] \in P
      BY <1>1, <1>3 DEF Preceding
    <3>2. \A j, l \in J : g[j] = g[l] => j = l
      BY <1>1
    <3>3. \A y \in P : \E j \in J : g[j] = y
      <4>1. ASSUME NEW y \in P PROVE \E j \in J : g[j] = y
        <5>1. y \in S /\ <<y, r[k]>> \in before
          BY DEF Preceding
        <5>2. PICK j \in 1..n : r[j] = y
          BY <1>1, <5>1
        <5>3. j \in J
          BY <1>3, <5>1, <5>2
        <5>. QED
          BY <5>2, <5>3
      <4>. QED
        BY <4>1
    <3>4. g \in [J -> P]
      BY <3>1
    <3>. HIDE DEF g, J, P
    <3>. QED
      BY <3>2, <3>3, <3>4, Fun_IsBij
  <2>2. ExistsBijection(J, P)
    BY <2>1 DEF ExistsBijection
  <2>3. IsFiniteSet(J)
    <3>1. J \in SUBSET (1..n)
      OBVIOUS
    <3>. QED
      BY <1>1, <3>1, PositionsFinite
  <2>4. Cardinality(P) = Cardinality(J)
    BY <2>2, <2>3, FS_Bijection
  <2>5. Cardinality(J) = k - 1
    BY <1>1, CountBelow
  <2>. QED
    BY <2>4, <2>5
<1>6. /\ Arranged(S, before) \in [1..n -> S]
      /\ \A k \in 1..n, x \in S :
           Arranged(S, before)[k] = x <=> Cardinality(Preceding(S, before, x)) = k - 1
  <2>1. /\ Arranged(S, before) \in [1..Cardinality(S) -> S]
        /\ \A k \in 1..Cardinality(S), x \in S :
             Arranged(S, before)[k] = x <=> Cardinality(Preceding(S, before, x)) = k - 1
    <3>1. IsFiniteSet(S) /\ StrictOrder(S, before)
      BY <1>4
    <3>. QED
      BY ONLY <3>1, ArrangedPlaces
  <2>. QED
    BY <1>4, <2>1
<1>7. \A k \in 1..n : Arranged(S, before)[k] = r[k]
  BY <1>1, <1>5, <1>6
<1>. QED
  BY <1>1, <1>6, <1>7

(***************************************************************************)
(* Whoever selects every position gets the list.                           *)
(***************************************************************************)
LEMMA SelectedAll ==
  ASSUME NEW n \in Nat, NEW s, s = [i \in 1..n |-> s[i]]
  PROVE  Selected(s, 1..n) = s
<1>. DEFINE S == 1..n  before == {p \in S \X S : p[1] < p[2]}  id == [i \in 1..n |-> i]
<1>1. \A x, y \in S : <<x, y>> \in before <=> x < y
  OBVIOUS
<1>2. Ascending(S) = Arranged(S, before)
  BY DEF Ascending
<1>3. id \in [1..n -> S] /\ \A k \in 1..n : id[k] = k
  OBVIOUS
<1>. HIDE DEF before, id
<1>4. StrictOrder(S, before)
  BY <1>1 DEF StrictOrder
<1>5. \A x \in S : \E k \in 1..n : id[k] = x
  BY <1>3
<1>6. \A k, l \in 1..n : k < l => <<id[k], id[l]>> \in before
  BY <1>1, <1>3
<1>7. Numbers(id, n, S) /\ Follows(id, n, before)
  BY <1>3, <1>5, <1>6 DEF Numbers, Follows
<1>. HIDE DEF S
<1>8. id = Arranged(S, before)
  BY <1>4, <1>7, ArrangedUnique
<1>9. Selected(s, 1..n) = [k \in DOMAIN id |-> s[id[k]]]
  BY <1>2, <1>8 DEF Selected, S
<1>10. [k \in DOMAIN id |-> s[id[k]]] = [k \in 1..n |-> s[k]]
  BY <1>3
<1>. QED
  BY <1>9, <1>10

(***************************************************************************)
(* A sum does not depend on the names of the arguments, and any argument   *)
(* can be taken out; what is positive makes a positive sum.                *)
(***************************************************************************)
LEMMA TotalType ==
  ASSUME NEW D, NEW d \in [D -> Nat], IsFiniteSet(D)
  PROVE  Total(d) \in Nat
<1>1. IsFiniteSet(Units(d, D))
  BY UnitsFinite
<1>. QED
  BY <1>1, TotalCounts, FS_CardinalityType

LEMMA TotalRenamed ==
  ASSUME NEW D, NEW d \in [D -> Nat], NEW E, NEW f \in [E -> D], IsFiniteSet(D),
         \A a, b \in E : f[a] = f[b] => a = b,
         \A x \in D : \E e \in E : f[e] = x
  PROVE  Total([e \in E |-> d[f[e]]]) = Total(d)
<1>. DEFINE h == [e \in E |-> d[f[e]]]
            g == [p \in Units(h, E) |-> <<f[p[1]], p[2]>>]
<1>1. /\ f \in [E -> D]
      /\ \A a, b \in E : f[a] = f[b] => a = b
      /\ \A x \in D : \E e \in E : f[e] = x
  OBVIOUS
<1>2. IsFiniteSet(E)
  <2>0. f \in Bijection(E, D)
    BY Fun_IsBij
  <2>1. ExistsBijection(D, E)
    BY <2>0, Fun_ExistsBijSymmetric DEF ExistsBijection
  <2>. QED
    BY <2>1, FS_Bijection
<1>3. h \in [E -> Nat]
  BY <1>1
<1>4. g \in Bijection(Units(h, E), Units(d, D))
  <2>1. \A p \in Units(h, E) : g[p] \in Units(d, D)
    BY <1>1 DEF Units
  <2>2. ASSUME NEW p \in Units(h, E), NEW q \in Units(h, E), g[p] = g[q] PROVE p = q
    <3>1. f[p[1]] = f[q[1]] /\ p[2] = q[2]
      BY <2>2
    <3>2. p = <<p[1], p[2]>> /\ q = <<q[1], q[2]>> /\ p[1] \in E /\ q[1] \in E
      BY DEF Units
    <3>. QED
      BY <1>1, <3>1, <3>2
  <2>3. ASSUME NEW q \in Units(d, D) PROVE \E p \in Units(h, E) : g[p] = q
    <3>1. PICK e \in E : f[e] = q[1]
      BY <1>1 DEF Units
    <3>2. <<e, q[2]>> \in Units(h, E) /\ q = <<q[1], q[2]>>
      BY <3>1 DEF Units
    <3>. QED
      BY <3>1, <3>2
  <2>4. g \in [Units(h, E) -> Units(d, D)]
    BY <2>1
  <2>. HIDE DEF g, h
  <2>. QED
    BY <2>2, <2>3, <2>4, Fun_IsBij
<1>. HIDE DEF g, h
<1>5. ExistsBijection(Units(h, E), Units(d, D))
  BY <1>4 DEF ExistsBijection
<1>6. IsFiniteSet(Units(h, E))
  BY <1>2, <1>3, UnitsFinite
<1>7. Cardinality(Units(h, E)) = Cardinality(Units(d, D))
  BY <1>5, <1>6, FS_Bijection
<1>8. Total(h) = Total(d)
  BY <1>2, <1>3, <1>7, TotalCounts
<1>. QED
  BY <1>8 DEF h

LEMMA TotalSplit ==
  ASSUME NEW D, NEW d \in [D -> Nat], NEW x \in D, IsFiniteSet(D)
  PROVE  Total(d) = d[x] + Total([y \in D \ {x} |-> d[y]])
<1>. DEFINE E == D \ {x}  e == [y \in E |-> d[y]]
<1>1. IsFiniteSet(E) /\ e \in [E -> Nat]
  BY FS_Subset
<1>2. Units(e, E) = Units(d, E)
  BY DEF Units
<1>3. IsFiniteSet(Units(d, E))
  BY UnitsFinite
<1>4. Cardinality(Units(d, D)) = d[x] + Cardinality(Units(d, E))
  BY <1>3, UnitsSplit
<1>. HIDE DEF E, e
<1>5. Total(d) = Cardinality(Units(d, D)) /\ Total(e) = Cardinality(Units(e, E))
  BY <1>1, TotalCounts
<1>. QED
  BY <1>2, <1>4, <1>5 DEF e, E

LEMMA TotalEmpty ==
  ASSUME NEW d \in [{} -> Nat]
  PROVE  Total(d) = 0
  BY TotalCounts, UnitsEmpty, FS_EmptySet

(***************************************************************************)
(* A list of the elements of a set, each once: what selecting positions    *)
(* and what sorting the selected elements by any key amount to.            *)
(***************************************************************************)
Enumerates(f, I) ==
  /\ f \in [1..Cardinality(I) -> I]
  /\ \A i \in I : \E k \in 1..Cardinality(I) : f[k] = i
  /\ \A k, l \in 1..Cardinality(I) : f[k] = f[l] => k = l

LEMMA SelectedEnumerates ==
  ASSUME NEW s, NEW n \in Nat, NEW I \in SUBSET (1..n)
  PROVE  \E f : /\ Enumerates(f, I)
                /\ Selected(s, I) = Along(s, f, Cardinality(I))
                /\ \A k, l \in 1..Cardinality(I) : k < l => f[k] < f[l]
<1>. DEFINE c == Cardinality(I)
<1>0. I \in SUBSET Int
  OBVIOUS
<1>1. IsFiniteSet(I) /\ c \in Nat
  BY PositionsFinite
<1>2. PICK f \in [1..c -> I] :
        /\ Selected(s, I) = [k \in 1..c |-> s[f[k]]]
        /\ \A i \in I : \E k \in 1..c : f[k] = i
        /\ \A k, l \in 1..c : k < l => f[k] < f[l]
  BY ONLY <1>0, <1>1, SelectedPositions
<1>4. Selected(s, I) = Along(s, f, c)
  BY <1>2 DEF Along
<1>3. ASSUME NEW k \in 1..c, NEW l \in 1..c, f[k] = f[l] PROVE k = l
  <2>. HIDE DEF c
  <2>1. f[k] \in Int /\ f[l] \in Int
    BY <1>0, <1>2
  <2>2. ~ (k < l) /\ ~ (l < k)
    BY <1>2, <1>3, <2>1
  <2>. QED
    BY <1>1, <2>2
<1>. QED
  BY <1>2, <1>3, <1>4 DEF Enumerates

LEMMA SortedEnumerates ==
  ASSUME NEW s, NEW n \in Nat, NEW I \in SUBSET (1..n), NEW m \in Nat,
         NEW key \in [1..Cardinality(I) -> [1..m -> Int]]
  PROVE  \E f : /\ Enumerates(f, I)
                /\ Sorted(Selected(s, I), key) = Along(s, f, Cardinality(I))
<1>. DEFINE c == Cardinality(I)
<1>1. c \in Nat
  BY PositionsFinite
<1>2. PICK g : Enumerates(g, I) /\ Selected(s, I) = Along(s, g, c)
  BY SelectedEnumerates
<1>. DEFINE t == Selected(s, I)
<1>3. DOMAIN t = 1..c /\ \A k \in 1..c : t[k] = s[g[k]]
  BY <1>2 DEF Along
<1>. HIDE DEF c, t
<1>4. PICK h : Permutes(h, c) /\ Sorted(t, key) = Along(t, h, c)
  <2>1. key \in [1..c -> [1..m -> Int]]
    BY DEF c
  <2>. QED
    BY ONLY <1>1, <1>3, <2>1, m \in Nat, SortedPermutes
<1>. DEFINE f == [k \in 1..c |-> g[h[k]]]
<1>5. /\ g \in [1..c -> I]
      /\ \A i \in I : \E k \in 1..c : g[k] = i
      /\ \A k, l \in 1..c : g[k] = g[l] => k = l
  BY <1>2 DEF Enumerates, c
<1>6. f \in [1..c -> I]
  BY <1>4, <1>5 DEF Permutes
<1>7. \A i \in I : \E k \in 1..c : f[k] = i
  <2>1. ASSUME NEW i \in I PROVE \E k \in 1..c : f[k] = i
    <3>1. PICK j \in 1..c : g[j] = i
      BY <1>5
    <3>2. PICK k \in 1..c : h[k] = j
      BY <1>4 DEF Permutes
    <3>. QED
      BY <3>1, <3>2
  <2>. QED
    BY <2>1
<1>8. \A k, l \in 1..c : f[k] = f[l] => k = l
  BY <1>4, <1>5 DEF Permutes
<1>9. \A k \in 1..c : t[h[k]] = s[f[k]]
  BY <1>3, <1>4 DEF Permutes
<1>. HIDE DEF f
<1>10. Sorted(t, key) = Along(s, f, c)
  BY <1>4, <1>9 DEF Along
<1>11. Enumerates(f, I)
  BY <1>6, <1>7, <1>8 DEF Enumerates, c
<1>. QED
  BY <1>10, <1>11 DEF t, c

LEMMA EnumeratedTotal ==
  ASSUME NEW I, NEW d \in [I -> Nat], NEW f, IsFiniteSet(I), Enumerates(f, I)
  PROVE  Total([k \in 1..Cardinality(I) |-> d[f[k]]]) = Total(d)
<1>. DEFINE E == 1..Cardinality(I)
<1>1. /\ f \in [E -> I]
      /\ \A a, b \in E : f[a] = f[b] => a = b
      /\ \A x \in I : \E e \in E : f[e] = x
  BY DEF Enumerates
<1>. HIDE DEF E
<1>2. Total([k \in E |-> d[f[k]]]) = Total(d)
  BY <1>1, TotalRenamed
<1>. QED
  BY <1>2 DEF E

LEMMA EnumeratedElements ==
  ASSUME NEW s, NEW f, NEW I, Enumerates(f, I)
  PROVE  /\ DOMAIN Along(s, f, Cardinality(I)) = 1..Cardinality(I)
         /\ \A k \in 1..Cardinality(I) : f[k] \in I /\ Along(s, f, Cardinality(I))[k] = s[f[k]]
         /\ {Along(s, f, Cardinality(I))[k] : k \in 1..Cardinality(I)} = {s[i] : i \in I}
<1>. DEFINE c == Cardinality(I)
<1>1. DOMAIN Along(s, f, c) = 1..c
  BY DEF Along
<1>2. \A k \in 1..c : f[k] \in I /\ Along(s, f, c)[k] = s[f[k]]
  BY DEF Along, Enumerates
<1>3. \A i \in I : \E k \in 1..c : f[k] = i
  BY DEF Enumerates
<1>. HIDE DEF c
<1>4. {Along(s, f, c)[k] : k \in 1..c} = {s[i] : i \in I}
  BY <1>2, <1>3
<1>. QED
  BY <1>1, <1>2, <1>4 DEF c

LEMMA AscendingElements ==
  ASSUME NEW S \in SUBSET Int, IsFiniteSet(S)
  PROVE  /\ DOMAIN Ascending(S) = 1..Cardinality(S) /\ Cardinality(S) \in Nat
         /\ \A k \in 1..Cardinality(S) : Ascending(S)[k] \in S
         /\ \A x \in S : \E k \in 1..Cardinality(S) : Ascending(S)[k] = x
<1>. DEFINE c == Cardinality(S)
<1>1. c \in Nat
  BY FS_CardinalityType
<1>2. Ascending(S) \in [1..c -> S] /\ \A x \in S : \E k \in 1..c : Ascending(S)[k] = x
  BY AscendingOrder
<1>. HIDE DEF c
<1>3. DOMAIN Ascending(S) = 1..c /\ \A k \in 1..c : Ascending(S)[k] \in S
  BY <1>2
<1>. QED
  BY <1>1, <1>2, <1>3 DEF c

LEMMA ImageFinite ==
  ASSUME NEW n \in Nat, NEW f, NEW I \in SUBSET (1..n)
  PROVE  IsFiniteSet({f[i] : i \in I})
<1>. DEFINE T == {f[i] : i \in I}  g == [i \in I |-> f[i]]
<1>1. g \in [I -> T] /\ \A x \in T : \E i \in I : g[i] = x
  OBVIOUS
<1>. HIDE DEF T, g
<1>2. g \in Surjection(I, T)
  BY <1>1, Fun_IsSurj
<1>3. IsFiniteSet(T)
  BY <1>2, PositionsFinite, FS_Surjection
<1>. QED
  BY <1>3 DEF T

LEMMA NumbersThenPermutes ==
  ASSUME NEW f, NEW n, NEW I, NEW h, Numbers(f, n, I), Permutes(h, n)
  PROVE  /\ Numbers([k \in 1..n |-> f[h[k]]], n, I)
         /\ \A k \in 1..n : h[k] \in 1..n
<1>. DEFINE g == [k \in 1..n |-> f[h[k]]]
<1>1. /\ n \in Nat /\ f \in [1..n -> I]
      /\ \A i \in I : \E k \in 1..n : f[k] = i
      /\ \A k, l \in 1..n : f[k] = f[l] => k = l
  BY DEF Numbers
<1>2. /\ h \in [1..n -> 1..n]
      /\ \A i \in 1..n : \E k \in 1..n : h[k] = i
      /\ \A k, l \in 1..n : k # l => h[k] # h[l]
  BY DEF Permutes
<1>3. ASSUME NEW i \in I PROVE \E k \in 1..n : g[k] = i
  <2>1. PICK j \in 1..n : f[j] = i
    BY <1>1
  <2>2. PICK k \in 1..n : h[k] = j
    BY <1>2
  <2>. QED
    BY <2>1, <2>2
<1>4. g \in [1..n -> I] /\ \A k, l \in 1..n : g[k] = g[l] => k = l
  BY <1>1, <1>2
<1>. HIDE DEF g
<1>5. Numbers(g, n, I)
  BY <1>1, <1>3, <1>4 DEF Numbers
<1>. QED
  BY <1>2, <1>5 DEF g

Where(f, n, J) == {k \in 1..n : f[k] \in J}

LEMMA SelectedNumbers ==
  ASSUME NEW s, NEW f, NEW n, NEW I, NEW J, Numbers(f, n, I), J \subseteq I
  PROVE  \E g : /\ Numbers(g, Cardinality(Where(f, n, J)), J)
                /\ Selected(Along(s, f, n), Where(f, n, J)) = Along(s, g, Cardinality(Where(f, n, J)))
<1>. DEFINE at == Where(f, n, J)  c == Cardinality(at)
<1>1. /\ n \in Nat /\ f \in [1..n -> I]
      /\ \A i \in I : \E k \in 1..n : f[k] = i
      /\ \A k, l \in 1..n : f[k] = f[l] => k = l
  BY DEF Numbers
<1>2. at \in SUBSET (1..n) /\ c \in Nat
  <2>1. at \in SUBSET (1..n)
    BY DEF Where
  <2>. QED
    BY <1>1, <2>1, PositionsFinite
<1>3. \A k \in 1..n : k \in at <=> f[k] \in J
  BY DEF Where
<1>. DEFINE t == Along(s, f, n)
<1>4. \A k \in 1..n : t[k] = s[f[k]]
  BY DEF Along
<1>. HIDE DEF at, t
<1>5. PICK h : Enumerates(h, at) /\ Selected(t, at) = Along(t, h, c)
  BY <1>1, <1>2, SelectedEnumerates
<1>6. /\ h \in [1..c -> at]
      /\ \A i \in at : \E k \in 1..c : h[k] = i
      /\ \A k, l \in 1..c : h[k] = h[l] => k = l
  BY <1>5 DEF Enumerates
<1>. HIDE DEF c
<1>. DEFINE g == [k \in 1..c |-> f[h[k]]]
<1>7. g \in [1..c -> J] /\ \A k, l \in 1..c : g[k] = g[l] => k = l
  <2>1. \A k \in 1..c : h[k] \in 1..n /\ f[h[k]] \in J
    BY <1>2, <1>3, <1>6
  <2>2. g \in [1..c -> J]
    BY <2>1
  <2>3. \A k, l \in 1..c : g[k] = g[l] => k = l
    BY <1>1, <1>6, <2>1
  <2>. QED
    BY <2>2, <2>3
<1>8. ASSUME NEW i \in J PROVE \E k \in 1..c : g[k] = i
  <2>1. PICK j \in 1..n : f[j] = i
    BY <1>1
  <2>2. PICK k \in 1..c : h[k] = j
    BY <1>3, <1>6, <2>1
  <2>. QED
    BY <2>1, <2>2
<1>9. \A k \in 1..c : t[h[k]] = s[g[k]]
  BY <1>2, <1>4, <1>6
<1>. HIDE DEF g
<1>10. Along(t, h, c) = Along(s, g, c)
  BY <1>9 DEF Along
<1>11. Numbers(g, c, J)
  BY <1>2, <1>7, <1>8 DEF Numbers
<1>. QED
  BY <1>5, <1>10, <1>11 DEF c, at, t

(***************************************************************************)
(* Sorting by keys that tell the elements apart: the result depends on the *)
(* elements only and not on the order in which they come.                  *)
(***************************************************************************)
KeyOrder(key, X) == {p \in X \X X : Lower(key[p[1]], key[p[2]])}

LEMMA KeyOrderStrict ==
  ASSUME NEW m \in Nat, NEW X, NEW key \in [X -> [1..m -> Int]],
         \A x, y \in X : key[x] = key[y] => x = y
  PROVE  /\ StrictOrder(X, KeyOrder(key, X))
         /\ \A x, y \in X : <<x, y>> \in KeyOrder(key, X) <=> Lower(key[x], key[y])
<1>1. \A x \in X : key[x] \in [1..m -> Int]
  OBVIOUS
<1>2. \A x, y \in X : <<x, y>> \in KeyOrder(key, X) <=> Lower(key[x], key[y])
  BY DEF KeyOrder
<1>3. \A x \in X : ~ Lower(key[x], key[x])
  BY <1>1, LowerOrder
<1>4. \A x, y \in X : key[x] # key[y] => Lower(key[x], key[y]) \/ Lower(key[y], key[x])
  BY <1>1, LowerOrder
<1>5. \A x, y, z \in X : Lower(key[x], key[y]) /\ Lower(key[y], key[z]) => Lower(key[x], key[z])
  BY <1>1, LowerOrder
<1>. QED
  BY <1>2, <1>3, <1>4, <1>5 DEF StrictOrder

TellsApart(key, m, X) ==
  /\ m \in Nat /\ key \in [X -> [1..m -> Int]]
  /\ \A x, y \in X : key[x] = key[y] => x = y

LEMMA SortedArranged ==
  ASSUME NEW n, NEW m, NEW X, NEW s, NEW key, Numbers(s, n, X), TellsApart(key, m, X)
  PROVE  Sorted(s, Along(key, s, n)) = Arranged(X, KeyOrder(key, X))
<1>0. m \in Nat /\ key \in [X -> [1..m -> Int]] /\ \A x, y \in X : key[x] = key[y] => x = y
  BY DEF TellsApart
<1>. DEFINE keys == [k \in 1..n |-> key[s[k]]]
<1>1. /\ n \in Nat /\ s \in [1..n -> X] /\ DOMAIN s = 1..n
      /\ \A x \in X : \E k \in 1..n : s[k] = x
      /\ \A k, l \in 1..n : s[k] = s[l] => k = l
  BY DEF Numbers
<1>2. keys \in [1..n -> [1..m -> Int]] /\ \A k \in 1..n : keys[k] = key[s[k]]
  BY <1>0, <1>1
<1>. HIDE DEF keys
<1>3. PICK h : Permutes(h, n) /\ Follows(h, n, Stable(keys)) /\ Sorted(s, keys) = Along(s, h, n)
  <2>1. n \in Nat /\ m \in Nat /\ DOMAIN s = 1..n /\ keys \in [1..n -> [1..m -> Int]]
    BY <1>0, <1>1, <1>2
  <2>. QED
    BY ONLY <2>1, SortedPermutes
<1>4. /\ h \in [1..n -> 1..n]
      /\ \A i \in 1..n : \E k \in 1..n : h[k] = i
      /\ \A k, l \in 1..n : k # l => h[k] # h[l]
  BY <1>3 DEF Permutes
<1>. DEFINE r == [k \in 1..n |-> s[h[k]]]
<1>5. /\ StrictOrder(X, KeyOrder(key, X))
      /\ \A x, y \in X : <<x, y>> \in KeyOrder(key, X) <=> Lower(key[x], key[y])
  BY ONLY <1>0, KeyOrderStrict
<1>6. r \in [1..n -> X]
  BY <1>1, <1>4
<1>7. ASSUME NEW x \in X PROVE \E k \in 1..n : r[k] = x
  <2>1. PICK j \in 1..n : s[j] = x
    BY <1>1
  <2>2. PICK k \in 1..n : h[k] = j
    BY <1>4
  <2>. QED
    BY <2>1, <2>2
<1>8. ASSUME NEW k \in 1..n, NEW l \in 1..n, k < l PROVE <<r[k], r[l]>> \in KeyOrder(key, X)
  <2>1. <<h[k], h[l]>> \in Stable(keys)
    BY <1>3, <1>8 DEF Follows
  <2>2. h[k] \in 1..n /\ h[l] \in 1..n /\ h[k] # h[l]
    <3>1. k # l
      BY <1>1, <1>8
    <3>. QED
      BY <1>4, <3>1
  <2>3. Lower(keys[h[k]], keys[h[l]]) \/ keys[h[k]] = keys[h[l]]
    BY <2>1 DEF Stable
  <2>4. keys[h[k]] = key[r[k]] /\ keys[h[l]] = key[r[l]] /\ r[k] \in X /\ r[l] \in X
    BY <1>2, <1>6, <2>2
  <2>5. r[k] # r[l]
    BY <1>1, <2>2
  <2>. HIDE DEF r
  <2>6. key[r[k]] # key[r[l]]
    BY <1>0, <2>4, <2>5
  <2>. QED
    BY <1>5, <2>3, <2>4, <2>6
<1>9. Along(s, h, n) = r
  BY DEF Along
<1>10. ASSUME NEW k \in 1..n, NEW l \in 1..n, r[k] = r[l] PROVE k = l
  <2>1. s[h[k]] = s[h[l]] /\ h[k] \in 1..n /\ h[l] \in 1..n
    BY <1>4, <1>10
  <2>. QED
    BY <1>1, <1>4, <2>1
<1>. HIDE DEF r
<1>11. \A x \in X : \E k \in 1..n : r[k] = x
  BY <1>7
<1>12. \A k, l \in 1..n : k < l => <<r[k], r[l]>> \in KeyOrder(key, X)
  BY <1>8
<1>13. Numbers(r, n, X) /\ Follows(r, n, KeyOrder(key, X))
  BY <1>1, <1>6, <1>11, <1>12, <1>10 DEF Numbers, Follows
<1>14. r = Arranged(X, KeyOrder(key, X))
  BY <1>5, <1>13, ArrangedUnique
<1>. QED
  BY <1>3, <1>9, <1>14 DEF keys, Along

LEMMA EnumeratedList ==
  ASSUME NEW n, NEW s, NEW I, NEW f, Enumerates(f, I), Cardinality(I) \in Nat,
         \A i, j \in I : s[i] = s[j] => i = j
  PROVE  Numbers(Along(s, f, Cardinality(I)), Cardinality(I), {s[i] : i \in I})
<1>. DEFINE c == Cardinality(I)  X == {s[i] : i \in I}  t == Along(s, f, c)
<1>1. /\ f \in [1..c -> I]
      /\ \A i \in I : \E k \in 1..c : f[k] = i
      /\ \A k, l \in 1..c : f[k] = f[l] => k = l
  BY DEF Enumerates
<1>2. t = [k \in 1..c |-> s[f[k]]] /\ c \in Nat
  BY DEF Along
<1>3. \A i \in I : s[i] \in X
  OBVIOUS
<1>4. ASSUME NEW x \in X PROVE \E k \in 1..c : t[k] = x
  <2>1. PICK i \in I : x = s[i]
    OBVIOUS
  <2>2. PICK k \in 1..c : f[k] = i
    BY <1>1
  <2>. QED
    BY <1>2, <2>1, <2>2
<1>. HIDE DEF c, t, X
<1>5. t \in [1..c -> X]
  BY <1>1, <1>2, <1>3
<1>6. \A k, l \in 1..c : t[k] = t[l] => k = l
  BY <1>1, <1>2
<1>7. Numbers(t, c, X)
  BY <1>2, <1>4, <1>5, <1>6 DEF Numbers
<1>. QED
  BY <1>7 DEF t, c, X
=============================================================================
