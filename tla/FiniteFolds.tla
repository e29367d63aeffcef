----------------------------- MODULE FiniteFolds -----------------------------
(***************************************************************************)
(* Lemmas about folds over finite sets, on which the proofs about sums of  *)
(* requests and limits, and about loops over a list, rest.  Induction is   *)
(* over sets of numbers and sets of subsets, as first-order provers need.  *)
(***************************************************************************)
EXTENDS Integers, FiniteSets, FiniteSetsExt, FiniteSetTheorems,
        WellFoundedInduction, TLAPS

-----------------------------------------------------------------------------
(***************************************************************************)
(* Induction.                                                              *)
(***************************************************************************)

\* A set of natural numbers that has a number has a least one.
LEMMA LeastNumber ==
  ASSUME NEW T \in SUBSET Nat, T # {}
  PROVE  \E m \in T : \A n \in T : m <= n
<1> DEFINE Less == {ss \in Nat \X Nat : ss[1] < ss[2]}
<1>1. IsWellFoundedOn(Less, Nat)
  BY NatLessThanWellFounded, Zenon DEF OpToRel
<1>2. PICK m \in T : \A n \in T : ~(<<n, m>> \in Less)
  <2> HIDE DEF Less
  <2> QED  BY <1>1, WFMin, Zenon
<1>3. ASSUME NEW n \in T PROVE m <= n
  <2>1. ~(n < m)
    BY <1>2
  <2> QED  BY <2>1
<1> QED  BY <1>3

\* A set of numbers with a bound has a greatest element.
LEMMA GreatestNumber ==
  ASSUME NEW N \in Nat, NEW T \in SUBSET (0 .. N), T # {}
  PROVE  \E m \in T : \A n \in T : n <= m
<1> DEFINE U == {k \in Nat : N - k \in T}
<1>0. \A m \in T : N - m \in Nat /\ N - (N - m) = m
  OBVIOUS
<1>1. U \in SUBSET Nat /\ U # {}
  BY <1>0
<1>2. PICK u \in U : \A v \in U : u <= v
  <2> HIDE DEF U
  <2> QED  BY <1>1, LeastNumber
<1>3. PICK m \in T : u = N - m
  BY <1>0, <1>2
<1>4. ASSUME NEW n \in T PROVE N - m <= N - n
  <2>1. N - n \in U
    BY <1>0
  <2> QED  BY <1>2, <1>3, <2>1
<1>5. \A n \in T : n <= m
  BY <1>4
<1> QED  BY <1>5

\* A set of natural numbers with 0 and every successor is all of them.
LEMMA SetInduction ==
  ASSUME NEW P \in SUBSET Nat, 0 \in P, \A n \in P : n + 1 \in P
  PROVE  P = Nat
<1> SUFFICES ASSUME Nat \ P # {} PROVE FALSE
  OBVIOUS
<1>1. PICK m \in Nat \ P : \A n \in Nat \ P : m <= n
  BY LeastNumber
<1>2. m # 0 /\ m - 1 \in Nat
  OBVIOUS
<1>3. m - 1 \in P
  BY <1>1, <1>2
<1>4. (m - 1) + 1 \in P
  BY <1>3
<1> QED  BY <1>4

\* Subsets of a finite set are finite, and lose one by an element.
LEMMA Smaller ==
  ASSUME NEW S, IsFiniteSet(S), NEW T \in SUBSET S
  PROVE  /\ IsFiniteSet(T) /\ Cardinality(T) \in Nat
         /\ Cardinality(T) <= Cardinality(S)
         /\ Cardinality(T) = 0 <=> T = {}
         /\ \A x \in T : /\ T \ {x} \in SUBSET S
                         /\ Cardinality(T \ {x}) = Cardinality(T) - 1
BY FS_Subset, FS_CardinalityType, FS_EmptySet, FS_RemoveElement

\* Two elements.
LEMMA TwoElements ==
  ASSUME NEW x, NEW y, x # y
  PROVE  Cardinality({x, y}) = 2
<1>1. IsFiniteSet({x}) /\ Cardinality({x}) = 1 /\ y \notin {x} /\ {x} \cup {y} = {x, y}
  BY FS_Singleton
<1> QED  BY <1>1, FS_AddElement

\* A subset of n + 1 elements has one, and n without it.
LEMMA OneLess ==
  ASSUME NEW S, IsFiniteSet(S), NEW T \in SUBSET S,
         NEW n \in Nat, Cardinality(T) = n + 1
  PROVE  /\ T # {}
         /\ \A x \in T : T \ {x} \in SUBSET S /\ Cardinality(T \ {x}) = n
BY Smaller

\* A family of subsets with the empty set, closed under adding an element, has
\* all of them.
LEMMA SubsetInduction ==
  ASSUME NEW S, IsFiniteSet(S), NEW PP \in SUBSET SUBSET S, {} \in PP,
         \A T \in PP : \A x \in S \ T : T \cup {x} \in PP
  PROVE  PP = SUBSET S
<1> DEFINE P == {n \in Nat : \A T \in SUBSET S : Cardinality(T) = n => T \in PP}
<1>1. 0 \in P
  BY Smaller
<1>2. ASSUME NEW n \in P PROVE n + 1 \in P
  <2> SUFFICES ASSUME NEW T \in SUBSET S, Cardinality(T) = n + 1 PROVE T \in PP
    OBVIOUS
  <2>1. PICK x \in T : TRUE
    BY Smaller
  <2>2. T \ {x} \in SUBSET S /\ Cardinality(T \ {x}) = n
    BY Smaller
  <2>3. T \ {x} \in PP
    BY <2>2
  <2>4. (T \ {x}) \cup {x} \in PP
    BY <2>3
  <2> QED  BY <2>4, Zenon
<1>3. P = Nat
  <2> HIDE DEF P
  <2>1. P \in SUBSET Nat
    BY DEF P
  <2> QED  BY <1>1, <1>2, <2>1, SetInduction
<1> QED  BY <1>3, Smaller

-----------------------------------------------------------------------------
(***************************************************************************)
(* Folds.                                                                  *)
(***************************************************************************)

\* g is what base becomes, for every subset of S, when one element after the
\* other is applied to it.
IsFold(g, S, V, base, pick, step) ==
  g \in [SUBSET S -> V] /\ g = [T \in SUBSET S |->
    IF T = {} THEN base ELSE step[pick[T]][g[T \ {pick[T]}]]]

\* Folding a finite set is well defined: there is a function on its subsets
\* that takes one element out at a time, as step says.
LEMMA FoldExists ==
  ASSUME NEW S, IsFiniteSet(S), NEW V, NEW base \in V,
         NEW pick, \A T \in SUBSET S : T # {} => pick[T] \in T,
         NEW step, \A x \in S, v \in V : step[x][v] \in V
  PROVE  \E g : IsFold(g, S, V, base, pick, step)
<1> DEFINE Upto(n) == {T \in SUBSET S : Cardinality(T) <= n}
           Value(g, T) == IF T = {} THEN base ELSE step[pick[T]][g[T \ {pick[T]}]]
           P == {n \in Nat : \E g \in [Upto(n) -> V] :
                               \A T \in Upto(n) : g[T] = Value(g, T)}
<1>1. 0 \in P
  <2> DEFINE g == [T \in Upto(0) |-> base]
  <2>1. \A T \in Upto(0) : T = {}
    BY Smaller
  <2>2. g \in [Upto(0) -> V] /\ \A T \in Upto(0) : g[T] = Value(g, T)
    BY <2>1
  <2> QED  BY <2>2
<1>2. ASSUME NEW n \in P PROVE n + 1 \in P
  <2>1. PICK g \in [Upto(n) -> V] : \A T \in Upto(n) : g[T] = Value(g, T)
    OBVIOUS
  <2> DEFINE h == [T \in Upto(n + 1) |-> Value(g, T)]
  <2>2. ASSUME NEW T \in Upto(n + 1), T # {}
        PROVE  pick[T] \in S /\ T \ {pick[T]} \in Upto(n)
    BY <2>2, Smaller
  <2>3. Upto(n) \subseteq Upto(n + 1)
    BY Smaller
  <2>4. \A T \in Upto(n) : h[T] = g[T]
    BY <2>1, <2>3, Zenon
  <2>5. \A T \in Upto(n + 1) : Value(g, T) = Value(h, T)
    <3> HIDE DEF h, Upto
    <3> QED  BY <2>2, <2>4
  <2>6. \A T \in Upto(n + 1) : Value(g, T) \in V
    <3> HIDE DEF Upto
    <3> QED  BY <2>2
  <2>7. h \in [Upto(n + 1) -> V]
    BY <2>6, Zenon
  <2>8. \A T \in Upto(n + 1) : h[T] = Value(h, T)
    <3>1. \A T \in Upto(n + 1) : h[T] = Value(g, T)
      BY Zenon
    <3> HIDE DEF h, Upto, Value
    <3> QED  BY <2>5, <3>1
  <2> HIDE DEF h, Upto, Value
  <2> QED  BY <2>7, <2>8
<1>3. P = Nat
  <2>1. P \in SUBSET Nat
    BY Zenon
  <2> HIDE DEF P
  <2> QED  BY <1>1, <1>2, <2>1, SetInduction
<1>4. Cardinality(S) \in Nat /\ Upto(Cardinality(S)) = SUBSET S
  BY Smaller, FS_CardinalityType
<1>5. PICK g \in [SUBSET S -> V] : \A T \in SUBSET S : g[T] = Value(g, T)
  <2> HIDE DEF Upto, Value
  <2> QED  BY <1>3, <1>4
<1>6. g = [T \in SUBSET S |-> Value(g, T)]
  <2> HIDE DEF Value
  <2> QED  BY <1>5
<1> QED  BY <1>6, Zenon DEF IsFold
-----------------------------------------------------------------------------
(***************************************************************************)
(* Sums of natural numbers.                                                *)
(***************************************************************************)

\* The function that SumFunctionOnSet defines by recursion.
Sums(f, S) ==
  CHOOSE g : g = [T \in SUBSET S |->
    IF T = {} THEN 0
    ELSE f[CHOOSE x \in T : TRUE] + g[T \ {CHOOSE x \in T : TRUE}]]

\* A sum is the last of the partial sums.
LEMMA SumIsLast == \A f, S : SumFunctionOnSet(f, S) = Sums(f, S)[S]
BY Zenon DEF SumFunctionOnSet, FoldFunctionOnSet, MapThenFoldSet, Sums

\* It satisfies its equation.
LEMMA SumsExist ==
  ASSUME NEW S, IsFiniteSet(S), NEW f, \A x \in S : f[x] \in Nat
  PROVE  /\ Sums(f, S) \in [SUBSET S -> Nat]
         /\ \A T \in SUBSET S :
              Sums(f, S)[T] =
                IF T = {} THEN 0
                ELSE f[CHOOSE x \in T : TRUE] + Sums(f, S)[T \ {CHOOSE x \in T : TRUE}]
<1> DEFINE pick == [T \in SUBSET S |-> CHOOSE x \in T : TRUE]
           step == [x \in S |-> [v \in Nat |-> f[x] + v]]
           Value(g, T) == IF T = {} THEN 0
                          ELSE f[CHOOSE x \in T : TRUE] + g[T \ {CHOOSE x \in T : TRUE}]
           Good(g) == g = [T \in SUBSET S |-> Value(g, T)]
<1>1. \A T \in SUBSET S : T # {} => pick[T] \in T
  BY Zenon
<1>2. \A x \in S, v \in Nat : step[x][v] = f[x] + v /\ step[x][v] \in Nat
  OBVIOUS
<1>3. PICK g : IsFold(g, S, Nat, 0, pick, step)
  <2>1. 0 \in Nat
    OBVIOUS
  <2>2. \A x \in S, v \in Nat : step[x][v] \in Nat
    BY <1>2, Zenon
  <2> HIDE DEF pick, step
  <2> QED  BY <1>1, <2>1, <2>2, FoldExists, Zenon
<1>4. Good(g)
  <2>1. ASSUME NEW T \in SUBSET S
        PROVE  (IF T = {} THEN 0 ELSE step[pick[T]][g[T \ {pick[T]}]]) = Value(g, T)
    <3>1. CASE T = {}
      BY <3>1
    <3>2. CASE T # {}
      <4>1. /\ pick[T] = CHOOSE x \in T : TRUE
            /\ pick[T] \in S /\ T \ {pick[T]} \in SUBSET S
        BY <1>1, <3>2
      <4>2. g[T \ {pick[T]}] \in Nat
        BY <1>3, <4>1 DEF IsFold
      <4> QED  BY <1>2, <3>2, <4>1, <4>2, Zenon
    <3> QED  BY <3>1, <3>2
  <2> HIDE DEF pick, step, Value
  <2> QED  BY <1>3, <2>1, Zenon DEF IsFold
<1>5. Sums(f, S) = CHOOSE h : Good(h)
  BY Zenon DEF Sums
<1>6. Good(Sums(f, S))
  <2> HIDE DEF Good
  <2> QED  BY <1>4, <1>5, Zenon
<1>7. \A T \in SUBSET S : Sums(f, S)[T] = Value(Sums(f, S), T)
  <2> HIDE DEF Value
  <2> QED  BY <1>6, Zenon
<1>8. Sums(f, S)[{}] = 0
  BY <1>7
<1>9. ASSUME NEW T \in SUBSET S, T # {}
      PROVE  \E y \in T : Sums(f, S)[T] = f[y] + Sums(f, S)[T \ {y}]
  <2>1. Sums(f, S)[T] = Value(Sums(f, S), T) /\ (CHOOSE x \in T : TRUE) \in T
    BY <1>7, <1>9, Zenon
  <2> QED  BY <1>9, <2>1, Zenon
<1> DEFINE P == {n \in Nat : \A T \in SUBSET S :
                              Cardinality(T) = n => Sums(f, S)[T] \in Nat}
<1>10. P = Nat
  <2> HIDE DEF pick, step, Value, Good
  <2>1. 0 \in P
    <3>1. ASSUME NEW T \in SUBSET S, Cardinality(T) = 0 PROVE Sums(f, S)[T] \in Nat
      <4>1. T = {}
        BY <3>1, Smaller
      <4> QED  BY <1>8, <4>1
    <3> QED  BY <3>1
  <2>2. ASSUME NEW n \in Nat, n \in P PROVE n + 1 \in P
    <3> SUFFICES ASSUME NEW T \in SUBSET S, Cardinality(T) = n + 1
                 PROVE  Sums(f, S)[T] \in Nat
      OBVIOUS
    <3>1. PICK y \in T : Sums(f, S)[T] = f[y] + Sums(f, S)[T \ {y}]
      BY <1>9, OneLess
    <3>2. T \ {y} \in SUBSET S /\ Cardinality(T \ {y}) = n
      BY OneLess
    <3>3. Sums(f, S)[T \ {y}] \in Nat /\ f[y] \in Nat
      BY <2>2, <3>2
    <3> QED  BY <3>1, <3>3
  <2>3. P \in SUBSET Nat
    BY Zenon
  <2> HIDE DEF P
  <2> QED  BY <2>1, <2>2, <2>3, SetInduction
<1>11. \A T \in SUBSET S : Sums(f, S)[T] \in Nat
  <2> HIDE DEF pick, step, Value, Good
  <2> QED  BY <1>10, Smaller
<1>12. Sums(f, S) \in [SUBSET S -> Nat]
  <2>1. Sums(f, S) = [T \in SUBSET S |-> Value(Sums(f, S), T)]
    <3> HIDE DEF Value
    <3> QED  BY <1>6, Zenon
  <2>2. Sums(f, S) = [T \in SUBSET S |-> Sums(f, S)[T]]
    <3> HIDE DEF Value
    <3> QED  BY <1>7, <2>1, Zenon
  <2> QED  BY <1>11, <2>2, Zenon
<1> QED  BY <1>7, <1>12

\* What is summed besides makes no difference.
LEMMA SumsAgree ==
  ASSUME NEW S, IsFiniteSet(S), NEW f, \A x \in S : f[x] \in Nat,
         NEW R \in SUBSET S
  PROVE  \A T \in SUBSET R : Sums(f, R)[T] = Sums(f, S)[T]
<1> DEFINE P == {n \in Nat : \A T \in SUBSET R :
                  Cardinality(T) = n => Sums(f, R)[T] = Sums(f, S)[T]}
<1>1. IsFiniteSet(R) /\ \A x \in R : f[x] \in Nat
  BY Smaller
<1>2. 0 \in P
  <2>1. Sums(f, R)[{}] = 0 /\ Sums(f, S)[{}] = 0
    BY <1>1, SumsExist
  <2> QED  BY <1>1, <2>1, Smaller
<1>3. ASSUME NEW n \in Nat, n \in P PROVE n + 1 \in P
  <2> SUFFICES ASSUME NEW T \in SUBSET R, Cardinality(T) = n + 1
               PROVE  Sums(f, R)[T] = Sums(f, S)[T]
    OBVIOUS
  <2> DEFINE y == CHOOSE x \in T : TRUE
  <2>1. T # {} /\ T \in SUBSET S
    BY <1>1, OneLess
  <2>2. y \in T
    BY <2>1, Zenon
  <2>3. Sums(f, R)[T] = f[y] + Sums(f, R)[T \ {y}]
    BY <1>1, <2>1, SumsExist
  <2>4. Sums(f, S)[T] = f[y] + Sums(f, S)[T \ {y}]
    BY <2>1, SumsExist
  <2> HIDE DEF y
  <2>5. T \ {y} \in SUBSET R /\ Cardinality(T \ {y}) = n
    BY <1>1, <2>2, OneLess
  <2>6. Sums(f, R)[T \ {y}] = Sums(f, S)[T \ {y}]
    BY <1>3, <2>5
  <2> QED  BY <2>3, <2>4, <2>6
<1>4. P = Nat
  <2>1. P \in SUBSET Nat
    BY Zenon
  <2> HIDE DEF P
  <2> QED  BY <1>2, <1>3, <2>1, SetInduction
<1> QED  BY <1>1, <1>4, Smaller

\* A sum of natural numbers is one, 0 for the empty set, and an element can be
\* taken out whichever it is.
LEMMA SumTakesOut ==
  ASSUME NEW S, IsFiniteSet(S), NEW f, \A x \in S : f[x] \in Nat
  PROVE  /\ SumFunctionOnSet(f, S) \in Nat
         /\ S = {} => SumFunctionOnSet(f, S) = 0
         /\ \A x \in S : SumFunctionOnSet(f, S) = f[x] + SumFunctionOnSet(f, S \ {x})
<1> DEFINE g == Sums(f, S)
           P == {n \in Nat : \A T \in SUBSET S :
                  Cardinality(T) = n => \A x \in T : g[T] = f[x] + g[T \ {x}]}
<1>1. \A T \in SUBSET S : SumFunctionOnSet(f, T) = g[T]
  BY SumsAgree, SumIsLast
<1>2. /\ g \in [SUBSET S -> Nat] /\ g[{}] = 0
      /\ \A T \in SUBSET S : T # {} =>
           g[T] = f[CHOOSE x \in T : TRUE] + g[T \ {CHOOSE x \in T : TRUE}]
  BY SumsExist
<1> HIDE DEF g
<1>3. 0 \in P
  BY Smaller
<1>4. ASSUME NEW n \in P PROVE n + 1 \in P
  <2> SUFFICES ASSUME NEW T \in SUBSET S, Cardinality(T) = n + 1, NEW x \in T
               PROVE  g[T] = f[x] + g[T \ {x}]
    OBVIOUS
  <2> DEFINE y == CHOOSE z \in T : TRUE
  <2>1. y \in T /\ g[T] = f[y] + g[T \ {y}]
    BY <1>2
  <2> HIDE DEF y
  <2>2. CASE x = y
    BY <2>1, <2>2
  <2>3. CASE x # y
    <3>1. /\ T \ {x} \in SUBSET S /\ T \ {y} \in SUBSET S
          /\ Cardinality(T \ {x}) = n /\ Cardinality(T \ {y}) = n
          /\ y \in T \ {x} /\ x \in T \ {y}
      BY <2>1, <2>3, Smaller
    <3>2. /\ g[T \ {x}] = f[y] + g[(T \ {x}) \ {y}]
          /\ g[T \ {y}] = f[x] + g[(T \ {y}) \ {x}]
      BY <3>1
    <3>3. (T \ {x}) \ {y} = (T \ {y}) \ {x} /\ (T \ {x}) \ {y} \in SUBSET S
      BY <3>1
    <3>4. f[x] \in Nat /\ f[y] \in Nat /\ g[(T \ {x}) \ {y}] \in Nat
      BY <1>2, <2>1, <3>3
    <3> DEFINE r == g[(T \ {x}) \ {y}]
    <3>5. /\ g[T \ {x}] = f[y] + r /\ g[T \ {y}] = f[x] + r /\ r \in Nat
      BY <3>2, <3>3, <3>4
    <3> HIDE DEF r
    <3> QED  BY <2>1, <3>4, <3>5
  <2> QED  BY <2>2, <2>3
<1>5. P = Nat
  <2>1. P \in SUBSET Nat
    BY Zenon
  <2> HIDE DEF P
  <2> QED  BY <1>3, <1>4, <2>1, SetInduction
<1>6. \A x \in S : g[S] = f[x] + g[S \ {x}]
  BY <1>5, Smaller, FS_CardinalityType
<1>7. \A x \in S : SumFunctionOnSet(f, S \ {x}) = g[S \ {x}]
  BY <1>1
<1>8. SumFunctionOnSet(f, S) = g[S] /\ g[S] \in Nat
  BY <1>1, <1>2
<1> QED  BY <1>2, <1>6, <1>7, <1>8
\* An element more adds its value.
LEMMA SumAdds ==
  ASSUME NEW S, IsFiniteSet(S), NEW x, x \notin S,
         NEW f, \A y \in S \cup {x} : f[y] \in Nat
  PROVE  SumFunctionOnSet(f, S \cup {x}) = SumFunctionOnSet(f, S) + f[x]
<1>1. IsFiniteSet(S \cup {x}) /\ (S \cup {x}) \ {x} = S
  BY FS_AddElement
<1>2. SumFunctionOnSet(f, S \cup {x}) = f[x] + SumFunctionOnSet(f, S)
  BY <1>1, SumTakesOut
<1>3. SumFunctionOnSet(f, S) \in Nat
  BY SumTakesOut
<1> QED  BY <1>2, <1>3

\* The sum over a part is no more than the sum.
LEMMA SumOfPart ==
  ASSUME NEW S, IsFiniteSet(S), NEW f, \A x \in S : f[x] \in Nat, NEW R \in SUBSET S
  PROVE  SumFunctionOnSet(f, R) <= SumFunctionOnSet(f, S)
<1> DEFINE PP == {T \in SUBSET (S \ R) :
                    SumFunctionOnSet(f, R) <= SumFunctionOnSet(f, R \cup T)}
<1>0. IsFiniteSet(S \ R) /\ IsFiniteSet(R)
  BY FS_Subset
<1>1. {} \in PP
  <2>1. R \cup {} = R /\ SumFunctionOnSet(f, R) \in Nat
    BY <1>0, SumTakesOut
  <2> QED  BY <2>1
<1>2. ASSUME NEW T \in PP, NEW x \in (S \ R) \ T PROVE T \cup {x} \in PP
  <2> DEFINE U == R \cup T
  <2>1. U \in SUBSET S /\ IsFiniteSet(U) /\ x \notin U /\ x \in S
    BY FS_Subset
  <2>2. /\ SumFunctionOnSet(f, U \cup {x}) = SumFunctionOnSet(f, U) + f[x]
        /\ SumFunctionOnSet(f, U) \in Nat /\ SumFunctionOnSet(f, R) \in Nat
    <3> HIDE DEF U
    <3>1. \A y \in U \cup {x} : f[y] \in Nat
      BY <2>1
    <3> QED  BY <1>0, <2>1, <3>1, SumAdds, SumTakesOut
  <2>3. U \cup {x} = R \cup (T \cup {x})
    OBVIOUS
  <2>4. f[x] \in Nat /\ SumFunctionOnSet(f, R) <= SumFunctionOnSet(f, U)
    BY <2>1
  <2>5. SumFunctionOnSet(f, R) <= SumFunctionOnSet(f, U \cup {x})
    BY <2>2, <2>4
  <2> QED  BY <2>3, <2>5
<1>3. PP = SUBSET (S \ R)
  <2>1. PP \in SUBSET SUBSET (S \ R)
    BY Zenon
  <2> HIDE DEF PP
  <2> QED  BY <1>0, <1>1, <1>2, <2>1, SubsetInduction
<1>4. R \cup (S \ R) = S
  OBVIOUS
<1> QED  BY <1>3, <1>4

\* Values in a proportion have sums in that proportion.
LEMMA SumInProportion ==
  ASSUME NEW S, IsFiniteSet(S), NEW f, NEW g, NEW a \in Nat, NEW b \in Nat,
         \A x \in S : f[x] \in Nat /\ g[x] \in Nat /\ a * f[x] <= b * g[x]
  PROVE  a * SumFunctionOnSet(f, S) <= b * SumFunctionOnSet(g, S)
<1> DEFINE PP == {T \in SUBSET S :
                    a * SumFunctionOnSet(f, T) <= b * SumFunctionOnSet(g, T)}
<1>1. {} \in PP
  <2>1. SumFunctionOnSet(f, {}) = 0 /\ SumFunctionOnSet(g, {}) = 0
    BY FS_EmptySet, SumTakesOut
  <2> QED  BY <2>1
<1>2. ASSUME NEW T \in PP, NEW x \in S \ T PROVE T \cup {x} \in PP
  <2>1. IsFiniteSet(T)
    BY FS_Subset
  <2>2. PICK u \in Nat, v \in Nat : u = SumFunctionOnSet(f, T) /\ v = SumFunctionOnSet(g, T)
    BY <2>1, SumTakesOut
  <2>3. /\ SumFunctionOnSet(f, T \cup {x}) = u + f[x]
        /\ SumFunctionOnSet(g, T \cup {x}) = v + g[x]
    BY <2>1, <2>2, SumAdds
  <2>4. a * u <= b * v /\ a * f[x] <= b * g[x]
    BY <2>2
  <2>5. ASSUME NEW k \in Nat, NEW l \in Nat, a * k <= b * l
        PROVE  a * (u + k) <= b * (v + l)
    BY <2>4, <2>5
  <2> QED  BY <2>3, <2>4, <2>5
<1>3. PP = SUBSET S
  <2>1. PP \in SUBSET SUBSET S
    BY Zenon
  <2> HIDE DEF PP
  <2> QED  BY <1>1, <1>2, <2>1, SubsetInduction
<1> QED  BY <1>3

Together(h, S) == UNION {h[x] : x \in S}

\* The sizes of sets that have nothing in common add up to that of their union.
LEMMA SizesAddUp ==
  ASSUME NEW S, IsFiniteSet(S), NEW h, \A x \in S : IsFiniteSet(h[x]),
         \A x, y \in S : x # y => h[x] \cap h[y] = {},
         NEW size, \A x \in S : size[x] = Cardinality(h[x])
  PROVE  /\ IsFiniteSet(Together(h, S))
         /\ SumFunctionOnSet(size, S) = Cardinality(Together(h, S))
<1> DEFINE PP == {T \in SUBSET S : /\ IsFiniteSet(Together(h, T))
                                   /\ SumFunctionOnSet(size, T) = Cardinality(Together(h, T))}
<1>0. \A x \in S : size[x] \in Nat
  BY FS_CardinalityType
<1>1. {} \in PP
  <2>1. SumFunctionOnSet(size, {}) = 0 /\ Together(h, {}) = {}
    BY FS_EmptySet, SumTakesOut DEF Together
  <2> QED  BY <2>1, FS_EmptySet
<1>2. ASSUME NEW T \in PP, NEW x \in S \ T PROVE T \cup {x} \in PP
  <2>1. IsFiniteSet(T)
    BY FS_Subset
  <2>2. SumFunctionOnSet(size, T \cup {x}) = SumFunctionOnSet(size, T) + size[x]
    BY <1>0, <2>1, SumAdds
  <2>3. Together(h, T \cup {x}) = Together(h, T) \cup h[x] /\ Together(h, T) \cap h[x] = {}
    BY DEF Together
  <2>4. IsFiniteSet(Together(h, T)) /\ SumFunctionOnSet(size, T) = Cardinality(Together(h, T))
    OBVIOUS
  <2>5. /\ IsFiniteSet(Together(h, T) \cup h[x])
        /\ Cardinality(Together(h, T) \cup h[x]) = Cardinality(Together(h, T)) + Cardinality(h[x])
    <3>1. IsFiniteSet(h[x])
      OBVIOUS
    <3>2. /\ IsFiniteSet(Together(h, T) \cup h[x])
          /\ Cardinality(Together(h, T) \cup h[x]) =
               Cardinality(Together(h, T)) + Cardinality(h[x]) - Cardinality(Together(h, T) \cap h[x])
      BY <2>4, <3>1, FS_Union
    <3>3. Cardinality(Together(h, T) \cap h[x]) = 0
      BY <2>3, FS_EmptySet
    <3>4. Cardinality(Together(h, T)) \in Nat /\ Cardinality(h[x]) \in Nat
      BY <2>4, <3>1, FS_CardinalityType
    <3> QED  BY <3>2, <3>3, <3>4
  <2> QED  BY <2>2, <2>3, <2>4, <2>5
<1>3. PP = SUBSET S
  <2>1. PP \in SUBSET SUBSET S
    BY Zenon
  <2> HIDE DEF PP
  <2> QED  BY <1>1, <1>2, <2>1, SubsetInduction
<1> QED  BY <1>3
=============================================================================
