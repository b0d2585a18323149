----------------------------- MODULE DataLemmas -----------------------------
(***************************************************************************)
(* Facts about data that the proofs need: induction, least and greatest    *)
(* elements, sums, and queues kept as sequences.                           *)
(***************************************************************************)
EXTENDS Integers, Sequences, FiniteSets, FiniteSetsExt, Functions, FiniteSetTheorems,
        WellFoundedInduction, TLAPS

-----------------------------------------------------------------------------
(* Induction, with the hypothesis as a set.                                 *)

(* Induction over a finite set: a family of its subsets that has the empty  *)
(* set, and with a set also that with one more element, has the whole set.  *)
LEMMA FiniteSetInduction ==
  ASSUME NEW S, IsFiniteSet(S), NEW P,
         {} \in P, \A T \in SUBSET S : \A x \in S \ T : T \in P => T \cup {x} \in P
  PROVE  S \in P
<1>. DEFINE Bad == {T \in SUBSET S : T \notin P}
<1>1. SUFFICES ASSUME Bad # {} PROVE FALSE
  OBVIOUS
<1>2. Bad \subseteq FiniteSubsetsOf(S)
  BY FS_Subset DEF FiniteSubsetsOf
<1>3. PICK T \in Bad : \A U \in Bad : ~(<<U, T>> \in StrictSubsetOrdering(S))
  <2>1. IsWellFoundedOn(StrictSubsetOrdering(S), FiniteSubsetsOf(S))
    BY FS_StrictSubsetOrderingWellFounded
  <2>. HIDE DEF Bad
  <2>. QED BY <1>1, <1>2, <2>1, WFMin
<1>4. PICK x \in T : TRUE
  OBVIOUS
<1>5. T \ {x} \in P
  <2>1. SUFFICES ASSUME T \ {x} \in Bad PROVE FALSE
    BY DEF Bad
  <2>2. <<T \ {x}, T>> \in (SUBSET S) \X (SUBSET S)
    BY <2>1
  <2>3. T \ {x} \subseteq T /\ T \ {x} # T
    OBVIOUS
  <2>4. <<T \ {x}, T>> \in StrictSubsetOrdering(S)
    BY <2>2, <2>3 DEF StrictSubsetOrdering
  <2>. QED BY <1>3, <2>1, <2>4
<1>6. (T \ {x}) \cup {x} \in P
  BY <1>5
<1>7. (T \ {x}) \cup {x} = T
  OBVIOUS
<1>. QED BY <1>6, <1>7

-----------------------------------------------------------------------------
(* Least and greatest elements.                                             *)

(* A nonempty set of natural numbers has a least element, and Min is it.    *)
LEMMA MinFacts ==
  ASSUME NEW S \in SUBSET Nat, S # {}
  PROVE  Min(S) \in S /\ \A y \in S : Min(S) <= y
<1>1. PICK x \in S : \A y \in S : ~(<<y, x>> \in OpToRel(<, Nat))
  BY NatLessThanWellFounded, WFMin
<1>2. ASSUME NEW y \in S PROVE x =< y
  <2>1. CASE y < x
    <3>1. <<y, x>> \in Nat \X Nat
      OBVIOUS
    <3>2. <<y, x>> \in OpToRel(<, Nat)
      BY <2>1, <3>1 DEF OpToRel
    <3>. QED BY <1>1, <3>2
  <2>. QED BY <2>1
<1>. QED BY <1>2 DEF Min

(* A nonempty finite set of integers has a greatest element, and Max is it. *)
LEMMA MaxFacts ==
  ASSUME NEW S \in SUBSET Int, S # {}, IsFiniteSet(S)
  PROVE  Max(S) \in S /\ \A y \in S : y <= Max(S)
<1>. DEFINE P == {T \in SUBSET S : T # {} => \E x \in T : \A y \in T : x >= y}
<1>1. {} \in P
  OBVIOUS
<1>2. ASSUME NEW T \in SUBSET S, NEW x \in S \ T, T \in P PROVE T \cup {x} \in P
  <2>1. CASE T = {}
    BY <2>1
  <2>2. CASE T # {}
    <3>1. PICK m \in T : \A y \in T : m >= y
      BY <1>2, <2>2
    <3>2. \A y \in T \cup {x} : IF x >= m THEN x >= y ELSE m >= y
      BY <3>1
    <3>. QED BY <3>2
  <2>. QED BY <2>1, <2>2
<1>3. S \in P
  <2>. HIDE DEF P
  <2>. QED BY <1>1, <1>2, FiniteSetInduction
<1>4. \E x \in S : \A y \in S : x >= y
  BY <1>3
<1>. QED BY <1>4 DEF Max

(* Induction over the natural numbers.                                      *)
LEMMA NumberInduction ==
  ASSUME NEW P, 0 \in P, \A n \in Nat : n \in P => n + 1 \in P
  PROVE  Nat \subseteq P
<1>. DEFINE Bad == Nat \ P
<1>1. SUFFICES ASSUME Bad # {} PROVE FALSE
  OBVIOUS
<1>2. Min(Bad) \in Bad /\ \A y \in Bad : Min(Bad) <= y
  BY <1>1, MinFacts
<1>3. Min(Bad) - 1 \in Nat /\ Min(Bad) - 1 \notin Bad
  BY <1>2
<1>. QED BY <1>2, <1>3

(* The values of a function on a finite set are finitely many.              *)
LEMMA FiniteImage ==
  ASSUME NEW S, IsFiniteSet(S), NEW f
  PROVE  IsFiniteSet({f[x] : x \in S})
<1>. DEFINE Image(T) == {f[x] : x \in T}
            P == {T \in SUBSET S : IsFiniteSet(Image(T))}
<1>1. {} \in P
  BY FS_EmptySet
<1>2. ASSUME NEW T \in SUBSET S, NEW x \in S \ T, T \in P PROVE T \cup {x} \in P
  <2>1. IsFiniteSet(Image(T) \cup {f[x]})
    BY <1>2, FS_AddElement
  <2>2. Image(T \cup {x}) = Image(T) \cup {f[x]}
    OBVIOUS
  <2>. HIDE DEF Image
  <2>. QED BY <2>1, <2>2
<1>3. S \in P
  <2>. HIDE DEF P
  <2>. QED BY <1>1, <1>2, FiniteSetInduction
<1>. QED BY <1>3

-----------------------------------------------------------------------------
(* Sums.                                                                    *)

(* The sum over a set is taken along one order of its elements.             *)
Chosen(T) == CHOOSE x \in T : TRUE

AddsUp(f, g, T) == IF T = {} THEN 0 ELSE f[Chosen(T)] + g[T \ {Chosen(T)}]

(* There is a function that adds up f over every subset of a finite set.    *)
LEMMA SumExists ==
  ASSUME NEW S, IsFiniteSet(S), NEW f \in [S -> Nat]
  PROVE  \E g \in [SUBSET S -> Nat] : \A T \in SUBSET S : g[T] = AddsUp(f, g, T)
<1>. DEFINE Small(n) == {T \in SUBSET S : Cardinality(T) <= n}
            Good(n) == \E g \in [Small(n) -> Nat] :
                         \A T \in Small(n) : g[T] = AddsUp(f, g, T)
            P == {n \in Nat : Good(n)}
<1>1. \A T \in SUBSET S :
        /\ IsFiniteSet(T) /\ Cardinality(T) \in Nat
        /\ Cardinality(T) <= Cardinality(S)
        /\ Cardinality(T) = 0 <=> T = {}
        /\ T # {} => /\ Chosen(T) \in T
                     /\ Cardinality(T \ {Chosen(T)}) = Cardinality(T) - 1
  <2>. TAKE T \in SUBSET S
  <2>1. IsFiniteSet(T) /\ Cardinality(T) <= Cardinality(S) /\ Cardinality(T) \in Nat
    BY FS_Subset, FS_CardinalityType
  <2>2. Cardinality(T) = 0 <=> T = {}
    BY <2>1, FS_EmptySet
  <2>3. ASSUME T # {} PROVE Chosen(T) \in T
    BY <2>3 DEF Chosen
  <2>4. ASSUME T # {} PROVE Cardinality(T \ {Chosen(T)}) = Cardinality(T) - 1
    BY <2>1, <2>3, <2>4, FS_RemoveElement
  <2>. QED BY <2>1, <2>2, <2>3, <2>4
<1>2. 0 \in P
  <2>. DEFINE g == [T \in Small(0) |-> 0]
  <2>1. g \in [Small(0) -> Nat]
    OBVIOUS
  <2>2. ASSUME NEW T \in Small(0) PROVE g[T] = AddsUp(f, g, T)
    BY <1>1, <2>2 DEF AddsUp
  <2>. QED BY <2>1, <2>2
<1>3. ASSUME NEW n \in Nat, n \in P PROVE n + 1 \in P
  <2>1. PICK g \in [Small(n) -> Nat] : \A T \in Small(n) : g[T] = AddsUp(f, g, T)
    BY <1>3
  <2>. DEFINE h == [T \in Small(n + 1) |-> AddsUp(f, g, T)]
  <2>2. ASSUME NEW T \in Small(n + 1), T # {}
        PROVE  Chosen(T) \in S /\ T \ {Chosen(T)} \in Small(n)
    BY <1>1, <2>2
  <2>3. ASSUME NEW T \in Small(n) PROVE T \in Small(n + 1) /\ h[T] = g[T]
    <3>1. T \in Small(n + 1)
      <4>1. T \in SUBSET S /\ Cardinality(T) <= n
        OBVIOUS
      <4>2. Cardinality(T) \in Nat
        BY <1>1, <4>1
      <4>. QED BY <4>1, <4>2
    <3>. QED BY <2>1, <3>1
  <2>4. ASSUME NEW T \in Small(n + 1) PROVE h[T] \in Nat
    BY <2>1, <2>2, <2>4 DEF AddsUp
  <2>5. ASSUME NEW T \in Small(n + 1) PROVE h[T] = AddsUp(f, h, T)
    <3>1. h[T] = AddsUp(f, g, T)
      OBVIOUS
    <3>2. CASE T = {}
      BY <3>1, <3>2 DEF AddsUp
    <3>3. CASE T # {}
      <4>1. h[T \ {Chosen(T)}] = g[T \ {Chosen(T)}]
        BY <2>2, <2>3, <3>3
      <4>. HIDE DEF h, Small
      <4>. QED BY <3>1, <3>3, <4>1 DEF AddsUp
    <3>. QED BY <3>2, <3>3
  <2>6. h \in [Small(n + 1) -> Nat]
    BY <2>4
  <2>7. n + 1 \in Nat
    OBVIOUS
  <2>8. Good(n + 1)
    <3>. HIDE DEF h, Small
    <3>. QED BY <2>5, <2>6
  <2>. HIDE DEF Good
  <2>. QED BY <2>7, <2>8
<1>4. Cardinality(S) \in P
  <2>. HIDE DEF P
  <2>1. Nat \subseteq P
    BY <1>2, <1>3, NumberInduction
  <2>. QED BY <2>1, FS_CardinalityType
<1>5. Small(Cardinality(S)) = SUBSET S
  BY <1>1
<1>. QED BY <1>4, <1>5

(* There is only one.                                                       *)
LEMMA SumUnique ==
  ASSUME NEW S, IsFiniteSet(S), NEW f \in [S -> Nat], NEW g, NEW h,
         \A T \in SUBSET S : g[T] = AddsUp(f, g, T),
         \A T \in SUBSET S : h[T] = AddsUp(f, h, T)
  PROVE  \A T \in SUBSET S : g[T] = h[T]
<1>. DEFINE Bad == {T \in SUBSET S : g[T] # h[T]}
<1>1. SUFFICES ASSUME Bad # {} PROVE FALSE
  OBVIOUS
<1>2. PICK T \in Bad : \A x \in T : T \ {x} \notin Bad
  <2>1. \A T \in Bad : IsFiniteSet(T) /\ Cardinality(T) \in Nat
    BY FS_Subset, FS_CardinalityType
  <2>2. PICK n \in {Cardinality(T) : T \in Bad} : \A m \in {Cardinality(T) : T \in Bad} : n <= m
    <3>1. {Cardinality(T) : T \in Bad} \in SUBSET Nat /\ {Cardinality(T) : T \in Bad} # {}
      BY <1>1, <2>1
    <3>. HIDE DEF Bad
    <3>. QED BY <3>1, MinFacts
  <2>3. PICK T \in Bad : Cardinality(T) = n
    BY <2>2
  <2>4. ASSUME NEW x \in T PROVE T \ {x} \notin Bad
    <3>1. Cardinality(T \ {x}) = n - 1 /\ n \in Nat
      BY <2>1, <2>3, FS_RemoveElement
    <3>. HIDE DEF Bad
    <3>. QED BY <2>2, <3>1
  <2>. QED BY <2>4
<1>3. CASE T = {}
  BY <1>2, <1>3 DEF AddsUp
<1>4. CASE T # {}
  <2>1. Chosen(T) \in T
    BY <1>4 DEF Chosen
  <2>2. g[T \ {Chosen(T)}] = h[T \ {Chosen(T)}]
    BY <1>2, <2>1
  <2>. QED BY <1>2, <1>4, <2>2 DEF AddsUp
<1>. QED BY <1>3, <1>4

(* SumFunction is what this function says of the whole domain.              *)
LEMMA SumIsTotal ==
  ASSUME NEW S, IsFiniteSet(S), NEW f \in [S -> Nat]
  PROVE  \E g \in [SUBSET S -> Nat] : /\ \A T \in SUBSET S : g[T] = AddsUp(f, g, T)
                                      /\ SumFunction(f) = g[S]
<1>1. PICK g \in [SUBSET S -> Nat] : \A T \in SUBSET S : g[T] = AddsUp(f, g, T)
  BY SumExists
<1>0. ASSUME NEW h, \A T \in SUBSET S : h[T] = AddsUp(f, h, T)
      PROVE  \A T \in SUBSET S : g[T] = h[T]
  BY <1>0, <1>1, SumUnique
<1>. DEFINE Eqn(i) == i = [T \in SUBSET S |->
                IF T = {} THEN 0
                ELSE f[CHOOSE x \in T : TRUE] + i[T \ {CHOOSE x \in T : TRUE}]]
            iter == CHOOSE i : Eqn(i)
<1>2. SumFunction(f) = iter[S]
  BY DEF SumFunction, SumFunctionOnSet, FoldFunctionOnSet, MapThenFoldSet
<1>3. Eqn(iter)
  <2>1. Eqn(g)
    BY <1>1 DEF AddsUp, Chosen
  <2>. HIDE DEF Eqn
  <2>. QED BY <2>1
<1>4. \A T \in SUBSET S : iter[T] = AddsUp(f, iter, T)
  <2>. HIDE DEF iter
  <2>. QED BY <1>3 DEF AddsUp, Chosen
<1>5. iter[S] = g[S]
  <2>. HIDE DEF iter, Eqn
  <2>. QED BY <1>0, <1>4
<1>. QED BY <1>1, <1>2, <1>5

(* What g says of a set is the sum of f over it, whatever is added last.    *)
Totals(f, S, g) ==
  /\ g[{}] = 0 /\ SumFunction(f) = g[S]
  /\ \A T \in SUBSET S : \A x \in T : g[T] = f[x] + g[T \ {x}]

(* There is such a function: the order does not matter.                     *)
LEMMA SumSteps ==
  ASSUME NEW S, IsFiniteSet(S), NEW f \in [S -> Nat]
  PROVE  \E g \in [SUBSET S -> Nat] : Totals(f, S, g)
<1>0. PICK g \in [SUBSET S -> Nat] : /\ \A T \in SUBSET S : g[T] = AddsUp(f, g, T)
                                     /\ SumFunction(f) = g[S]
  BY SumIsTotal
<1>. DEFINE Any(T) == \A x \in T : g[T] = f[x] + g[T \ {x}]
            P == {n \in Nat : \A T \in SUBSET S : Cardinality(T) = n => Any(T)}
<1>1. 0 \in P
  <2>1. ASSUME NEW T \in SUBSET S, Cardinality(T) = 0 PROVE Any(T)
    <3>1. T = {}
      BY <2>1, FS_Subset, FS_EmptySet
    <3>. QED BY <3>1
  <2>. HIDE DEF Any
  <2>. QED BY <2>1
<1>2. ASSUME NEW n \in Nat, n \in P PROVE n + 1 \in P
  <2>1. ASSUME NEW T \in SUBSET S, Cardinality(T) = n + 1, NEW x \in T
        PROVE  g[T] = f[x] + g[T \ {x}]
    <3>. DEFINE c == Chosen(T)
    <3>1. c \in T /\ g[T] = f[c] + g[T \ {c}]
      BY <1>0 DEF Chosen, AddsUp
    <3>2. CASE x = c
      BY <3>1, <3>2
    <3>3. CASE x # c
      <4>1. ASSUME NEW y \in T PROVE Cardinality(T \ {y}) = n
        <5>1. Cardinality(T \ {y}) = Cardinality(T) - 1
          BY FS_Subset, FS_RemoveElement
        <5>. QED BY <2>1, <5>1
      <4>2. Any(T \ {c}) /\ Any(T \ {x})
        <5>. HIDE DEF Any, c
        <5>. QED BY <1>2, <3>1, <4>1
      <4>3. /\ g[T \ {c}] = f[x] + g[(T \ {c}) \ {x}]
            /\ g[T \ {x}] = f[c] + g[(T \ {x}) \ {c}]
        <5>. HIDE DEF c
        <5>. QED BY <3>1, <3>3, <4>2
      <4>4. g[(T \ {c}) \ {x}] = g[(T \ {x}) \ {c}]
        <5>1. (T \ {c}) \ {x} = (T \ {x}) \ {c}
          OBVIOUS
        <5>. QED BY <5>1
      <4>5. /\ f[x] \in Nat /\ f[c] \in Nat
            /\ g[(T \ {c}) \ {x}] \in Nat
        BY <3>1
      <4>. HIDE DEF c
      <4>. QED BY <3>1, <4>3, <4>4, <4>5
    <3>. QED BY <3>2, <3>3
  <2>2. ASSUME NEW T \in SUBSET S, Cardinality(T) = n + 1 PROVE Any(T)
    BY <2>1, <2>2
  <2>3. n + 1 \in Nat
    OBVIOUS
  <2>. HIDE DEF Any
  <2>. QED BY <2>2, <2>3
<1>3. ASSUME NEW T \in SUBSET S PROVE Any(T)
  <2>. HIDE DEF P
  <2>1. Nat \subseteq P
    BY <1>1, <1>2, NumberInduction
  <2>2. Cardinality(T) \in P
    BY <2>1, FS_Subset, FS_CardinalityType
  <2>. USE DEF P
  <2>. HIDE DEF Any
  <2>. QED BY <2>2
<1>4. g[{}] = 0
  BY <1>0 DEF AddsUp
<1>5. Totals(f, S, g)
  BY <1>0, <1>3, <1>4 DEF Totals
<1>. QED BY <1>5

(* A sum of natural numbers is one, and neither greater terms nor more of   *)
(* them make it smaller.                                                    *)
LEMMA SumFacts ==
  ASSUME NEW S, IsFiniteSet(S), NEW R \in SUBSET S,
         NEW f \in [R -> Nat], NEW h \in [S -> Nat], \A x \in R : f[x] <= h[x]
  PROVE  /\ SumFunction(f) \in Nat /\ SumFunction(h) \in Nat
         /\ SumFunction(f) <= SumFunction(h)
<1>1. IsFiniteSet(R)
  BY FS_Subset
<1>2. PICK i \in [SUBSET R -> Nat] : Totals(f, R, i)
  BY <1>1, SumSteps
<1>3. PICK j \in [SUBSET S -> Nat] : Totals(h, S, j)
  BY SumSteps
<1>4. /\ i[{}] = 0 /\ SumFunction(f) = i[R]
      /\ \A T \in SUBSET R : \A x \in T : i[T] = f[x] + i[T \ {x}]
  BY <1>2 DEF Totals
<1>5. /\ j[{}] = 0 /\ SumFunction(h) = j[S]
      /\ \A T \in SUBSET S : \A x \in T : j[T] = h[x] + j[T \ {x}]
  BY <1>3 DEF Totals
<1>. DEFINE P == {T \in SUBSET S : i[T \cap R] <= j[T]}
<1>6. {} \in P
  <2>1. {} \cap R = {}
    OBVIOUS
  <2>. QED BY <1>4, <1>5, <2>1
<1>7. ASSUME NEW T \in SUBSET S, NEW x \in S \ T, T \in P PROVE T \cup {x} \in P
  <2>1. /\ i[T \cap R] \in Nat /\ j[T] \in Nat /\ h[x] \in Nat
        /\ i[T \cap R] <= j[T]
    BY <1>7
  <2>2. j[T \cup {x}] = h[x] + j[T]
    <3>1. (T \cup {x}) \ {x} = T
      OBVIOUS
    <3>2. j[T \cup {x}] = h[x] + j[(T \cup {x}) \ {x}]
      BY <1>5
    <3>. QED BY <3>1, <3>2
  <2>3. CASE x \in R
    <3>1. ((T \cup {x}) \cap R) \ {x} = T \cap R
      OBVIOUS
    <3>2. i[(T \cup {x}) \cap R] = f[x] + i[((T \cup {x}) \cap R) \ {x}]
      BY <1>4, <2>3
    <3>3. f[x] \in Nat /\ f[x] <= h[x]
      BY <2>3
    <3>4. i[((T \cup {x}) \cap R) \ {x}] = i[T \cap R]
      BY <3>1
    <3>5. i[(T \cup {x}) \cap R] <= j[T \cup {x}]
      <4>. HIDE DEF P
      <4>. QED BY <2>1, <2>2, <3>2, <3>3, <3>4
    <3>. QED BY <3>5
  <2>4. CASE x \notin R
    <3>1. (T \cup {x}) \cap R = T \cap R
      BY <2>4
    <3>2. i[(T \cup {x}) \cap R] = i[T \cap R]
      BY <3>1
    <3>3. i[(T \cup {x}) \cap R] <= j[T \cup {x}]
      <4>. HIDE DEF P
      <4>. QED BY <2>1, <2>2, <3>2
    <3>. QED BY <3>3
  <2>. QED BY <2>3, <2>4
<1>8. S \in P
  <2>. HIDE DEF P
  <2>. QED BY <1>6, <1>7, FiniteSetInduction
<1>9. S \cap R = R
  OBVIOUS
<1>10. i[R] \in Nat /\ j[S] \in Nat
  OBVIOUS
<1>. QED BY <1>4, <1>5, <1>8, <1>9, <1>10

-----------------------------------------------------------------------------
(* Positions.                                                               *)

(* In a finite set of numbers there is one for every position.              *)
LEMMA RankExists ==
  ASSUME NEW S \in SUBSET Nat, IsFiniteSet(S), NEW k \in 1 .. Cardinality(S)
  PROVE  \E d \in S : Cardinality({e \in S : e < d}) = k - 1
<1>. DEFINE Below(d) == {e \in S : e < d}
            Has(n) == n < Cardinality(S) => \E d \in S : Cardinality(Below(d)) = n
            P == {n \in Nat : Has(n)}
<1>0. Cardinality(S) \in Nat
  BY FS_CardinalityType
<1>1. 0 \in P
  <2>1. ASSUME 0 < Cardinality(S) PROVE \E d \in S : Cardinality(Below(d)) = 0
    <3>1. S # {}
      BY <2>1, FS_EmptySet
    <3>2. Min(S) \in S /\ \A y \in S : Min(S) <= y
      BY <3>1, MinFacts
    <3>3. Below(Min(S)) = {}
      <4>1. ASSUME NEW e \in S PROVE ~(e < Min(S))
        <5>1. Min(S) \in Nat /\ e \in Nat /\ Min(S) <= e
          BY <3>2
        <5>. QED BY <5>1
      <4>. QED BY <4>1
    <3>. QED BY <3>2, <3>3, FS_EmptySet
  <2>. QED BY <2>1
<1>2. ASSUME NEW n \in Nat, n \in P PROVE n + 1 \in P
  <2>1. ASSUME n + 1 < Cardinality(S)
        PROVE  \E d \in S : Cardinality(Below(d)) = n + 1
    <3>1. n < Cardinality(S)
      BY <1>0, <2>1
    <3>2. PICK d \in S : Cardinality(Below(d)) = n
      BY <1>2, <3>1
    <3>3. IsFiniteSet(Below(d)) /\ d \notin Below(d)
      BY FS_Subset
    <3>4. Cardinality(Below(d) \cup {d}) = n + 1
      <4>. HIDE DEF Below
      <4>. QED BY <3>2, <3>3, FS_AddElement
    <3>5. S \ (Below(d) \cup {d}) # {}
      <4>1. SUFFICES ASSUME S \ (Below(d) \cup {d}) = {} PROVE FALSE
        OBVIOUS
      <4>2. S = Below(d) \cup {d}
        BY <4>1
      <4>. HIDE DEF Below
      <4>. QED BY <2>1, <3>4, <4>2
    <3>6. PICK m \in S \ (Below(d) \cup {d}) : \A y \in S \ (Below(d) \cup {d}) : m <= y
      <4>1. S \ (Below(d) \cup {d}) \in SUBSET Nat
        OBVIOUS
      <4>. HIDE DEF Below
      <4>. QED BY <3>5, <4>1, MinFacts
    <3>7. Below(m) = Below(d) \cup {d}
      <4>1. m \in Nat /\ d \in Nat /\ m > d
        BY <3>6
      <4>2. ASSUME NEW e \in S PROVE e < m <=> e \in Below(d) \cup {d}
        BY <3>6, <4>1
      <4>. QED BY <4>2
    <3>. HIDE DEF Below
    <3>. QED BY <3>4, <3>6, <3>7
  <2>. QED BY <2>1
<1>3. k - 1 \in P
  <2>1. Nat \subseteq P
    <3>. HIDE DEF P
    <3>. QED BY <1>1, <1>2, NumberInduction
  <2>2. k - 1 \in Nat
    OBVIOUS
  <2>. HIDE DEF P
  <2>. QED BY <2>1, <2>2
<1>4. k - 1 < Cardinality(S)
  BY <1>0
<1>. QED BY <1>3, <1>4

-----------------------------------------------------------------------------
(* Queues: the lock-free queues and the Go channels of the models.  What    *)
(* enqueuing and dequeuing do to the set of elements and to the absence of  *)
(* repetitions.                                                             *)

(* Append adds one element, and keeps a queue free of repetitions.          *)
LEMMA AppendFacts ==
  ASSUME NEW S, NEW q \in Seq(S), NEW e \in S
  PROVE  /\ Append(q, e) \in Seq(S)
         /\ Range(Append(q, e)) = Range(q) \cup {e}
         /\ IsInjective(q) /\ e \notin Range(q) => IsInjective(Append(q, e))
<1>1. /\ Append(q, e) \in Seq(S)
      /\ Len(Append(q, e)) = Len(q) + 1
      /\ \A i \in 1 .. Len(q) : Append(q, e)[i] = q[i]
      /\ Append(q, e)[Len(q) + 1] = e
      /\ DOMAIN q = 1 .. Len(q)
      /\ DOMAIN Append(q, e) = 1 .. Len(q) + 1
      /\ Len(q) \in Nat
  OBVIOUS
<1>2. Range(Append(q, e)) = Range(q) \cup {e}
  <2>1. ASSUME NEW x \in Range(Append(q, e)) PROVE x \in Range(q) \cup {e}
    BY <1>1 DEF Range
  <2>2. ASSUME NEW x \in Range(q) PROVE x \in Range(Append(q, e))
    BY <1>1 DEF Range
  <2>3. e \in Range(Append(q, e))
    BY <1>1 DEF Range
  <2>. QED BY <2>1, <2>2, <2>3
<1>3. ASSUME IsInjective(q), e \notin Range(q)
      PROVE  IsInjective(Append(q, e))
  BY <1>1, <1>3 DEF IsInjective, Range
<1>. QED BY <1>1, <1>2, <1>3

(* Dequeuing removes the head, and nothing else when the queue has no       *)
(* repetition.                                                              *)
LEMMA DequeueFacts ==
  ASSUME NEW S, NEW q \in Seq(S), q # <<>>
  PROVE  /\ Head(q) \in S /\ Tail(q) \in Seq(S)
         /\ Range(q) = Range(Tail(q)) \cup {Head(q)}
         /\ IsInjective(q) => /\ IsInjective(Tail(q))
                              /\ Head(q) \notin Range(Tail(q))
<1>1. /\ Head(q) \in S /\ Tail(q) \in Seq(S)
      /\ Len(q) \in Nat \ {0}
      /\ Head(q) = q[1]
      /\ DOMAIN q = 1 .. Len(q)
      /\ DOMAIN Tail(q) = 1 .. Len(q) - 1
      /\ \A i \in 1 .. Len(q) - 1 : Tail(q)[i] = q[i + 1]
  OBVIOUS
<1>2. Range(q) = Range(Tail(q)) \cup {Head(q)}
  <2>1. ASSUME NEW i \in DOMAIN q PROVE q[i] \in Range(Tail(q)) \cup {Head(q)}
    <3>1. CASE i = 1
      BY <1>1, <3>1
    <3>2. CASE i # 1
      <4>1. i - 1 \in DOMAIN Tail(q) /\ Tail(q)[i - 1] = q[i]
        BY <1>1, <3>2
      <4>. QED BY <4>1 DEF Range
    <3>. QED BY <3>1, <3>2
  <2>2. ASSUME NEW i \in DOMAIN Tail(q) PROVE Tail(q)[i] \in Range(q)
    BY <1>1 DEF Range
  <2>3. Head(q) \in Range(q)
    BY <1>1 DEF Range
  <2>. QED BY <2>1, <2>2, <2>3 DEF Range
<1>3. ASSUME IsInjective(q)
      PROVE  IsInjective(Tail(q)) /\ Head(q) \notin Range(Tail(q))
  BY <1>1, <1>3 DEF IsInjective, Range
<1>. QED BY <1>1, <1>2, <1>3

(* A queue without duplicates is as long as it has elements.                *)
LEMMA InjectiveLength ==
  ASSUME NEW S, NEW q \in Seq(S), IsInjective(q)
  PROVE  Cardinality(Range(q)) = Len(q)
<1>. DEFINE n == Len(q)
<1>1. n \in Nat /\ DOMAIN q = 1 .. n /\ q = [i \in 1 .. n |-> q[i]]
  OBVIOUS
<1>. HIDE DEF n
<1>2. q \in Bijection(1 .. n, Range(q))
  BY <1>1 DEF Range, IsInjective, Bijection, Injection, Surjection
<1>3. ExistsBijection(1 .. n, Range(q))
  BY <1>2 DEF ExistsBijection
<1>4. /\ IsFiniteSet(1 .. n)
      /\ Cardinality(1 .. n) = IF 1 > n THEN 0 ELSE n - 1 + 1
  <2>1. 1 \in Int /\ n \in Int
    BY <1>1
  <2>. QED BY ONLY <2>1, FS_Interval
<1>5. Cardinality(1 .. n) = n
  BY <1>1, <1>4
<1>. QED BY <1>3, <1>4, <1>5, FS_Bijection DEF n

(* The elements of a queue, and of the empty queue.                         *)
LEMMA RangeType == ASSUME NEW S, NEW q \in Seq(S) PROVE Range(q) \subseteq S
  BY DEF Range

LEMMA EmptyQueue == Range(<<>>) = {} /\ IsInjective(<<>>)
  BY DEF Range, IsInjective

=============================================================================
