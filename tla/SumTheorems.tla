----------------------------- MODULE SumTheorems -----------------------------
(***************************************************************************)
(* Facts about sums over finite sets.  SumFunction and SumFunctionOnSet    *)
(* are folds, that is recursive functions on the subsets of a set; what    *)
(* they compute is proved by well-founded induction on those subsets,      *)
(* where the property to prove is given as the set of the subsets that     *)
(* have it.                                                                *)
(***************************************************************************)
EXTENDS Functions, FiniteSetTheorems, TLAPS

\* A set that contains each subset of D whose proper subsets it contains
\* contains all subsets of D.
LEMMA SubsetInduction ==
    ASSUME NEW D, IsFiniteSet(D), NEW Good,
           \A s \in SUBSET D : (\A t \in (SUBSET s) \ {s} : t \in Good) => s \in Good
    PROVE  \A s \in SUBSET D : s \in Good
<1> DEFINE Bad == {s \in SUBSET D : s \notin Good}
<1>1. SUFFICES ASSUME Bad # {} PROVE FALSE
  OBVIOUS
<1>2. IsWellFoundedOn(StrictSubsetOrdering(D), SUBSET D)
  BY FS_StrictSubsetOrderingWellFounded, FS_FiniteSubsetsOfFinite
<1>3. PICK s \in Bad : \A t \in Bad : <<t, s>> \notin StrictSubsetOrdering(D)
  <2>1. Bad \subseteq SUBSET D
    OBVIOUS
  <2> HIDE DEF Bad
  <2> QED
    BY <1>1, <1>2, <2>1, WFMin
<1>4. \A t \in (SUBSET s) \ {s} : t \in Good
  BY <1>3 DEF StrictSubsetOrdering
<1> QED
  BY <1>3, <1>4

\* One that contains the empty set and, with a subset, that subset and one more
\* element, does too.
LEMMA ElementInduction ==
    ASSUME NEW D, IsFiniteSet(D), NEW Good, {} \in Good,
           \A s \in SUBSET D : \A x \in D \ s : s \in Good => s \cup {x} \in Good
    PROVE  D \in Good
<1>1. ASSUME NEW s \in SUBSET D, \A t \in (SUBSET s) \ {s} : t \in Good
      PROVE  s \in Good
  <2>1. CASE s = {}
    BY <2>1
  <2>2. CASE s # {}
    <3>1. PICK x : x \in s
      BY <2>2
    <3>2. s \ {x} \in Good /\ s = (s \ {x}) \cup {x}
      BY <1>1, <3>1
    <3> QED
      BY <3>1, <3>2
  <2> QED
    BY <2>1, <2>2
<1> QED
  BY <1>1, SubsetInduction

-----------------------------------------------------------------------------
(* The recursive function of the fold. *)

\* g sums f on the subsets of D.
Sums(g, f, D) ==
    g = [s \in SUBSET D |->
           IF s = {} THEN 0 ELSE LET x == CHOOSE x \in s : TRUE IN f[x] + g[s \ {x}]]

TheSums(f, D) == CHOOSE g : Sums(g, f, D)

LEMMA SumIsFold == \A f, S : SumFunctionOnSet(f, S) = TheSums(f, S)[S]
  BY DEF SumFunctionOnSet, FoldFunctionOnSet, MapThenFoldSet, TheSums, Sums

\* What sums f on a set and what sums a function that agrees with f on a larger
\* set agree.
LEMMA SumsAgree ==
    ASSUME NEW D, IsFiniteSet(D), NEW E, D \subseteq E, NEW f, NEW g, NEW h, NEW k,
           \A x \in D : f[x] = h[x], Sums(g, f, D), Sums(k, h, E)
    PROVE  \A s \in SUBSET D : g[s] = k[s]
<1> DEFINE Good == {s \in SUBSET D : g[s] = k[s]}
<1>1. ASSUME NEW s \in SUBSET D, \A t \in (SUBSET s) \ {s} : t \in Good
      PROVE  s \in Good
  <2>1. CASE s = {}
    BY <2>1 DEF Sums
  <2>2. CASE s # {}
    <3> DEFINE x == CHOOSE x \in s : TRUE
    <3>1. x \in s
      BY <2>2
    <3>2. g[s] = f[x] + g[s \ {x}] /\ k[s] = h[x] + k[s \ {x}]
      BY <2>2 DEF Sums
    <3> HIDE DEF x
    <3>3. f[x] = h[x] /\ g[s \ {x}] = k[s \ {x}]
      BY <1>1, <3>1
    <3> QED
      BY <3>2, <3>3
  <2> QED
    BY <2>1, <2>2
<1> HIDE DEF Good
<1>2. \A s \in SUBSET D : s \in Good
  BY <1>1, SubsetInduction
<1> QED
  BY <1>2 DEF Good

\* There is a function that sums f.
LEMMA SumsExist ==
    ASSUME NEW D, IsFiniteSet(D), NEW f
    PROVE  Sums(TheSums(f, D), f, D)
<1> DEFINE Good == {s \in SUBSET D : \E g : Sums(g, f, s)}
<1>1. ASSUME NEW s \in SUBSET D, \A t \in (SUBSET s) \ {s} : t \in Good
      PROVE  s \in Good
  <2> DEFINE total(u) == IF u = {} THEN 0
                         ELSE LET x == CHOOSE x \in u : TRUE
                              IN  f[x] + TheSums(f, u \ {x})[u \ {x}]
             g == [u \in SUBSET s |-> total(u)]
  <2>1. \A t \in (SUBSET s) \ {s} : Sums(TheSums(f, t), f, t)
    BY <1>1 DEF TheSums
  <2>2. \A t \in (SUBSET s) \ {s} : TheSums(f, t)[t] = total(t)
    <3> SUFFICES ASSUME NEW t \in (SUBSET s) \ {s} PROVE TheSums(f, t)[t] = total(t)
      OBVIOUS
    <3>1. CASE t = {}
      BY <2>1, <3>1 DEF Sums
    <3>2. CASE t # {}
      <4> DEFINE x == CHOOSE x \in t : TRUE
      <4>1. x \in t
        BY <3>2
      <4>2. TheSums(f, t)[t] = f[x] + TheSums(f, t)[t \ {x}]
        BY <2>1, <3>2 DEF Sums
      <4>3. t \ {x} \in (SUBSET s) \ {s} /\ t \ {x} \in SUBSET t /\ IsFiniteSet(t \ {x})
        BY <4>1, FS_Subset
      <4>4. TheSums(f, t \ {x})[t \ {x}] = TheSums(f, t)[t \ {x}]
        <5> HIDE DEF x
        <5> DEFINE v == t \ {x}
        <5>1. Sums(TheSums(f, v), f, v) /\ Sums(TheSums(f, t), f, t)
          BY <2>1, <4>3
        <5>2. v \subseteq t /\ IsFiniteSet(v) /\ v \in SUBSET v
          BY <4>3
        <5> HIDE DEF v
        <5>3. \A u \in SUBSET v : TheSums(f, v)[u] = TheSums(f, t)[u]
          BY <5>1, <5>2, SumsAgree
        <5> QED
          BY <5>2, <5>3 DEF v
      <4> QED
        BY <3>2, <4>2, <4>4
    <3> QED
      BY <3>1, <3>2
  <2>3. ASSUME NEW u \in SUBSET s, u # {}
        PROVE  LET x == CHOOSE x \in u : TRUE IN total(u) = f[x] + g[u \ {x}]
    <3> DEFINE x == CHOOSE x \in u : TRUE
    <3>1. x \in u
      BY <2>3
    <3>2. u \ {x} \in (SUBSET s) \ {s}
      BY <3>1
    <3>3. g[u \ {x}] = TheSums(f, u \ {x})[u \ {x}]
      BY <2>2, <3>2
    <3> QED
      BY <2>3, <3>3
  <2>4. Sums(g, f, s)
    BY <2>3 DEF Sums
  <2> QED
    BY <2>4
<1> HIDE DEF Good
<1>2. D \in Good
  BY <1>1, SubsetInduction
<1> QED
  BY <1>2 DEF Good, TheSums

-----------------------------------------------------------------------------
(* What sums are. *)

LEMMA SumOverNothing == \A f : SumFunctionOnSet(f, {}) = 0
<1> TAKE f
<1>1. Sums(TheSums(f, {}), f, {})
  BY SumsExist, FS_EmptySet
<1> QED
  BY <1>1, SumIsFold DEF Sums

\* A sum depends on the values at the elements it is over.
LEMMA SumOfEqual ==
    ASSUME NEW S, IsFiniteSet(S), NEW f, NEW g, \A x \in S : f[x] = g[x]
    PROVE  SumFunctionOnSet(f, S) = SumFunctionOnSet(g, S)
<1>1. Sums(TheSums(f, S), f, S) /\ Sums(TheSums(g, S), g, S)
  BY SumsExist
<1>2. \A s \in SUBSET S : TheSums(f, S)[s] = TheSums(g, S)[s]
  BY <1>1, SumsAgree
<1> QED
  BY <1>2, SumIsFold

\* The fold takes the elements in the order of CHOOSE.
LEMMA SumOfChosen ==
    ASSUME NEW S, IsFiniteSet(S), S # {}, NEW f
    PROVE  LET x == CHOOSE x \in S : TRUE
           IN  SumFunctionOnSet(f, S) = f[x] + SumFunctionOnSet(f, S \ {x})
<1> DEFINE x == CHOOSE x \in S : TRUE
           t == S \ {x}
<1>1. Sums(TheSums(f, S), f, S)
  BY SumsExist
<1>2. TheSums(f, S)[S] = f[x] + TheSums(f, S)[t]
  BY <1>1 DEF Sums
<1> HIDE DEF x
<1>3. IsFiniteSet(t) /\ t \subseteq S
  BY FS_Subset
<1>4. Sums(TheSums(f, t), f, t)
  BY <1>3, SumsExist
<1> HIDE DEF t
<1>5. \A s \in SUBSET t : TheSums(f, t)[s] = TheSums(f, S)[s]
  BY <1>1, <1>3, <1>4, SumsAgree
<1>6. TheSums(f, t)[t] = TheSums(f, S)[t]
  BY <1>5
<1>7. SumFunctionOnSet(f, S) = f[x] + SumFunctionOnSet(f, t)
  BY <1>2, <1>6, SumIsFold
<1> QED
  BY <1>7 DEF x, t

\* Any element can be taken first, and a sum of integers is one.
LEMMA SumOfOneMore ==
    ASSUME NEW D, IsFiniteSet(D), NEW f, \A x \in D : f[x] \in Int
    PROVE  \A s \in SUBSET D :
             /\ SumFunctionOnSet(f, s) \in Int
             /\ \A y \in s : SumFunctionOnSet(f, s) = f[y] + SumFunctionOnSet(f, s \ {y})
<1> DEFINE Good == {s \in SUBSET D :
             /\ SumFunctionOnSet(f, s) \in Int
             /\ \A y \in s : SumFunctionOnSet(f, s) = f[y] + SumFunctionOnSet(f, s \ {y})}
<1>1. ASSUME NEW s \in SUBSET D, \A t \in (SUBSET s) \ {s} : t \in Good
      PROVE  s \in Good
  <2>1. CASE s = {}
    BY <2>1, SumOverNothing
  <2>2. CASE s # {}
    <3> DEFINE x == CHOOSE x \in s : TRUE
    <3>1. x \in s
      BY <2>2
    <3>2. SumFunctionOnSet(f, s) = f[x] + SumFunctionOnSet(f, s \ {x})
      BY <2>2, FS_Subset, SumOfChosen
    <3> HIDE DEF x
    <3>3. f[x] \in Int /\ SumFunctionOnSet(f, s \ {x}) \in Int
      BY <1>1, <3>1
    <3>4. ASSUME NEW y \in s, y # x
          PROVE  SumFunctionOnSet(f, s) = f[y] + SumFunctionOnSet(f, s \ {y})
      <4> DEFINE u == (s \ {x}) \ {y}
      <4>1. SumFunctionOnSet(f, s \ {x}) = f[y] + SumFunctionOnSet(f, u)
        BY <1>1, <3>1, <3>4
      <4>2. s \ {y} \in Good /\ x \in s \ {y} /\ (s \ {y}) \ {x} = u
        BY <1>1, <3>1, <3>4
      <4>3. SumFunctionOnSet(f, s \ {y}) = f[x] + SumFunctionOnSet(f, u)
        BY <4>2
      <4>4. u \in Good
        BY <1>1, <3>1
      <4>5. SumFunctionOnSet(f, u) \in Int /\ f[y] \in Int
        BY <4>4
      <4> HIDE DEF u
      <4> QED
        BY <3>2, <3>3, <4>1, <4>3, <4>5
    <3>5. SumFunctionOnSet(f, s) \in Int
      BY <3>2, <3>3
    <3>6. \A y \in s : SumFunctionOnSet(f, s) = f[y] + SumFunctionOnSet(f, s \ {y})
      BY <3>2, <3>4
    <3> QED
      BY <3>5, <3>6
  <2> QED
    BY <2>1, <2>2
<1> HIDE DEF Good
<1>2. \A s \in SUBSET D : s \in Good
  BY <1>1, SubsetInduction
<1> QED
  BY <1>2 DEF Good

LEMMA SumIsInt ==
    ASSUME NEW S, IsFiniteSet(S), NEW f, \A x \in S : f[x] \in Int
    PROVE  SumFunctionOnSet(f, S) \in Int
  BY SumOfOneMore

LEMMA SumWithout ==
    ASSUME NEW S, IsFiniteSet(S), NEW f, \A x \in S : f[x] \in Int, NEW y \in S
    PROVE  SumFunctionOnSet(f, S) = f[y] + SumFunctionOnSet(f, S \ {y})
  BY SumOfOneMore

LEMMA SumWith ==
    ASSUME NEW S, IsFiniteSet(S), NEW y, y \notin S, NEW f, \A x \in S \cup {y} : f[x] \in Int
    PROVE  SumFunctionOnSet(f, S \cup {y}) = f[y] + SumFunctionOnSet(f, S)
<1> DEFINE T == S \cup {y}
<1>1. IsFiniteSet(T) /\ y \in T /\ T \ {y} = S
  BY FS_AddElement
<1> HIDE DEF T
<1>2. \A x \in T : f[x] \in Int
  BY DEF T
<1>3. SumFunctionOnSet(f, T) = f[y] + SumFunctionOnSet(f, T \ {y})
  BY <1>1, <1>2, SumWithout
<1> QED
  BY <1>1, <1>3 DEF T

\* The sum over two sets with no common element.
LEMMA SumOfDisjoint ==
    ASSUME NEW S, IsFiniteSet(S), NEW T, IsFiniteSet(T), S \cap T = {},
           NEW f, \A x \in S \cup T : f[x] \in Int
    PROVE  SumFunctionOnSet(f, S \cup T) = SumFunctionOnSet(f, S) + SumFunctionOnSet(f, T)
<1> DEFINE Good == {s \in SUBSET T :
              SumFunctionOnSet(f, S \cup s) = SumFunctionOnSet(f, S) + SumFunctionOnSet(f, s)}
<1>1. SumFunctionOnSet(f, S) \in Int
  BY SumIsInt
<1>2. {} \in Good
  BY <1>1, SumOverNothing
<1>3. ASSUME NEW s \in SUBSET T, NEW x \in T \ s, s \in Good
      PROVE  s \cup {x} \in Good
  <2>1. IsFiniteSet(s) /\ IsFiniteSet(S \cup s)
    BY FS_Subset, FS_Union
  <2>2. SumFunctionOnSet(f, s \cup {x}) = f[x] + SumFunctionOnSet(f, s)
    BY <2>1, SumWith
  <2>3. SumFunctionOnSet(f, (S \cup s) \cup {x}) = f[x] + SumFunctionOnSet(f, S \cup s)
    <3>1. x \notin S \cup s /\ \A y \in (S \cup s) \cup {x} : f[y] \in Int
      OBVIOUS
    <3> QED
      BY <2>1, <3>1, SumWith
  <2>4. (S \cup s) \cup {x} = S \cup (s \cup {x})
    OBVIOUS
  <2>5. SumFunctionOnSet(f, s) \in Int /\ f[x] \in Int
    BY <2>1, SumIsInt
  <2>6. SumFunctionOnSet(f, S \cup s) = SumFunctionOnSet(f, S) + SumFunctionOnSet(f, s)
    BY <1>3
  <2>7. SumFunctionOnSet(f, S \cup (s \cup {x})) = f[x] + SumFunctionOnSet(f, S \cup s)
    BY <2>3, <2>4
  <2> HIDE DEF Good
  <2>8. SumFunctionOnSet(f, S \cup (s \cup {x})) = SumFunctionOnSet(f, S) + SumFunctionOnSet(f, s \cup {x})
    BY <1>1, <2>2, <2>5, <2>6, <2>7
  <2> QED
    BY <2>8 DEF Good
<1> HIDE DEF Good
<1>4. T \in Good
  BY <1>2, <1>3, ElementInduction
<1> QED
  BY <1>4 DEF Good

\* A larger function has a larger sum.
LEMMA SumMonotone ==
    ASSUME NEW S, IsFiniteSet(S), NEW f, NEW g,
           \A x \in S : f[x] \in Int /\ g[x] \in Int /\ f[x] <= g[x]
    PROVE  SumFunctionOnSet(f, S) <= SumFunctionOnSet(g, S)
<1> DEFINE Good == {s \in SUBSET S : SumFunctionOnSet(f, s) <= SumFunctionOnSet(g, s)}
<1>1. {} \in Good
  BY SumOverNothing
<1>2. ASSUME NEW s \in SUBSET S, NEW x \in S \ s, s \in Good
      PROVE  s \cup {x} \in Good
  <2>1. IsFiniteSet(s)
    BY FS_Subset
  <2>2. /\ SumFunctionOnSet(f, s \cup {x}) = f[x] + SumFunctionOnSet(f, s)
        /\ SumFunctionOnSet(g, s \cup {x}) = g[x] + SumFunctionOnSet(g, s)
    BY <2>1, SumWith
  <2>3. SumFunctionOnSet(f, s) \in Int /\ SumFunctionOnSet(g, s) \in Int
    BY <2>1, SumIsInt
  <2> QED
    BY <1>2, <2>2, <2>3
<1> HIDE DEF Good
<1>3. S \in Good
  BY <1>1, <1>2, ElementInduction
<1> QED
  BY <1>3 DEF Good

\* The sum of a constant.
LEMMA SumOfConstant ==
    ASSUME NEW S, IsFiniteSet(S), NEW f, NEW c \in Int, \A x \in S : f[x] = c
    PROVE  SumFunctionOnSet(f, S) = Cardinality(S) * c
<1> DEFINE Good == {s \in SUBSET S : SumFunctionOnSet(f, s) = Cardinality(s) * c}
<1>1. {} \in Good
  BY SumOverNothing, FS_EmptySet
<1>2. ASSUME NEW s \in SUBSET S, NEW x \in S \ s, s \in Good
      PROVE  s \cup {x} \in Good
  <2>1. IsFiniteSet(s)
    BY FS_Subset
  <2>2. SumFunctionOnSet(f, s \cup {x}) = f[x] + SumFunctionOnSet(f, s)
    BY <2>1, SumWith
  <2>3. Cardinality(s) \in Nat /\ Cardinality(s \cup {x}) = Cardinality(s) + 1
    BY <2>1, FS_CardinalityType, FS_AddElement
  <2>4. \A n \in Nat : c + n * c = (n + 1) * c
    BY SMT
  <2>5. SumFunctionOnSet(f, s) = Cardinality(s) * c /\ f[x] = c
    BY <1>2
  <2> QED
    BY <2>2, <2>3, <2>4, <2>5
<1> HIDE DEF Good
<1>3. S \in Good
  BY <1>1, <1>2, ElementInduction
<1> QED
  BY <1>3 DEF Good

LEMMA SumIsNat ==
    ASSUME NEW S, IsFiniteSet(S), NEW f, \A x \in S : f[x] \in Nat
    PROVE  SumFunctionOnSet(f, S) \in Nat
<1> DEFINE zero == [x \in S |-> 0]
<1>1. SumFunctionOnSet(zero, S) = Cardinality(S) * 0 /\ Cardinality(S) \in Nat
  BY SumOfConstant, FS_CardinalityType
<1>2. SumFunctionOnSet(zero, S) <= SumFunctionOnSet(f, S)
  BY SumMonotone
<1> HIDE DEF zero
<1> QED
  BY <1>1, <1>2, SumIsInt

\* The sum of a multiple is the multiple of the sum.
LEMMA SumScaled ==
    ASSUME NEW S, IsFiniteSet(S), NEW f, NEW g, NEW c \in Int,
           \A x \in S : f[x] \in Int /\ g[x] = c * f[x]
    PROVE  SumFunctionOnSet(g, S) = c * SumFunctionOnSet(f, S)
<1> DEFINE Good == {s \in SUBSET S : SumFunctionOnSet(g, s) = c * SumFunctionOnSet(f, s)}
<1>1. {} \in Good
  BY SumOverNothing
<1>2. ASSUME NEW s \in SUBSET S, NEW x \in S \ s, s \in Good
      PROVE  s \cup {x} \in Good
  <2>1. IsFiniteSet(s)
    BY FS_Subset
  <2>2. \A y \in S : g[y] \in Int
    OBVIOUS
  <2>3. /\ SumFunctionOnSet(f, s \cup {x}) = f[x] + SumFunctionOnSet(f, s)
        /\ SumFunctionOnSet(g, s \cup {x}) = g[x] + SumFunctionOnSet(g, s)
    BY <2>1, <2>2, SumWith
  <2>4. SumFunctionOnSet(f, s) \in Int /\ f[x] \in Int
    BY <2>1, SumIsInt
  <2>5. \A a, b \in Int : c * a + c * b = c * (a + b)
    BY SMT
  <2>6. SumFunctionOnSet(g, s) = c * SumFunctionOnSet(f, s) /\ g[x] = c * f[x]
    BY <1>2
  <2> QED
    BY <2>3, <2>4, <2>5, <2>6
<1> HIDE DEF Good
<1>3. S \in Good
  BY <1>1, <1>2, ElementInduction
<1> QED
  BY <1>3 DEF Good

\* Not all terms are above the average, and not all are below.
LEMMA SumOfAverage ==
    ASSUME NEW S, IsFiniteSet(S), S # {}, NEW f, \A x \in S : f[x] \in Int
    PROVE  /\ \E x \in S : SumFunctionOnSet(f, S) <= Cardinality(S) * f[x]
           /\ \E x \in S : SumFunctionOnSet(f, S) >= Cardinality(S) * f[x]
<1> DEFINE Good == {s \in SUBSET S :
             s # {} => /\ \E x \in s : \A y \in s : f[y] <= f[x]
                       /\ \E x \in s : \A y \in s : f[y] >= f[x]}
<1>1. {} \in Good
  OBVIOUS
<1>2. ASSUME NEW s \in SUBSET S, NEW x \in S \ s, s \in Good
      PROVE  s \cup {x} \in Good
  <2>1. CASE s = {}
    BY <2>1
  <2>2. CASE s # {}
    <3>1. PICK m \in s : \A y \in s : f[y] <= f[m]
      BY <1>2, <2>2
    <3>2. PICK l \in s : \A y \in s : f[y] >= f[l]
      BY <1>2, <2>2
    <3>3. \E z \in s \cup {x} : \A y \in s \cup {x} : f[y] <= f[z]
      BY <3>1
    <3>4. \E z \in s \cup {x} : \A y \in s \cup {x} : f[y] >= f[z]
      BY <3>2
    <3> QED
      BY <3>3, <3>4
  <2> QED
    BY <2>1, <2>2
<1>3. S \in Good
  <2> HIDE DEF Good
  <2> QED
    BY <1>1, <1>2, ElementInduction
<1>4. ASSUME NEW x \in S
      PROVE  SumFunctionOnSet([y \in S |-> f[x]], S) = Cardinality(S) * f[x]
  BY SumOfConstant
<1>5. PICK m \in S : \A y \in S : f[y] <= f[m]
  BY <1>3
<1>6. SumFunctionOnSet(f, S) <= SumFunctionOnSet([y \in S |-> f[m]], S)
  BY <1>5, SumMonotone
<1>7. PICK l \in S : \A y \in S : f[y] >= f[l]
  BY <1>3
<1>8. SumFunctionOnSet([y \in S |-> f[l]], S) <= SumFunctionOnSet(f, S)
  BY <1>7, SumMonotone
<1>9. SumFunctionOnSet(f, S) \in Int /\ Cardinality(S) \in Nat
  BY SumIsInt, FS_CardinalityType
<1>10. SumFunctionOnSet(f, S) <= Cardinality(S) * f[m]
  BY <1>4, <1>6
<1>11. SumFunctionOnSet(f, S) >= Cardinality(S) * f[l]
  <2>1. Cardinality(S) * f[l] \in Int
    BY <1>9
  <2> QED
    BY <1>4, <1>8, <1>9, <2>1
<1> QED
  BY <1>10, <1>11

\* A part of a sum of naturals is no more than the whole.
LEMMA SumOfPart ==
    ASSUME NEW T, IsFiniteSet(T), NEW S \in SUBSET T, NEW f, \A x \in T : f[x] \in Nat
    PROVE  SumFunctionOnSet(f, S) <= SumFunctionOnSet(f, T)
<1> DEFINE R == T \ S
<1>1. IsFiniteSet(S) /\ IsFiniteSet(R) /\ S \cap R = {} /\ S \cup R = T
  BY FS_Subset
<1> HIDE DEF R
<1>2. /\ SumFunctionOnSet(f, S) \in Nat /\ SumFunctionOnSet(f, R) \in Nat
      /\ SumFunctionOnSet(f, S \cup R) = SumFunctionOnSet(f, S) + SumFunctionOnSet(f, R)
  BY <1>1, SumIsNat, SumOfDisjoint
<1>3. SumFunctionOnSet(f, T) = SumFunctionOnSet(f, S \cup R)
  BY <1>1, Zenon
<1> QED
  BY <1>2, <1>3

\* A sum may be taken over other names of the same things.
LEMMA SumRenamed ==
    ASSUME NEW S, IsFiniteSet(S), NEW f, NEW g, NEW name,
           \A x, y \in S : name[x] = name[y] => x = y,
           \A x \in S : f[x] \in Int /\ f[x] = g[name[x]]
    PROVE  /\ IsFiniteSet({name[x] : x \in S})
           /\ SumFunctionOnSet(f, S) = SumFunctionOnSet(g, {name[x] : x \in S})
<1> DEFINE Names(s) == {name[x] : x \in s}
           Good == {s \in SUBSET S : /\ IsFiniteSet(Names(s))
                                     /\ SumFunctionOnSet(f, s) = SumFunctionOnSet(g, Names(s))}
<1>1. {} \in Good
  <2>1. Names({}) = {}
    OBVIOUS
  <2> QED
    BY <2>1, SumOverNothing, FS_EmptySet
<1>2. ASSUME NEW s \in SUBSET S, NEW x \in S \ s, s \in Good
      PROVE  s \cup {x} \in Good
  <2>1. IsFiniteSet(s) /\ IsFiniteSet(Names(s))
    BY <1>2, FS_Subset
  <2>2. Names(s \cup {x}) = Names(s) \cup {name[x]} /\ name[x] \notin Names(s)
    OBVIOUS
  <2>3. \A n \in Names(s) \cup {name[x]} : g[n] \in Int
    OBVIOUS
  <2>4. SumFunctionOnSet(f, s \cup {x}) = f[x] + SumFunctionOnSet(f, s)
    BY <2>1, SumWith
  <2>5. SumFunctionOnSet(f, s) = SumFunctionOnSet(g, Names(s))
    BY <1>2
  <2> HIDE DEF Names
  <2>6. SumFunctionOnSet(g, Names(s) \cup {name[x]}) = g[name[x]] + SumFunctionOnSet(g, Names(s))
    BY <2>1, <2>2, <2>3, SumWith
  <2>7. IsFiniteSet(Names(s) \cup {name[x]})
    BY <2>1, FS_AddElement
  <2> QED
    BY <2>2, <2>4, <2>5, <2>6, <2>7
<1> HIDE DEF Good
<1>3. S \in Good
  BY <1>1, <1>2, ElementInduction
<1> QED
  BY <1>3 DEF Good

=============================================================================
