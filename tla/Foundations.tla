----------------------------- MODULE Foundations -----------------------------
(***************************************************************************)
(* Facts about numbers, finite sets and folds that the proofs of several   *)
(* components rest on.  The library's induction theorems take a predicate  *)
(* as a parameter, which the installed provers cannot instantiate; its     *)
(* well-foundedness theorem for finite subsets takes sets only, and the    *)
(* least number principle, induction up to a bound and the existence of    *)
(* the function behind a fold are derived from it here.                    *)
(***************************************************************************)
EXTENDS Integers, Sequences, FiniteSets, SequencesExt, FiniteSetTheorems, TLAPS

\* A set of numbers that is not empty has a least one.
LEMMA LeastNumber ==
    ASSUME NEW T \in SUBSET Nat, T # {}
    PROVE  \E n \in T : \A m \in T : n <= m
<1> DEFINE Up == {1..n : n \in T}
           R  == StrictSubsetOrdering(Nat)
<1>1. \A n \in T : 1..n \in FiniteSubsetsOf(Nat)
  BY FS_Interval DEF FiniteSubsetsOf
<1>2. Up \subseteq FiniteSubsetsOf(Nat) /\ Up # {}
  BY <1>1
<1>3. PICK x \in Up : \A y \in Up : ~(<<y, x>> \in R)
  <2> HIDE DEF Up, R
  <2>1. IsWellFoundedOn(R, FiniteSubsetsOf(Nat))
    BY FS_StrictSubsetOrderingWellFounded DEF R
  <2> QED BY <2>1, <1>2, WFMin
<1>4. PICK n \in T : x = 1..n
  BY <1>3
<1>5. ASSUME NEW m \in T, ~(n <= m)
      PROVE  FALSE
  <2>1. 1..m \in Up /\ 1..m \subseteq 1..n /\ n \in 1..n /\ n \notin 1..m
    BY <1>5
  <2>2. <<1..m, 1..n>> \in R
    BY <2>1, <1>1 DEF StrictSubsetOrdering, FiniteSubsetsOf
  <2> QED BY <2>1, <2>2, <1>3, <1>4
<1> QED BY <1>4, <1>5

\* Induction up to a bound, for a property given as a set.
LEMMA UpTo ==
    ASSUME NEW n \in Nat, NEW S, 0 \in S,
           \A i \in 0..(n - 1) : i \in S => i + 1 \in S
    PROVE  \A i \in 0..n : i \in S
<1> SUFFICES ASSUME \E i \in 0..n : i \notin S  PROVE FALSE
  OBVIOUS
<1> DEFINE T == {i \in 0..n : i \notin S}
<1>1. T \in SUBSET Nat /\ T # {}
  OBVIOUS
<1>2. PICK i \in T : \A j \in T : i <= j
  BY <1>1, LeastNumber
<1>3. i # 0 /\ i - 1 \in 0..(n - 1) /\ i - 1 \notin T
  BY <1>2
<1>4. i - 1 \in S /\ (i - 1) + 1 = i
  BY <1>3
<1> QED BY <1>2, <1>3, <1>4

\* The largest number of a set that holds its upper bound.
LEMMA MaxOfUpTo ==
    ASSUME NEW k \in Nat \ {0}, NEW s \in SUBSET (1..k), k \in s
    PROVE  Max(s) = k
<1>1. \A y \in s : k >= y
  OBVIOUS
<1>2. \A x \in s : (\A y \in s : x >= y) => x = k
  OBVIOUS
<1> QED BY <1>1, <1>2 DEF Max

\* The largest number of a set of numbers belongs to it.
LEMMA MaxIn ==
    ASSUME NEW n \in Nat, NEW s \in SUBSET (1..n), s # {}
    PROVE  Max(s) \in s
<1> DEFINE D == {n - i : i \in s}
<1>1. D \in SUBSET Nat /\ D # {}
  <2>1. \A i \in s : n - i \in Nat
    OBVIOUS
  <2> QED BY <2>1
<1>2. PICK d \in D : \A e \in D : d <= e
  BY <1>1, LeastNumber
<1>3. PICK i \in s : d = n - i
  OBVIOUS
<1>4. \A j \in s : i >= j
  <2> SUFFICES ASSUME NEW j \in s PROVE i >= j
    OBVIOUS
  <2>1. d <= n - j
    BY <1>2
  <2> QED BY <2>1, <1>3
<1> QED BY <1>3, <1>4 DEF Max

\* f is the function behind the fold of n steps from a: on a set of positions it applies the step
\* of the last one to what the others give.
IsFold(f, a, h, n) ==
    f = [z \in SUBSET (1..n) |-> IF z = {} THEN a ELSE h[Max(z)][f[z \ {Max(z)}]]]

\* Such a function exists, and its values are of the type that the steps preserve.
LEMMA FoldExists ==
    ASSUME NEW A, NEW a \in A, NEW n \in Nat, NEW h \in [1..n -> [A -> A]]
    PROVE  \E f \in [SUBSET (1..n) -> A] : IsFold(f, a, h, n)
<1> DEFINE Good(k, f) == \A s \in SUBSET (1..k) :
              f[s] = IF s = {} THEN a ELSE h[Max(s)][f[s \ {Max(s)}]]
           Can(k) == \E f \in [SUBSET (1..k) -> A] : Good(k, f)
           S == {k \in 0..n : Can(k)}
<1>1. Can(0)
  <2> DEFINE f == [s \in SUBSET (1..0) |-> a]
  <2>1. f \in [SUBSET (1..0) -> A]
    OBVIOUS
  <2>2. \A s \in SUBSET (1..0) : s = {} /\ f[s] = a
    OBVIOUS
  <2> HIDE DEF f
  <2>3. Good(0, f)
    BY <2>2
  <2> QED BY <2>1, <2>3
<1>2. ASSUME NEW k \in 0..(n - 1), Can(k)
      PROVE  Can(k + 1)
  <2>1. PICK f \in [SUBSET (1..k) -> A] : Good(k, f)
    BY <1>2
  <2> DEFINE g == [s \in SUBSET (1..(k + 1)) |->
                     IF k + 1 \in s THEN h[k + 1][f[s \ {k + 1}]] ELSE f[s]]
  <2>2. \A s \in SUBSET (1..(k + 1)) : /\ s \ {k + 1} \in SUBSET (1..k)
                                      /\ k + 1 \notin s => s \in SUBSET (1..k)
    OBVIOUS
  <2>3. g \in [SUBSET (1..(k + 1)) -> A]
    <3> SUFFICES ASSUME NEW s \in SUBSET (1..(k + 1))  PROVE g[s] \in A
      OBVIOUS
    <3>1. h[k + 1] \in [A -> A]
      OBVIOUS
    <3> QED BY <2>2, <3>1
  <2>4. Good(k + 1, g)
    <3> SUFFICES ASSUME NEW s \in SUBSET (1..(k + 1))
                 PROVE  g[s] = IF s = {} THEN a ELSE h[Max(s)][g[s \ {Max(s)}]]
      OBVIOUS
    <3>1. CASE k + 1 \in s
      <4>1. Max(s) = k + 1
        <5>1. k + 1 \in Nat \ {0}
          OBVIOUS
        <5> QED BY <3>1, <5>1, MaxOfUpTo
      <4>2. g[s \ {k + 1}] = f[s \ {k + 1}]
        BY <2>2
      <4> QED BY <3>1, <4>1, <4>2
    <3>2. CASE k + 1 \notin s
      <4>1. s \in SUBSET (1..k)
        BY <2>2, <3>2
      <4>2. f[s] = IF s = {} THEN a ELSE h[Max(s)][f[s \ {Max(s)}]]
        BY <2>1, <4>1
      <4>3. g[s] = f[s] /\ g[s \ {Max(s)}] = f[s \ {Max(s)}]
        BY <3>2, <4>1
      <4> QED BY <4>2, <4>3
    <3> QED BY <3>1, <3>2
  <2> HIDE DEF g, Good
  <2> QED BY <2>3, <2>4
<1>3. \A k \in 0..n : k \in S
  <2>1. 0 \in S
    <3> HIDE DEF Can
    <3> QED BY <1>1
  <2>2. \A k \in 0..(n - 1) : k \in S => k + 1 \in S
    <3> HIDE DEF Can
    <3> QED BY <1>2
  <2> HIDE DEF S
  <2> QED BY <2>1, <2>2, UpTo
<1>4. Can(n)
  <2> HIDE DEF Can
  <2> QED BY <1>3
<1>5. PICK f \in [SUBSET (1..n) -> A] : Good(n, f)
  BY <1>4
<1>6. IsFold(f, a, h, n)
  BY <1>5 DEF IsFold
<1> QED BY <1>6

\* The first n numbers are n.
LEMMA OneTo == \A n \in Nat : IsFiniteSet(1..n) /\ Cardinality(1..n) = n
<1> SUFFICES ASSUME NEW n \in Nat  PROVE IsFiniteSet(1..n) /\ Cardinality(1..n) = n
  OBVIOUS
<1>1. 1 \in Int /\ n \in Int
  OBVIOUS
<1>2. IsFiniteSet(1..n) /\ Cardinality(1..n) = IF 1 > n THEN 0 ELSE n - 1 + 1
  BY <1>1, FS_Interval
<1> QED BY <1>2

\* A sequence that is not empty has a first element.
LEMMA FirstElement ==
    ASSUME NEW T, NEW s \in Seq(T), s # <<>>
    PROVE  1 \in DOMAIN s /\ s[1] \in T /\ Head(s) = s[1] /\ Tail(s) \in Seq(T)
OBVIOUS

\* The last of the first k numbers.
LEMMA LastOfUpTo ==
    ASSUME NEW k \in Nat \ {0}
    PROVE  1..k # {} /\ (1..k) \ {k} = 1..(k - 1) /\ Max(1..k) = k
<1>1. k \in 1..k /\ (1..k) \ {k} = 1..(k - 1)
  OBVIOUS
<1>2. Max(1..k) = k
  BY <1>1, MaxOfUpTo
<1> QED BY <1>1, <1>2
------------------------------------------------------------------------------
\* The units of the numbers c[x], x \in S, one by one.
Coins(c, S, w) == {u \in S \X (1..w) : u[2] <= c[u[1]]}

\* They are finitely many.
LEMMA CoinsFinite ==
    ASSUME NEW S, IsFiniteSet(S), NEW w \in Nat, NEW c
    PROVE  IsFiniteSet(Coins(c, S, w)) /\ Cardinality(Coins(c, S, w)) \in Nat
<1>1. IsFiniteSet(1..w)
  BY OneTo
<1>2. IsFiniteSet(S \X (1..w))
  BY <1>1, FS_Product
<1>3. Coins(c, S, w) \subseteq S \X (1..w)
  BY DEF Coins
<1> QED BY <1>2, <1>3, FS_Subset, FS_CardinalityType

\* One more number adds its units.
LEMMA CoinsAdd ==
    ASSUME NEW S, IsFiniteSet(S), NEW w \in Nat, NEW c, NEW x, x \notin S, c[x] \in 0..w
    PROVE  Cardinality(Coins(c, S \cup {x}, w)) = Cardinality(Coins(c, S, w)) + c[x]
<1> DEFINE A == {x} \X (1..c[x])
           B == Coins(c, S, w)
<1>1. Coins(c, S \cup {x}, w) = B \cup A /\ B \cap A = {}
  BY DEF Coins
<1>2. IsFiniteSet(A) /\ Cardinality(A) = c[x]
  <2> DEFINE n == c[x]
             D == 1..n
  <2>1. n \in Nat
    OBVIOUS
  <2> HIDE DEF n
  <2>2. IsFiniteSet(D) /\ Cardinality(D) = n
    BY <2>1, OneTo
  <2>3. IsFiniteSet({x}) /\ Cardinality({x}) = 1
    BY FS_Singleton
  <2> HIDE DEF D
  <2>4. IsFiniteSet({x} \X D) /\ Cardinality({x} \X D) = Cardinality({x}) * Cardinality(D)
    BY <2>2, <2>3, FS_Product
  <2>5. IsFiniteSet({x} \X D) /\ Cardinality({x} \X D) = n
    BY <2>1, <2>2, <2>3, <2>4
  <2> QED BY <2>5 DEF D, n
<1>3. IsFiniteSet(B) /\ Cardinality(B) \in Nat
  BY CoinsFinite
<1> HIDE DEF A, B
<1>4. Cardinality(B \cup A) = Cardinality(B) + Cardinality(A) - Cardinality(B \cap A)
  BY <1>2, <1>3, FS_Union
<1>5. Cardinality(B \cap A) = 0
  BY <1>1, FS_EmptySet
<1>6. Cardinality(B \cup A) = Cardinality(B) + c[x]
  <2> DEFINE b == Cardinality(B)
             n == c[x]
  <2>1. Cardinality(B \cup A) = b + n - 0 /\ b \in Nat /\ n \in Nat
    BY <1>2, <1>3, <1>4, <1>5
  <2> HIDE DEF b, n
  <2>2. Cardinality(B \cup A) = b + n
    BY <2>1
  <2> QED BY <2>2 DEF b, n
<1> QED BY <1>1, <1>6 DEF B

\* f is the function behind the library's sum of c over S.
IsSum(f, c, S) ==
    f = [s \in SUBSET S |-> IF s = {} THEN 0
                            ELSE c[CHOOSE x \in s : TRUE] + f[s \ {CHOOSE x \in s : TRUE}]]

\* The sum is the number of the units, in whatever order the numbers are taken.
LEMMA SumOfCoins ==
    ASSUME NEW S, IsFiniteSet(S), NEW w \in Nat, NEW c, \A x \in S : c[x] \in 0..w
    PROVE  SumFunctionOnSet(c, S) = Cardinality(Coins(c, S, w))
<1> DEFINE count(s) == Cardinality(Coins(c, s, w))
           g        == [s \in SUBSET S |-> count(s)]
           one(s)   == CHOOSE x \in s : TRUE
<1>1. \A s \in SUBSET S : IsFiniteSet(s) /\ (s # {} => one(s) \in s)
  BY FS_Subset
<1>2. count({}) = 0
  <2>1. Coins(c, {}, w) = {}
    BY DEF Coins
  <2> QED BY <2>1, FS_EmptySet
<1>3. ASSUME NEW s \in SUBSET S, NEW x \in s
      PROVE  count(s) = c[x] + count(s \ {x})
  <2>1. /\ x \notin s \ {x} /\ (s \ {x}) \cup {x} = s /\ c[x] \in 0..w
        /\ IsFiniteSet(s \ {x})
    BY <1>1
  <2>2. count(s) = count(s \ {x}) + c[x]
    <3> DEFINE z == s \ {x}
    <3>1. IsFiniteSet(z) /\ x \notin z /\ z \cup {x} = s
      BY <2>1
    <3> HIDE DEF z
    <3>2. Cardinality(Coins(c, z \cup {x}, w)) = Cardinality(Coins(c, z, w)) + c[x]
      BY <2>1, <3>1, CoinsAdd
    <3> QED BY <3>1, <3>2 DEF z
  <2>3. count(s \ {x}) \in Nat
    BY <2>1, CoinsFinite
  <2> HIDE DEF count
  <2> QED BY <2>1, <2>2, <2>3
<1> HIDE DEF count
<1>4. IsSum(g, c, S)
  <2>1. ASSUME NEW s \in SUBSET S
        PROVE  g[s] = IF s = {} THEN 0 ELSE c[one(s)] + g[s \ {one(s)}]
    BY <1>1, <1>2, <1>3
  <2> HIDE DEF g
  <2>2. g = [s \in SUBSET S |-> IF s = {} THEN 0 ELSE c[one(s)] + g[s \ {one(s)}]]
    <3>1. g = [s \in SUBSET S |-> g[s]]
      BY DEF g
    <3> QED BY <2>1, <3>1
  <2> QED BY <2>2 DEF IsSum
<1>5. ASSUME NEW f, IsSum(f, c, S)
      PROVE  f[S] = g[S]
  <2> DEFINE Bad == {s \in SUBSET S : f[s] # g[s]}
             T   == {Cardinality(s) : s \in Bad}
  <2>1. ASSUME Bad # {} PROVE FALSE
    <3>1. T \in SUBSET Nat /\ T # {}
      <4>1. \A s \in Bad : Cardinality(s) \in Nat
        BY <1>1, FS_CardinalityType
      <4> QED BY <2>1, <4>1
    <3>2. PICK n \in T : \A m \in T : n <= m
      <4> HIDE DEF T
      <4> QED BY <3>1, LeastNumber
    <3>3. PICK s \in Bad : n = Cardinality(s)
      OBVIOUS
    <3>4. f[s] = IF s = {} THEN 0 ELSE c[one(s)] + f[s \ {one(s)}]
      BY <1>5 DEF IsSum
    <3>5. g[s] = IF s = {} THEN 0 ELSE c[one(s)] + g[s \ {one(s)}]
      BY <1>4 DEF IsSum
    <3>6. s # {} /\ f[s \ {one(s)}] # g[s \ {one(s)}]
      BY <3>4, <3>5
    <3>7. s \ {one(s)} \in Bad
      BY <3>6
    <3>8. one(s) \in s /\ IsFiniteSet(s)
      BY <1>1, <3>6
    <3>9. Cardinality(s \ {one(s)}) = Cardinality(s) - 1 /\ Cardinality(s) \in Nat
      BY <3>8, FS_RemoveElement, FS_CardinalityType
    <3>10. Cardinality(s \ {one(s)}) \in T
      BY <3>7
    <3> HIDE DEF T
    <3> QED BY <3>2, <3>3, <3>9, <3>10
  <2> HIDE DEF g
  <2> QED BY <2>1
<1>6. SumFunctionOnSet(c, S) = (CHOOSE f : IsSum(f, c, S))[S]
  BY DEF SumFunctionOnSet, FoldFunctionOnSet, MapThenFoldSet, IsSum
<1>7. IsSum((CHOOSE f : IsSum(f, c, S)), c, S)
  BY <1>4
<1>8. g[S] = count(S)
  OBVIOUS
<1> HIDE DEF g
<1> QED BY <1>5, <1>6, <1>7, <1>8 DEF count

\* One more number.
LEMMA SumAdd ==
    ASSUME NEW S, IsFiniteSet(S), NEW w \in Nat, NEW c, NEW x, x \notin S,
           \A y \in S \cup {x} : c[y] \in 0..w
    PROVE  SumFunctionOnSet(c, S \cup {x}) = SumFunctionOnSet(c, S) + c[x]
<1>1. IsFiniteSet(S \cup {x})
  BY FS_AddElement
<1>2. SumFunctionOnSet(c, S \cup {x}) = Cardinality(Coins(c, S \cup {x}, w))
  BY <1>1, SumOfCoins
<1>3. SumFunctionOnSet(c, S) = Cardinality(Coins(c, S, w))
  BY SumOfCoins
<1> QED BY <1>2, <1>3, CoinsAdd

\* The same numbers have the same sum.
LEMMA SumSame ==
    ASSUME NEW S, IsFiniteSet(S), NEW w \in Nat, NEW c, NEW d,
           \A y \in S : c[y] \in 0..w /\ d[y] = c[y]
    PROVE  SumFunctionOnSet(d, S) = SumFunctionOnSet(c, S) /\ SumFunctionOnSet(c, S) \in Nat
<1>1. Coins(d, S, w) = Coins(c, S, w)
  BY DEF Coins
<1> QED BY <1>1, SumOfCoins, CoinsFinite

\* No numbers have the sum 0.
LEMMA SumNone ==
    ASSUME NEW c
    PROVE  SumFunctionOnSet(c, {}) = 0
<1>1. SumFunctionOnSet(c, {}) = Cardinality(Coins(c, {}, 0))
  BY FS_EmptySet, SumOfCoins
<1>2. Coins(c, {}, 0) = {}
  BY DEF Coins
<1> QED BY <1>1, <1>2, FS_EmptySet
==============================================================================
