-------------------------------- MODULE Sums --------------------------------
(***************************************************************************)
(* Lemmas about the sums the ledgers are compared with (SumFunction of the *)
(* community modules): what a sum becomes when one of its terms changes,   *)
(* and that the order its terms are added in does not matter; and about    *)
(* functions computed step by step, as the loops of the code compute.      *)
(*                                                                         *)
(* A sum is a fold, which is a recursive function over the subsets of the  *)
(* domain.  Induction is by a least counterexample: a set of numbers that  *)
(* is not empty has a least one, because < on Nat is well founded.         *)
(***************************************************************************)
EXTENDS Integers, Functions, FiniteSetTheorems, WellFoundedInduction, TLAPS

\* A set of numbers that is not empty has a least element.
LEMMA LeastNat ==
    ASSUME NEW T \in SUBSET Nat, T # {}
    PROVE  \E n \in T : \A k \in T : n <= k
<1> DEFINE R == OpToRel(<, Nat)
<1>1. IsWellFoundedOn(R, Nat)
  BY NatLessThanWellFounded
<1>2. \A k, n \in Nat : k < n => <<k, n>> \in R
  BY DEF OpToRel
<1> HIDE DEF R
<1>3. PICK n \in T : \A k \in T : ~ (<<k, n>> \in R)
  BY <1>1, WFMin
<1>4. \A k \in T : ~(k < n)
  BY <1>2, <1>3
<1> QED
  BY <1>4

\* Among subsets of a finite set there is one from which no element can be taken
\* away without leaving them.
LEMMA LeastSubset ==
    ASSUME NEW S, IsFiniteSet(S), NEW B \in SUBSET (SUBSET S), B # {}
    PROVE  \E s \in B : \A x \in s : s \ {x} \notin B
<1> DEFINE N == {Cardinality(s) : s \in B}
<1>1. \A s \in SUBSET S : IsFiniteSet(s) /\ Cardinality(s) \in Nat
  BY FS_Subset, FS_CardinalityType
<1>2. N \in SUBSET Nat /\ N # {}
  BY <1>1
<1>3. PICK n \in N : \A k \in N : n <= k
  BY <1>2, LeastNat
<1>4. PICK s \in B : Cardinality(s) = n
  BY <1>3
<1>5. ASSUME NEW x \in s, s \ {x} \in B PROVE FALSE
  <2>1. Cardinality(s \ {x}) = Cardinality(s) - 1
    BY <1>1, <1>5, FS_RemoveElement
  <2>2. n <= Cardinality(s \ {x})
    BY <1>3, <1>5
  <2> QED
    BY <2>1, <2>2, <1>1, <1>4
<1> QED
  BY <1>5

\* A set of numbers of which none exceeds n has a greatest element.
LEMMA GreatestUpTo ==
    ASSUME NEW n \in Nat, NEW T \in SUBSET (1..n), T # {}
    PROVE  \E k \in T : \A m \in T : k >= m
<1> DEFINE D == {n - k : k \in T}
<1>1. D \in SUBSET Nat /\ D # {}
  <2>1. \A k \in T : n - k \in Nat
    OBVIOUS
  <2> QED
    BY <2>1
<1>2. PICK d \in D : \A e \in D : d <= e
  BY <1>1, LeastNat
<1>3. PICK k \in T : d = n - k
  BY <1>2
<1>4. \A m \in T : n - k <= n - m
  BY <1>2, <1>3
<1> QED
  BY <1>4

(***************************************************************************)
(* Functions computed step by step.                                        *)
(***************************************************************************)
Steps(next, n, V) == next \in [1..n -> [V -> V]]

Follows(f, first, next, n, V) ==
    f \in [0..n -> V] /\ f[0] = first /\ \A i \in 1..n : f[i] = next[i][f[i - 1]]

\* What is computed step by step, each from the one before, is a function.
LEMMA StepByStep ==
    ASSUME NEW n \in Nat, NEW V, NEW first \in V, NEW next, Steps(next, n, V)
    PROVE  \E f : Follows(f, first, next, n, V)
<1> USE DEF Steps, Follows
<1> DEFINE Upto(k, f) == f[0] = first /\ \A i \in 1..k : f[i] = next[i][f[i - 1]]
           B == {k \in 0..n : ~ \E f \in [0..k -> V] : Upto(k, f)}
<1>1. SUFFICES ASSUME B # {} PROVE FALSE
  OBVIOUS
<1>2. B \in SUBSET Nat
  OBVIOUS
<1>3. PICK k \in B : \A m \in B : k <= m
  BY <1>1, <1>2, LeastNat
<1>4. k \in 0..n /\ ~ \E f \in [0..k -> V] : Upto(k, f)
  BY <1>3
<1>5. CASE k = 0
  <2> DEFINE f == [i \in 0..0 |-> first]
  <2>1. f \in [0..0 -> V] /\ Upto(0, f)
    OBVIOUS
  <2> QED
    BY <2>1, <1>4, <1>5
<1>6. CASE k > 0
  <2>1. k - 1 \in 0..n /\ k - 1 \notin B
    <3>1. k - 1 \in 0..n /\ ~(k <= k - 1)
      BY <1>4, <1>6
    <3> HIDE DEF B
    <3> QED
      BY <3>1, <1>3
  <2>2. PICK g \in [0..(k - 1) -> V] : Upto(k - 1, g)
    BY <2>1
  <2> DEFINE f == [i \in 0..k |-> IF i = k THEN next[k][g[k - 1]] ELSE g[i]]
  <2>3. k \in 1..n /\ k - 1 \in 0..(k - 1) /\ k - 1 # k /\ k - 1 \in 0..k /\ 0 # k
    BY <1>4, <1>6
  <2>4. g[k - 1] \in V /\ next[k] \in [V -> V]
    BY <2>3
  <2>5. f \in [0..k -> V]
    <3>1. next[k][g[k - 1]] \in V
      BY <2>4
    <3>2. \A i \in 0..k : i # k => i \in 0..(k - 1)
      BY <1>4
    <3> QED
      BY <3>1, <3>2
  <2>6. f[k] = next[k][f[k - 1]] /\ f[0] = first
    BY <2>3, <2>2, <1>4
  <2>7. ASSUME NEW i \in 1..k, i # k PROVE f[i] = next[i][f[i - 1]]
    <3>1. i \in 1..(k - 1) /\ i \in 0..k /\ i - 1 \in 0..k /\ i - 1 # k
      BY <2>7, <1>4
    <3> QED
      BY <3>1, <2>2, <2>7
  <2> HIDE DEF f
  <2> QED
    BY <2>5, <2>6, <2>7, <1>4
<1> QED
  BY <1>4, <1>5, <1>6

(***************************************************************************)
(* The sums of a function over the subsets of its domain.                  *)
(***************************************************************************)
Pick(s) == CHOOSE x \in s : TRUE

AreSums(f, sums) ==
    sums = [s \in SUBSET DOMAIN f |->
              IF s = {} THEN 0 ELSE f[Pick(s)] + sums[s \ {Pick(s)}]]

SumsOf(f) == CHOOSE sums : AreSums(f, sums)

\* The library's sum is the one over the whole domain.
LEMMA SumIsLast ==
    ASSUME NEW f
    PROVE  SumFunction(f) = SumsOf(f)[DOMAIN f]
BY DEF SumFunction, SumFunctionOnSet, FoldFunctionOnSet, MapThenFoldSet, AreSums, SumsOf,
       Pick

\* Sums of f over the subsets in U, which has with s also what s was made from.
AreSumsOn(f, U, sums) ==
    \A s \in U : sums[s] = IF s = {} THEN 0 ELSE f[Pick(s)] + sums[s \ {Pick(s)}]

SubsetsUpTo(S, n) == {s \in SUBSET S : Cardinality(s) <= n}

\* Up to every size there are sums.
LEMMA SumsUpTo ==
    ASSUME NEW S, IsFiniteSet(S), NEW f \in [S -> Int], NEW n \in Nat
    PROVE  \E g \in [SubsetsUpTo(S, n) -> Int] : AreSumsOn(f, SubsetsUpTo(S, n), g)
<1> USE DEF SubsetsUpTo, AreSumsOn
<1> DEFINE Upto(k) == SubsetsUpTo(S, k)
           Sums(k, g) == AreSumsOn(f, Upto(k), g)
           B == {k \in Nat : ~ \E g \in [Upto(k) -> Int] : Sums(k, g)}
<1>0. \A s \in SUBSET S : IsFiniteSet(s) /\ Cardinality(s) \in Nat
  BY FS_Subset, FS_CardinalityType
<1>00. \A s \in SUBSET S : s # {} => /\ Pick(s) \in s
                                     /\ s \ {Pick(s)} \in SUBSET S
                                     /\ Cardinality(s \ {Pick(s)}) = Cardinality(s) - 1
  BY <1>0, FS_RemoveElement DEF Pick
<1>000. \A s \in SUBSET S : Cardinality(s) <= 0 <=> s = {}
  BY <1>0, FS_EmptySet
<1>1. SUFFICES ASSUME B # {} PROVE FALSE
  OBVIOUS
<1>2. PICK k \in B : \A m \in B : k <= m
  BY LeastNat, <1>1
<1>3. CASE k = 0
  <2> DEFINE g == [s \in Upto(0) |-> 0]
  <2>1. g \in [Upto(0) -> Int] /\ Sums(0, g)
    BY <1>000
  <2> QED
    BY <2>1, <1>3, <1>2
<1>4. CASE k > 0
  <2>0. k \in Nat /\ k - 1 \in Nat
    BY <1>4
  <2>1. k - 1 \in Nat /\ k - 1 \notin B
    <3> HIDE DEF B
    <3> QED
      BY <2>0, <1>2
  <2>2. PICK g \in [Upto(k - 1) -> Int] : Sums(k - 1, g)
    BY <2>1
  <2> DEFINE h == [s \in Upto(k) |-> IF s = {} THEN 0 ELSE f[Pick(s)] + g[s \ {Pick(s)}]]
  <2>3. \A s \in Upto(k) : s # {} => s \ {Pick(s)} \in Upto(k - 1) /\ f[Pick(s)] \in Int
    BY <1>0, <1>00, <2>1
  <2>4. h \in [Upto(k) -> Int]
    BY <2>3
  <2>5. \A s \in Upto(k - 1) : s \in Upto(k) /\ h[s] = g[s]
    BY <2>2, <1>0, <1>00, <2>1
  <2>6. Sums(k, h)
    <3>1. SUFFICES ASSUME NEW s \in Upto(k)
                   PROVE  h[s] = IF s = {} THEN 0 ELSE f[Pick(s)] + h[s \ {Pick(s)}]
      OBVIOUS
    <3>2. h[s] = IF s = {} THEN 0 ELSE f[Pick(s)] + g[s \ {Pick(s)}]
      OBVIOUS
    <3>3. s # {} => h[s \ {Pick(s)}] = g[s \ {Pick(s)}]
      BY <2>3, <2>5
    <3> QED
      BY <3>2, <3>3
  <2> HIDE DEF h, Sums, Upto
  <2>7. k \notin B
    BY <2>4, <2>6
  <2> QED
    BY <2>7, <1>2
<1> QED
  BY <1>2, <1>3, <1>4

\* So there are sums over all subsets of a finite domain, and SumsOf(f) is theirs.
LEMMA SumsOfStep ==
    ASSUME NEW S, IsFiniteSet(S), NEW f \in [S -> Int]
    PROVE  \A s \in SUBSET S :
              SumsOf(f)[s] = IF s = {} THEN 0 ELSE f[Pick(s)] + SumsOf(f)[s \ {Pick(s)}]
<1>1. \A s \in SUBSET S : IsFiniteSet(s) /\ Cardinality(s) <= Cardinality(S)
  BY FS_Subset
<1>2. Cardinality(S) \in Nat /\ SubsetsUpTo(S, Cardinality(S)) = SUBSET S
  BY <1>1, FS_CardinalityType DEF SubsetsUpTo
<1>3. \E g \in [SubsetsUpTo(S, Cardinality(S)) -> Int] :
         AreSumsOn(f, SubsetsUpTo(S, Cardinality(S)), g)
  BY <1>2, SumsUpTo
<1>9. PICK g \in [SUBSET S -> Int] : AreSumsOn(f, SUBSET S, g)
  BY <1>2, <1>3
<1>4. DOMAIN f = S
  OBVIOUS
<1>5. AreSums(f, g)
  BY <1>9, <1>4 DEF AreSums, AreSumsOn
<1>6. AreSums(f, SumsOf(f))
  BY <1>5 DEF SumsOf
<1> QED
  BY <1>4, <1>6 DEF AreSums

\* A sum of integers is an integer.
LEMMA SumsOfType ==
    ASSUME NEW S, IsFiniteSet(S), NEW f \in [S -> Int]
    PROVE  \A s \in SUBSET S : SumsOf(f)[s] \in Int
<1> DEFINE B == {s \in SUBSET S : SumsOf(f)[s] \notin Int}
<1>1. SUFFICES ASSUME B # {} PROVE FALSE
  OBVIOUS
<1>2. PICK s \in B : \A x \in s : s \ {x} \notin B
  BY <1>1, LeastSubset
<1>3. s \in SUBSET S /\ SumsOf(f)[s] \notin Int
  BY <1>2
<1>4. SumsOf(f)[s] = IF s = {} THEN 0 ELSE f[Pick(s)] + SumsOf(f)[s \ {Pick(s)}]
  BY <1>3, SumsOfStep
<1> HIDE DEF B
<1>5. s # {} /\ Pick(s) \in s
  BY <1>3, <1>4 DEF Pick
<1>6. SumsOf(f)[s \ {Pick(s)}] \in Int /\ f[Pick(s)] \in Int
  BY <1>2, <1>3, <1>5 DEF B
<1> QED
  BY <1>3, <1>4, <1>5, <1>6

\* Any term may be added last.
LEMMA SumsOfRemove ==
    ASSUME NEW S, IsFiniteSet(S), NEW f \in [S -> Int]
    PROVE  \A s \in SUBSET S : \A y \in s : SumsOf(f)[s] = f[y] + SumsOf(f)[s \ {y}]
<1> DEFINE Sum == SumsOf(f)
           B == {s \in SUBSET S : \E y \in s : Sum[s] # f[y] + Sum[s \ {y}]}
<1>0. \A s \in SUBSET S : Sum[s] \in Int
  BY SumsOfType
<1>00. \A s \in SUBSET S : s # {} => /\ Pick(s) \in s
                                     /\ Sum[s] = f[Pick(s)] + Sum[s \ {Pick(s)}]
  <2>1. \A s \in SUBSET S : s # {} => Pick(s) \in s
    BY DEF Pick
  <2> QED
    BY <2>1, SumsOfStep
<1> HIDE DEF Sum
<1>1. SUFFICES ASSUME B # {} PROVE FALSE
  BY DEF Sum
<1>2. PICK s \in B : \A x \in s : s \ {x} \notin B
  BY <1>1, LeastSubset
<1>3. PICK y \in s : Sum[s] # f[y] + Sum[s \ {y}]
  BY <1>2
<1> DEFINE x == Pick(s)
<1>4. x \in s /\ Sum[s] = f[x] + Sum[s \ {x}]
  BY <1>2, <1>3, <1>00
<1> HIDE DEF x
<1>5. x # y
  BY <1>3, <1>4
<1>6. Sum[s \ {x}] = f[y] + Sum[(s \ {x}) \ {y}]
  BY <1>2, <1>4, <1>5
<1>7. Sum[s \ {y}] = f[x] + Sum[(s \ {y}) \ {x}]
  BY <1>2, <1>3, <1>4, <1>5
<1>8. (s \ {x}) \ {y} = (s \ {y}) \ {x}
  OBVIOUS
<1>9. /\ f[x] \in Int /\ f[y] \in Int /\ Sum[(s \ {x}) \ {y}] \in Int
      /\ Sum[s \ {x}] \in Int /\ Sum[s \ {y}] \in Int
  <2>1. s \in SUBSET S
    BY <1>2
  <2> HIDE DEF B
  <2> QED
    BY <2>1, <1>0, <1>3, <1>4
<1> HIDE DEF B
<1>10. f[x] + (f[y] + Sum[(s \ {x}) \ {y}]) = f[y] + (f[x] + Sum[(s \ {x}) \ {y}])
  BY <1>9
<1>11. Sum[s] = f[y] + Sum[s \ {y}]
  BY <1>4, <1>6, <1>7, <1>8, <1>10
<1> QED
  BY <1>3, <1>11

\* Two functions have the same sum over a set they agree on.
LEMMA SumsOfSame ==
    ASSUME NEW S, IsFiniteSet(S), NEW f \in [S -> Int],
           NEW T, IsFiniteSet(T), NEW g \in [T -> Int],
           NEW U \in SUBSET (S \cap T), \A x \in U : f[x] = g[x]
    PROVE  SumsOf(f)[U] = SumsOf(g)[U]
<1> DEFINE B == {s \in SUBSET U : SumsOf(f)[s] # SumsOf(g)[s]}
<1>0. IsFiniteSet(U)
  BY FS_Subset
<1>1. SUFFICES ASSUME B # {} PROVE FALSE
  OBVIOUS
<1>2. PICK s \in B : \A x \in s : s \ {x} \notin B
  BY <1>0, <1>1, LeastSubset
<1>3. s \in SUBSET U /\ SumsOf(f)[s] # SumsOf(g)[s]
  BY <1>2
<1>4. s \in SUBSET S /\ s \in SUBSET T
  BY <1>3
<1>5. SumsOf(f)[s] = IF s = {} THEN 0 ELSE f[Pick(s)] + SumsOf(f)[s \ {Pick(s)}]
  BY <1>4, SumsOfStep
<1>6. SumsOf(g)[s] = IF s = {} THEN 0 ELSE g[Pick(s)] + SumsOf(g)[s \ {Pick(s)}]
  BY <1>4, SumsOfStep
<1>7. s # {} /\ Pick(s) \in s
  BY <1>3, <1>5, <1>6 DEF Pick
<1>8. SumsOf(f)[s \ {Pick(s)}] = SumsOf(g)[s \ {Pick(s)}] /\ f[Pick(s)] = g[Pick(s)]
  BY <1>2, <1>3, <1>7
<1> HIDE DEF B
<1> QED
  BY <1>3, <1>5, <1>6, <1>7, <1>8

\* The sum over two sets that share nothing is the sum of their sums.
LEMMA SumsOfUnion ==
    ASSUME NEW S, IsFiniteSet(S), NEW f \in [S -> Int],
           NEW U \in SUBSET S, NEW V \in SUBSET S, U \cap V = {},
           NEW W, W = U \cup V
    PROVE  SumsOf(f)[W] = SumsOf(f)[U] + SumsOf(f)[V]
<1>0. SUFFICES SumsOf(f)[U \cup V] = SumsOf(f)[U] + SumsOf(f)[V]
  OBVIOUS
<1>1. \A s \in SUBSET S : SumsOf(f)[s] \in Int
  BY SumsOfType
<1>2. ASSUME NEW s \in SUBSET S, NEW y \in s
      PROVE  SumsOf(f)[s] = f[y] + SumsOf(f)[s \ {y}]
  BY SumsOfRemove
<1>3. SumsOf(f)[{}] = 0
  BY SumsOfStep
<1> DEFINE Sum == SumsOf(f)
           B == {s \in SUBSET V : Sum[U \cup s] # Sum[U] + Sum[s]}
<1>4. /\ \A s \in SUBSET S : Sum[s] \in Int
      /\ \A s \in SUBSET S : \A y \in s : Sum[s] = f[y] + Sum[s \ {y}]
      /\ Sum[{}] = 0
  BY <1>1, <1>2, <1>3
<1> HIDE DEF Sum
<1>5. SUFFICES ASSUME B # {} PROVE FALSE
  BY DEF Sum
<1>6. IsFiniteSet(V)
  BY FS_Subset
<1>7. PICK s \in B : \A x \in s : s \ {x} \notin B
  BY <1>5, <1>6, LeastSubset
<1>8. s \in SUBSET V /\ Sum[U \cup s] # Sum[U] + Sum[s]
  BY <1>7
<1>9. ASSUME NEW y \in s PROVE Sum[U \cup (s \ {y})] = Sum[U] + Sum[s \ {y}]
  BY <1>7, <1>8
<1> HIDE DEF B
<1>10. CASE s = {}
  <2>1. U \cup s = U /\ Sum[s] = 0
    BY <1>4, <1>10
  <2>2. Sum[U] \in Int
    BY <1>4
  <2>3. Sum[U \cup s] = Sum[U]
    BY ONLY <2>1
  <2>4. Sum[U] = Sum[U] + Sum[s]
    BY ONLY <2>1, <2>2
  <2> QED
    BY ONLY <2>3, <2>4, <1>8
<1>11. ASSUME NEW y \in s PROVE FALSE
  <2> DEFINE u == Sum[U]
             r == Sum[s \ {y}]
  <2>1. (U \cup s) \ {y} = U \cup (s \ {y}) /\ y \in U \cup s
    BY <1>8
  <2>2. Sum[U \cup s] = f[y] + (u + r)
    <3>1. Sum[U \cup s] = f[y] + Sum[(U \cup s) \ {y}]
      BY <2>1, <1>4, <1>8
    <3>2. Sum[U \cup (s \ {y})] = u + r
      BY <1>9
    <3> QED
      BY ONLY <3>1, <3>2, <2>1
  <2>3. Sum[s] = f[y] + r
    BY <1>4, <1>8
  <2>4. f[y] \in Int /\ u \in Int /\ r \in Int
    BY <1>4, <1>8
  <2>5. Sum[U \cup s] # u + Sum[s]
    BY <1>8
  <2> QED
    BY ONLY <2>2, <2>3, <2>4, <2>5
<1> QED
  BY <1>10, <1>11

\* Terms may be renamed, one to one.
LEMMA SumsOfImage ==
    ASSUME NEW S, IsFiniteSet(S), NEW f \in [S -> Int],
           NEW T, IsFiniteSet(T), NEW g \in [T -> Int],
           NEW U \in SUBSET S, NEW h \in [U -> T],
           \A x, y \in U : h[x] = h[y] => x = y,
           \A x \in U : f[x] = g[h[x]]
    PROVE  SumsOf(f)[U] = SumsOf(g)[{h[x] : x \in U}]
<1> DEFINE Image(s) == {h[x] : x \in s}
           B == {s \in SUBSET U : SumsOf(f)[s] # SumsOf(g)[Image(s)]}
<1>1. SUFFICES ASSUME B # {} PROVE FALSE
  OBVIOUS
<1>2. IsFiniteSet(U)
  BY FS_Subset
<1>3. PICK s \in B : \A x \in s : s \ {x} \notin B
  BY <1>1, <1>2, LeastSubset
<1>4. s \in SUBSET U /\ SumsOf(f)[s] # SumsOf(g)[Image(s)]
  BY <1>3
<1>5. s # {}
  <2>1. Image({}) = {} /\ SumsOf(f)[{}] = 0 /\ SumsOf(g)[{}] = 0
    BY SumsOfStep
  <2> QED
    BY <2>1, <1>4
<1>6. PICK y \in s : TRUE
  BY <1>5
<1>7. SumsOf(f)[s \ {y}] = SumsOf(g)[Image(s \ {y})]
  BY <1>3, <1>4, <1>6
<1>8. h[y] \in Image(s) /\ Image(s) \ {h[y]} = Image(s \ {y})
  BY <1>4, <1>6
<1>9. Image(s) \in SUBSET T
  BY <1>4
<1> HIDE DEF B, Image
<1>10. SumsOf(f)[s] = f[y] + SumsOf(f)[s \ {y}]
  BY <1>4, <1>6, SumsOfRemove
<1>11. ASSUME NEW r \in SUBSET T, NEW z \in r
       PROVE  SumsOf(g)[r] = g[z] + SumsOf(g)[r \ {z}]
  BY SumsOfRemove
<1>12. SumsOf(g)[Image(s)] = g[h[y]] + SumsOf(g)[Image(s) \ {h[y]}]
  BY <1>8, <1>9, <1>11
<1>13. f[y] = g[h[y]]
  BY <1>4, <1>6
<1> QED
  BY <1>4, <1>7, <1>8, <1>10, <1>12, <1>13

(***************************************************************************)
(* The same lemmas in terms the provers can match: a sum over a part of    *)
(* the domain, with what is asked of the function and of the part named.   *)
(***************************************************************************)
Summable(f, S) == IsFiniteSet(S) /\ f \in [S -> Int]
Part(U, S) == U \subseteq S
Without(U, x) == U \ {x}
SumOver(f, U) == SumsOf(f)[U]

\* One term fewer.
LEMMA OverWithout ==
    ASSUME NEW S, NEW f, Summable(f, S), NEW U, Part(U, S), NEW x \in U
    PROVE  SumOver(f, U) = f[x] + SumOver(f, Without(U, x))
<1>1. IsFiniteSet(S) /\ f \in [S -> Int] /\ U \in SUBSET S
  BY DEF Summable, Part
<1>2. SumsOf(f)[U] = f[x] + SumsOf(f)[U \ {x}]
  BY <1>1, SumsOfRemove
<1> QED
  BY <1>2 DEF SumOver, Without

\* The same terms.
LEMMA OverSame ==
    ASSUME NEW S, NEW f, Summable(f, S), NEW T, NEW g, Summable(g, T),
           NEW U, Part(U, S), Part(U, T), \A x \in U : f[x] = g[x]
    PROVE  SumOver(f, U) = SumOver(g, U)
<1>1. IsFiniteSet(S) /\ f \in [S -> Int] /\ IsFiniteSet(T) /\ g \in [T -> Int]
  BY DEF Summable
<1>2. U \in SUBSET (S \cap T)
  BY DEF Part
<1>3. SumsOf(f)[U] = SumsOf(g)[U]
  BY <1>1, <1>2, SumsOfSame
<1> QED
  BY <1>3 DEF SumOver

\* Two parts.
LEMMA OverUnion ==
    ASSUME NEW S, NEW f, Summable(f, S), NEW U, Part(U, S), NEW V, Part(V, S),
           U \cap V = {}, NEW W, W = U \cup V
    PROVE  SumOver(f, W) = SumOver(f, U) + SumOver(f, V)
<1>1. IsFiniteSet(S) /\ f \in [S -> Int]
  BY DEF Summable
<1>2. U \in SUBSET S /\ V \in SUBSET S
  BY DEF Part
<1>3. SumsOf(f)[W] = SumsOf(f)[U] + SumsOf(f)[V]
  BY <1>1, <1>2, SumsOfUnion
<1> QED
  BY <1>3 DEF SumOver

\* Terms renamed.
LEMMA OverImage ==
    ASSUME NEW S, NEW f, Summable(f, S), NEW T, NEW g, Summable(g, T),
           NEW U, Part(U, S), NEW h \in [U -> T],
           \A x, y \in U : h[x] = h[y] => x = y,
           \A x \in U : f[x] = g[h[x]],
           NEW V, V = {h[x] : x \in U}
    PROVE  SumOver(f, U) = SumOver(g, V)
<1>1. IsFiniteSet(S) /\ f \in [S -> Int] /\ IsFiniteSet(T) /\ g \in [T -> Int]
  BY DEF Summable
<1>2. U \in SUBSET S
  BY DEF Part
<1>3. SumsOf(f)[U] = SumsOf(g)[{h[x] : x \in U}]
  BY <1>1, <1>2, SumsOfImage
<1> QED
  BY <1>3 DEF SumOver

(***************************************************************************)
(* What the proofs about the ledgers use.                                  *)
(***************************************************************************)

\* A sum is an integer.
LEMMA SumType ==
    ASSUME NEW S, IsFiniteSet(S), NEW f \in [S -> Int]
    PROVE  SumFunction(f) \in Int
BY SumIsLast, SumsOfType

\* When one term changes, the sum changes by as much.
LEMMA SumChange ==
    ASSUME NEW S, IsFiniteSet(S), NEW f \in [S -> Int], NEW x \in S, NEW v \in Int
    PROVE  SumFunction([f EXCEPT ![x] = v]) = SumFunction(f) - f[x] + v
<1> DEFINE g == [f EXCEPT ![x] = v]
<1>1. g \in [S -> Int] /\ DOMAIN g = S /\ DOMAIN f = S /\ g[x] = v
  OBVIOUS
<1>2. \A y \in S \ {x} : f[y] = g[y]
  OBVIOUS
<1> HIDE DEF g
<1>3. SumFunction(f) = SumsOf(f)[S] /\ SumFunction(g) = SumsOf(g)[S]
  BY <1>1, SumIsLast
<1>4. SumsOf(f)[S] = f[x] + SumsOf(f)[S \ {x}]
  BY SumsOfRemove
<1>5. SumsOf(g)[S] = g[x] + SumsOf(g)[S \ {x}]
  BY <1>1, SumsOfRemove
<1>6. SumsOf(f)[S \ {x}] = SumsOf(g)[S \ {x}]
  <2>1. S \ {x} \in SUBSET (S \cap S)
    OBVIOUS
  <2> QED
    BY <2>1, <1>1, <1>2, SumsOfSame
<1>7. SumsOf(f)[S \ {x}] \in Int /\ f[x] \in Int
  BY SumsOfType
<1>8. SumFunction(g) = SumFunction(f) - f[x] + v
  BY <1>1, <1>3, <1>4, <1>5, <1>6, <1>7
<1> QED
  BY <1>8 DEF g

\* A sum of zeroes is zero.
LEMMA SumZero ==
    ASSUME NEW S, IsFiniteSet(S), NEW f \in [S -> Int], \A x \in S : f[x] = 0
    PROVE  SumFunction(f) = 0
<1> DEFINE B == {s \in SUBSET S : SumsOf(f)[s] # 0}
<1>1. SUFFICES ASSUME B # {} PROVE FALSE
  BY SumIsLast
<1>2. PICK s \in B : \A x \in s : s \ {x} \notin B
  BY <1>1, LeastSubset
<1>3. s \in SUBSET S /\ SumsOf(f)[s] # 0
  BY <1>2
<1>4. SumsOf(f)[s] = IF s = {} THEN 0 ELSE f[Pick(s)] + SumsOf(f)[s \ {Pick(s)}]
  BY <1>3, SumsOfStep
<1>5. s # {} /\ Pick(s) \in s
  BY <1>3, <1>4 DEF Pick
<1>6. SumsOf(f)[s \ {Pick(s)}] = 0 /\ f[Pick(s)] = 0
  BY <1>2, <1>3, <1>5
<1> HIDE DEF B
<1> QED
  BY <1>3, <1>4, <1>5, <1>6

\* A sum of numbers is at least each of its terms, and a number.
LEMMA SumBounds ==
    ASSUME NEW S, IsFiniteSet(S), NEW f \in [S -> Nat]
    PROVE  SumFunction(f) \in Nat /\ \A x \in S : f[x] <= SumFunction(f)
<1>0. f \in [S -> Int]
  OBVIOUS
<1> DEFINE B == {s \in SUBSET S : ~(SumsOf(f)[s] >= 0)}
<1>1. ASSUME B # {} PROVE FALSE
  <2>1. PICK s \in B : \A x \in s : s \ {x} \notin B
    BY <1>1, LeastSubset
  <2>2. s # {} => Pick(s) \in s
    BY DEF Pick
  <2>3. SumsOf(f)[s] = IF s = {} THEN 0 ELSE f[Pick(s)] + SumsOf(f)[s \ {Pick(s)}]
    BY <1>0, <2>1, SumsOfStep
  <2>4. s # {} => SumsOf(f)[s \ {Pick(s)}] \in Int /\ SumsOf(f)[s \ {Pick(s)}] >= 0
    BY <1>0, <2>1, <2>2, SumsOfType
  <2>5. s # {} => f[Pick(s)] \in Nat
    BY <2>1, <2>2
  <2> QED
    BY <2>1, <2>3, <2>4, <2>5
<1>2. \A s \in SUBSET S : SumsOf(f)[s] \in Int /\ SumsOf(f)[s] >= 0
  BY <1>0, <1>1, SumsOfType
<1>3. SumFunction(f) = SumsOf(f)[S]
  BY SumIsLast
<1>4. ASSUME NEW x \in S PROVE f[x] <= SumFunction(f)
  <2>1. SumsOf(f)[S] = f[x] + SumsOf(f)[S \ {x}]
    BY <1>0, SumsOfRemove
  <2> QED
    BY <2>1, <1>2, <1>3
<1> QED
  BY <1>2, <1>3, <1>4
=============================================================================
