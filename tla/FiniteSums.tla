---------------------------- MODULE FiniteSums -----------------------------
(***************************************************************************)
(* Induction and recursion over numbers and finite sets, and what the      *)
(* folds of the community modules compute: sums and products over a finite *)
(* set, one element at a time.                                             *)
(***************************************************************************)
EXTENDS Integers, Functions, FiniteSetTheorems, WellFoundedInduction, TLAPS

(* Every non-empty set of numbers has a least element.                     *)
LEMMA LeastNumber ==
  ASSUME NEW T \in SUBSET Nat, T # {}
  PROVE  \E n \in T : \A m \in T : n <= m
<1> DEFINE R == OpToRel(<, Nat)
<1>1. IsWellFoundedOn(R, Nat)
  BY NatLessThanWellFounded
<1>2. \A x, y \in Nat : <<x, y>> \in R <=> x < y
  BY DEF OpToRel
<1> HIDE DEF R
<1>3. PICK n \in T : \A y \in T : ~ (<<y, n>> \in R)
  BY <1>1, WFMin
<1>4. \A m \in T : ~(m < n)
  BY <1>2, <1>3
<1>5. n \in Nat /\ \A m \in T : m \in Nat
  OBVIOUS
<1> QED
  BY <1>4, <1>5

(* Induction over the numbers of a set.                                    *)
LEMMA NumberInduction ==
  ASSUME NEW T \in SUBSET Nat, 0 \in T, \A n \in T : n + 1 \in T
  PROVE  T = Nat
<1> SUFFICES ASSUME T # Nat PROVE FALSE
  OBVIOUS
<1>1. Nat \ T # {} /\ Nat \ T \in SUBSET Nat
  OBVIOUS
<1>2. PICK n \in Nat \ T : \A m \in Nat \ T : n <= m
  BY <1>1, LeastNumber
<1>3. n # 0 /\ n - 1 \in Nat /\ n - 1 \in T
  BY <1>2
<1> QED
  BY <1>2, <1>3

Chosen(s) == CHOOSE x \in s : TRUE

LEMMA ChosenIn ==
  ASSUME NEW s, s # {}
  PROVE  Chosen(s) \in s
BY DEF Chosen

(* Induction over the subsets of a finite set, the chosen element last.    *)
LEMMA SubsetInduction ==
  ASSUME NEW S, IsFiniteSet(S), NEW Good, {} \in Good,
         \A T \in SUBSET S : T # {} /\ T \ {Chosen(T)} \in Good => T \in Good
  PROVE  SUBSET S \subseteq Good
<1> DEFINE N == {n \in Nat : \A T \in SUBSET S : Cardinality(T) = n => T \in Good}
<1>1. \A T \in SUBSET S : IsFiniteSet(T) /\ Cardinality(T) \in Nat
  BY FS_Subset, FS_CardinalityType
<1>2. 0 \in N
  BY <1>1, FS_EmptySet
<1>3. ASSUME NEW n \in N
      PROVE  n + 1 \in N
  <2> SUFFICES ASSUME NEW T \in SUBSET S, Cardinality(T) = n + 1
               PROVE  T \in Good
    OBVIOUS
  <2>1. T # {}
    BY <1>1, FS_EmptySet
  <2>2. Chosen(T) \in T
    BY <2>1, ChosenIn
  <2>3. Cardinality(T \ {Chosen(T)}) = n /\ T \ {Chosen(T)} \in SUBSET S
    BY <1>1, <2>2, FS_RemoveElement
  <2> QED
    BY <2>1, <2>3
<1> HIDE DEF N
<1>4. N = Nat
  <2>1. N \in SUBSET Nat
    BY DEF N
  <2> QED
    BY <1>2, <1>3, <2>1, NumberInduction
<1> QED
  BY <1>1, <1>4 DEF N

(* Recursion over the subsets of a finite set, in the order Pick says.     *)
SolvesPicked(h, S, base, Step, Pick) ==
  \A T \in SUBSET S : h[T] = IF T = {} THEN base ELSE Step[T][h[T \ {Pick[T]}]]

LEMMA PickedRecursion ==
  ASSUME NEW S, IsFiniteSet(S), NEW V, NEW base \in V,
         NEW Step \in [SUBSET S -> [V -> V]],
         NEW Pick, \A T \in SUBSET S : T # {} => Pick[T] \in T
  PROVE  \E h \in [SUBSET S -> V] : SolvesPicked(h, S, base, Step, Pick)
<1> DEFINE E(h, T) == IF T = {} THEN base ELSE Step[T][h[T \ {Pick[T]}]]
           N == {n \in Nat : \E h \in [SUBSET S -> V] : \A T \in SUBSET S : Cardinality(T) <= n => h[T] = E(h, T)}
<1>1. \A T \in SUBSET S : IsFiniteSet(T) /\ Cardinality(T) \in Nat
  BY FS_Subset, FS_CardinalityType
<1>2. \A T \in SUBSET S : T # {} => T \ {Pick[T]} \in SUBSET S /\ Cardinality(T \ {Pick[T]}) = Cardinality(T) - 1
  BY <1>1, FS_RemoveElement
<1>3. \A h \in [SUBSET S -> V] : \A T \in SUBSET S : E(h, T) \in V
  BY <1>2
<1>4. 0 \in N
  <2>1. [T \in SUBSET S |-> base] \in [SUBSET S -> V]
    OBVIOUS
  <2>2. \A T \in SUBSET S : Cardinality(T) <= 0 => T = {}
    BY <1>1, FS_EmptySet
  <2> QED
    BY <2>1, <2>2
<1>5. ASSUME NEW n \in N
      PROVE  n + 1 \in N
  <2>0. n \in Nat
    OBVIOUS
  <2>1. PICK h \in [SUBSET S -> V] : \A T \in SUBSET S : Cardinality(T) <= n => h[T] = E(h, T)
    OBVIOUS
  <2> DEFINE k == [T \in SUBSET S |-> E(h, T)]
  <2>2. k \in [SUBSET S -> V]
    BY <1>3
  <2>3. ASSUME NEW T \in SUBSET S, Cardinality(T) <= n + 1
        PROVE  k[T] = E(k, T)
    <3>1. CASE T = {}
      BY <3>1
    <3>2. CASE T # {}
      <4> DEFINE U == T \ {Pick[T]}
      <4>1. U \in SUBSET S /\ Cardinality(U) <= n
        BY <1>1, <1>2, <2>0, <2>3, <3>2
      <4>2. h[U] = k[U]
        BY <2>1, <4>1
      <4> QED
        BY <3>2, <4>2
    <3> QED
      BY <3>1, <3>2
  <2> HIDE DEF k
  <2>4. n + 1 \in Nat
    BY <2>0
  <2> QED
    BY <2>2, <2>3, <2>4
<1> HIDE DEF N
<1>6. N = Nat
  <2>1. N \in SUBSET Nat
    BY DEF N
  <2> QED
    BY <1>4, <1>5, <2>1, NumberInduction
<1>7. PICK h \in [SUBSET S -> V] : \A T \in SUBSET S : Cardinality(T) <= Cardinality(S) => h[T] = E(h, T)
  BY <1>1, <1>6 DEF N
<1>8. \A T \in SUBSET S : Cardinality(T) <= Cardinality(S)
  BY FS_Subset
<1> QED
  BY <1>7, <1>8 DEF SolvesPicked

(* Recursion over the subsets of a finite set, in the order of Chosen.     *)
SolvesRecursion(h, S, base, Step) ==
  \A T \in SUBSET S : h[T] = IF T = {} THEN base ELSE Step[T][h[T \ {Chosen(T)}]]

LEMMA SubsetRecursion ==
  ASSUME NEW S, IsFiniteSet(S), NEW V, NEW base \in V,
         NEW Step \in [SUBSET S -> [V -> V]]
  PROVE  \E h \in [SUBSET S -> V] : SolvesRecursion(h, S, base, Step)
<1> DEFINE Pick == [T \in SUBSET S |-> Chosen(T)]
<1>1. \A T \in SUBSET S : T # {} => Pick[T] \in T
  BY ChosenIn
<1>2. \A T \in SUBSET S : Pick[T] = Chosen(T)
  OBVIOUS
<1> HIDE DEF Pick
<1>3. PICK h \in [SUBSET S -> V] : SolvesPicked(h, S, base, Step, Pick)
  BY <1>1, PickedRecursion
<1>4. ASSUME NEW T \in SUBSET S
      PROVE  h[T] = IF T = {} THEN base ELSE Step[T][h[T \ {Chosen(T)}]]
  BY <1>2, <1>3 DEF SolvesPicked
<1>5. SolvesRecursion(h, S, base, Step)
  BY <1>4 DEF SolvesRecursion
<1> QED
  BY <1>5

-----------------------------------------------------------------------------
(***************************************************************************)
(* Sums and products over a finite set.                                    *)
(***************************************************************************)
ProductOf(f) == FoldFunction(LAMBDA x, y : x * y, 1, f)

(* h gives the sum (product) of f over every subset of S.                  *)
SumsOf(h, f, S) ==
  /\ h \in [SUBSET S -> Int]
  /\ \A T \in SUBSET S : h[T] = IF T = {} THEN 0 ELSE f[Chosen(T)] + h[T \ {Chosen(T)}]

ProductsOf(h, f, S) ==
  /\ h \in [SUBSET S -> Int]
  /\ \A T \in SUBSET S : h[T] = IF T = {} THEN 1 ELSE f[Chosen(T)] * h[T \ {Chosen(T)}]

(* A sum over a finite set is taken one element at a time.           *)
LEMMA SumUnfold ==
  ASSUME NEW S, IsFiniteSet(S), NEW f \in [S -> Int]
  PROVE  \E h : SumsOf(h, f, S) /\ SumFunction(f) = h[S]
<1> DEFINE Step == [T \in SUBSET S |-> [v \in Int |-> IF T = {} THEN 0 ELSE f[Chosen(T)] + v]]
           Rec(h) == [T \in SUBSET S |-> IF T = {} THEN 0
                        ELSE f[CHOOSE x \in T : TRUE] + h[T \ {CHOOSE x \in T : TRUE}]]
           all == CHOOSE h : h = Rec(h)
<1>1. Step \in [SUBSET S -> [Int -> Int]]
  BY ChosenIn
<1>2. PICK h \in [SUBSET S -> Int] : SolvesRecursion(h, S, 0, Step)
  <2> HIDE DEF Step
  <2>1. 0 \in Int
    OBVIOUS
  <2> QED
    BY <1>1, <2>1, SubsetRecursion
<1>3. \A T \in SUBSET S : h[T] = IF T = {} THEN 0 ELSE f[Chosen(T)] + h[T \ {Chosen(T)}]
  BY <1>2 DEF SolvesRecursion
<1>4. h = Rec(h)
  BY <1>3, Zenon DEF Chosen
<1>5. all = Rec(all)
  BY <1>4, Zenon
<1>6. SumFunction(f) = all[S]
  <2>1. DOMAIN f = S
    OBVIOUS
  <2> QED
    BY <2>1, Zenon DEF SumFunction, SumFunctionOnSet, FoldFunctionOnSet, MapThenFoldSet
<1> HIDE DEF all
<1>7. \A T \in SUBSET S : all[T] = IF T = {} THEN 0 ELSE f[Chosen(T)] + all[T \ {Chosen(T)}]
  BY <1>5, Zenon DEF Chosen
<1>8. \A T \in SUBSET S : all[T] = h[T]
  <2> DEFINE Good == {T \in SUBSET S : all[T] = h[T]}
  <2>1. {} \in Good
    BY <1>3, <1>7
  <2>2. ASSUME NEW T \in SUBSET S, T # {}, T \ {Chosen(T)} \in Good
        PROVE  T \in Good
    BY <1>3, <1>7, <2>2
  <2> HIDE DEF Good
  <2>3. SUBSET S \subseteq Good
    BY <2>1, <2>2, SubsetInduction
  <2> QED
    BY <2>3 DEF Good
<1> QED
  BY <1>3, <1>6, <1>8 DEF SumsOf

LEMMA SumType ==
  ASSUME NEW S, IsFiniteSet(S), NEW f \in [S -> Int]
  PROVE  SumFunction(f) \in Int
<1>1. PICK h : SumsOf(h, f, S) /\ SumFunction(f) = h[S]
  BY SumUnfold
<1>2. h \in [SUBSET S -> Int]
  BY <1>1 DEF SumsOf
<1> QED
  BY <1>1, <1>2

(* A product over a finite set is taken one element at a time.       *)
LEMMA ProductUnfold ==
  ASSUME NEW S, IsFiniteSet(S), NEW f \in [S -> Int]
  PROVE  \E h : ProductsOf(h, f, S) /\ ProductOf(f) = h[S]
<1> DEFINE Step == [T \in SUBSET S |-> [v \in Int |-> IF T = {} THEN 1 ELSE f[Chosen(T)] * v]]
           Rec(h) == [T \in SUBSET S |-> IF T = {} THEN 1
                        ELSE f[CHOOSE x \in T : TRUE] * h[T \ {CHOOSE x \in T : TRUE}]]
           all == CHOOSE h : h = Rec(h)
<1>1. Step \in [SUBSET S -> [Int -> Int]]
  BY ChosenIn
<1>2. PICK h \in [SUBSET S -> Int] : SolvesRecursion(h, S, 1, Step)
  <2> HIDE DEF Step
  <2>1. 1 \in Int
    OBVIOUS
  <2> QED
    BY <1>1, <2>1, SubsetRecursion
<1>3. \A T \in SUBSET S : h[T] = IF T = {} THEN 1 ELSE f[Chosen(T)] * h[T \ {Chosen(T)}]
  BY <1>2 DEF SolvesRecursion
<1>4. h = Rec(h)
  BY <1>3, Zenon DEF Chosen
<1>5. all = Rec(all)
  BY <1>4, Zenon
<1>6. ProductOf(f) = all[S]
  <2>1. DOMAIN f = S
    OBVIOUS
  <2> QED
    BY <2>1, Zenon DEF ProductOf, FoldFunction, FoldFunctionOnSet, MapThenFoldSet
<1> HIDE DEF all
<1>7. \A T \in SUBSET S : all[T] = IF T = {} THEN 1 ELSE f[Chosen(T)] * all[T \ {Chosen(T)}]
  BY <1>5, Zenon DEF Chosen
<1>8. \A T \in SUBSET S : all[T] = h[T]
  <2> DEFINE Good == {T \in SUBSET S : all[T] = h[T]}
  <2>1. {} \in Good
    BY <1>3, <1>7
  <2>2. ASSUME NEW T \in SUBSET S, T # {}, T \ {Chosen(T)} \in Good
        PROVE  T \in Good
    BY <1>3, <1>7, <2>2
  <2> HIDE DEF Good
  <2>3. SUBSET S \subseteq Good
    BY <2>1, <2>2, SubsetInduction
  <2> QED
    BY <2>3 DEF Good
<1> QED
  BY <1>3, <1>6, <1>8 DEF ProductsOf

LEMMA ProductType ==
  ASSUME NEW S, IsFiniteSet(S), NEW f \in [S -> Int]
  PROVE  ProductOf(f) \in Int
<1>1. PICK h : ProductsOf(h, f, S) /\ ProductOf(f) = h[S]
  BY ProductUnfold
<1>2. h \in [SUBSET S -> Int]
  BY <1>1 DEF ProductsOf
<1> QED
  BY <1>1, <1>2

(* The sum of pointwise sums.                                              *)
PointwiseSum(k, f, g, S) == \A x \in S : k[x] = f[x] + g[x]

LEMMA SumAdds ==
  ASSUME NEW S, IsFiniteSet(S), NEW f \in [S -> Int], NEW g \in [S -> Int],
         NEW k \in [S -> Int], PointwiseSum(k, f, g, S)
  PROVE  SumFunction(k) = SumFunction(f) + SumFunction(g)
<1>1. PICK hf : SumsOf(hf, f, S) /\ SumFunction(f) = hf[S]
  BY SumUnfold
<1>2. PICK hg : SumsOf(hg, g, S) /\ SumFunction(g) = hg[S]
  BY SumUnfold
<1>3. PICK hk : SumsOf(hk, k, S) /\ SumFunction(k) = hk[S]
  BY SumUnfold
<1> DEFINE Good == {T \in SUBSET S : hk[T] = hf[T] + hg[T]}
<1>4. {} \in Good
  <2>1. hf[{}] = 0 /\ hg[{}] = 0 /\ hk[{}] = 0
    BY <1>1, <1>2, <1>3 DEF SumsOf
  <2> QED
    BY <2>1
<1>5. ASSUME NEW T \in SUBSET S, T # {}, T \ {Chosen(T)} \in Good
      PROVE  T \in Good
  <2> DEFINE x == Chosen(T)
             U == T \ {x}
  <2>1. x \in S /\ U \in SUBSET S
    BY <1>5, ChosenIn
  <2>2. hf[T] = f[x] + hf[U] /\ hg[T] = g[x] + hg[U] /\ hk[T] = k[x] + hk[U]
    BY <1>1, <1>2, <1>3, <1>5 DEF SumsOf
  <2>3. f[x] \in Int /\ g[x] \in Int /\ hf[U] \in Int /\ hg[U] \in Int
    BY <1>1, <1>2, <2>1 DEF SumsOf
  <2>4. k[x] = f[x] + g[x] /\ hk[U] = hf[U] + hg[U]
    BY <1>5, <2>1 DEF PointwiseSum
  <2>5. hk[T] = hf[T] + hg[T]
    BY <2>2, <2>3, <2>4
  <2> QED
    BY <2>5
<1> HIDE DEF Good
<1>6. SUBSET S \subseteq Good
  BY <1>4, <1>5, SubsetInduction
<1> QED
  BY <1>1, <1>2, <1>3, <1>6 DEF Good

LEMMA SumOfZeros ==
  ASSUME NEW S, IsFiniteSet(S), NEW f \in [S -> Int], \A x \in S : f[x] = 0
  PROVE  SumFunction(f) = 0
<1>1. PICK h : SumsOf(h, f, S) /\ SumFunction(f) = h[S]
  BY SumUnfold
<1> DEFINE Good == {T \in SUBSET S : h[T] = 0}
<1>2. {} \in Good
  BY <1>1 DEF SumsOf
<1>3. ASSUME NEW T \in SUBSET S, T # {}, T \ {Chosen(T)} \in Good
      PROVE  T \in Good
  BY <1>1, <1>3, ChosenIn DEF SumsOf
<1> HIDE DEF Good
<1>4. SUBSET S \subseteq Good
  BY <1>2, <1>3, SubsetInduction
<1> QED
  BY <1>1, <1>4 DEF Good

(* A product is one of its factors times the product of the others, which  *)
(* are those of any function that agrees with it there and is 1 at the     *)
(* factor.                                                                 *)
LEMMA ProductFactor ==
  ASSUME NEW S, IsFiniteSet(S), NEW c \in S, NEW f \in [S -> Int], NEW g \in [S -> Int],
         g[c] = 1, \A x \in S \ {c} : f[x] = g[x]
  PROVE  ProductOf(f) = ProductOf(g) * f[c]
<1>1. PICK hf : ProductsOf(hf, f, S) /\ ProductOf(f) = hf[S]
  BY ProductUnfold
<1>2. PICK hg : ProductsOf(hg, g, S) /\ ProductOf(g) = hg[S]
  BY ProductUnfold
<1> DEFINE Good == {T \in SUBSET S : hf[T] = IF c \in T THEN hg[T] * f[c] ELSE hg[T]}
<1>3. {} \in Good
  BY <1>1, <1>2 DEF ProductsOf
<1>4. ASSUME NEW T \in SUBSET S, T # {}, T \ {Chosen(T)} \in Good
      PROVE  T \in Good
  <2> DEFINE x == Chosen(T)
             U == T \ {x}
  <2>1. x \in T /\ x \in S /\ U \in SUBSET S
    BY <1>4, ChosenIn
  <2>2. hf[T] = f[x] * hf[U] /\ hg[T] = g[x] * hg[U]
    BY <1>1, <1>2, <1>4 DEF ProductsOf
  <2>3. f[c] \in Int /\ g[x] \in Int /\ hg[U] \in Int
    BY <1>2, <2>1 DEF ProductsOf
  <2>4. hf[U] = IF c \in U THEN hg[U] * f[c] ELSE hg[U]
    BY <1>4
  <2>5. \A a, b, d \in Int : a * (b * d) = (a * b) * d /\ a * b = b * a /\ 1 * a = a
    OBVIOUS
  <2>6. CASE x = c
    <3>1. hf[T] = f[c] * hg[U] /\ hg[T] = 1 * hg[U] /\ c \in T
      BY <2>1, <2>2, <2>4, <2>6
    <3> HIDE DEF x, U
    <3>2. hf[T] = hg[T] * f[c]
      BY <2>3, <2>5, <3>1
    <3> QED
      BY <3>1, <3>2
  <2>7. CASE x # c
    <3>1. f[x] = g[x] /\ (c \in T <=> c \in U)
      BY <2>1, <2>7
    <3> HIDE DEF x, U
    <3>2. c \in T => hf[T] = g[x] * (hg[U] * f[c])
      BY <2>2, <2>4, <3>1
    <3>3. c \in T => hf[T] = (g[x] * hg[U]) * f[c]
      BY <2>3, <2>5, <3>2
    <3> QED
      BY <2>2, <2>4, <3>1, <3>3
  <2> QED
    BY <2>6, <2>7
<1> HIDE DEF Good
<1>5. SUBSET S \subseteq Good
  BY <1>3, <1>4, SubsetInduction
<1>6. hf[S] = hg[S] * f[c]
  BY <1>5 DEF Good
<1> QED
  BY <1>1, <1>2, <1>6

-----------------------------------------------------------------------------
(* The functions between finite sets are finitely many.                    *)
LEMMA FunctionsFinite ==
  ASSUME NEW S, NEW T, IsFiniteSet(S), IsFiniteSet(T)
  PROVE  IsFiniteSet([S -> T])
<1> DEFINE Graph == [f \in [S -> T] |-> {<<x, f[x]>> : x \in S}]
<1>1. IsFiniteSet(SUBSET (S \X T))
  BY FS_Product, FS_SUBSET
<1>2. Graph \in Injection([S -> T], SUBSET (S \X T))
  <2>1. Graph \in [[S -> T] -> SUBSET (S \X T)]
    OBVIOUS
  <2>2. ASSUME NEW f \in [S -> T], NEW g \in [S -> T], Graph[f] = Graph[g]
        PROVE  f = g
    <3>1. ASSUME NEW x \in S
          PROVE  f[x] = g[x]
      <4>1. <<x, f[x]>> \in Graph[g]
        BY <2>2
      <4> QED
        BY <4>1
    <3> QED
      BY <3>1
  <2> QED
    BY <2>1, <2>2, Zenon DEF Injection, IsInjective
<1> QED
  BY <1>1, <1>2, FS_Injection

(* A finite set of numbers has a bound.                                    *)
LEMMA NumbersBounded ==
  ASSUME NEW S \in SUBSET Nat, IsFiniteSet(S)
  PROVE  \E b \in Nat : \A n \in S : n <= b
<1> DEFINE Good == {T \in SUBSET S : \E b \in Nat : \A n \in T : n <= b}
<1>1. {} \in Good
  OBVIOUS
<1>2. ASSUME NEW T \in SUBSET S, T # {}, T \ {Chosen(T)} \in Good
      PROVE  T \in Good
  <2>1. PICK b \in Nat : \A n \in T \ {Chosen(T)} : n <= b
    BY <1>2
  <2>2. Chosen(T) \in Nat
    BY <1>2, ChosenIn
  <2>3. b + Chosen(T) \in Nat /\ \A n \in T : n <= b + Chosen(T)
    BY <2>1, <2>2
  <2> QED
    BY <2>3
<1> HIDE DEF Good
<1>3. SUBSET S \subseteq Good
  BY <1>1, <1>2, SubsetInduction
<1> QED
  BY <1>3 DEF Good

(* A finite set of numbers has a greatest element.                         *)
LEMMA GreatestNumber ==
  ASSUME NEW S \in SUBSET Nat, IsFiniteSet(S), S # {}
  PROVE  \E n \in S : \A m \in S : m <= n
<1>1. PICK b \in Nat : \A n \in S : n <= b
  BY NumbersBounded
<1> DEFINE T == {k \in Nat : k <= b /\ b - k \in S}
<1>2. \A n \in S : b - n \in T
  BY <1>1
<1>3. PICK k \in T : \A j \in T : k <= j
  BY <1>2, LeastNumber
<1>4. b - k \in S /\ \A m \in S : m <= b - k
  BY <1>1, <1>2, <1>3
<1> QED
  BY <1>4

-----------------------------------------------------------------------------
(***************************************************************************)
(* Sums and products over parts of a set, renamed, scaled and split.       *)
(***************************************************************************)

(* The sum over a part of the set is the sum of the restriction.           *)
LEMMA SumRestrict ==
  ASSUME NEW S, IsFiniteSet(S), NEW f \in [S -> Int], NEW h, SumsOf(h, f, S), NEW T \in SUBSET S
  PROVE  SumFunction(Restrict(f, T)) = h[T]
<1> DEFINE g == Restrict(f, T)
<1>1. g \in [T -> Int] /\ \A x \in T : g[x] = f[x]
  BY DEF Restrict
<1>2. IsFiniteSet(T)
  BY FS_Subset
<1> HIDE DEF g
<1>3. PICK hg : SumsOf(hg, g, T) /\ SumFunction(g) = hg[T]
  BY <1>1, <1>2, SumUnfold
<1> DEFINE Good == {U \in SUBSET T : hg[U] = h[U]}
<1>4. {} \in Good
  BY <1>3 DEF SumsOf
<1>5. ASSUME NEW U \in SUBSET T, U # {}, U \ {Chosen(U)} \in Good
      PROVE  U \in Good
  <2>1. Chosen(U) \in U
    BY <1>5, ChosenIn
  <2>2. hg[U] = g[Chosen(U)] + hg[U \ {Chosen(U)}]
    BY <1>3, <1>5 DEF SumsOf
  <2>3. h[U] = f[Chosen(U)] + h[U \ {Chosen(U)}]
    BY <1>5 DEF SumsOf
  <2> QED
    BY <1>1, <1>5, <2>1, <2>2, <2>3
<1> HIDE DEF Good
<1>6. SUBSET T \subseteq Good
  BY <1>2, <1>4, <1>5, SubsetInduction
<1> QED
  BY <1>3, <1>6 DEF Good, g

LEMMA ProductRestrict ==
  ASSUME NEW S, IsFiniteSet(S), NEW f \in [S -> Int], NEW h, ProductsOf(h, f, S), NEW T \in SUBSET S
  PROVE  ProductOf(Restrict(f, T)) = h[T]
<1> DEFINE g == Restrict(f, T)
<1>1. g \in [T -> Int] /\ \A x \in T : g[x] = f[x]
  BY DEF Restrict
<1>2. IsFiniteSet(T)
  BY FS_Subset
<1> HIDE DEF g
<1>3. PICK hg : ProductsOf(hg, g, T) /\ ProductOf(g) = hg[T]
  BY <1>1, <1>2, ProductUnfold
<1> DEFINE Good == {U \in SUBSET T : hg[U] = h[U]}
<1>4. {} \in Good
  BY <1>3 DEF ProductsOf
<1>5. ASSUME NEW U \in SUBSET T, U # {}, U \ {Chosen(U)} \in Good
      PROVE  U \in Good
  <2>1. Chosen(U) \in U
    BY <1>5, ChosenIn
  <2>2. hg[U] = g[Chosen(U)] * hg[U \ {Chosen(U)}]
    BY <1>3, <1>5 DEF ProductsOf
  <2>3. h[U] = f[Chosen(U)] * h[U \ {Chosen(U)}]
    BY <1>5 DEF ProductsOf
  <2> QED
    BY <1>1, <1>5, <2>1, <2>2, <2>3
<1> HIDE DEF Good
<1>6. SUBSET T \subseteq Good
  BY <1>2, <1>4, <1>5, SubsetInduction
<1> QED
  BY <1>3, <1>6 DEF Good, g

(* The elements of a sum, and of a product, can be taken in any order.     *)
AnySummand(h, f, S) == \A T \in SUBSET S : \A x \in T : h[T] = f[x] + h[T \ {x}]

LEMMA SumAnyOrder ==
  ASSUME NEW S, IsFiniteSet(S), NEW f \in [S -> Int], NEW h, SumsOf(h, f, S)
  PROVE  AnySummand(h, f, S)
<1> DEFINE N == {n \in Nat : \A T \in SUBSET S : Cardinality(T) = n => \A x \in T : h[T] = f[x] + h[T \ {x}]}
<1>1. \A T \in SUBSET S : IsFiniteSet(T) /\ Cardinality(T) \in Nat
  BY FS_Subset, FS_CardinalityType
<1>2. \A T \in SUBSET S : \A x \in T : Cardinality(T \ {x}) = Cardinality(T) - 1
  BY <1>1, FS_RemoveElement
<1>3. 0 \in N
  BY <1>1, FS_EmptySet
<1>4. ASSUME NEW n \in N
      PROVE  n + 1 \in N
  <2> SUFFICES ASSUME NEW T \in SUBSET S, Cardinality(T) = n + 1, NEW x \in T
               PROVE  h[T] = f[x] + h[T \ {x}]
    OBVIOUS
  <2> DEFINE c == Chosen(T)
  <2>1. c \in T
    BY ChosenIn
  <2>2. h[T] = f[c] + h[T \ {c}]
    BY DEF SumsOf
  <2> HIDE DEF c
  <2>3. CASE x # c
    <3>1. n \in Nat
      OBVIOUS
    <3>2. h[T \ {c}] = f[x] + h[(T \ {c}) \ {x}]
      <4>1. T \ {c} \in SUBSET S /\ x \in T \ {c} /\ Cardinality(T \ {c}) = n
        BY <1>2, <2>1, <2>3, <3>1
      <4> QED
        BY <4>1
    <3>3. h[T \ {x}] = f[c] + h[(T \ {x}) \ {c}]
      <4>1. T \ {x} \in SUBSET S /\ c \in T \ {x} /\ Cardinality(T \ {x}) = n
        BY <1>2, <2>1, <2>3, <3>1
      <4> QED
        BY <4>1
    <3>4. PICK U : U = (T \ {c}) \ {x}
      OBVIOUS
    <3>5. U = (T \ {x}) \ {c} /\ U \in SUBSET S
      BY <3>4
    <3>6. h[T \ {c}] = f[x] + h[U] /\ h[T \ {x}] = f[c] + h[U]
      BY <3>2, <3>3, <3>4, <3>5
    <3>7. f[c] \in Int /\ f[x] \in Int /\ h[U] \in Int
      BY <2>1, <3>5 DEF SumsOf
    <3>8. f[c] + (f[x] + h[U]) = f[x] + (f[c] + h[U])
      BY <3>7
    <3> QED
      BY <2>2, <3>6, <3>8
  <2> QED
    BY <2>2, <2>3
<1> HIDE DEF N
<1>5. N = Nat
  <2>1. N \in SUBSET Nat
    BY DEF N
  <2> QED
    BY <1>3, <1>4, <2>1, NumberInduction
<1> QED
  BY <1>1, <1>5 DEF N, AnySummand

AnyFactor(h, f, S) == \A T \in SUBSET S : \A x \in T : h[T] = f[x] * h[T \ {x}]

LEMMA ProductAnyOrder ==
  ASSUME NEW S, IsFiniteSet(S), NEW f \in [S -> Int], NEW h, ProductsOf(h, f, S)
  PROVE  AnyFactor(h, f, S)
<1> DEFINE N == {n \in Nat : \A T \in SUBSET S : Cardinality(T) = n => \A x \in T : h[T] = f[x] * h[T \ {x}]}
<1>1. \A T \in SUBSET S : IsFiniteSet(T) /\ Cardinality(T) \in Nat
  BY FS_Subset, FS_CardinalityType
<1>2. \A T \in SUBSET S : \A x \in T : Cardinality(T \ {x}) = Cardinality(T) - 1
  BY <1>1, FS_RemoveElement
<1>3. 0 \in N
  BY <1>1, FS_EmptySet
<1>4. ASSUME NEW n \in N
      PROVE  n + 1 \in N
  <2> SUFFICES ASSUME NEW T \in SUBSET S, Cardinality(T) = n + 1, NEW x \in T
               PROVE  h[T] = f[x] * h[T \ {x}]
    OBVIOUS
  <2> DEFINE c == Chosen(T)
  <2>1. c \in T
    BY ChosenIn
  <2>2. h[T] = f[c] * h[T \ {c}]
    BY DEF ProductsOf
  <2> HIDE DEF c
  <2>3. CASE x # c
    <3>1. n \in Nat
      OBVIOUS
    <3>2. h[T \ {c}] = f[x] * h[(T \ {c}) \ {x}]
      <4>1. T \ {c} \in SUBSET S /\ x \in T \ {c} /\ Cardinality(T \ {c}) = n
        BY <1>2, <2>1, <2>3, <3>1
      <4> QED
        BY <4>1
    <3>3. h[T \ {x}] = f[c] * h[(T \ {x}) \ {c}]
      <4>1. T \ {x} \in SUBSET S /\ c \in T \ {x} /\ Cardinality(T \ {x}) = n
        BY <1>2, <2>1, <2>3, <3>1
      <4> QED
        BY <4>1
    <3>4. PICK U : U = (T \ {c}) \ {x}
      OBVIOUS
    <3>5. U = (T \ {x}) \ {c} /\ U \in SUBSET S
      BY <3>4
    <3>6. h[T \ {c}] = f[x] * h[U] /\ h[T \ {x}] = f[c] * h[U]
      BY <3>2, <3>3, <3>4, <3>5
    <3>7. f[c] \in Int /\ f[x] \in Int /\ h[U] \in Int
      BY <2>1, <3>5 DEF ProductsOf
    <3>8. f[c] * (f[x] * h[U]) = f[x] * (f[c] * h[U])
      BY <3>7
    <3> QED
      BY <2>2, <3>6, <3>8
  <2> QED
    BY <2>2, <2>3
<1> HIDE DEF N
<1>5. N = Nat
  <2>1. N \in SUBSET Nat
    BY DEF N
  <2> QED
    BY <1>3, <1>4, <2>1, NumberInduction
<1> QED
  BY <1>1, <1>5 DEF N, AnyFactor

(* A sum with one element that is not 0.                                   *)
LEMMA SumSingle ==
  ASSUME NEW S, IsFiniteSet(S), NEW f \in [S -> Int], NEW x \in S, \A y \in S \ {x} : f[y] = 0
  PROVE  SumFunction(f) = f[x]
<1>1. PICK h : SumsOf(h, f, S) /\ SumFunction(f) = h[S]
  BY SumUnfold
<1>2. h[S] = f[x] + h[S \ {x}]
  <2>1. \A T \in SUBSET S : \A y \in T : h[T] = f[y] + h[T \ {y}]
    <3>1. AnySummand(h, f, S)
      BY <1>1, SumAnyOrder
    <3> QED
      BY <3>1 DEF AnySummand
  <2> QED
    BY <2>1
<1>3. h[S \ {x}] = 0
  <2> DEFINE g == Restrict(f, S \ {x})
  <2>1. g \in [S \ {x} -> Int] /\ \A y \in S \ {x} : g[y] = 0
    BY DEF Restrict
  <2>2. SumFunction(g) = h[S \ {x}]
    BY <1>1, SumRestrict
  <2>3. IsFiniteSet(S \ {x})
    BY FS_Subset
  <2> HIDE DEF g
  <2> QED
    BY <2>1, <2>2, <2>3, SumOfZeros
<1> QED
  BY <1>1, <1>2, <1>3

LEMMA ProductOfOnes ==
  ASSUME NEW S, IsFiniteSet(S), NEW f \in [S -> Int], \A x \in S : f[x] = 1
  PROVE  ProductOf(f) = 1
<1>1. PICK h : ProductsOf(h, f, S) /\ ProductOf(f) = h[S]
  BY ProductUnfold
<1> DEFINE Good == {T \in SUBSET S : h[T] = 1}
<1>2. {} \in Good
  BY <1>1 DEF ProductsOf
<1>3. ASSUME NEW T \in SUBSET S, T # {}, T \ {Chosen(T)} \in Good
      PROVE  T \in Good
  BY <1>1, <1>3, ChosenIn DEF ProductsOf
<1> HIDE DEF Good
<1>4. SUBSET S \subseteq Good
  BY <1>2, <1>3, SubsetInduction
<1> QED
  BY <1>1, <1>4 DEF Good

LEMMA ProductSingle ==
  ASSUME NEW S, IsFiniteSet(S), NEW f \in [S -> Int], NEW x \in S, \A y \in S \ {x} : f[y] = 1
  PROVE  ProductOf(f) = f[x]
<1>1. PICK h : ProductsOf(h, f, S) /\ ProductOf(f) = h[S]
  BY ProductUnfold
<1>2. h[S] = f[x] * h[S \ {x}]
  <2>1. \A T \in SUBSET S : \A y \in T : h[T] = f[y] * h[T \ {y}]
    <3>1. AnyFactor(h, f, S)
      BY <1>1, ProductAnyOrder
    <3> QED
      BY <3>1 DEF AnyFactor
  <2> QED
    BY <2>1
<1>3. h[S \ {x}] = 1
  <2> DEFINE g == Restrict(f, S \ {x})
  <2>1. g \in [S \ {x} -> Int] /\ \A y \in S \ {x} : g[y] = 1
    BY DEF Restrict
  <2>2. ProductOf(g) = h[S \ {x}]
    BY <1>1, ProductRestrict
  <2>3. IsFiniteSet(S \ {x})
    BY FS_Subset
  <2> HIDE DEF g
  <2> QED
    BY <2>1, <2>2, <2>3, ProductOfOnes
<1>4. f[x] \in Int
  OBVIOUS
<1> QED
  BY <1>1, <1>2, <1>3, <1>4

(* The product of pointwise products.                                      *)
PointwiseProduct(k, f, g, S) == \A x \in S : k[x] = f[x] * g[x]

LEMMA ProductMultiplies ==
  ASSUME NEW S, IsFiniteSet(S), NEW f \in [S -> Int], NEW g \in [S -> Int],
         NEW k \in [S -> Int], PointwiseProduct(k, f, g, S)
  PROVE  ProductOf(k) = ProductOf(f) * ProductOf(g)
<1>1. PICK hf : ProductsOf(hf, f, S) /\ ProductOf(f) = hf[S]
  BY ProductUnfold
<1>2. PICK hg : ProductsOf(hg, g, S) /\ ProductOf(g) = hg[S]
  BY ProductUnfold
<1>3. PICK hk : ProductsOf(hk, k, S) /\ ProductOf(k) = hk[S]
  BY ProductUnfold
<1> DEFINE Good == {T \in SUBSET S : hk[T] = hf[T] * hg[T]}
<1>4. {} \in Good
  <2>1. hf[{}] = 1 /\ hg[{}] = 1 /\ hk[{}] = 1
    BY <1>1, <1>2, <1>3 DEF ProductsOf
  <2> QED
    BY <2>1
<1>5. ASSUME NEW T \in SUBSET S, T # {}, T \ {Chosen(T)} \in Good
      PROVE  T \in Good
  <2> DEFINE x == Chosen(T)
             U == T \ {x}
  <2>1. x \in S /\ U \in SUBSET S
    BY <1>5, ChosenIn
  <2>2. hf[T] = f[x] * hf[U] /\ hg[T] = g[x] * hg[U] /\ hk[T] = k[x] * hk[U]
    BY <1>1, <1>2, <1>3, <1>5 DEF ProductsOf
  <2>3. f[x] \in Int /\ g[x] \in Int /\ hf[U] \in Int /\ hg[U] \in Int
    BY <1>1, <1>2, <2>1 DEF ProductsOf
  <2>4. k[x] = f[x] * g[x] /\ hk[U] = hf[U] * hg[U]
    BY <1>5, <2>1 DEF PointwiseProduct
  <2>5. hk[T] = hf[T] * hg[T]
    BY <2>2, <2>3, <2>4
  <2> QED
    BY <2>5
<1> HIDE DEF Good
<1>6. SUBSET S \subseteq Good
  BY <1>4, <1>5, SubsetInduction
<1> QED
  BY <1>1, <1>2, <1>3, <1>6 DEF Good

(* A factor of all elements of a sum.                                      *)
ScaledBy(g, k, f, S) == \A x \in S : g[x] = k * f[x]

LEMMA SumScales ==
  ASSUME NEW S, IsFiniteSet(S), NEW f \in [S -> Int], NEW k \in Int, NEW g \in [S -> Int], ScaledBy(g, k, f, S)
  PROVE  SumFunction(g) = k * SumFunction(f)
<1>1. PICK hf : SumsOf(hf, f, S) /\ SumFunction(f) = hf[S]
  BY SumUnfold
<1>2. PICK hg : SumsOf(hg, g, S) /\ SumFunction(g) = hg[S]
  BY SumUnfold
<1> DEFINE Good == {T \in SUBSET S : hg[T] = k * hf[T]}
<1>3. {} \in Good
  <2>1. hf[{}] = 0 /\ hg[{}] = 0
    BY <1>1, <1>2 DEF SumsOf
  <2> QED
    BY <2>1
<1>4. ASSUME NEW T \in SUBSET S, T # {}, T \ {Chosen(T)} \in Good
      PROVE  T \in Good
  <2>1. PICK x \in S, U \in SUBSET S : x = Chosen(T) /\ U = T \ {Chosen(T)}
    BY <1>4, ChosenIn
  <2>2. hf[T] = f[x] + hf[U] /\ hg[T] = g[x] + hg[U]
    BY <1>1, <1>2, <1>4, <2>1 DEF SumsOf
  <2>3. f[x] \in Int /\ hf[U] \in Int
    BY <1>1 DEF SumsOf
  <2>4. g[x] = k * f[x] /\ hg[U] = k * hf[U]
    BY <1>4, <2>1 DEF ScaledBy
  <2>5. k * f[x] + k * hf[U] = k * (f[x] + hf[U])
    BY <2>3
  <2> QED
    BY <2>2, <2>4, <2>5
<1> HIDE DEF Good
<1>5. SUBSET S \subseteq Good
  BY <1>3, <1>4, SubsetInduction
<1> QED
  BY <1>1, <1>2, <1>5 DEF Good

(* A sum, and a product, over a set that is split into parts: p tells the  *)
(* part of an element.                                                     *)
Part(S, p, x) == {z \in S : p[z] = x}

SumsByPart(g, f, S, p, X) == \A x \in X : g[x] = SumFunction(Restrict(f, Part(S, p, x)))

LEMMA SumPartition ==
  ASSUME NEW S, IsFiniteSet(S), NEW X, IsFiniteSet(X), NEW p \in [S -> X], NEW f \in [S -> Int],
         NEW g \in [X -> Int], SumsByPart(g, f, S, p, X)
  PROVE  SumFunction(f) = SumFunction(g)
<1>1. PICK h : SumsOf(h, f, S) /\ SumFunction(f) = h[S]
  BY SumUnfold
<1> DEFINE by(T) == [x \in X |-> h[Part(T, p, x)]]
           Good == {T \in SUBSET S : SumFunction(by(T)) = h[T]}
<1>2. \A T \in SUBSET S : by(T) \in [X -> Int]
  <2>1. \A T \in SUBSET S : \A x \in X : Part(T, p, x) \in SUBSET S
    BY DEF Part
  <2> QED
    BY <1>1, <2>1 DEF SumsOf
<1>3. {} \in Good
  <2>1. PICK b : b = by({})
    OBVIOUS
  <2>2. h[{}] = 0
    BY <1>1 DEF SumsOf
  <2>3. b \in [X -> Int]
    BY <1>2, <2>1
  <2>4. \A x \in X : b[x] = 0
    <3>1. \A x \in X : Part({}, p, x) = {}
      BY DEF Part
    <3> QED
      BY <2>1, <2>2, <3>1
  <2>5. SumFunction(b) = 0
    BY <2>3, <2>4, SumOfZeros
  <2> QED
    BY <2>1, <2>2, <2>5
<1>4. ASSUME NEW T \in SUBSET S, T # {}, T \ {Chosen(T)} \in Good
      PROVE  T \in Good
  <2>1. PICK z \in S, U \in SUBSET S : z = Chosen(T) /\ U = T \ {Chosen(T)} /\ z \in T
    BY <1>4, ChosenIn
  <2>2. h[T] = f[z] + h[U]
    BY <1>1, <1>4, <2>1 DEF SumsOf
  <2>3. PICK b \in [X -> Int], u \in [X -> Int] : b = by(T) /\ u = by(U)
    BY <1>2
  <2>4. PICK k \in [X -> Int] : k = [x \in X |-> IF x = p[z] THEN f[z] ELSE 0]
    <3>1. [x \in X |-> IF x = p[z] THEN f[z] ELSE 0] \in [X -> Int]
      OBVIOUS
    <3> QED
      BY <3>1
  <2>5. ASSUME NEW x \in X
        PROVE  b[x] = k[x] + u[x]
    <3>1. b[x] = h[Part(T, p, x)] /\ u[x] = h[Part(U, p, x)] /\ u[x] \in Int
      BY <2>3
    <3>2. CASE x = p[z]
      <4>1. PICK V : V = Part(T, p, x)
        OBVIOUS
      <4>2. z \in V /\ Part(U, p, x) = V \ {z} /\ V \in SUBSET S
        BY <2>1, <3>2, <4>1 DEF Part
      <4>3. \A W \in SUBSET S : \A y \in W : h[W] = f[y] + h[W \ {y}]
        <5>1. AnySummand(h, f, S)
          BY <1>1, SumAnyOrder
        <5> QED
          BY <5>1 DEF AnySummand
      <4>4. h[V] = f[z] + h[V \ {z}]
        BY <4>2, <4>3
      <4> QED
        BY <2>4, <3>1, <3>2, <4>1, <4>2, <4>4
    <3>3. CASE x # p[z]
      <4>1. Part(U, p, x) = Part(T, p, x)
        BY <2>1, <3>3 DEF Part
      <4>2. k[x] = 0
        BY <2>4, <3>3
      <4> QED
        BY <3>1, <4>1, <4>2
    <3> QED
      BY <3>2, <3>3
  <2>6. SumFunction(b) = SumFunction(k) + SumFunction(u)
    BY <2>5, SumAdds DEF PointwiseSum
  <2>7. SumFunction(k) = f[z]
    <3>1. p[z] \in X /\ k[p[z]] = f[z] /\ \A y \in X \ {p[z]} : k[y] = 0
      BY <2>4
    <3> QED
      BY <3>1, SumSingle
  <2>8. SumFunction(u) = h[U]
    BY <1>4, <2>1, <2>3
  <2> QED
    BY <2>2, <2>3, <2>6, <2>7, <2>8
<1>5. g = by(S)
  <2>1. \A x \in X : Part(S, p, x) \in SUBSET S
    BY DEF Part
  <2>2. \A x \in X : SumFunction(Restrict(f, Part(S, p, x))) = h[Part(S, p, x)]
    BY <1>1, <2>1, SumRestrict
  <2>3. \A x \in X : g[x] = h[Part(S, p, x)]
    BY <2>2 DEF SumsByPart
  <2> QED
    BY <2>3
<1>6. SUBSET S \subseteq Good
  <2> HIDE DEF Good
  <2> QED
    BY <1>3, <1>4, SubsetInduction
<1> QED
  BY <1>1, <1>5, <1>6

(* Two sums with the same elements under different names.                  *)
Renames(p, S, X) == \A x \in X : \E z \in S : p[z] = x /\ \A y \in S : p[y] = x => y = z

LEMMA SumRenamed ==
  ASSUME NEW S, IsFiniteSet(S), NEW X, IsFiniteSet(X), NEW p \in [S -> X], Renames(p, S, X),
         NEW g \in [X -> Int], NEW f \in [S -> Int], \A z \in S : f[z] = g[p[z]]
  PROVE  SumFunction(f) = SumFunction(g)
<1>1. ASSUME NEW x \in X
      PROVE  g[x] = SumFunction(Restrict(f, Part(S, p, x)))
  <2>1. PICK z \in S : p[z] = x /\ \A y \in S : p[y] = x => y = z
    BY DEF Renames
  <2>2. Part(S, p, x) = {z}
    BY <2>1 DEF Part
  <2>3. PICK r : r = Restrict(f, {z})
    OBVIOUS
  <2>4. r \in [{z} -> Int] /\ r[z] = g[x]
    BY <2>1, <2>3 DEF Restrict
  <2>5. IsFiniteSet({z}) /\ z \in {z} /\ \A y \in {z} \ {z} : r[y] = 0
    BY FS_Singleton
  <2>6. SumFunction(r) = r[z]
    BY <2>4, <2>5, SumSingle
  <2> QED
    BY <2>2, <2>3, <2>4, <2>6
<1>2. SumsByPart(g, f, S, p, X)
  BY <1>1 DEF SumsByPart
<1> QED
  BY <1>2, SumPartition

ProductsByPart(g, f, S, p, X) == \A x \in X : g[x] = ProductOf(Restrict(f, Part(S, p, x)))

LEMMA ProductPartition ==
  ASSUME NEW S, IsFiniteSet(S), NEW X, IsFiniteSet(X), NEW p \in [S -> X], NEW f \in [S -> Int],
         NEW g \in [X -> Int], ProductsByPart(g, f, S, p, X)
  PROVE  ProductOf(f) = ProductOf(g)
<1>1. PICK h : ProductsOf(h, f, S) /\ ProductOf(f) = h[S]
  BY ProductUnfold
<1> DEFINE by(T) == [x \in X |-> h[Part(T, p, x)]]
           Good == {T \in SUBSET S : ProductOf(by(T)) = h[T]}
<1>2. \A T \in SUBSET S : by(T) \in [X -> Int]
  <2>1. \A T \in SUBSET S : \A x \in X : Part(T, p, x) \in SUBSET S
    BY DEF Part
  <2> QED
    BY <1>1, <2>1 DEF ProductsOf
<1>3. {} \in Good
  <2>1. PICK b : b = by({})
    OBVIOUS
  <2>2. h[{}] = 1
    BY <1>1 DEF ProductsOf
  <2>3. b \in [X -> Int]
    BY <1>2, <2>1
  <2>4. \A x \in X : b[x] = 1
    <3>1. \A x \in X : Part({}, p, x) = {}
      BY DEF Part
    <3> QED
      BY <2>1, <2>2, <3>1
  <2>5. ProductOf(b) = 1
    BY <2>3, <2>4, ProductOfOnes
  <2> QED
    BY <2>1, <2>2, <2>5
<1>4. ASSUME NEW T \in SUBSET S, T # {}, T \ {Chosen(T)} \in Good
      PROVE  T \in Good
  <2>1. PICK z \in S, U \in SUBSET S : z = Chosen(T) /\ U = T \ {Chosen(T)} /\ z \in T
    BY <1>4, ChosenIn
  <2>2. h[T] = f[z] * h[U]
    BY <1>1, <1>4, <2>1 DEF ProductsOf
  <2>3. PICK b \in [X -> Int], u \in [X -> Int] : b = by(T) /\ u = by(U)
    BY <1>2
  <2>4. PICK k \in [X -> Int] : k = [x \in X |-> IF x = p[z] THEN f[z] ELSE 1]
    <3>1. [x \in X |-> IF x = p[z] THEN f[z] ELSE 1] \in [X -> Int]
      OBVIOUS
    <3> QED
      BY <3>1
  <2>5. ASSUME NEW x \in X
        PROVE  b[x] = k[x] * u[x]
    <3>1. b[x] = h[Part(T, p, x)] /\ u[x] = h[Part(U, p, x)] /\ u[x] \in Int
      BY <2>3
    <3>2. CASE x = p[z]
      <4>1. PICK V : V = Part(T, p, x)
        OBVIOUS
      <4>2. z \in V /\ Part(U, p, x) = V \ {z} /\ V \in SUBSET S
        BY <2>1, <3>2, <4>1 DEF Part
      <4>3. \A W \in SUBSET S : \A y \in W : h[W] = f[y] * h[W \ {y}]
        <5>1. AnyFactor(h, f, S)
          BY <1>1, ProductAnyOrder
        <5> QED
          BY <5>1 DEF AnyFactor
      <4>4. h[V] = f[z] * h[V \ {z}]
        BY <4>2, <4>3
      <4>5. k[x] = f[z]
        BY <2>4, <3>2
      <4> QED
        BY <3>1, <4>1, <4>2, <4>4, <4>5
    <3>3. CASE x # p[z]
      <4>1. Part(U, p, x) = Part(T, p, x)
        BY <2>1, <3>3 DEF Part
      <4>2. k[x] = 1
        BY <2>4, <3>3
      <4>3. b[x] = u[x]
        BY <3>1, <4>1
      <4> QED
        BY <3>1, <4>3, <4>2
    <3> QED
      BY <3>2, <3>3
  <2>6. ProductOf(b) = ProductOf(k) * ProductOf(u)
    BY <2>5, ProductMultiplies DEF PointwiseProduct
  <2>7. ProductOf(k) = f[z]
    <3>1. p[z] \in X /\ k[p[z]] = f[z] /\ \A y \in X \ {p[z]} : k[y] = 1
      BY <2>4
    <3> QED
      BY <3>1, ProductSingle
  <2>8. ProductOf(u) = h[U]
    BY <1>4, <2>1, <2>3
  <2> QED
    BY <2>2, <2>3, <2>6, <2>7, <2>8
<1>5. g = by(S)
  <2>1. \A x \in X : Part(S, p, x) \in SUBSET S
    BY DEF Part
  <2>2. \A x \in X : ProductOf(Restrict(f, Part(S, p, x))) = h[Part(S, p, x)]
    BY <1>1, <2>1, ProductRestrict
  <2>3. \A x \in X : g[x] = h[Part(S, p, x)]
    BY <2>2 DEF ProductsByPart
  <2> QED
    BY <2>3
<1>6. SUBSET S \subseteq Good
  <2> HIDE DEF Good
  <2> QED
    BY <1>3, <1>4, SubsetInduction
<1> QED
  BY <1>1, <1>5, <1>6

(* A sum over two sets without a common element.                           *)
LEMMA SumSplit ==
  ASSUME NEW S, IsFiniteSet(S), NEW f \in [S -> Int], NEW X \in SUBSET S, NEW Y \in SUBSET S,
         S = X \cup Y, X \cap Y = {}
  PROVE  SumFunction(f) = SumFunction(Restrict(f, X)) + SumFunction(Restrict(f, Y))
<1>1. PICK h : SumsOf(h, f, S) /\ SumFunction(f) = h[S]
  BY SumUnfold
<1>2. SumFunction(Restrict(f, X)) = h[X] /\ SumFunction(Restrict(f, Y)) = h[Y]
  BY <1>1, SumRestrict
<1> DEFINE Good == {T \in SUBSET Y : h[X \cup T] = h[X] + h[T]}
<1>3. {} \in Good
  <2>1. h[{}] = 0 /\ h[X] \in Int /\ X \cup {} = X
    BY <1>1 DEF SumsOf
  <2> QED
    BY <2>1
<1>4. ASSUME NEW T \in SUBSET Y, T # {}, T \ {Chosen(T)} \in Good
      PROVE  T \in Good
  <2>1. PICK z \in Y, U \in SUBSET Y : z = Chosen(T) /\ U = T \ {Chosen(T)} /\ z \in T
    BY <1>4, ChosenIn
  <2>2. \A W \in SUBSET S : \A y \in W : h[W] = f[y] + h[W \ {y}]
    <3>1. AnySummand(h, f, S)
      BY <1>1, SumAnyOrder
    <3> QED
      BY <3>1 DEF AnySummand
  <2>3. h[T] = f[z] + h[U]
    BY <2>1, <2>2
  <2>4. X \cup T \in SUBSET S /\ z \in X \cup T /\ (X \cup T) \ {z} = X \cup U
    BY <2>1
  <2>5. h[X \cup T] = f[z] + h[X \cup U]
    BY <2>2, <2>4
  <2>6. h[X \cup U] = h[X] + h[U]
    BY <1>4, <2>1
  <2>7. h[X] \in Int /\ h[U] \in Int /\ f[z] \in Int
    BY <1>1 DEF SumsOf
  <2>8. f[z] + (h[X] + h[U]) = h[X] + (f[z] + h[U])
    BY <2>7
  <2> QED
    BY <2>3, <2>5, <2>6, <2>8
<1> HIDE DEF Good
<1>5. IsFiniteSet(Y)
  BY FS_Subset
<1>6. SUBSET Y \subseteq Good
  BY <1>3, <1>4, <1>5, SubsetInduction
<1> QED
  BY <1>1, <1>2, <1>6 DEF Good

(* A product over two sets without a common element.                       *)
LEMMA ProductSplit ==
  ASSUME NEW S, IsFiniteSet(S), NEW f \in [S -> Int], NEW X \in SUBSET S, NEW Y \in SUBSET S,
         S = X \cup Y, X \cap Y = {}
  PROVE  ProductOf(f) = ProductOf(Restrict(f, X)) * ProductOf(Restrict(f, Y))
<1>1. PICK h : ProductsOf(h, f, S) /\ ProductOf(f) = h[S]
  BY ProductUnfold
<1>2. ProductOf(Restrict(f, X)) = h[X] /\ ProductOf(Restrict(f, Y)) = h[Y]
  BY <1>1, ProductRestrict
<1> DEFINE Good == {T \in SUBSET Y : h[X \cup T] = h[X] * h[T]}
<1>3. {} \in Good
  <2>1. h[{}] = 1 /\ h[X] \in Int /\ X \cup {} = X
    BY <1>1 DEF ProductsOf
  <2> QED
    BY <2>1
<1>4. ASSUME NEW T \in SUBSET Y, T # {}, T \ {Chosen(T)} \in Good
      PROVE  T \in Good
  <2>1. PICK z \in Y, U \in SUBSET Y : z = Chosen(T) /\ U = T \ {Chosen(T)} /\ z \in T
    BY <1>4, ChosenIn
  <2>2. \A W \in SUBSET S : \A y \in W : h[W] = f[y] * h[W \ {y}]
    <3>1. AnyFactor(h, f, S)
      BY <1>1, ProductAnyOrder
    <3> QED
      BY <3>1 DEF AnyFactor
  <2>3. h[T] = f[z] * h[U]
    BY <2>1, <2>2
  <2>4. X \cup T \in SUBSET S /\ z \in X \cup T /\ (X \cup T) \ {z} = X \cup U
    BY <2>1
  <2>5. h[X \cup T] = f[z] * h[X \cup U]
    BY <2>2, <2>4
  <2>6. h[X \cup U] = h[X] * h[U]
    BY <1>4, <2>1
  <2>7. h[X] \in Int /\ h[U] \in Int /\ f[z] \in Int
    BY <1>1 DEF ProductsOf
  <2>8. f[z] * (h[X] * h[U]) = h[X] * (f[z] * h[U])
    BY <2>7
  <2> QED
    BY <2>3, <2>5, <2>6, <2>8
<1> HIDE DEF Good
<1>5. IsFiniteSet(Y)
  BY FS_Subset
<1>6. SUBSET Y \subseteq Good
  BY <1>3, <1>4, <1>5, SubsetInduction
<1> QED
  BY <1>1, <1>2, <1>6 DEF Good

(* A product of conditions.                                                *)
AllOne(f, S) == \A x \in S : f[x] = 1

LEMMA ProductOfBits ==
  ASSUME NEW S, IsFiniteSet(S), NEW f \in [S -> {0, 1}]
  PROVE  ProductOf(f) = IF AllOne(f, S) THEN 1 ELSE 0
<1>1. f \in [S -> Int]
  OBVIOUS
<1>2. CASE AllOne(f, S)
  BY <1>1, <1>2, ProductOfOnes DEF AllOne
<1>3. CASE ~AllOne(f, S)
  <2>1. PICK x \in S : f[x] = 0
    BY <1>3 DEF AllOne
  <2>2. PICK h : ProductsOf(h, f, S) /\ ProductOf(f) = h[S]
    BY <1>1, ProductUnfold
  <2>3. \A W \in SUBSET S : \A y \in W : h[W] = f[y] * h[W \ {y}]
    <3>1. AnyFactor(h, f, S)
      BY <1>1, <2>2, ProductAnyOrder
    <3> QED
      BY <3>1 DEF AnyFactor
  <2>4. h[S] = 0 * h[S \ {x}] /\ h[S \ {x}] \in Int
    BY <2>1, <2>2, <2>3 DEF ProductsOf
  <2> QED
    BY <1>3, <2>2, <2>4
<1> QED
  BY <1>2, <1>3
=============================================================================
