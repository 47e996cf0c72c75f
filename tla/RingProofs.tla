----------------------------- MODULE RingProofs -----------------------------
(***************************************************************************)
(* A payload type keeps the views and the root of a join right, for any    *)
(* number of relations, rows and updates, if its operators do to sums over *)
(* bags of rows what they say; and the cofactors of degree one, averages   *)
(* and the sums of TPC-H 1 and 12 do so, over any variables and values.    *)
(***************************************************************************)
EXTENDS RingView, FiniteSums

C == INSTANCE RingCofactor
RQ == INSTANCE RingQueries

-----------------------------------------------------------------------------
(***************************************************************************)
(* Bags of tuples.  A tuple over a set X of indices has a value for each   *)
(* relation in X, and one for the join variable if 0 is in X; a bag is     *)
(* given by the count of every tuple there might be.                       *)
(***************************************************************************)

RowsOf(q) == Program[q].rows
Size(q) == Len(RowsOf(q))
LiftedIn(q) == Program[q].lifted

Indices(q) == 0..Size(q)

KeysOf(q) == UNION {{t.key : t \in RowsOf(q)[r]} : r \in 1..Size(q)}
ValuesAt(q, i) == IF i = 0 THEN KeysOf(q) ELSE {t.val : t \in RowsOf(q)[i]}
AllValues(q) == UNION {ValuesAt(q, i) : i \in Indices(q)}

Tuples(q, X) == {a \in [X -> AllValues(q)] : \A i \in X : a[i] \in ValuesAt(q, i)}
Counts(q, X) == [Tuples(q, X) -> Int]

(* The part of a tuple over X, and two parts put together.                 *)
On(a, X) == [i \in X |-> a[i]]
Both(a, X, b, Y) == [i \in X \cup Y |-> IF i \in X THEN a[i] ELSE b[i]]

(* The pairs of a tuple over X and one over Y.                             *)
Cross(q, X, Y, c, d) == [a \in Tuples(q, X \cup Y) |-> c[On(a, X)] * d[On(a, Y)]]

Bag(q, X, c) == [a \in {a \in Tuples(q, X) : c[a] # 0} |-> c[a]]

(* The values of a function on a finite set.                               *)
ImageOf(f, S) == {f[x] : x \in S}

LEMMA ImagesFinite ==
  ASSUME NEW S, IsFiniteSet(S), NEW f
  PROVE  IsFiniteSet(ImageOf(f, S))
<1>1. [x \in S |-> f[x]] \in Surjection(S, ImageOf(f, S))
  BY DEF ImageOf, Surjection
<1> QED
  BY <1>1, FS_Surjection

LEMMA TuplesFinite ==
  ASSUME NEW q \in Query, NEW X \in SUBSET Indices(q)
  PROVE  IsFiniteSet(Tuples(q, X))
<1>1. Size(q) \in Nat \ {0} /\ \A r \in 1..Size(q) : IsFiniteSet(RowsOf(q)[r])
  BY RingViewAssumption DEF Size, RowsOf
<1>2. \A r \in 1..Size(q) : IsFiniteSet({t.key : t \in RowsOf(q)[r]})
                            /\ IsFiniteSet({t.val : t \in RowsOf(q)[r]})
  <2> TAKE r \in 1..Size(q)
  <2> DEFINE R == RowsOf(q)[r]
             key == [t \in R |-> t.key]
             val == [t \in R |-> t.val]
  <2>1. ImageOf(key, R) = {t.key : t \in R} /\ ImageOf(val, R) = {t.val : t \in R}
    BY DEF ImageOf
  <2>2. IsFiniteSet(ImageOf(key, R)) /\ IsFiniteSet(ImageOf(val, R))
    <3> HIDE DEF key, val
    <3> QED
      BY <1>1, ImagesFinite
  <2> QED
    BY <2>1, <2>2
<1>3. IsFiniteSet(1..Size(q)) /\ IsFiniteSet(Indices(q))
  BY <1>1, FS_Interval DEF Indices
<1>4. IsFiniteSet(KeysOf(q))
  <2> DEFINE KeySets == {{t.key : t \in RowsOf(q)[r]} : r \in 1..Size(q)}
             keys == [r \in 1..Size(q) |-> {t.key : t \in RowsOf(q)[r]}]
  <2>1. IsFiniteSet(KeySets)
    <3>1. ImageOf(keys, 1..Size(q)) = KeySets
      BY DEF ImageOf
    <3>2. IsFiniteSet(ImageOf(keys, 1..Size(q)))
      <4> HIDE DEF keys
      <4> QED
        BY <1>3, ImagesFinite
    <3> QED
      BY <3>1, <3>2
  <2>2. \A S \in KeySets : IsFiniteSet(S)
    BY <1>2
  <2>3. IsFiniteSet(UNION KeySets)
    BY <2>1, <2>2, FS_UNION
  <2> QED
    BY <2>3 DEF KeysOf
<1>5. \A i \in Indices(q) : IsFiniteSet(ValuesAt(q, i))
  <2> TAKE i \in Indices(q)
  <2>1. CASE i = 0
    BY <2>1, <1>4 DEF ValuesAt
  <2>2. CASE i # 0
    <3>1. i \in 1..Size(q)
      BY <1>1, <2>2 DEF Indices
    <3>2. ValuesAt(q, i) = {t.val : t \in RowsOf(q)[i]}
      BY <2>2 DEF ValuesAt
    <3> QED
      BY <1>2, <3>1, <3>2
  <2> QED
    BY <2>1, <2>2
<1>6. IsFiniteSet(AllValues(q))
  <2> DEFINE ValueSets == {ValuesAt(q, i) : i \in Indices(q)}
             values == [i \in Indices(q) |-> ValuesAt(q, i)]
  <2>1. IsFiniteSet(ValueSets)
    <3>1. ImageOf(values, Indices(q)) = ValueSets
      BY DEF ImageOf
    <3>2. IsFiniteSet(ImageOf(values, Indices(q)))
      <4> HIDE DEF values
      <4> QED
        BY <1>3, ImagesFinite
    <3> QED
      BY <3>1, <3>2
  <2>2. \A S \in ValueSets : IsFiniteSet(S)
    BY <1>5
  <2>3. IsFiniteSet(UNION ValueSets)
    BY <2>1, <2>2, FS_UNION
  <2> QED
    BY <2>3 DEF AllValues
<1>7. IsFiniteSet(X)
  BY <1>3, FS_Subset
<1>8. IsFiniteSet([X -> AllValues(q)])
  BY <1>6, <1>7, FunctionsFinite
<1> QED
  BY <1>8, FS_Subset DEF Tuples

LEMMA TuplesAre ==
  ASSUME NEW q, NEW X \in SUBSET Indices(q), NEW a
  PROVE  a \in Tuples(q, X) <=>
           a = [i \in X |-> a[i]] /\ \A i \in X : a[i] \in ValuesAt(q, i)
<1>1. \A i \in X : ValuesAt(q, i) \subseteq AllValues(q)
  BY DEF AllValues
<1> QED
  BY <1>1 DEF Tuples

Split(q, X, Y) ==
  /\ \A a \in Tuples(q, X \cup Y) :
       /\ On(a, X) \in Tuples(q, X) /\ On(a, Y) \in Tuples(q, Y)
       /\ a = Both(On(a, X), X, On(a, Y), Y)
  /\ \A a \in Tuples(q, X), b \in Tuples(q, Y) :
       /\ Both(a, X, b, Y) \in Tuples(q, X \cup Y)
       /\ On(Both(a, X, b, Y), X) = a /\ On(Both(a, X, b, Y), Y) = b

LEMMA TuplesSplit ==
  ASSUME NEW q, NEW X \in SUBSET Indices(q), NEW Y \in SUBSET Indices(q), X \cap Y = {}
  PROVE  X \cup Y \in SUBSET Indices(q) /\ Split(q, X, Y)
<1>1. X \cup Y \in SUBSET Indices(q)
  OBVIOUS
<1>2. ASSUME NEW a \in Tuples(q, X \cup Y)
      PROVE  /\ On(a, X) \in Tuples(q, X) /\ On(a, Y) \in Tuples(q, Y)
             /\ a = Both(On(a, X), X, On(a, Y), Y)
  <2>1. a = [i \in X \cup Y |-> a[i]] /\ \A i \in X \cup Y : a[i] \in ValuesAt(q, i)
    BY <1>1, <1>2, TuplesAre
  <2>2. On(a, X) = [i \in X |-> On(a, X)[i]] /\ \A i \in X : On(a, X)[i] \in ValuesAt(q, i)
    BY <2>1 DEF On
  <2>3. On(a, Y) = [i \in Y |-> On(a, Y)[i]] /\ \A i \in Y : On(a, Y)[i] \in ValuesAt(q, i)
    BY <2>1 DEF On
  <2>4. On(a, X) \in Tuples(q, X)
    BY <2>2, TuplesAre
  <2>5. On(a, Y) \in Tuples(q, Y)
    BY <2>3, TuplesAre
  <2>6. [i \in X \cup Y |-> a[i]] = Both(On(a, X), X, On(a, Y), Y)
    BY DEF Both, On
  <2> QED
    BY <2>1, <2>4, <2>5, <2>6
<1>3. ASSUME NEW a \in Tuples(q, X), NEW b \in Tuples(q, Y)
      PROVE  /\ Both(a, X, b, Y) \in Tuples(q, X \cup Y)
             /\ On(Both(a, X, b, Y), X) = a /\ On(Both(a, X, b, Y), Y) = b
  <2>1. a = [i \in X |-> a[i]] /\ \A i \in X : a[i] \in ValuesAt(q, i)
    BY TuplesAre
  <2>2. b = [i \in Y |-> b[i]] /\ \A i \in Y : b[i] \in ValuesAt(q, i)
    BY TuplesAre
  <2>3. /\ Both(a, X, b, Y) = [i \in X \cup Y |-> Both(a, X, b, Y)[i]]
        /\ \A i \in X \cup Y : Both(a, X, b, Y)[i] \in ValuesAt(q, i)
    BY <2>1, <2>2 DEF Both
  <2>4. Both(a, X, b, Y) \in Tuples(q, X \cup Y)
    BY <1>1, <2>3, TuplesAre
  <2>5. On(Both(a, X, b, Y), X) = [i \in X |-> a[i]]
    BY DEF On, Both
  <2>6. On(Both(a, X, b, Y), Y) = [i \in Y |-> b[i]]
    BY DEF On, Both
  <2> QED
    BY <2>1, <2>2, <2>4, <2>5, <2>6
<1> QED
  BY <1>1, <1>2, <1>3 DEF Split

(* The sum over all pairs is the product of the sums.                      *)
SumsMultiply(q, X, Y, c, d) ==
  SumFunction(Cross(q, X, Y, c, d)) = SumFunction(c) * SumFunction(d)

LEMMA CrossSum ==
  ASSUME NEW q \in Query, NEW X \in SUBSET Indices(q), NEW Y \in SUBSET Indices(q), X \cap Y = {},
         NEW c \in Counts(q, X), NEW d \in Counts(q, Y)
  PROVE  /\ Cross(q, X, Y, c, d) \in Counts(q, X \cup Y)
         /\ SumsMultiply(q, X, Y, c, d)
<1> DEFINE S == Tuples(q, X \cup Y)
           A == Tuples(q, X)
           B == Tuples(q, Y)
           f == Cross(q, X, Y, c, d)
           p == [a \in S |-> On(a, X)]
           g == [x \in A |-> c[x] * SumFunction(d)]
<1>1. IsFiniteSet(S) /\ IsFiniteSet(A) /\ IsFiniteSet(B)
  BY TuplesFinite
<1>2. c \in [A -> Int] /\ d \in [B -> Int]
  BY DEF Counts
<1>0. Split(q, X, Y)
  BY TuplesSplit
<1>3. \A a \in S : On(a, X) \in A /\ On(a, Y) \in B /\ a = Both(On(a, X), X, On(a, Y), Y)
  BY <1>0 DEF Split
<1>4. \A a \in A, b \in B : /\ Both(a, X, b, Y) \in S
                            /\ On(Both(a, X, b, Y), X) = a /\ On(Both(a, X, b, Y), Y) = b
  BY <1>0 DEF Split
<1>5. f \in [S -> Int] /\ \A a \in S : f[a] = c[On(a, X)] * d[On(a, Y)]
  <2>1. \A a \in S : c[On(a, X)] * d[On(a, Y)] \in Int
    <3> SUFFICES ASSUME NEW a \in S PROVE c[On(a, X)] * d[On(a, Y)] \in Int
      OBVIOUS
    <3>1. c[On(a, X)] \in Int /\ d[On(a, Y)] \in Int
      BY <1>2, <1>3
    <3> QED
      BY <3>1
  <2>2. f = [a \in S |-> c[On(a, X)] * d[On(a, Y)]]
    BY DEF Cross
  <2> HIDE DEF f, S
  <2> QED
    BY <2>1, <2>2
<1>6. p \in [S -> A]
  BY <1>3
<1>7. SumFunction(d) \in Int
  BY <1>1, <1>2, SumType
<1>8. g \in [A -> Int]
  BY <1>2, <1>7
<1>9. ASSUME NEW x \in A
      PROVE  g[x] = SumFunction(Restrict(f, Part(S, p, x)))
  <2> DEFINE P == Part(S, p, x)
             r == [a \in P |-> On(a, Y)]
             e == [b \in B |-> c[x] * d[b]]
             h == Restrict(f, P)
  <2>1. P \in SUBSET S /\ \A a \in P : On(a, X) = x
    BY DEF Part
  <2>2. IsFiniteSet(P)
    BY <1>1, <2>1, FS_Subset
  <2>3. r \in [P -> B]
    BY <1>3, <2>1
  <2>4. Renames(r, P, B)
    <3> SUFFICES ASSUME NEW b \in B
                 PROVE  \E z \in P : r[z] = b /\ \A y \in P : r[y] = b => y = z
      BY DEF Renames
    <3>1. Both(x, X, b, Y) \in P
      BY <1>4 DEF Part
    <3>2. r[Both(x, X, b, Y)] = b
      BY <1>4, <3>1
    <3>3. \A y \in P : r[y] = b => y = Both(x, X, b, Y)
      BY <1>3, <2>1
    <3> QED
      BY <3>1, <3>2, <3>3
  <2>5. e \in [B -> Int]
    BY <1>2
  <2>6. h \in [P -> Int] /\ \A a \in P : h[a] = f[a]
    BY <1>5, <2>1 DEF Restrict
  <2>7. \A a \in P : h[a] = e[r[a]]
    BY <1>3, <1>5, <2>1, <2>6
  <2> HIDE DEF P, r, e, h
  <2>8. SumFunction(h) = SumFunction(e)
    BY <1>1, <2>2, <2>3, <2>4, <2>5, <2>6, <2>7, SumRenamed
  <2>9. SumFunction(e) = c[x] * SumFunction(d)
    <3>1. ScaledBy(e, c[x], d, B)
      BY DEF ScaledBy, e
    <3>2. c[x] \in Int
      BY <1>2
    <3> QED
      BY <1>1, <1>2, <2>5, <3>1, <3>2, SumScales
  <2> QED
    BY <2>8, <2>9 DEF h, P
<1>10. SumsByPart(g, f, S, p, A)
  BY <1>9 DEF SumsByPart
<1>11. SumFunction(f) = SumFunction(g)
  <2> HIDE DEF f, g, p, S, A
  <2> QED
    BY <1>1, <1>5, <1>6, <1>8, <1>10, SumPartition
<1>12. SumFunction(g) = SumFunction(d) * SumFunction(c)
  <2>1. ScaledBy(g, SumFunction(d), c, A)
    <3> SUFFICES ASSUME NEW x \in A PROVE g[x] = SumFunction(d) * c[x]
      BY DEF ScaledBy
    <3>1. c[x] \in Int
      BY <1>2
    <3> QED
      BY <1>7, <3>1
  <2> HIDE DEF g, A
  <2> QED
    BY <1>1, <1>2, <1>7, <1>8, <2>1, SumScales
<1>13. SumFunction(c) \in Int
  BY <1>1, <1>2, SumType
<1>14. SumFunction(f) = SumFunction(c) * SumFunction(d)
  <2> HIDE DEF f, g
  <2> QED
    BY <1>7, <1>11, <1>12, <1>13
<1> QED
  BY <1>5, <1>14 DEF Counts, SumsMultiply

(* The order of the factors does not matter.                               *)
LEMMA CrossCommutes ==
  ASSUME NEW q \in Query, NEW X \in SUBSET Indices(q), NEW Y \in SUBSET Indices(q), X \cap Y = {},
         NEW c \in Counts(q, X), NEW d \in Counts(q, Y)
  PROVE  Cross(q, Y, X, d, c) = Cross(q, X, Y, c, d)
<1>1. Y \cup X = X \cup Y
  OBVIOUS
<1>2. \A a \in Tuples(q, X \cup Y) : d[On(a, Y)] * c[On(a, X)] = c[On(a, X)] * d[On(a, Y)]
  <2> SUFFICES ASSUME NEW a \in Tuples(q, X \cup Y)
               PROVE  d[On(a, Y)] * c[On(a, X)] = c[On(a, X)] * d[On(a, Y)]
    OBVIOUS
  <2>0. Split(q, X, Y)
    BY TuplesSplit
  <2>1. On(a, X) \in Tuples(q, X) /\ On(a, Y) \in Tuples(q, Y)
    BY <2>0 DEF Split
  <2>2. d[On(a, Y)] \in Int /\ c[On(a, X)] \in Int
    BY <2>1 DEF Counts
  <2> QED
    BY <2>2
<1> QED
  BY <1>1, <1>2 DEF Cross

(* The tuple over nothing.                                                 *)
Empty == [i \in {} |-> 0]

LEMMA TuplesOfNone ==
  ASSUME NEW q
  PROVE  /\ {} \in SUBSET Indices(q) /\ Tuples(q, {}) = {Empty}
         /\ \A X \in SUBSET Indices(q) : \A a \in Tuples(q, X) : On(a, {}) = Empty /\ On(a, X) = a
<1>1. Tuples(q, {}) = {Empty}
  <2>1. Empty \in Tuples(q, {})
    BY DEF Tuples, Empty
  <2>2. \A a \in Tuples(q, {}) : a = Empty
    BY DEF Tuples, Empty
  <2> QED
    BY <2>1, <2>2
<1>2. ASSUME NEW X \in SUBSET Indices(q), NEW a \in Tuples(q, X)
      PROVE  On(a, {}) = Empty /\ On(a, X) = a
  <2>1. a = [i \in X |-> a[i]]
    BY TuplesAre
  <2>2. On(a, {}) = Empty
    BY DEF On, Empty
  <2> QED
    BY <2>1, <2>2 DEF On
<1> QED
  BY <1>1, <1>2

-----------------------------------------------------------------------------
(***************************************************************************)
(* Products of weights: every index weighs the value a tuple has there.    *)
(***************************************************************************)

Weights(q, X, W) == \A i \in X : W[i] \in [ValuesAt(q, i) -> Int]

Weighted(q, X, W) == [a \in Tuples(q, X) |-> ProductOf([i \in X |-> W[i][a[i]]])]

LEMMA IndicesFinite ==
  ASSUME NEW q \in Query, NEW X \in SUBSET Indices(q)
  PROVE  IsFiniteSet(X)
<1>1. IsFiniteSet(0..Size(q))
  <2>1. Size(q) \in Nat
    BY RingViewAssumption DEF Size, RowsOf
  <2> QED
    BY <2>1, FS_Interval
<1> QED
  BY <1>1, FS_Subset DEF Indices

LEMMA WeightedType ==
  ASSUME NEW q \in Query, NEW X \in SUBSET Indices(q), NEW W, Weights(q, X, W)
  PROVE  /\ \A a \in Tuples(q, X) : [i \in X |-> W[i][a[i]]] \in [X -> Int]
         /\ Weighted(q, X, W) \in Counts(q, X)
<1>1. \A a \in Tuples(q, X) : [i \in X |-> W[i][a[i]]] \in [X -> Int]
  BY TuplesAre DEF Weights
<1>2. \A a \in Tuples(q, X) : ProductOf([i \in X |-> W[i][a[i]]]) \in Int
  BY <1>1, IndicesFinite, ProductType
<1> QED
  BY <1>1, <1>2 DEF Weighted, Counts

LEMMA WeightedCross ==
  ASSUME NEW q \in Query, NEW X \in SUBSET Indices(q), NEW Y \in SUBSET Indices(q), X \cap Y = {},
         NEW W, Weights(q, X \cup Y, W)
  PROVE  Weighted(q, X \cup Y, W) = Cross(q, X, Y, Weighted(q, X, W), Weighted(q, Y, W))
<1>1. X \cup Y \in SUBSET Indices(q)
  OBVIOUS
<1>2. IsFiniteSet(X \cup Y)
  BY <1>1, IndicesFinite
<1>3. ASSUME NEW a \in Tuples(q, X \cup Y)
      PROVE  Weighted(q, X \cup Y, W)[a] =
               Weighted(q, X, W)[On(a, X)] * Weighted(q, Y, W)[On(a, Y)]
  <2> DEFINE f == [i \in X \cup Y |-> W[i][a[i]]]
  <2>1. f \in [X \cup Y -> Int]
    BY <1>1, WeightedType
  <2>2. /\ Restrict(f, X) = [i \in X |-> W[i][On(a, X)[i]]]
        /\ Restrict(f, Y) = [i \in Y |-> W[i][On(a, Y)[i]]]
    BY DEF Restrict, On
  <2>3. ProductOf(f) = ProductOf(Restrict(f, X)) * ProductOf(Restrict(f, Y))
    <3> HIDE DEF f
    <3> QED
      BY <1>2, <2>1, ProductSplit
  <2>4. Split(q, X, Y)
    BY TuplesSplit
  <2>5. On(a, X) \in Tuples(q, X) /\ On(a, Y) \in Tuples(q, Y)
    BY <2>4 DEF Split
  <2> QED
    BY <2>2, <2>3, <2>5 DEF Weighted
<1> QED
  BY <1>3 DEF Weighted, Cross

(* One index weighs its own value.                                         *)
LEMMA WeightedOne ==
  ASSUME NEW q \in Query, NEW i \in Indices(q), NEW W, Weights(q, {i}, W)
  PROVE  Weighted(q, {i}, W) = [a \in Tuples(q, {i}) |-> W[i][a[i]]]
<1>1. ASSUME NEW a \in Tuples(q, {i})
      PROVE  ProductOf([j \in {i} |-> W[j][a[j]]]) = W[i][a[i]]
  <2> DEFINE f == [j \in {i} |-> W[j][a[j]]]
  <2>1. f \in [{i} -> Int] /\ f[i] = W[i][a[i]]
    BY WeightedType
  <2>2. ProductOf(f) = f[i]
    <3> HIDE DEF f
    <3> QED
      BY <2>1, IndicesFinite, ProductSingle
  <2> QED
    BY <2>1, <2>2
<1> QED
  BY <1>1 DEF Weighted

(* Counts of one sign: there is nothing to cancel.                         *)
Positive(q, X, c) == \A a \in Tuples(q, X) : c[a] >= 0
Negative(q, X, c) == \A a \in Tuples(q, X) : c[a] <= 0
OneSign(q, X, c) == Positive(q, X, c) \/ Negative(q, X, c)

LEMMA NaturalProduct ==
  ASSUME NEW S, IsFiniteSet(S), NEW f \in [S -> Int], \A x \in S : f[x] >= 0
  PROVE  ProductOf(f) \in Nat
<1>1. PICK h : ProductsOf(h, f, S) /\ ProductOf(f) = h[S]
  BY ProductUnfold
<1> DEFINE Good == {T \in SUBSET S : h[T] \in Nat}
<1>2. {} \in Good
  <2>1. {} \in SUBSET S
    OBVIOUS
  <2>2. h[{}] = 1
    BY <1>1, <2>1 DEF ProductsOf
  <2> QED
    BY <2>1, <2>2
<1>3. ASSUME NEW T \in SUBSET S, T # {}, T \ {Chosen(T)} \in Good
      PROVE  T \in Good
  <2>1. h[T] = f[Chosen(T)] * h[T \ {Chosen(T)}]
    BY <1>1, <1>3 DEF ProductsOf
  <2>2. f[Chosen(T)] \in Nat
    BY <1>3, ChosenIn
  <2>3. h[T \ {Chosen(T)}] \in Nat
    BY <1>3
  <2> QED
    BY <2>1, <2>2, <2>3
<1>4. SUBSET S \subseteq Good
  <2> HIDE DEF Good
  <2> QED
    BY <1>2, <1>3, SubsetInduction
<1> QED
  BY <1>1, <1>4

(* All weights but that of e are natural numbers, and e's has one sign.    *)
AllButOne(q, X, W, e) ==
  /\ \A i \in X \ {e} : \A v \in ValuesAt(q, i) : W[i][v] >= 0
  /\ e \in X => \/ \A v \in ValuesAt(q, e) : W[e][v] >= 0
                \/ \A v \in ValuesAt(q, e) : W[e][v] <= 0

LEMMA WeightedSign ==
  ASSUME NEW q \in Query, NEW X \in SUBSET Indices(q), NEW W, Weights(q, X, W),
         NEW e, AllButOne(q, X, W, e)
  PROVE  OneSign(q, X, Weighted(q, X, W)) /\ (e \notin X => Positive(q, X, Weighted(q, X, W)))
<1>1. ASSUME NEW Y \in SUBSET X, e \notin Y, NEW a \in Tuples(q, Y)
      PROVE  Weighted(q, Y, W)[a] \in Nat
  <2>1. Y \in SUBSET Indices(q) /\ Weights(q, Y, W)
    BY DEF Weights
  <2>2. [i \in Y |-> W[i][a[i]]] \in [Y -> Int]
    BY <2>1, WeightedType
  <2>3. \A i \in Y : [j \in Y |-> W[j][a[j]]][i] >= 0
    BY <1>1, <2>1, TuplesAre DEF AllButOne
  <2>4. ProductOf([i \in Y |-> W[i][a[i]]]) \in Nat
    BY <2>1, <2>2, <2>3, IndicesFinite, NaturalProduct
  <2> QED
    BY <2>4 DEF Weighted
<1>2. CASE e \notin X
  <2>1. Positive(q, X, Weighted(q, X, W))
    BY <1>1, <1>2 DEF Positive
  <2> QED
    BY <1>2, <2>1 DEF OneSign
<1>3. CASE e \in X
  <2> DEFINE E == {e}
             Y == X \ {e}
             w == Weighted(q, X, W)
             u == Weighted(q, Y, W)
  <2>1. /\ E \in SUBSET Indices(q) /\ Y \in SUBSET Indices(q) /\ E \cap Y = {} /\ E \cup Y = X
        /\ e \in Indices(q)
    BY <1>3
  <2>2. w = Cross(q, E, Y, Weighted(q, E, W), u)
    <3>1. Weights(q, E \cup Y, W)
      BY <2>1
    <3> HIDE DEF E, Y
    <3> QED
      BY <2>1, <3>1, WeightedCross
  <2>3. Weighted(q, E, W) = [a \in Tuples(q, E) |-> W[e][a[e]]]
    <3>1. Weights(q, {e}, W)
      BY <1>3 DEF Weights
    <3> QED
      BY <2>1, <3>1, WeightedOne
  <2>4. ASSUME NEW a \in Tuples(q, X)
        PROVE  /\ a[e] \in ValuesAt(q, e) /\ W[e][a[e]] \in Int
               /\ \E n \in Nat : w[a] = W[e][a[e]] * n
    <3>1. Split(q, E, Y)
      BY <2>1, TuplesSplit
    <3>2. On(a, E) \in Tuples(q, E) /\ On(a, Y) \in Tuples(q, Y)
      BY <2>1, <3>1 DEF Split
    <3>3. u[On(a, Y)] \in Nat
      BY <1>1, <3>2
    <3>4. w[a] = Weighted(q, E, W)[On(a, E)] * u[On(a, Y)]
      <4> HIDE DEF w, E, Y, u
      <4> QED
        BY <2>1, <2>2 DEF Cross
    <3>5. Weighted(q, E, W)[On(a, E)] = W[e][a[e]]
      BY <2>3, <3>2 DEF On
    <3>6. a[e] \in ValuesAt(q, e)
      BY <1>3, TuplesAre
    <3>7. W[e][a[e]] \in Int
      BY <1>3, <3>6 DEF Weights
    <3> HIDE DEF w, E, Y, u
    <3> QED
      BY <3>3, <3>4, <3>5, <3>6, <3>7
  <2>5. CASE \A v \in ValuesAt(q, e) : W[e][v] >= 0
    <3>1. \A a \in Tuples(q, X) : w[a] >= 0
      <4> SUFFICES ASSUME NEW a \in Tuples(q, X) PROVE w[a] >= 0
        OBVIOUS
      <4>1. PICK n \in Nat : w[a] = W[e][a[e]] * n
        BY <2>4
      <4>2. PICK k \in Int : k = W[e][a[e]] /\ k >= 0
        BY <2>4, <2>5
      <4>3. k * n >= 0
        BY <4>2
      <4> QED
        BY <4>1, <4>2, <4>3
    <3> QED
      BY <1>3, <3>1 DEF OneSign, Positive
  <2>6. CASE \A v \in ValuesAt(q, e) : W[e][v] <= 0
    <3>1. \A a \in Tuples(q, X) : w[a] <= 0
      <4> SUFFICES ASSUME NEW a \in Tuples(q, X) PROVE w[a] <= 0
        OBVIOUS
      <4>1. PICK n \in Nat : w[a] = W[e][a[e]] * n
        BY <2>4
      <4>2. PICK k \in Int : k = W[e][a[e]] /\ k <= 0
        BY <2>4, <2>6
      <4>3. k * n <= 0
        BY <4>2
      <4> QED
        BY <4>1, <4>2, <4>3
    <3> QED
      BY <1>3, <3>1 DEF OneSign, Negative
  <2> QED
    BY <1>3, <2>5, <2>6 DEF AllButOne
<1> QED
  BY <1>2, <1>3

-----------------------------------------------------------------------------
(***************************************************************************)
(* What a payload type has to do: its operators stand for operations on    *)
(* bags.  Nothing is asked of bags with counts of both signs: a trigger    *)
(* never meets one, and the count of a cofactor is 0 for some of them      *)
(* although they are not empty.                                            *)
(***************************************************************************)

Means(q, p, X, c) == RMeans(q, p, X, Bag(q, X, c))

HasLifted(q, X) == X \cap LiftedIn(q) # {}

Nothing(q, X) == [a \in Tuples(q, X) |-> 0]
Only(q, i, v) == [a \in Tuples(q, {i}) |-> IF a[i] = v THEN 1 ELSE 0]
Added(q, X, c, d) == [a \in Tuples(q, X) |-> c[a] + d[a]]

(* The indices X all come before those of Y, or after.                     *)
Apart(X, Y) == (\A x \in X, y \in Y : x < y) \/ (\A x \in X, y \in Y : y < x)

(* The default payload is the empty sum, wherever one is kept.             *)
ZeroLaw(q) ==
  /\ \A r \in LiftedIn(q) \ {0} : Means(q, RZero(q, r), {r}, Nothing(q, {r}))
  /\ \A p \in RStart(q) : Means(q, p, Indices(q), Nothing(q, Indices(q)))

(* A lifted value is the sum over its tuple.                               *)
LiftLaw(q) ==
  \A i \in LiftedIn(q) : \A v \in ValuesAt(q, i) : Means(q, RLift(q, i, v), {i}, Only(q, i, v))

(* Multiplying by a number of rows without lifted values joins them.       *)
ScaleLaw(q) ==
  \A X, Y \in SUBSET Indices(q) : \A c \in Counts(q, X), d \in Counts(q, Y) : \A p :
    /\ X \cap Y = {} /\ HasLifted(q, X) /\ ~HasLifted(q, Y)
    /\ OneSign(q, X, c) /\ OneSign(q, Y, d) /\ Means(q, p, X, c)
    => Means(q, RScale(q, SumFunction(d), p), X \cup Y, Cross(q, X, Y, c, d))

(* A product joins.                                                        *)
TimesLaw(q) ==
  \A X, Y \in SUBSET Indices(q) : \A c \in Counts(q, X), d \in Counts(q, Y) : \A p, r :
    /\ X \cap Y = {} /\ Apart(X, Y) /\ HasLifted(q, X) /\ HasLifted(q, Y)
    /\ OneSign(q, X, c) /\ OneSign(q, Y, d) /\ Means(q, p, X, c) /\ Means(q, r, Y, d)
    => Means(q, RTimes(q, p, r), X \cup Y, Cross(q, X, Y, c, d))

(* Where payloads are added up: in a view, and at the root.                *)
Kept(q) == {{r} : r \in LiftedIn(q) \ {0}} \cup {Indices(q)}

(* A sum adds the counts.                                                  *)
PlusLaw(q) ==
  \A X \in Kept(q) : \A c, d \in Counts(q, X) : \A p, r :
    /\ Positive(q, X, c) /\ OneSign(q, X, d) /\ Positive(q, X, Added(q, X, c, d))
    /\ Means(q, p, X, c) /\ Means(q, r, X, d)
    => Means(q, RPlus(q, p, r), X, Added(q, X, c, d))

(* Assignment to a new entry keeps the meaning.                            *)
AssignLaw(q) ==
  \A r \in LiftedIn(q) \ {0} : \A c \in Counts(q, {r}) : \A p :
    Positive(q, {r}, c) /\ Means(q, p, {r}, c) => Means(q, RAssign(q, r, p), {r}, c)

(* A payload is zero exactly if each of its tuples is lifted to zero; then *)
(* it does not matter to a sum, and the default may stand for it.          *)
IsZeroLaw(q) ==
  \A r \in LiftedIn(q) \ {0} : \A c \in Counts(q, {r}) : \A p :
    OneSign(q, {r}, c) /\ Means(q, p, {r}, c) =>
      /\ RIsZero(q, p) <=> \A a \in Tuples(q, {r}) : c[a] # 0 => RIsZero(q, RLift(q, r, a[r]))
      /\ RIsZero(q, p) =>
           /\ Positive(q, {r}, c) => Means(q, RZero(q, r), {r}, c)
           /\ \A d \in Counts(q, {r}) : \A s :
                /\ Positive(q, {r}, d) /\ Positive(q, {r}, Added(q, {r}, d, c))
                /\ Means(q, s, {r}, d)
                => Means(q, s, {r}, Added(q, {r}, d, c))

(* A join variable that is not lifted does not matter.                     *)
JoinLaw(q) ==
  0 \notin LiftedIn(q) =>
    \A g \in KeysOf(q) : \A c \in Counts(q, 1..Size(q)) : \A p :
      OneSign(q, 1..Size(q), c) /\ Means(q, p, 1..Size(q), c) =>
        Means(q, p, Indices(q), Cross(q, 1..Size(q), {0}, c, Only(q, 0, g)))

RingLaws(q) ==
  /\ ZeroLaw(q) /\ LiftLaw(q) /\ ScaleLaw(q) /\ TimesLaw(q)
  /\ PlusLaw(q) /\ AssignLaw(q) /\ IsZeroLaw(q) /\ JoinLaw(q)

-----------------------------------------------------------------------------
(***************************************************************************)
(* Values of M3: a long stands for the number of rows, a payload for what  *)
(* it means.                                                               *)
(***************************************************************************)

ValueMeans(q, p, X, c) ==
  IF HasLifted(q, X) THEN p.lifted /\ Means(q, p.val, X, c) ELSE p = Long(SumFunction(c))

MulOf(q, x, y) ==
  CASE x.lifted /\ y.lifted -> Payload(RTimes(q, x.val, y.val))
    [] x.lifted /\ ~y.lifted -> Payload(RScale(q, y.val, x.val))
    [] ~x.lifted /\ y.lifted -> Payload(RScale(q, x.val, y.val))
    [] OTHER -> Long(x.val * y.val)

LEMMA CountsUnion ==
  ASSUME NEW q \in Query, NEW X \in SUBSET Indices(q), NEW Y \in SUBSET Indices(q), X \cap Y = {},
         NEW c \in Counts(q, X), NEW d \in Counts(q, Y), HasLifted(q, Y), ~HasLifted(q, X),
         OneSign(q, X, c), OneSign(q, Y, d), ScaleLaw(q), NEW p, Means(q, p, Y, d)
  PROVE  Means(q, RScale(q, SumFunction(c), p), X \cup Y, Cross(q, X, Y, c, d))
<1>1. Means(q, RScale(q, SumFunction(c), p), Y \cup X, Cross(q, Y, X, d, c))
  BY DEF ScaleLaw
<1>2. Y \cup X = X \cup Y
  OBVIOUS
<1>3. Cross(q, Y, X, d, c) = Cross(q, X, Y, c, d)
  BY CrossCommutes
<1> QED
  BY <1>1, <1>2, <1>3

(* The product of M3 joins.                                                *)
LEMMA MulMeans ==
  ASSUME NEW q \in Query, RingLaws(q), NEW X \in SUBSET Indices(q), NEW Y \in SUBSET Indices(q),
         X \cap Y = {}, Apart(X, Y), NEW c \in Counts(q, X), NEW d \in Counts(q, Y),
         OneSign(q, X, c), OneSign(q, Y, d),
         NEW x, NEW y, ValueMeans(q, x, X, c), ValueMeans(q, y, Y, d)
  PROVE  ValueMeans(q, MulOf(q, x, y), X \cup Y, Cross(q, X, Y, c, d))
<1>1. HasLifted(q, X \cup Y) <=> HasLifted(q, X) \/ HasLifted(q, Y)
  BY DEF HasLifted
<1>2. ScaleLaw(q) /\ TimesLaw(q)
  BY DEF RingLaws
<1>3. CASE HasLifted(q, X) /\ HasLifted(q, Y)
  <2>1. MulOf(q, x, y) = Payload(RTimes(q, x.val, y.val))
    BY <1>3 DEF MulOf, ValueMeans
  <2>2. Means(q, RTimes(q, x.val, y.val), X \cup Y, Cross(q, X, Y, c, d))
    BY <1>2, <1>3 DEF TimesLaw, ValueMeans
  <2> QED
    BY <1>1, <1>3, <2>1, <2>2 DEF ValueMeans, Payload
<1>4. CASE HasLifted(q, X) /\ ~HasLifted(q, Y)
  <2>1. MulOf(q, x, y) = Payload(RScale(q, SumFunction(d), x.val))
    BY <1>4 DEF MulOf, ValueMeans, Long
  <2>2. Means(q, RScale(q, SumFunction(d), x.val), X \cup Y, Cross(q, X, Y, c, d))
    BY <1>2, <1>4 DEF ScaleLaw, ValueMeans
  <2> QED
    BY <1>1, <1>4, <2>1, <2>2 DEF ValueMeans, Payload
<1>5. CASE ~HasLifted(q, X) /\ HasLifted(q, Y)
  <2>1. MulOf(q, x, y) = Payload(RScale(q, SumFunction(c), y.val))
    BY <1>5 DEF MulOf, ValueMeans, Long
  <2>2. Means(q, y.val, Y, d)
    BY <1>5 DEF ValueMeans
  <2>3. Means(q, RScale(q, SumFunction(c), y.val), X \cup Y, Cross(q, X, Y, c, d))
    BY <1>2, <1>5, <2>2, CountsUnion
  <2> QED
    BY <1>1, <1>5, <2>1, <2>3 DEF ValueMeans, Payload
<1>6. CASE ~HasLifted(q, X) /\ ~HasLifted(q, Y)
  <2>1. x = Long(SumFunction(c)) /\ y = Long(SumFunction(d))
    BY <1>6 DEF ValueMeans
  <2>2. ~x.lifted /\ ~y.lifted /\ x.val = SumFunction(c) /\ y.val = SumFunction(d)
    BY <2>1 DEF Long
  <2>3. MulOf(q, x, y) = Long(x.val * y.val)
    BY <2>2 DEF MulOf
  <2>4. SumsMultiply(q, X, Y, c, d)
    BY CrossSum
  <2>5. MulOf(q, x, y) = Long(SumFunction(Cross(q, X, Y, c, d)))
    BY <2>2, <2>3, <2>4 DEF SumsMultiply
  <2> QED
    BY <1>1, <1>6, <2>5 DEF ValueMeans
<1> QED
  BY <1>3, <1>4, <1>5, <1>6

-----------------------------------------------------------------------------
(***************************************************************************)
(* The delta of a trigger.  In the delta of the root the updated relation  *)
(* weighs its values by the multiplicity of the update, every other one by *)
(* the rows it holds, and the join variable is that of the row.            *)
(***************************************************************************)

Row(g, v) == [key |-> g, val |-> v]

CopiesAt(q, b, r, g, v) == IF Row(g, v) \in RowsOf(q)[r] THEN b[r][Row(g, v)] ELSE 0

GroupCounts(q, b, r, g) == [a \in Tuples(q, {r}) |-> CopiesAt(q, b, r, g, a[r])]

BaseOK(q, b) ==
  b = [r \in 1..Size(q) |-> b[r]] /\ \A r \in 1..Size(q) : b[r] \in [RowsOf(q)[r] -> Nat]

EventOK(q, e) ==
  /\ e.rel \in 1..Size(q) /\ e.row \in RowsOf(q)[e.rel]
  /\ e.mult \in Int /\ e.rooted \in BOOLEAN

WeightAt(q, b, e, i, v) ==
  IF i = 0 THEN IF v = e.row.key THEN 1 ELSE 0
  ELSE IF i = e.rel THEN IF v = e.row.val THEN e.mult ELSE 0
  ELSE CopiesAt(q, b, i, e.row.key, v)

EventWeights(q, b, e) == [i \in Indices(q) |-> [v \in ValuesAt(q, i) |-> WeightAt(q, b, e, i, v)]]

(* The delta of a relation's own view.                                     *)
DeltaCounts(q, e) == [a \in Tuples(q, {e.rel}) |-> IF a[e.rel] = e.row.val THEN e.mult ELSE 0]

DefaultOf(q, r) == IF r \in LiftedIn(q) THEN Payload(RZero(q, r)) ELSE Long(0)
LookupOf(q, v, r, g) == IF g \in DOMAIN v[r] THEN v[r][g] ELSE DefaultOf(q, r)
FactorOf(q, r, v) == IF r \in LiftedIn(q) THEN Payload(RLift(q, r, v)) ELSE Long(1)
DeltaOf(q, e) == MulOf(q, Long(e.mult), FactorOf(q, e.rel, e.row.val))

OperandsOf(q, v, e) ==
  <<DeltaOf(q, e)>>
  \o [i \in 1..(Size(q) - e.rel) |-> LookupOf(q, v, e.rel + i, e.row.key)]
  \o [i \in 1..(e.rel - 1) |-> LookupOf(q, v, e.rel - i, e.row.key)]
  \o (IF 0 \in LiftedIn(q) THEN <<Payload(RLift(q, 0, e.row.key))>> ELSE <<>>)

LEMMA SizeType ==
  ASSUME NEW q \in Query
  PROVE  /\ Size(q) \in Nat \ {0}
         /\ \A r \in 1..Size(q) : \A t \in RowsOf(q)[r] :
              t = Row(t.key, t.val) /\ t.key \in KeysOf(q) /\ t.val \in ValuesAt(q, r)
         /\ LiftedIn(q) \subseteq Indices(q) /\ LiftedIn(q) # {}
<1>1. /\ Size(q) \in Nat \ {0} /\ LiftedIn(q) \subseteq 0..Size(q) /\ LiftedIn(q) # {}
      /\ \A r \in 1..Size(q) : \A t \in RowsOf(q)[r] : t = [key |-> t.key, val |-> t.val]
  BY RingViewAssumption DEF Size, RowsOf, LiftedIn
<1>2. ASSUME NEW r \in 1..Size(q), NEW t \in RowsOf(q)[r]
      PROVE  t.key \in KeysOf(q) /\ t.val \in ValuesAt(q, r)
  <2>1. t.key \in {u.key : u \in RowsOf(q)[r]}
    OBVIOUS
  <2>2. t.key \in KeysOf(q)
    BY <2>1 DEF KeysOf
  <2>3. r # 0
    BY <1>1
  <2> QED
    BY <2>2, <2>3 DEF ValuesAt
<1> QED
  BY <1>1, <1>2 DEF Row, Indices

LEMMA CopiesType ==
  ASSUME NEW q \in Query, NEW b, BaseOK(q, b), NEW r \in 1..Size(q), NEW g, NEW v
  PROVE  CopiesAt(q, b, r, g, v) \in Nat
BY DEF CopiesAt, BaseOK

LEMMA GroupCountsType ==
  ASSUME NEW q \in Query, NEW b, BaseOK(q, b), NEW r \in 1..Size(q), NEW g
  PROVE  GroupCounts(q, b, r, g) \in Counts(q, {r}) /\ Positive(q, {r}, GroupCounts(q, b, r, g))
<1>1. \A a \in Tuples(q, {r}) : CopiesAt(q, b, r, g, a[r]) \in Nat
  BY CopiesType
<1> QED
  BY <1>1 DEF GroupCounts, Counts, Positive

LEMMA EventWeightsType ==
  ASSUME NEW q \in Query, NEW b, BaseOK(q, b), NEW e, EventOK(q, e), NEW X \in SUBSET Indices(q)
  PROVE  /\ Weights(q, X, EventWeights(q, b, e)) /\ AllButOne(q, X, EventWeights(q, b, e), e.rel)
         /\ Weighted(q, X, EventWeights(q, b, e)) \in Counts(q, X)
         /\ OneSign(q, X, Weighted(q, X, EventWeights(q, b, e)))
<1> DEFINE W == EventWeights(q, b, e)
<1>1. \A i \in Indices(q) : i = 0 \/ i \in 1..Size(q)
  BY SizeType DEF Indices
<1>2. \A i \in Indices(q) : \A v : /\ WeightAt(q, b, e, i, v) \in Int
                                  /\ (i # e.rel => WeightAt(q, b, e, i, v) >= 0)
  BY <1>1, CopiesType DEF WeightAt, EventOK
<1>3. Weights(q, X, W)
  BY <1>2 DEF Weights, EventWeights
<1>4. AllButOne(q, X, W, e.rel)
  <2>1. \A i \in X \ {e.rel} : \A v \in ValuesAt(q, i) : W[i][v] >= 0
    BY <1>2 DEF EventWeights
  <2>2. e.rel # 0
    BY SizeType DEF EventOK
  <2>3. e.rel \in X => \A v \in ValuesAt(q, e.rel) : W[e.rel][v] \in {0, e.mult}
    BY <2>2 DEF EventWeights, WeightAt
  <2>4. e.mult \in Int
    BY DEF EventOK
  <2>5. e.mult >= 0 \/ e.mult <= 0
    BY <2>4
  <2> QED
    BY <2>1, <2>3, <2>4, <2>5 DEF AllButOne
<1> QED
  BY <1>3, <1>4, WeightedType, WeightedSign

(* The delta of the relation's own view.                                   *)
LEMMA DeltaMeans ==
  ASSUME NEW q \in Query, RingLaws(q), NEW e, EventOK(q, e)
  PROVE  /\ DeltaCounts(q, e) \in Counts(q, {e.rel}) /\ OneSign(q, {e.rel}, DeltaCounts(q, e))
         /\ ValueMeans(q, DeltaOf(q, e), {e.rel}, DeltaCounts(q, e))
<1> DEFINE r == e.rel
           x == e.row.val
           D == DeltaCounts(q, e)
           O == Only(q, r, x)
           M == [a \in Tuples(q, {}) |-> e.mult]
<1>1. e.mult \in Int /\ r \in 1..Size(q) /\ r \in Indices(q) /\ r # 0 /\ x \in ValuesAt(q, r)
  BY SizeType DEF EventOK, Indices
<1>2. D \in Counts(q, {r}) /\ OneSign(q, {r}, D)
  <2>1. D \in Counts(q, {r})
    BY <1>1 DEF DeltaCounts, Counts
  <2>2. \A a \in Tuples(q, {r}) : D[a] \in {0, e.mult}
    BY DEF DeltaCounts
  <2>3. e.mult >= 0 \/ e.mult <= 0
    BY <1>1
  <2> QED
    BY <1>1, <2>1, <2>2, <2>3 DEF OneSign, Positive, Negative
<1>3. O \in Counts(q, {r}) /\ Positive(q, {r}, O)
  BY DEF Only, Counts, Positive
<1>4. M \in Counts(q, {}) /\ OneSign(q, {}, M) /\ SumFunction(M) = e.mult
  <2>1. M \in Counts(q, {})
    BY <1>1 DEF Counts
  <2>2. e.mult >= 0 \/ e.mult <= 0
    BY <1>1
  <2>3. OneSign(q, {}, M)
    BY <2>2 DEF OneSign, Positive, Negative
  <2>4. M \in [{Empty} -> Int] /\ M[Empty] = e.mult /\ IsFiniteSet({Empty})
    BY <1>1, TuplesOfNone, FS_Singleton
  <2>5. SumFunction(M) = M[Empty]
    <3> HIDE DEF M
    <3> QED
      BY <2>4, SumSingle
  <2> QED
    BY <2>1, <2>3, <2>4, <2>5
<1>5. Cross(q, {r}, {}, O, M) = D
  <2>1. \A a \in Tuples(q, {r}) : O[On(a, {r})] * M[On(a, {})] = D[a]
    <3> SUFFICES ASSUME NEW a \in Tuples(q, {r})
                 PROVE  O[On(a, {r})] * M[On(a, {})] = D[a]
      OBVIOUS
    <3>1. On(a, {r}) = a /\ On(a, {}) = Empty /\ Empty \in Tuples(q, {})
      BY <1>1, TuplesOfNone
    <3>2. O[a] = IF a[r] = x THEN 1 ELSE 0
      BY DEF Only
    <3>3. D[a] = IF a[r] = x THEN e.mult ELSE 0
      BY DEF DeltaCounts
    <3>4. M[Empty] = e.mult
      BY <3>1
    <3> HIDE DEF O, M, D, r, x
    <3> QED
      BY <1>1, <3>1, <3>2, <3>3, <3>4
  <2>2. {r} \cup {} = {r}
    OBVIOUS
  <2>3. Cross(q, {r}, {}, O, M) = [a \in Tuples(q, {r}) |-> D[a]]
    <3> HIDE DEF O, M, D, r
    <3> QED
      BY <2>1, <2>2 DEF Cross
  <2> QED
    BY <2>3 DEF DeltaCounts
<1>6. CASE r \in LiftedIn(q)
  <2>1. DeltaOf(q, e) = Payload(RScale(q, e.mult, RLift(q, r, x)))
    BY <1>6 DEF DeltaOf, FactorOf, MulOf, Payload, Long
  <2>2. Means(q, RLift(q, r, x), {r}, O)
    BY <1>1, <1>6 DEF RingLaws, LiftLaw
  <2>3. HasLifted(q, {r}) /\ ~HasLifted(q, {})
    BY <1>6 DEF HasLifted
  <2>4. Means(q, RScale(q, SumFunction(M), RLift(q, r, x)), {r} \cup {}, Cross(q, {r}, {}, O, M))
    <3>1. {r} \in SUBSET Indices(q) /\ {} \in SUBSET Indices(q) /\ {r} \cap {} = {}
      BY <1>1
    <3>2. OneSign(q, {r}, O)
      BY <1>3 DEF OneSign
    <3>3. ScaleLaw(q)
      BY DEF RingLaws
    <3> HIDE DEF O, M, r, x
    <3> QED
      BY <1>3, <1>4, <2>2, <2>3, <3>1, <3>2, <3>3 DEF ScaleLaw
  <2>5. Means(q, RScale(q, e.mult, RLift(q, r, x)), {r}, D)
    <3>1. {r} \cup {} = {r}
      OBVIOUS
    <3> HIDE DEF O, M, r, x, D
    <3> QED
      BY <1>4, <1>5, <2>4, <3>1
  <2> QED
    BY <1>2, <2>1, <2>3, <2>5 DEF ValueMeans, Payload
<1>7. CASE r \notin LiftedIn(q)
  <2>1. DeltaOf(q, e) = Long(e.mult)
    <3>1. FactorOf(q, e.rel, e.row.val) = Long(1)
      BY <1>7 DEF FactorOf
    <3>2. MulOf(q, Long(e.mult), Long(1)) = Long(e.mult * 1)
      BY DEF MulOf, Long
    <3>3. e.mult * 1 = e.mult
      BY <1>1
    <3> QED
      BY <3>1, <3>2, <3>3 DEF DeltaOf
  <2>2. ~HasLifted(q, {r})
    BY <1>7 DEF HasLifted
  <2>3. SumFunction(D) = e.mult
    <3> DEFINE a == [i \in {r} |-> x]
    <3>1. a \in Tuples(q, {r})
      BY <1>1, TuplesAre
    <3>2. \A u \in Tuples(q, {r}) : u # a => u[r] # x
      BY <1>1, TuplesAre
    <3>3. D[a] = e.mult
      BY <3>1 DEF DeltaCounts
    <3>4. \A u \in Tuples(q, {r}) \ {a} : D[u] = 0
      BY <3>2 DEF DeltaCounts
    <3>5. D \in [Tuples(q, {r}) -> Int] /\ IsFiniteSet(Tuples(q, {r}))
      BY <1>1, <1>2, TuplesFinite DEF Counts
    <3> HIDE DEF D, a, r, x
    <3> QED
      BY <3>1, <3>3, <3>4, <3>5, SumSingle
  <2> QED
    BY <1>2, <2>1, <2>2, <2>3 DEF ValueMeans
<1> QED
  BY <1>2, <1>6, <1>7

(* The operands of the root statement, one after another, and the indices  *)
(* of the first i of them, which leave no gap.                             *)
OpCount(q) == IF 0 \in LiftedIn(q) THEN Size(q) + 1 ELSE Size(q)
OpIndex(q, e, i) == IF i <= Size(q) - e.rel + 1 THEN e.rel + i - 1 ELSE Size(q) + 1 - i
Prefix(q, e, i) ==
  IF i <= Size(q) - e.rel + 1 THEN e.rel..(e.rel + i - 1) ELSE (Size(q) + 1 - i)..Size(q)

LEMMA ConcatIs ==
  ASSUME NEW S, NEW s \in Seq(S), NEW t \in Seq(S)
  PROVE  /\ s \o t \in Seq(S) /\ Len(s \o t) = Len(s) + Len(t)
         /\ \A i \in 1..Len(s) : (s \o t)[i] = s[i]
         /\ \A i \in 1..(Len(s) + Len(t)) : i > Len(s) => (s \o t)[i] = t[i - Len(s)]
         /\ (Len(t) = 1 => (s \o t)[Len(s) + 1] = t[1])
OBVIOUS

LEMMA OperandsAre ==
  ASSUME NEW q \in Query, NEW v, NEW e, EventOK(q, e), NEW ops, ops = OperandsOf(q, v, e)
  PROVE  /\ Len(ops) = OpCount(q)
         /\ ops[1] = DeltaOf(q, e)
         /\ \A i \in 2..Size(q) : ops[i] = LookupOf(q, v, OpIndex(q, e, i), e.row.key)
         /\ (0 \in LiftedIn(q) => ops[Size(q) + 1] = Payload(RLift(q, 0, e.row.key)))
<1> DEFINE n == Size(q)
           r == e.rel
           A == <<DeltaOf(q, e)>>
           B == [i \in 1..(n - r) |-> LookupOf(q, v, r + i, e.row.key)]
           D == [i \in 1..(r - 1) |-> LookupOf(q, v, r - i, e.row.key)]
           E == IF 0 \in LiftedIn(q) THEN <<Payload(RLift(q, 0, e.row.key))>> ELSE <<>>
           S == {DeltaOf(q, e), Payload(RLift(q, 0, e.row.key))}
                  \cup {LookupOf(q, v, i, e.row.key) : i \in 1..n}
<1>1. n \in Nat \ {0} /\ r \in 1..n
  BY SizeType DEF EventOK
<1>2. A \in Seq(S) /\ Len(A) = 1 /\ A[1] = DeltaOf(q, e)
  OBVIOUS
<1>3. B \in Seq(S) /\ Len(B) = n - r /\ \A i \in 1..(n - r) : B[i] = LookupOf(q, v, r + i, e.row.key)
  <2>1. \A i \in 1..(n - r) : LookupOf(q, v, r + i, e.row.key) \in S
    BY <1>1
  <2>2. n - r \in Nat
    BY <1>1
  <2>3. B \in [1..(n - r) -> S]
    BY <2>1
  <2> HIDE DEF S
  <2> QED
    BY <2>2, <2>3
<1>4. D \in Seq(S) /\ Len(D) = r - 1 /\ \A i \in 1..(r - 1) : D[i] = LookupOf(q, v, r - i, e.row.key)
  <2>1. \A i \in 1..(r - 1) : LookupOf(q, v, r - i, e.row.key) \in S
    BY <1>1
  <2>2. r - 1 \in Nat
    BY <1>1
  <2>3. D \in [1..(r - 1) -> S]
    BY <2>1
  <2> HIDE DEF S
  <2> QED
    BY <2>2, <2>3
<1>5. /\ E \in Seq(S) /\ Len(E) = IF 0 \in LiftedIn(q) THEN 1 ELSE 0
      /\ (0 \in LiftedIn(q) => E[1] = Payload(RLift(q, 0, e.row.key)))
  <2>1. CASE 0 \in LiftedIn(q)
    <3>1. E = <<Payload(RLift(q, 0, e.row.key))>>
      BY <2>1
    <3>2. Payload(RLift(q, 0, e.row.key)) \in S
      OBVIOUS
    <3> HIDE DEF E, S
    <3> QED
      BY <2>1, <3>1, <3>2
  <2>2. CASE 0 \notin LiftedIn(q)
    <3>1. E = <<>>
      BY <2>2
    <3> HIDE DEF E, S
    <3> QED
      BY <2>2, <3>1
  <2> QED
    BY <2>1, <2>2
<1>6. ops = A \o B \o D \o E
  BY DEF OperandsOf
<1> HIDE DEF A, B, D, E, S
<1> PICK k \in Nat : k = n - r
  BY <1>1
<1>0. Len(B) = k /\ n = r + k
  BY <1>1, <1>3
<1> HIDE DEF n, r
<1>7. /\ A \o B \in Seq(S) /\ Len(A \o B) = 1 + k
      /\ \A i \in 1..1 : (A \o B)[i] = A[i]
      /\ \A i \in 1..(1 + k) : i > 1 => (A \o B)[i] = B[i - 1]
  <2>1. Len(A) = 1 /\ Len(B) = k /\ A \in Seq(S) /\ B \in Seq(S)
    BY <1>0, <1>2, <1>3
  <2>2. /\ A \o B \in Seq(S) /\ Len(A \o B) = Len(A) + Len(B)
        /\ \A i \in 1..Len(A) : (A \o B)[i] = A[i]
        /\ \A i \in 1..(Len(A) + Len(B)) : i > Len(A) => (A \o B)[i] = B[i - Len(A)]
    BY <2>1, ConcatIs
  <2> QED
    BY <2>1, <2>2
<1>8. /\ (A \o B)[1] = DeltaOf(q, e)
      /\ \A i \in 2..(k + 1) : (A \o B)[i] = LookupOf(q, v, r + i - 1, e.row.key)
  <2>1. (A \o B)[1] = A[1]
    BY <1>7
  <2>2. ASSUME NEW i \in 2..(k + 1)
        PROVE  (A \o B)[i] = LookupOf(q, v, r + i - 1, e.row.key)
    <3>1. (A \o B)[i] = B[i - 1]
      <4>1. i \in 1..(1 + k) /\ i > 1
        OBVIOUS
      <4> QED
        BY <1>7, <4>1
    <3>2. i - 1 \in 1..(n - r) /\ r + (i - 1) = r + i - 1
      BY <1>0, <1>1
    <3>3. B[i - 1] = LookupOf(q, v, r + (i - 1), e.row.key)
      BY <1>3, <3>2
    <3> QED
      BY <3>1, <3>2, <3>3
  <2> QED
    BY <1>2, <2>1, <2>2
<1> DEFINE T == A \o B
<1>12. T \in Seq(S) /\ Len(T) = 1 + k
  BY <1>7
<1> HIDE DEF T
<1>9. /\ T \o D \in Seq(S) /\ Len(T \o D) = n
      /\ (T \o D)[1] = DeltaOf(q, e)
      /\ \A i \in 2..n : (T \o D)[i] = LookupOf(q, v, OpIndex(q, e, i), e.row.key)
  <2>2. T \o D \in Seq(S) /\ Len(T \o D) = n /\ (T \o D)[1] = T[1]
    <3>1. /\ T \o D \in Seq(S) /\ Len(T \o D) = Len(T) + Len(D)
          /\ \A i \in 1..Len(T) : (T \o D)[i] = T[i]
      BY <1>4, <1>12, ConcatIs
    <3>2. Len(T) + Len(D) = n /\ 1 \in 1..Len(T)
      BY <1>0, <1>1, <1>4, <1>12
    <3> QED
      BY <3>1, <3>2
  <2>3. ASSUME NEW i \in 2..n
        PROVE  (T \o D)[i] = LookupOf(q, v, OpIndex(q, e, i), e.row.key)
    <3>1. CASE i <= k + 1
      <4>1. (T \o D)[i] = T[i] /\ i \in 2..(k + 1)
        BY <1>0, <1>1, <1>4, <1>12, <3>1
      <4>2. OpIndex(q, e, i) = r + i - 1
        BY <1>0, <1>1, <3>1 DEF OpIndex, n, r
      <4>3. T[i] = LookupOf(q, v, r + i - 1, e.row.key)
        BY <1>8, <4>1 DEF T
      <4> QED
        BY <4>1, <4>2, <4>3
    <3>2. CASE i > k + 1
      <4>1. (T \o D)[i] = D[i - (1 + k)]
        BY <1>0, <1>1, <1>4, <1>12, <3>2
      <4>2. i - (1 + k) \in 1..(r - 1) /\ r - (i - (1 + k)) = n + 1 - i
        BY <1>0, <1>1, <3>2
      <4>3. OpIndex(q, e, i) = n + 1 - i
        BY <1>0, <1>1, <3>2 DEF OpIndex, n, r
      <4>4. D[i - (1 + k)] = LookupOf(q, v, r - (i - (1 + k)), e.row.key)
        BY <1>4, <4>2
      <4> QED
        BY <4>1, <4>2, <4>3, <4>4
    <3>3. i <= k + 1 \/ i > k + 1
      BY <1>0, <1>1
    <3> QED
      BY <3>1, <3>2, <3>3
  <2>4. T[1] = DeltaOf(q, e)
    BY <1>8 DEF T
  <2> QED
    BY <2>2, <2>3, <2>4
<1> DEFINE U == T \o D
<1>13. U \in Seq(S) /\ Len(U) = n /\ ops = U \o E
  BY <1>6, <1>9 DEF T
<1> HIDE DEF U
<1>10. /\ Len(ops) = OpCount(q)
       /\ \A i \in 1..n : ops[i] = U[i]
       /\ (0 \in LiftedIn(q) => ops[n + 1] = E[1])
  <2>1. n \in Nat
    BY <1>1
  <2>2. /\ Len(ops) = n + Len(E) /\ \A i \in 1..n : ops[i] = U[i]
        /\ (Len(E) = 1 => ops[n + 1] = E[1])
    <3>1. /\ Len(U \o E) = Len(U) + Len(E) /\ \A i \in 1..Len(U) : (U \o E)[i] = U[i]
          /\ (Len(E) = 1 => (U \o E)[Len(U) + 1] = E[1])
      BY <1>5, <1>13, ConcatIs
    <3>2. Len(U) = n /\ ops = U \o E
      BY <1>13
    <3> QED
      BY <3>1, <3>2
  <2>4. Len(ops) = OpCount(q)
    <3>1. n + 0 = n
      BY <2>1
    <3> QED
      BY <1>5, <2>2, <3>1 DEF OpCount, n
  <2> QED
    BY <1>5, <2>2, <2>4
<1>11. 1 \in 1..n /\ \A i \in 2..n : i \in 1..n
  BY <1>1
<1>14. ops[1] = DeltaOf(q, e) /\ \A i \in 2..n : ops[i] = LookupOf(q, v, OpIndex(q, e, i), e.row.key)
  BY <1>9, <1>10, <1>11 DEF U
<1> QED
  BY <1>5, <1>10, <1>14 DEF n

ViewMeans(q, v, b) ==
  \A r \in 1..Size(q) : \A g \in KeysOf(q) :
    ValueMeans(q, LookupOf(q, v, r, g), {r}, GroupCounts(q, b, r, g))

LEMMA OperandMeans ==
  ASSUME NEW q \in Query, RingLaws(q), NEW v, NEW b, BaseOK(q, b), ViewMeans(q, v, b),
         NEW e, EventOK(q, e), NEW ops, ops = OperandsOf(q, v, e), NEW i \in 1..OpCount(q)
  PROVE  /\ OpIndex(q, e, i) \in Indices(q)
         /\ ValueMeans(q, ops[i], {OpIndex(q, e, i)},
                       Weighted(q, {OpIndex(q, e, i)}, EventWeights(q, b, e)))
<1> DEFINE n == Size(q)
           r == e.rel
           W == EventWeights(q, b, e)
           j == OpIndex(q, e, i)
<1>1. n \in Nat \ {0} /\ r \in 1..n /\ e.row \in RowsOf(q)[r] /\ e.row.key \in KeysOf(q)
  BY SizeType DEF EventOK
<1>2. i \in Nat /\ i <= n + 1 /\ (i = n + 1 => 0 \in LiftedIn(q))
  BY <1>1 DEF OpCount
<1>3. j \in Indices(q)
  BY <1>1, <1>2 DEF OpIndex, Indices
<1>4. Weighted(q, {j}, W) = [a \in Tuples(q, {j}) |-> WeightAt(q, b, e, j, a[j])]
  <2>1. Weights(q, {j}, W)
    BY <1>3, EventWeightsType
  <2>2. Weighted(q, {j}, W) = [a \in Tuples(q, {j}) |-> W[j][a[j]]]
    <3> HIDE DEF j, W
    <3> QED
      BY <1>3, <2>1, WeightedOne
  <2>3. \A a \in Tuples(q, {j}) : a[j] \in ValuesAt(q, j)
    BY <1>3, TuplesAre
  <2>4. \A a \in Tuples(q, {j}) : W[j][a[j]] = WeightAt(q, b, e, j, a[j])
    BY <1>3, <2>3 DEF EventWeights
  <2> QED
    BY <2>2, <2>4
<1>5. CASE i = 1
  <2>1. j = r /\ r # 0
    BY <1>1, <1>5 DEF OpIndex
  <2>2. ops[i] = DeltaOf(q, e)
    BY <1>5, OperandsAre
  <2>3. Weighted(q, {j}, W) = DeltaCounts(q, e)
    BY <1>4, <2>1 DEF WeightAt, DeltaCounts
  <2> QED
    BY <1>3, <2>1, <2>2, <2>3, DeltaMeans
<1>6. CASE i \in 2..n
  <2>1. j \in 1..n /\ j # r /\ j # 0
    BY <1>1, <1>6 DEF OpIndex
  <2>2. ops[i] = LookupOf(q, v, j, e.row.key)
    BY <1>6, OperandsAre
  <2>3. Weighted(q, {j}, W) = GroupCounts(q, b, j, e.row.key)
    BY <1>4, <2>1 DEF WeightAt, GroupCounts
  <2>4. ValueMeans(q, LookupOf(q, v, j, e.row.key), {j}, GroupCounts(q, b, j, e.row.key))
    BY <1>1, <2>1 DEF ViewMeans
  <2> QED
    BY <1>3, <2>2, <2>3, <2>4
<1>7. CASE i = n + 1
  <2>1. j = 0 /\ 0 \in LiftedIn(q)
    BY <1>1, <1>2, <1>7 DEF OpIndex
  <2>2. ops[i] = Payload(RLift(q, 0, e.row.key))
    BY <1>7, <2>1, OperandsAre
  <2>3. Weighted(q, {j}, W) = Only(q, 0, e.row.key)
    BY <1>4, <2>1 DEF WeightAt, Only
  <2>4. e.row.key \in ValuesAt(q, 0)
    BY <1>1 DEF ValuesAt
  <2>5. Means(q, RLift(q, 0, e.row.key), {0}, Only(q, 0, e.row.key))
    BY <2>1, <2>4 DEF RingLaws, LiftLaw
  <2>6. HasLifted(q, {0})
    BY <2>1 DEF HasLifted
  <2> QED
    BY <1>3, <2>1, <2>2, <2>3, <2>5, <2>6 DEF ValueMeans, Payload
<1>8. i = 1 \/ i \in 2..n \/ i = n + 1
  BY <1>1, <1>2
<1> QED
  BY <1>5, <1>6, <1>7, <1>8

-----------------------------------------------------------------------------
(***************************************************************************)
(* The product of the operands is the delta of the join.                   *)
(***************************************************************************)

(* Index x is put next to the indices X, which gives Y.                    *)
PutNext(X, x, Y) == Y = X \cup {x} /\ X \cap {x} = {} /\ Apart(X, {x})

PrefixStep(q, e, i) ==
  /\ Prefix(q, e, i) \in SUBSET Indices(q)
  /\ i = 1 => Prefix(q, e, i) = {OpIndex(q, e, i)}
  /\ i > 1 => PutNext(Prefix(q, e, i - 1), OpIndex(q, e, i), Prefix(q, e, i))
  /\ i = OpCount(q) =>
       Prefix(q, e, i) = IF 0 \in LiftedIn(q) THEN Indices(q) ELSE 1..Size(q)

LEMMA PrefixNext ==
  ASSUME NEW q \in Query, NEW e, EventOK(q, e), NEW i \in 1..OpCount(q)
  PROVE  PrefixStep(q, e, i)
<1> DEFINE n == Size(q)
           r == e.rel
<1>1. n \in Nat \ {0} /\ r \in 1..n
  BY SizeType DEF EventOK
<1>2. i \in Nat \ {0} /\ i <= n + 1 /\ (i = n + 1 => 0 \in LiftedIn(q))
  BY <1>1 DEF OpCount
<1>3. Prefix(q, e, i) \in SUBSET Indices(q)
  BY <1>1, <1>2 DEF Prefix, Indices
<1>4. i = 1 => Prefix(q, e, i) = {OpIndex(q, e, i)}
  BY <1>1 DEF Prefix, OpIndex
<1>5. ASSUME i > 1
      PROVE  PutNext(Prefix(q, e, i - 1), OpIndex(q, e, i), Prefix(q, e, i))
  <2> DEFINE P == Prefix(q, e, i - 1)
             x == OpIndex(q, e, i)
  <2>1. CASE i <= n - r + 1
    <3>1. P = r..(r + i - 2) /\ Prefix(q, e, i) = r..(r + i - 1) /\ x = r + i - 1
      BY <1>1, <1>2, <1>5, <2>1 DEF Prefix, OpIndex
    <3>2. \A j \in P : j < x
      BY <1>1, <1>2, <3>1
    <3> HIDE DEF P, x
    <3>3. Prefix(q, e, i) = P \cup {x}
      BY <1>1, <1>2, <1>5, <3>1
    <3> QED
      BY <1>1, <1>2, <3>1, <3>2, <3>3 DEF PutNext, Apart, P, x
  <2>2. CASE i > n - r + 1
    <3>1. P = (n + 2 - i)..n /\ Prefix(q, e, i) = (n + 1 - i)..n /\ x = n + 1 - i
      <4>1. CASE i = n - r + 2
        BY <1>1, <1>2, <1>5, <2>2, <4>1 DEF Prefix, OpIndex
      <4>2. CASE i # n - r + 2
        BY <1>1, <1>2, <1>5, <2>2, <4>2 DEF Prefix, OpIndex
      <4> QED
        BY <4>1, <4>2
    <3>2. \A j \in P : x < j
      BY <1>1, <1>2, <3>1
    <3> HIDE DEF P, x
    <3>3. Prefix(q, e, i) = P \cup {x}
      BY <1>1, <1>2, <1>5, <3>1
    <3> QED
      BY <1>1, <1>2, <3>1, <3>2, <3>3 DEF PutNext, Apart, P, x
  <2> QED
    BY <1>1, <1>2, <2>1, <2>2
<1>6. i = OpCount(q) =>
        Prefix(q, e, i) = IF 0 \in LiftedIn(q) THEN Indices(q) ELSE 1..Size(q)
  BY <1>1 DEF OpCount, Prefix, Indices
<1> QED
  BY <1>3, <1>4, <1>5, <1>6 DEF PrefixStep

(* The products of the first operands.                                     *)
IsProduct(q, ops, f, m) ==
  f = [i \in 1..m |-> IF i = 1 THEN ops[1] ELSE MulOf(q, f[i - 1], ops[i])]

LEMMA ProductExists ==
  ASSUME NEW q, NEW ops, NEW m \in Nat
  PROVE  \E f : IsProduct(q, ops, f, m)
<1> DEFINE N == {n \in Nat : \E f : IsProduct(q, ops, f, n)}
<1>1. 0 \in N
  <2>1. IsProduct(q, ops, [i \in 1..0 |-> 0], 0)
    BY DEF IsProduct
  <2> QED
    BY <2>1
<1>2. ASSUME NEW n \in N
      PROVE  n + 1 \in N
  <2>1. PICK f : IsProduct(q, ops, f, n)
    OBVIOUS
  <2>2. n \in Nat
    OBVIOUS
  <2> DEFINE y == IF n + 1 = 1 THEN ops[1] ELSE MulOf(q, f[n], ops[n + 1])
             g == [i \in 1..(n + 1) |-> IF i = n + 1 THEN y ELSE f[i]]
  <2>3. ASSUME NEW i \in 1..(n + 1)
        PROVE  g[i] = IF i = 1 THEN ops[1] ELSE MulOf(q, g[i - 1], ops[i])
    <3>1. CASE i = n + 1
      <4>1. i # 1 => g[i - 1] = f[n]
        BY <2>2, <3>1
      <4>2. g[i] = y
        BY <3>1
      <4> QED
        BY <3>1, <4>1, <4>2
    <3>2. CASE i # n + 1
      <4>1. i \in 1..n
        BY <2>2, <3>2
      <4>2. f[i] = IF i = 1 THEN ops[1] ELSE MulOf(q, f[i - 1], ops[i])
        BY <2>1, <4>1 DEF IsProduct
      <4>3. i # 1 => g[i - 1] = f[i - 1]
        BY <2>2, <4>1
      <4>4. g[i] = f[i]
        BY <3>2
      <4> QED
        BY <4>2, <4>3, <4>4
    <3> QED
      BY <3>1, <3>2
  <2>4. g = [i \in 1..(n + 1) |-> g[i]]
    OBVIOUS
  <2> HIDE DEF g
  <2>5. IsProduct(q, ops, g, n + 1)
    BY <2>3, <2>4 DEF IsProduct
  <2> QED
    BY <2>2, <2>5
<1> QED
  BY <1>1, <1>2, NumberInduction

LEMMA ProductMeans ==
  ASSUME NEW q \in Query, RingLaws(q), NEW v, NEW b, BaseOK(q, b), ViewMeans(q, v, b),
         NEW e, EventOK(q, e), NEW ops, ops = OperandsOf(q, v, e),
         NEW f, IsProduct(q, ops, f, OpCount(q)), NEW k \in 1..OpCount(q)
  PROVE  ValueMeans(q, f[k], Prefix(q, e, k),
                    Weighted(q, Prefix(q, e, k), EventWeights(q, b, e)))
<1> DEFINE W == EventWeights(q, b, e)
           m == OpCount(q)
           P(i) == Prefix(q, e, i)
           Right(i) == ValueMeans(q, f[i], P(i), Weighted(q, P(i), W))
           N == {i \in Nat : i + 1 \in 1..m => Right(i + 1)}
<1>1. m \in Nat \ {0}
  BY SizeType DEF OpCount
<1>2. \A i \in 1..m : f[i] = IF i = 1 THEN ops[1] ELSE MulOf(q, f[i - 1], ops[i])
  BY DEF IsProduct
<1>3. Right(1)
  <2>1. 1 \in 1..m /\ f[1] = ops[1]
    BY <1>1, <1>2
  <2>2. P(1) = {OpIndex(q, e, 1)}
    <3>1. PrefixStep(q, e, 1)
      BY <2>1, PrefixNext
    <3> QED
      BY <3>1 DEF PrefixStep
  <2>3. ValueMeans(q, ops[1], {OpIndex(q, e, 1)}, Weighted(q, {OpIndex(q, e, 1)}, W))
    BY <2>1, OperandMeans
  <2> QED
    BY <2>1, <2>2, <2>3
<1>4. ASSUME NEW i \in 1..m, i > 1, Right(i - 1)
      PROVE  Right(i)
  <2> DEFINE X == P(i - 1)
             Y == {OpIndex(q, e, i)}
             c == Weighted(q, X, W)
             d == Weighted(q, Y, W)
  <2>1. i - 1 \in 1..m
    BY <1>1, <1>4
  <2>2. /\ X \in SUBSET Indices(q) /\ P(i) = X \cup Y /\ X \cap Y = {} /\ Apart(X, Y)
        /\ P(i) \in SUBSET Indices(q)
    <3>1. PrefixStep(q, e, i) /\ PrefixStep(q, e, i - 1)
      BY <2>1, PrefixNext
    <3> QED
      BY <1>4, <3>1 DEF PrefixStep, PutNext
  <2>3. Y \in SUBSET Indices(q)
    BY <2>2
  <2>4. ValueMeans(q, ops[i], Y, d)
    BY OperandMeans
  <2>5. c \in Counts(q, X) /\ OneSign(q, X, c) /\ d \in Counts(q, Y) /\ OneSign(q, Y, d)
    BY <2>2, <2>3, EventWeightsType
  <2>6. Weighted(q, X \cup Y, W) = Cross(q, X, Y, c, d)
    <3>1. Weights(q, X \cup Y, W)
      BY <2>2, EventWeightsType
    <3> QED
      BY <2>2, <2>3, <3>1, WeightedCross
  <2>7. f[i] = MulOf(q, f[i - 1], ops[i])
    BY <1>2, <1>4
  <2>8. ValueMeans(q, f[i - 1], X, c)
    BY <1>4
  <2>9. P(i) = X \cup Y
    BY <2>2
  <2> HIDE DEF X, Y, c, d, W, P
  <2>10. ValueMeans(q, MulOf(q, f[i - 1], ops[i]), X \cup Y, Cross(q, X, Y, c, d))
    BY <2>2, <2>3, <2>4, <2>5, <2>8, MulMeans
  <2> QED
    BY <2>6, <2>7, <2>9, <2>10
<1> HIDE DEF Right
<1>5. 0 \in N
  BY <1>3
<1>6. \A i \in N : i + 1 \in N
  <2> SUFFICES ASSUME NEW i \in N, (i + 1) + 1 \in 1..m
               PROVE  Right((i + 1) + 1)
    OBVIOUS
  <2>1. i \in Nat
    OBVIOUS
  <2>2. i + 1 \in 1..m /\ ((i + 1) + 1) - 1 = i + 1 /\ (i + 1) + 1 > 1
    BY <1>1, <2>1
  <2>3. Right(i + 1)
    BY <2>2
  <2> QED
    BY <1>4, <2>2, <2>3
<1>7. N = Nat
  BY <1>5, <1>6, NumberInduction
<1>8. k - 1 \in Nat /\ (k - 1) + 1 = k
  BY <1>1
<1> QED
  BY <1>7, <1>8 DEF Right

RootDeltaOf(q, v, e) ==
  LET ops == OperandsOf(q, v, e)
      product[i \in 1..Len(ops)] == IF i = 1 THEN ops[1] ELSE MulOf(q, product[i - 1], ops[i])
  IN  product[Len(ops)]

LEMMA RootDeltaMeans ==
  ASSUME NEW q \in Query, RingLaws(q), NEW v, NEW b, BaseOK(q, b), ViewMeans(q, v, b),
         NEW e, EventOK(q, e)
  PROVE  /\ RootDeltaOf(q, v, e).lifted
         /\ Means(q, RootDeltaOf(q, v, e).val, Indices(q),
                  Weighted(q, Indices(q), EventWeights(q, b, e)))
<1> DEFINE ops == OperandsOf(q, v, e)
           m == OpCount(q)
           W == EventWeights(q, b, e)
           n == Size(q)
           f == CHOOSE g : g = [i \in 1..Len(ops) |-> IF i = 1 THEN ops[1] ELSE MulOf(q, g[i - 1], ops[i])]
<1>1. Len(ops) = m /\ m \in Nat \ {0} /\ n \in Nat \ {0}
  BY OperandsAre, SizeType DEF OpCount
<1>2. IsProduct(q, ops, f, m)
  <2>1. \E g : IsProduct(q, ops, g, m)
    BY <1>1, ProductExists
  <2>2. \E g : g = [i \in 1..Len(ops) |-> IF i = 1 THEN ops[1] ELSE MulOf(q, g[i - 1], ops[i])]
    BY <1>1, <2>1 DEF IsProduct
  <2>3. f = [i \in 1..Len(ops) |-> IF i = 1 THEN ops[1] ELSE MulOf(q, f[i - 1], ops[i])]
    <3> HIDE DEF ops
    <3> QED
      BY <2>2, Zenon
  <2> HIDE DEF f, ops
  <2> QED
    BY <1>1, <2>3 DEF IsProduct
<1>3. RootDeltaOf(q, v, e) = f[m]
  BY <1>1 DEF RootDeltaOf
<1>4. ValueMeans(q, f[m], Prefix(q, e, m), Weighted(q, Prefix(q, e, m), W))
  <2>1. m \in 1..m
    BY <1>1
  <2> HIDE DEF f
  <2> QED
    BY <1>2, <2>1, ProductMeans
<1>5. Prefix(q, e, m) = IF 0 \in LiftedIn(q) THEN Indices(q) ELSE 1..n
  <2>1. PrefixStep(q, e, m)
    BY <1>1, PrefixNext
  <2> QED
    BY <2>1 DEF PrefixStep
<1> HIDE DEF f, W
<1>6. CASE 0 \in LiftedIn(q)
  <2>1. HasLifted(q, Indices(q))
    BY <1>6, SizeType DEF HasLifted
  <2> QED
    BY <1>3, <1>4, <1>5, <1>6, <2>1 DEF ValueMeans, W
<1>7. CASE 0 \notin LiftedIn(q)
  <2> DEFINE X == 1..n
             c == Weighted(q, X, W)
             g == e.row.key
  <2>1. X \in SUBSET Indices(q) /\ {0} \in SUBSET Indices(q) /\ X \cap {0} = {} /\ X \cup {0} = Indices(q)
    BY <1>1 DEF Indices
  <2>2. HasLifted(q, X)
    BY <1>7, <2>1, SizeType DEF HasLifted
  <2>3. f[m].lifted /\ Means(q, f[m].val, X, c)
    BY <1>4, <1>5, <1>7, <2>2 DEF ValueMeans
  <2>4. g \in KeysOf(q)
    BY SizeType DEF EventOK
  <2>5. c \in Counts(q, X) /\ OneSign(q, X, c) /\ Weights(q, X \cup {0}, W) /\ Weights(q, {0}, W)
    BY <2>1, EventWeightsType DEF W
  <2>6. Weighted(q, {0}, W) = Only(q, 0, g)
    <3>1. 0 \in Indices(q)
      BY <2>1
    <3>2. Weighted(q, {0}, W) = [a \in Tuples(q, {0}) |-> W[0][a[0]]]
      BY <2>5, <3>1, WeightedOne
    <3>3. \A a \in Tuples(q, {0}) : a[0] \in ValuesAt(q, 0)
      BY <2>1, TuplesAre
    <3>4. \A a \in Tuples(q, {0}) : W[0][a[0]] = IF a[0] = g THEN 1 ELSE 0
      BY <3>1, <3>3 DEF W, EventWeights, WeightAt
    <3> QED
      BY <3>2, <3>4 DEF Only
  <2>7. Weighted(q, Indices(q), W) = Cross(q, X, {0}, c, Only(q, 0, g))
    <3>1. Weighted(q, X \cup {0}, W) = Cross(q, X, {0}, c, Weighted(q, {0}, W))
      <4>1. X \in SUBSET Indices(q) /\ {0} \in SUBSET Indices(q) /\ X \cap {0} = {}
        BY <2>1
      <4>2. Weights(q, X \cup {0}, W)
        BY <2>5
      <4> HIDE DEF X
      <4> QED
        BY <4>1, <4>2, WeightedCross
    <3> QED
      BY <2>1, <2>6, <3>1
  <2>8. Means(q, f[m].val, Indices(q), Cross(q, X, {0}, c, Only(q, 0, g)))
    <3>1. JoinLaw(q) /\ X = 1..Size(q)
      BY DEF RingLaws
    <3> HIDE DEF g, c, X
    <3>2. \A k \in KeysOf(q) : \A d \in Counts(q, X) : \A p :
            OneSign(q, X, d) /\ Means(q, p, X, d) => Means(q, p, Indices(q), Cross(q, X, {0}, d, Only(q, 0, k)))
      BY <1>7, <3>1 DEF JoinLaw
    <3>3. Means(q, f[m].val, X, c) /\ c \in Counts(q, X) /\ OneSign(q, X, c)
      BY <2>3, <2>5
    <3> QED
      BY <2>4, <3>2, <3>3
  <2> QED
    BY <1>3, <2>3, <2>7, <2>8 DEF W
<1> QED
  BY <1>6, <1>7

-----------------------------------------------------------------------------
(***************************************************************************)
(* What an update changes: the rows of one group, and the join by the      *)
(* delta of the root.                                                      *)
(***************************************************************************)

JoinFactors(q, b, a) == [r \in 1..Size(q) |-> CopiesAt(q, b, r, a[0], a[r])]
JoinCounts(q, b) == [a \in Tuples(q, Indices(q)) |-> ProductOf(JoinFactors(q, b, a))]

(* The base after the update.                                              *)
Advance(q, b, e) ==
  [r \in 1..Size(q) |-> [t \in RowsOf(q)[r] |->
     IF r = e.rel /\ t = e.row THEN b[r][t] + e.mult ELSE b[r][t]]]

LEMMA CopiesAdvance ==
  ASSUME NEW q \in Query, NEW b, NEW e, EventOK(q, e), NEW r \in 1..Size(q), NEW g, NEW v
  PROVE  CopiesAt(q, Advance(q, b, e), r, g, v) =
           IF r = e.rel /\ g = e.row.key /\ v = e.row.val
           THEN CopiesAt(q, b, r, g, v) + e.mult ELSE CopiesAt(q, b, r, g, v)
<1>1. e.row \in RowsOf(q)[e.rel] /\ e.row = Row(e.row.key, e.row.val)
  BY SizeType DEF EventOK
<1>2. Row(g, v).key = g /\ Row(g, v).val = v
  BY DEF Row
<1>3. Row(g, v) = e.row <=> g = e.row.key /\ v = e.row.val
  BY <1>1, <1>2
<1>4. CASE Row(g, v) \in RowsOf(q)[r]
  <2>1. Advance(q, b, e)[r][Row(g, v)] =
          IF r = e.rel /\ Row(g, v) = e.row THEN b[r][Row(g, v)] + e.mult ELSE b[r][Row(g, v)]
    BY <1>4 DEF Advance
  <2> QED
    BY <1>3, <1>4, <2>1 DEF CopiesAt
<1>5. CASE Row(g, v) \notin RowsOf(q)[r]
  <2>1. ~(r = e.rel /\ g = e.row.key /\ v = e.row.val)
    BY <1>1, <1>3, <1>5
  <2> QED
    BY <1>5, <2>1 DEF CopiesAt
<1> QED
  BY <1>4, <1>5

LEMMA GroupAdvance ==
  ASSUME NEW q \in Query, NEW b, BaseOK(q, b), NEW e, EventOK(q, e), NEW r \in 1..Size(q), NEW g
  PROVE  GroupCounts(q, Advance(q, b, e), r, g) =
           IF r = e.rel /\ g = e.row.key
           THEN Added(q, {r}, GroupCounts(q, b, r, g), DeltaCounts(q, e))
           ELSE GroupCounts(q, b, r, g)
<1> DEFINE d == Advance(q, b, e)
<1>1. \A v : CopiesAt(q, d, r, g, v) =
              IF r = e.rel /\ g = e.row.key /\ v = e.row.val
              THEN CopiesAt(q, b, r, g, v) + e.mult ELSE CopiesAt(q, b, r, g, v)
  BY CopiesAdvance
<1>2. \A v : CopiesAt(q, b, r, g, v) \in Nat
  BY CopiesType
<1> HIDE DEF d
<1>3. CASE r = e.rel /\ g = e.row.key
  <2>1. \A a \in Tuples(q, {r}) : CopiesAt(q, d, r, g, a[r]) =
          GroupCounts(q, b, r, g)[a] + DeltaCounts(q, e)[a]
    <3> SUFFICES ASSUME NEW a \in Tuples(q, {r})
                 PROVE  CopiesAt(q, d, r, g, a[r]) = GroupCounts(q, b, r, g)[a] + DeltaCounts(q, e)[a]
      OBVIOUS
    <3>1. GroupCounts(q, b, r, g)[a] = CopiesAt(q, b, r, g, a[r])
      BY DEF GroupCounts
    <3>2. DeltaCounts(q, e)[a] = IF a[r] = e.row.val THEN e.mult ELSE 0
      BY <1>3 DEF DeltaCounts
    <3> QED
      BY <1>1, <1>2, <1>3, <3>1, <3>2
  <2> QED
    BY <1>3, <2>1 DEF GroupCounts, Added, d
<1>4. CASE ~(r = e.rel /\ g = e.row.key)
  BY <1>1, <1>4 DEF GroupCounts, d
<1> QED
  BY <1>3, <1>4

LEMMA JoinCountsType ==
  ASSUME NEW q \in Query, NEW b, BaseOK(q, b)
  PROVE  /\ JoinCounts(q, b) \in Counts(q, Indices(q))
         /\ Positive(q, Indices(q), JoinCounts(q, b))
         /\ \A a : JoinFactors(q, b, a) \in [1..Size(q) -> Nat]
<1>1. \A a : JoinFactors(q, b, a) \in [1..Size(q) -> Nat]
  BY CopiesType DEF JoinFactors
<1>2. \A a : ProductOf(JoinFactors(q, b, a)) \in Nat
  <2> SUFFICES ASSUME NEW a
               PROVE  ProductOf(JoinFactors(q, b, a)) \in Nat
    OBVIOUS
  <2>1. IsFiniteSet(1..Size(q))
    BY SizeType, FS_Interval
  <2>2. JoinFactors(q, b, a) \in [1..Size(q) -> Int] /\ \A r \in 1..Size(q) : JoinFactors(q, b, a)[r] >= 0
    <3> DEFINE f == JoinFactors(q, b, a)
    <3>1. f \in [1..Size(q) -> Nat]
      BY <1>1
    <3> HIDE DEF f
    <3>2. f \in [1..Size(q) -> Int] /\ \A r \in 1..Size(q) : f[r] >= 0
      BY <3>1
    <3> QED
      BY <3>2 DEF f
  <2> QED
    BY <2>1, <2>2, NaturalProduct
<1> QED
  BY <1>1, <1>2 DEF JoinCounts, Counts, Positive

(* A product changes with one factor.                                      *)
LEMMA ProductChange ==
  ASSUME NEW S, IsFiniteSet(S), NEW c \in S, NEW d \in Int,
         NEW f \in [S -> Int], NEW g \in [S -> Int], NEW h \in [S -> Int],
         g[c] = f[c] + d, h[c] = d, \A x \in S \ {c} : g[x] = f[x] /\ h[x] = f[x]
  PROVE  ProductOf(g) = ProductOf(f) + ProductOf(h)
<1> DEFINE k == [x \in S |-> IF x = c THEN 1 ELSE f[x]]
<1>1. k \in [S -> Int] /\ k[c] = 1 /\ \A x \in S \ {c} : k[x] = f[x]
  OBVIOUS
<1> HIDE DEF k
<1>2. ProductOf(f) = ProductOf(k) * f[c]
  BY <1>1, ProductFactor
<1>3. ProductOf(g) = ProductOf(k) * g[c]
  BY <1>1, ProductFactor
<1>4. ProductOf(h) = ProductOf(k) * h[c]
  BY <1>1, ProductFactor
<1>5. ProductOf(k) \in Int /\ f[c] \in Int
  BY <1>1, ProductType
<1> QED
  BY <1>2, <1>3, <1>4, <1>5

LEMMA JoinAdvance ==
  ASSUME NEW q \in Query, NEW b, BaseOK(q, b), NEW e, EventOK(q, e)
  PROVE  JoinCounts(q, Advance(q, b, e)) =
           Added(q, Indices(q), JoinCounts(q, b),
                 Weighted(q, Indices(q), EventWeights(q, b, e)))
<1> DEFINE W == EventWeights(q, b, e)
           n == Size(q)
           I == Indices(q)
           X == 1..n
           r == e.rel
           d == Advance(q, b, e)
<1>1. n \in Nat \ {0} /\ r \in X /\ e.mult \in Int /\ r # 0
  BY SizeType DEF EventOK
<1>2. /\ X \in SUBSET I /\ {0} \in SUBSET I /\ {0} \cap X = {} /\ {0} \cup X = I /\ IsFiniteSet(X)
      /\ 0 \in I
  <2>1. IsFiniteSet(X)
    BY <1>1, FS_Interval
  <2>2. X \in SUBSET I /\ {0} \in SUBSET I /\ {0} \cap X = {} /\ {0} \cup X = I /\ 0 \in I
    <3> DEFINE m == n
    <3>1. m \in Nat /\ I = 0..m
      BY <1>1 DEF Indices
    <3> HIDE DEF m, I
    <3>2. \A i \in 0..m : i = 0 \/ i \in 1..m
      BY <3>1
    <3>3. 1..m \subseteq 0..m /\ 0 \in 0..m /\ 0 \notin 1..m
      BY <3>1
    <3> QED
      BY <3>1, <3>2, <3>3 DEF m
  <2> QED
    BY <2>1, <2>2
<1>3. ASSUME NEW a \in Tuples(q, I)
      PROVE  ProductOf(JoinFactors(q, d, a)) = JoinCounts(q, b)[a] + Weighted(q, I, W)[a]
  <2> DEFINE f == JoinFactors(q, b, a)
             g == JoinFactors(q, d, a)
             h == [i \in X |-> WeightAt(q, b, e, i, a[i])]
  <2>1. \A i \in I : a[i] \in ValuesAt(q, i)
    BY TuplesAre
  <2>2. f \in [X -> Int] /\ ProductOf(f) = JoinCounts(q, b)[a]
    <3>1. f \in [X -> Nat]
      BY JoinCountsType
    <3>2. ProductOf(f) = JoinCounts(q, b)[a]
      BY DEF JoinCounts
    <3> HIDE DEF f
    <3> QED
      BY <3>1, <3>2
  <2>3. \A i \in X : g[i] = IF i = r /\ a[0] = e.row.key /\ a[i] = e.row.val
                           THEN f[i] + e.mult ELSE f[i]
    BY CopiesAdvance DEF JoinFactors
  <2>4. g \in [X -> Int]
    <3>1. \A i \in X : g[i] \in Int
      BY <1>1, <2>2, <2>3
    <3> QED
      BY <3>1 DEF JoinFactors
  <2>5. h \in [X -> Int] /\ ProductOf(h) \in Int /\ ProductOf(f) \in Int
    <3>1. \A i \in X : WeightAt(q, b, e, i, a[i]) \in Int
      BY <1>1, CopiesType DEF WeightAt
    <3>2. h \in [X -> Int]
      BY <3>1
    <3> HIDE DEF h, f
    <3> QED
      BY <1>2, <2>2, <3>2, ProductType
  <2>6. Weighted(q, I, W)[a] = (IF a[0] = e.row.key THEN 1 ELSE 0) * ProductOf(h)
    <3>1. /\ Weights(q, {0} \cup X, W) /\ Weights(q, {0}, W)
          /\ On(a, {0}) \in Tuples(q, {0}) /\ On(a, X) \in Tuples(q, X)
      <4>1. Weights(q, {0} \cup X, W) /\ Weights(q, {0}, W)
        BY <1>2, EventWeightsType
      <4>2. Split(q, {0}, X)
        BY <1>2, TuplesSplit
      <4> QED
        BY <1>2, <4>1, <4>2 DEF Split
    <3>2. Weighted(q, I, W) = Cross(q, {0}, X, Weighted(q, {0}, W), Weighted(q, X, W))
      <4>1. Weighted(q, {0} \cup X, W) = Cross(q, {0}, X, Weighted(q, {0}, W), Weighted(q, X, W))
        <5> HIDE DEF W, X
        <5> QED
          BY <1>2, <3>1, WeightedCross
      <4> QED
        BY <1>2, <4>1
    <3>3. Weighted(q, {0}, W)[On(a, {0})] = IF a[0] = e.row.key THEN 1 ELSE 0
      <4>1. Weighted(q, {0}, W)[On(a, {0})] = W[0][On(a, {0})[0]]
        <5>1. Weighted(q, {0}, W) = [u \in Tuples(q, {0}) |-> W[0][u[0]]]
          <6> HIDE DEF W
          <6> QED
            BY <1>2, <3>1, WeightedOne
        <5> QED
          BY <3>1, <5>1
      <4>2. On(a, {0})[0] = a[0]
        BY DEF On
      <4> QED
        BY <1>2, <2>1, <4>1, <4>2 DEF EventWeights, WeightAt
    <3>4. Weighted(q, X, W)[On(a, X)] = ProductOf(h)
      <4>1. \A i \in X : W[i][On(a, X)[i]] = WeightAt(q, b, e, i, a[i])
        BY <1>2, <2>1 DEF EventWeights, On
      <4>2. [i \in X |-> W[i][On(a, X)[i]]] = h
        BY <4>1
      <4>3. Weighted(q, X, W)[On(a, X)] = ProductOf([i \in X |-> W[i][On(a, X)[i]]])
        BY <3>1 DEF Weighted
      <4> QED
        BY <4>2, <4>3
    <3>5. Weighted(q, I, W)[a] = Weighted(q, {0}, W)[On(a, {0})] * Weighted(q, X, W)[On(a, X)]
      <4>1. a \in Tuples(q, {0} \cup X)
        BY <1>2
      <4> QED
        BY <3>2, <4>1 DEF Cross
    <3> QED
      BY <3>3, <3>4, <3>5
  <2>7. CASE a[0] = e.row.key
    <3>1. h[r] = IF a[r] = e.row.val THEN e.mult ELSE 0
      BY <1>1 DEF WeightAt
    <3>2. \A i \in X \ {r} : h[i] = f[i]
      BY <1>1, <2>7 DEF WeightAt, JoinFactors
    <3>3. f[r] \in Int
      BY <1>1, <2>2
    <3>4. h[r] \in Int /\ g[r] = f[r] + h[r] /\ \A i \in X \ {r} : g[i] = f[i] /\ h[i] = f[i]
      BY <1>1, <2>3, <2>7, <3>1, <3>2, <3>3
    <3>5. ProductOf(g) = ProductOf(f) + ProductOf(h)
      <4>1. g[r] = f[r] + h[r] /\ h[r] \in Int
        BY <3>4
      <4> HIDE DEF f, g, h, X
      <4> QED
        BY <1>1, <1>2, <2>2, <2>4, <2>5, <3>4, <4>1, ProductChange
    <3> HIDE DEF f, g, h
    <3>6. 1 * ProductOf(h) = ProductOf(h)
      BY <2>5
    <3> QED
      BY <2>2, <2>6, <2>7, <3>5, <3>6 DEF g
  <2>8. CASE a[0] # e.row.key
    <3>1. \A i \in X : g[i] = f[i]
      BY <2>3, <2>8
    <3>2. g = f
      BY <3>1 DEF JoinFactors
    <3>3. 0 * ProductOf(h) = 0 /\ ProductOf(f) + 0 = ProductOf(f)
      <4> HIDE DEF f, h
      <4> QED
        BY <2>5
    <3> HIDE DEF f, h
    <3> QED
      BY <2>2, <2>6, <2>8, <3>2, <3>3
  <2> QED
    BY <2>7, <2>8
<1> QED
  BY <1>3 DEF JoinCounts, Added

-----------------------------------------------------------------------------
(***************************************************************************)
(* The bags of the specification, by the counts of their tuples.           *)
(***************************************************************************)

GroupBagOf(q, b, r, g) ==
  LET rows == {t \in RowsOf(q)[r] : t.key = g /\ b[r][t] # 0}
      tuple(t) == [i \in {r} |-> t.val]
  IN  [a \in {tuple(t) : t \in rows} |-> b[r][[key |-> g, val |-> a[r]]]]

LEMMA GroupBagIs ==
  ASSUME NEW q \in Query, NEW b, BaseOK(q, b), NEW r \in 1..Size(q), NEW g
  PROVE  GroupBagOf(q, b, r, g) = Bag(q, {r}, GroupCounts(q, b, r, g))
<1> DEFINE rows == {t \in RowsOf(q)[r] : t.key = g /\ b[r][t] # 0}
           D == {[i \in {r} |-> t.val] : t \in rows}
           c == GroupCounts(q, b, r, g)
           E == {a \in Tuples(q, {r}) : c[a] # 0}
<1>1. {r} \in SUBSET Indices(q) /\ r # 0
  BY SizeType DEF Indices
<1>2. ASSUME NEW a \in D
      PROVE  a \in E
  <2>1. PICK t \in rows : a = [i \in {r} |-> t.val]
    OBVIOUS
  <2>2. t \in RowsOf(q)[r] /\ t = Row(g, t.val) /\ t.val \in ValuesAt(q, r) /\ b[r][t] # 0
    BY SizeType
  <2>3. a \in Tuples(q, {r}) /\ a[r] = t.val
    BY <1>1, <2>1, <2>2, TuplesAre
  <2>4. c[a] = b[r][t]
    BY <2>2, <2>3 DEF GroupCounts, CopiesAt
  <2> QED
    BY <2>2, <2>3, <2>4
<1>3. ASSUME NEW a \in E
      PROVE  a \in D /\ c[a] = b[r][[key |-> g, val |-> a[r]]]
  <2> DEFINE t == Row(g, a[r])
  <2>1. a \in Tuples(q, {r}) /\ CopiesAt(q, b, r, g, a[r]) # 0 /\ c[a] = CopiesAt(q, b, r, g, a[r])
    BY DEF GroupCounts
  <2>2. t \in RowsOf(q)[r] /\ b[r][t] # 0 /\ c[a] = b[r][t]
    BY <2>1 DEF CopiesAt
  <2>3. t.key = g /\ t.val = a[r]
    BY DEF Row
  <2>4. a = [i \in {r} |-> t.val]
    BY <1>1, <2>1, <2>3, TuplesAre
  <2>5. t \in rows
    BY <2>2, <2>3
  <2> HIDE DEF rows
  <2> QED
    BY <2>2, <2>4, <2>5 DEF Row
<1>4. D = E
  BY <1>2, <1>3
<1>5. GroupBagOf(q, b, r, g) = [a \in D |-> b[r][[key |-> g, val |-> a[r]]]]
  BY DEF GroupBagOf
<1> QED
  BY <1>3, <1>4, <1>5 DEF Bag

(* The tuples of the first i relations.                                    *)
TuplesTo(q, b, i) ==
  {a \in Tuples(q, 0..i) : \A r \in 1..i : CopiesAt(q, b, r, a[0], a[r]) # 0}

RowsAt(q, b, i, g) == {t \in RowsOf(q)[i] : t.key = g /\ b[i][t] # 0}
Longer(a, i, x) == [j \in 0..i |-> IF j = i THEN x ELSE a[j]]
NextTuples(q, b, i, T) == UNION {{Longer(a, i, t.val) : t \in RowsAt(q, b, i, a[0])} : a \in T}

LEMMA TuplesToNone ==
  ASSUME NEW q \in Query, NEW b
  PROVE  TuplesTo(q, b, 0) = {[j \in {0} |-> g] : g \in KeysOf(q)}
<1>1. 0..0 = {0} /\ 1..0 = {} /\ {0} \in SUBSET Indices(q)
  BY SizeType DEF Indices
<1>2. TuplesTo(q, b, 0) = Tuples(q, {0})
  BY <1>1 DEF TuplesTo
<1>3. \A a : a \in Tuples(q, {0}) <=> a = [j \in {0} |-> a[j]] /\ \A j \in {0} : a[j] \in ValuesAt(q, j)
  BY <1>1, TuplesAre
<1>4. ValuesAt(q, 0) = KeysOf(q)
  BY DEF ValuesAt
<1>5. ASSUME NEW g \in KeysOf(q)
      PROVE  [j \in {0} |-> g] \in Tuples(q, {0})
  BY <1>3, <1>4
<1>6. ASSUME NEW a \in Tuples(q, {0})
      PROVE  a[0] \in KeysOf(q) /\ a = [j \in {0} |-> a[0]]
  BY <1>3, <1>4
<1>7. \A a \in Tuples(q, {0}) : a \in {[j \in {0} |-> g] : g \in KeysOf(q)}
  BY <1>6
<1>8. \A a \in {[j \in {0} |-> g] : g \in KeysOf(q)} : a \in Tuples(q, {0})
  BY <1>5
<1> QED
  BY <1>2, <1>7, <1>8

LEMMA TuplesToNext ==
  ASSUME NEW q \in Query, NEW b, BaseOK(q, b), NEW i \in 1..Size(q)
  PROVE  TuplesTo(q, b, i) = NextTuples(q, b, i, TuplesTo(q, b, i - 1))
<1> DEFINE V == TuplesTo(q, b, i - 1)
           T == TuplesTo(q, b, i)
<1>1. /\ 0..(i - 1) \in SUBSET Indices(q) /\ 0..i \in SUBSET Indices(q)
      /\ 0..i = 0..(i - 1) \cup {i} /\ 1..i = 1..(i - 1) \cup {i}
      /\ i \notin 0..(i - 1) /\ i # 0 /\ 0 \in 0..(i - 1) /\ 1..(i - 1) \subseteq 0..(i - 1)
  BY SizeType DEF Indices
<1>2. ASSUME NEW a \in V, NEW t \in RowsAt(q, b, i, a[0])
      PROVE  Longer(a, i, t.val) \in T
  <2> DEFINE u == Longer(a, i, t.val)
  <2>1. /\ t \in RowsOf(q)[i] /\ t = Row(a[0], t.val) /\ t.val \in ValuesAt(q, i) /\ b[i][t] # 0
    BY SizeType DEF RowsAt
  <2>2. /\ u = [j \in 0..i |-> u[j]] /\ u[i] = t.val /\ \A j \in 0..(i - 1) : u[j] = a[j]
    BY <1>1 DEF Longer
  <2>3. \A j \in 0..(i - 1) : a[j] \in ValuesAt(q, j)
    BY <1>1, TuplesAre DEF TuplesTo
  <2> HIDE DEF u
  <2>4. u \in Tuples(q, 0..i)
    <3>1. \A j \in 0..i : u[j] \in ValuesAt(q, j)
      BY <1>1, <2>1, <2>2, <2>3
    <3> QED
      BY <1>1, <2>2, <3>1, TuplesAre
  <2>5. CopiesAt(q, b, i, u[0], u[i]) # 0
    BY <1>1, <2>1, <2>2 DEF CopiesAt
  <2>6. \A r \in 1..(i - 1) : CopiesAt(q, b, r, u[0], u[r]) # 0
    BY <1>1, <2>2 DEF TuplesTo
  <2> QED
    BY <1>1, <2>4, <2>5, <2>6 DEF TuplesTo, u
<1>3. ASSUME NEW u \in T
      PROVE  \E a \in V : \E t \in RowsAt(q, b, i, a[0]) : u = Longer(a, i, t.val)
  <2> DEFINE a == [j \in 0..(i - 1) |-> u[j]]
             t == Row(u[0], u[i])
  <2>1. u \in Tuples(q, 0..i) /\ \A r \in 1..i : CopiesAt(q, b, r, u[0], u[r]) # 0
    BY DEF TuplesTo
  <2>2. u = [j \in 0..i |-> u[j]] /\ \A j \in 0..i : u[j] \in ValuesAt(q, j)
    BY <1>1, <2>1, TuplesAre
  <2>3. a \in Tuples(q, 0..(i - 1))
    <3>1. \A j \in 0..(i - 1) : a[j] \in ValuesAt(q, j)
      BY <1>1, <2>2
    <3>2. a = [j \in 0..(i - 1) |-> a[j]]
      OBVIOUS
    <3> HIDE DEF a
    <3> QED
      BY <1>1, <3>1, <3>2, TuplesAre
  <2>4. \A j \in 0..(i - 1) : a[j] = u[j]
    OBVIOUS
  <2>5. \A r \in 1..(i - 1) : CopiesAt(q, b, r, a[0], a[r]) # 0
    BY <1>1, <2>1, <2>4
  <2>6. a \in V
    BY <2>3, <2>5 DEF TuplesTo
  <2>7. t \in RowsAt(q, b, i, a[0]) /\ t.val = u[i]
    <3>1. CopiesAt(q, b, i, u[0], u[i]) # 0
      BY <1>1, <2>1
    <3>2. t \in RowsOf(q)[i] /\ b[i][t] # 0
      BY <3>1 DEF CopiesAt
    <3>3. t.key = u[0] /\ t.val = u[i]
      BY DEF Row
    <3>4. a[0] = u[0]
      BY <1>1, <2>4
    <3> HIDE DEF a, t
    <3> QED
      BY <3>2, <3>3, <3>4 DEF RowsAt
  <2>8. u = Longer(a, i, t.val)
    <3>1. \A j \in 0..i : u[j] = IF j = i THEN t.val ELSE a[j]
      BY <1>1, <2>4, <2>7
    <3> HIDE DEF a, t
    <3> QED
      BY <2>2, <3>1 DEF Longer
  <2> HIDE DEF a, t, V
  <2> QED
    BY <2>6, <2>7, <2>8
<1> HIDE DEF V, T
<1>4. NextTuples(q, b, i, V) = T
  BY <1>2, <1>3 DEF NextTuples
<1> QED
  BY <1>4 DEF V, T

(* The sequence of products of a function on 1..n.                         *)
LEMMA ProductNext ==
  ASSUME NEW n \in Nat, NEW f \in [1..n -> Int], NEW i \in 1..n
  PROVE  ProductOf(Restrict(f, 1..i)) = ProductOf(Restrict(f, 1..(i - 1))) * f[i]
<1>1. IsFiniteSet(1..n)
  BY FS_Interval
<1>2. PICK h : ProductsOf(h, f, 1..n)
  BY <1>1, ProductUnfold
<1>3. AnyFactor(h, f, 1..n)
  BY <1>1, <1>2, ProductAnyOrder
<1>4. 1..i \in SUBSET (1..n) /\ 1..(i - 1) \in SUBSET (1..n) /\ i \in 1..i /\ (1..i) \ {i} = 1..(i - 1)
  OBVIOUS
<1>5. ProductOf(Restrict(f, 1..i)) = h[1..i] /\ ProductOf(Restrict(f, 1..(i - 1))) = h[1..(i - 1)]
  BY <1>1, <1>2, <1>4, ProductRestrict
<1>6. h[1..i] = f[i] * h[1..(i - 1)]
  BY <1>3, <1>4 DEF AnyFactor
<1>7. f[i] \in Int /\ h[1..(i - 1)] \in Int
  BY <1>2, <1>4 DEF ProductsOf
<1> QED
  BY <1>5, <1>6, <1>7

(* A product is zero exactly if a factor is.                               *)
LEMMA ProductNotZero ==
  ASSUME NEW S, IsFiniteSet(S), NEW f \in [S -> Int]
  PROVE  ProductOf(f) # 0 <=> \A x \in S : f[x] # 0
<1>1. PICK h : ProductsOf(h, f, S) /\ ProductOf(f) = h[S]
  BY ProductUnfold
<1>2. AnyFactor(h, f, S) /\ h \in [SUBSET S -> Int] /\ h[{}] = 1
  <2>1. {} \in SUBSET S
    OBVIOUS
  <2> QED
    BY <1>1, <2>1, ProductAnyOrder DEF ProductsOf
<1>3. ASSUME NEW x \in S, f[x] = 0
      PROVE  ProductOf(f) = 0
  <2>1. h[S] = f[x] * h[S \ {x}]
    BY <1>2 DEF AnyFactor
  <2>2. h[S \ {x}] \in Int
    BY <1>2
  <2>3. \A y \in Int : 0 * y = 0
    OBVIOUS
  <2> QED
    BY <1>1, <1>3, <2>1, <2>2, <2>3
<1>4. ASSUME \A x \in S : f[x] # 0
      PROVE  ProductOf(f) # 0
  <2> DEFINE Good == {T \in SUBSET S : h[T] # 0}
  <2>1. {} \in Good
    BY <1>2
  <2>2. ASSUME NEW T \in SUBSET S, T # {}, T \ {Chosen(T)} \in Good
        PROVE  T \in Good
    <3>1. Chosen(T) \in T
      BY <2>2, ChosenIn
    <3>2. h[T] = f[Chosen(T)] * h[T \ {Chosen(T)}]
      BY <1>2, <3>1 DEF AnyFactor
    <3>3. f[Chosen(T)] \in Int \ {0} /\ h[T \ {Chosen(T)}] \in Int \ {0}
      BY <1>2, <1>4, <2>2, <3>1
    <3>4. \A y, z \in Int \ {0} : y * z # 0
      OBVIOUS
    <3> QED
      BY <3>2, <3>3, <3>4
  <2>3. SUBSET S \subseteq Good
    <3> HIDE DEF Good
    <3> QED
      BY <2>1, <2>2, SubsetInduction
  <2> QED
    BY <1>1, <2>3
<1> QED
  BY <1>3, <1>4

JoinBagOf(q, b) ==
  LET tuples[i \in 0..Size(q)] ==
        IF i = 0 THEN {[j \in {0} |-> g] : g \in KeysOf(q)}
        ELSE UNION {{[j \in 0..i |-> IF j = i THEN t.val ELSE a[j]] :
                       t \in {t \in RowsOf(q)[i] : t.key = a[0] /\ b[i][t] # 0}} :
                      a \in tuples[i - 1]}
      copies(a) ==
        LET n[i \in 0..Size(q)] ==
              IF i = 0 THEN 1 ELSE n[i - 1] * b[i][[key |-> a[0], val |-> a[i]]]
        IN  n[Size(q)]
  IN  [a \in tuples[Size(q)] |-> copies(a)]

IsTuples(q, b, f) ==
  f = [i \in 0..Size(q) |->
         IF i = 0 THEN {[j \in {0} |-> g] : g \in KeysOf(q)} ELSE NextTuples(q, b, i, f[i - 1])]

IsCopies(q, b, a, f) ==
  f = [i \in 0..Size(q) |-> IF i = 0 THEN 1 ELSE f[i - 1] * b[i][Row(a[0], a[i])]]

(* Two solutions of a recursion are one.                                   *)
LEMMA TuplesUnique ==
  ASSUME NEW q \in Query, NEW b, NEW f, IsTuples(q, b, f), NEW g, IsTuples(q, b, g)
  PROVE  f[Size(q)] = g[Size(q)]
<1> DEFINE N == {i \in Nat : i \in 0..Size(q) => f[i] = g[i]}
<1>1. Size(q) \in Nat
  BY SizeType
<1>2. /\ f[0] = g[0]
      /\ \A i \in 1..Size(q) : /\ f[i] = NextTuples(q, b, i, f[i - 1])
                               /\ g[i] = NextTuples(q, b, i, g[i - 1])
  <2>1. 0 \in 0..Size(q) /\ \A i \in 1..Size(q) : i \in 0..Size(q) /\ i # 0
    BY <1>1
  <2>2. f[0] = g[0]
    BY <2>1 DEF IsTuples
  <2>3. ASSUME NEW i \in 1..Size(q)
        PROVE  f[i] = NextTuples(q, b, i, f[i - 1])
    BY <2>1 DEF IsTuples
  <2>4. ASSUME NEW i \in 1..Size(q)
        PROVE  g[i] = NextTuples(q, b, i, g[i - 1])
    BY <2>1 DEF IsTuples
  <2> QED
    BY <2>2, <2>3, <2>4
<1>3. 0 \in N
  BY <1>2
<1>4. \A i \in N : i + 1 \in N
  <2> SUFFICES ASSUME NEW i \in N, i + 1 \in 0..Size(q)
               PROVE  f[i + 1] = g[i + 1]
    OBVIOUS
  <2>1. i \in Nat
    OBVIOUS
  <2>2. i \in 0..Size(q) /\ i + 1 \in 1..Size(q) /\ (i + 1) - 1 = i
    BY <1>1, <2>1
  <2>3. f[i] = g[i]
    BY <2>2
  <2> QED
    BY <1>2, <2>2, <2>3
<1>5. N = Nat
  BY <1>3, <1>4, NumberInduction
<1> QED
  BY <1>1, <1>5

LEMMA CopiesUnique ==
  ASSUME NEW q \in Query, NEW b, NEW a, NEW f, IsCopies(q, b, a, f), NEW g, IsCopies(q, b, a, g)
  PROVE  f[Size(q)] = g[Size(q)]
<1> DEFINE N == {i \in Nat : i \in 0..Size(q) => f[i] = g[i]}
<1>1. Size(q) \in Nat
  BY SizeType
<1>2. /\ f[0] = g[0]
      /\ \A i \in 1..Size(q) : /\ f[i] = f[i - 1] * b[i][Row(a[0], a[i])]
                               /\ g[i] = g[i - 1] * b[i][Row(a[0], a[i])]
  <2>1. 0 \in 0..Size(q) /\ \A i \in 1..Size(q) : i \in 0..Size(q) /\ i # 0
    BY <1>1
  <2>2. f[0] = g[0]
    BY <2>1 DEF IsCopies
  <2>3. ASSUME NEW i \in 1..Size(q)
        PROVE  f[i] = f[i - 1] * b[i][Row(a[0], a[i])]
    BY <2>1 DEF IsCopies
  <2>4. ASSUME NEW i \in 1..Size(q)
        PROVE  g[i] = g[i - 1] * b[i][Row(a[0], a[i])]
    BY <2>1 DEF IsCopies
  <2> QED
    BY <2>2, <2>3, <2>4
<1>3. 0 \in N
  BY <1>2
<1>4. \A i \in N : i + 1 \in N
  <2> SUFFICES ASSUME NEW i \in N, i + 1 \in 0..Size(q)
               PROVE  f[i + 1] = g[i + 1]
    OBVIOUS
  <2>1. i \in Nat
    OBVIOUS
  <2>2. i \in 0..Size(q) /\ i + 1 \in 1..Size(q) /\ (i + 1) - 1 = i
    BY <1>1, <2>1
  <2>3. f[i] = g[i]
    BY <2>2
  <2> QED
    BY <1>2, <2>2, <2>3
<1>5. N = Nat
  BY <1>3, <1>4, NumberInduction
<1> QED
  BY <1>1, <1>5

LEMMA TuplesAreTo ==
  ASSUME NEW q \in Query, NEW b, BaseOK(q, b)
  PROVE  IsTuples(q, b, [i \in 0..Size(q) |-> TuplesTo(q, b, i)])
<1> DEFINE f == [i \in 0..Size(q) |-> TuplesTo(q, b, i)]
<1>1. Size(q) \in Nat
  BY SizeType
<1>2. ASSUME NEW i \in 0..Size(q)
      PROVE  f[i] = IF i = 0 THEN {[j \in {0} |-> g] : g \in KeysOf(q)}
                    ELSE NextTuples(q, b, i, f[i - 1])
  <2>1. CASE i = 0
    BY <2>1, TuplesToNone
  <2>2. CASE i # 0
    <3>1. i \in 1..Size(q) /\ i - 1 \in 0..Size(q)
      BY <1>1, <2>2
    <3>2. TuplesTo(q, b, i) = NextTuples(q, b, i, TuplesTo(q, b, i - 1))
      BY <3>1, TuplesToNext
    <3> QED
      BY <2>2, <3>1, <3>2
  <2> QED
    BY <2>1, <2>2
<1>3. f = [i \in 0..Size(q) |-> f[i]]
  OBVIOUS
<1> HIDE DEF f
<1>4. IsTuples(q, b, f)
  BY <1>2, <1>3 DEF IsTuples
<1> QED
  BY <1>4 DEF f

LEMMA CopiesAreProducts ==
  ASSUME NEW q \in Query, NEW b, BaseOK(q, b), NEW a \in TuplesTo(q, b, Size(q))
  PROVE  IsCopies(q, b, a, [i \in 0..Size(q) |-> ProductOf(Restrict(JoinFactors(q, b, a), 1..i))])
<1> DEFINE F == JoinFactors(q, b, a)
           f == [i \in 0..Size(q) |-> ProductOf(Restrict(F, 1..i))]
<1>1. Size(q) \in Nat
  BY SizeType
<1>2. F \in [1..Size(q) -> Int]
  <2>1. F \in [1..Size(q) -> Nat]
    BY JoinCountsType
  <2> HIDE DEF F
  <2> QED
    BY <2>1
<1>3. \A r \in 1..Size(q) : F[r] = b[r][Row(a[0], a[r])]
  <2>1. \A r \in 1..Size(q) : CopiesAt(q, b, r, a[0], a[r]) # 0
    BY DEF TuplesTo
  <2> QED
    BY <2>1 DEF CopiesAt, JoinFactors
<1> HIDE DEF F
<1>4. ASSUME NEW i \in 0..Size(q)
      PROVE  f[i] = IF i = 0 THEN 1 ELSE f[i - 1] * b[i][Row(a[0], a[i])]
  <2>1. CASE i = 0
    <3> DEFINE k == Restrict(F, 1..0)
    <3>1. k \in [{} -> Int] /\ \A x \in {} : k[x] = 1
      BY DEF Restrict
    <3>2. IsFiniteSet({})
      BY FS_EmptySet
    <3> HIDE DEF k
    <3>3. ProductOf(k) = 1
      BY <3>1, <3>2, ProductOfOnes
    <3> QED
      BY <2>1, <3>3 DEF k
  <2>2. CASE i # 0
    <3>1. i \in 1..Size(q) /\ i - 1 \in 0..Size(q)
      BY <1>1, <2>2
    <3>2. ProductOf(Restrict(F, 1..i)) = ProductOf(Restrict(F, 1..(i - 1))) * F[i]
      BY <1>1, <1>2, <3>1, ProductNext
    <3> QED
      BY <1>3, <2>2, <3>1, <3>2
  <2> QED
    BY <2>1, <2>2
<1>5. f = [i \in 0..Size(q) |-> f[i]]
  OBVIOUS
<1> HIDE DEF f
<1>6. IsCopies(q, b, a, f)
  BY <1>4, <1>5 DEF IsCopies
<1> QED
  BY <1>6 DEF f, F

LEMMA JoinBagIs ==
  ASSUME NEW q \in Query, NEW b, BaseOK(q, b)
  PROVE  JoinBagOf(q, b) = Bag(q, Indices(q), JoinCounts(q, b))
<1> DEFINE n == Size(q)
           I == Indices(q)
           tuples == CHOOSE f : f = [i \in 0..n |->
                       IF i = 0 THEN {[j \in {0} |-> g] : g \in KeysOf(q)}
                       ELSE UNION {{[j \in 0..i |-> IF j = i THEN t.val ELSE a[j]] :
                                     t \in {t \in RowsOf(q)[i] : t.key = a[0] /\ b[i][t] # 0}} :
                                    a \in f[i - 1]}]
           copies(a) == CHOOSE f : f = [i \in 0..n |->
                          IF i = 0 THEN 1 ELSE f[i - 1] * b[i][[key |-> a[0], val |-> a[i]]]]
           T == TuplesTo(q, b, n)
<1>1. n \in Nat \ {0} /\ I = 0..n
  BY SizeType DEF Indices
<1>2. tuples[n] = T
  <2> DEFINE w == [i \in 0..n |-> TuplesTo(q, b, i)]
  <2>1. IsTuples(q, b, w)
    BY TuplesAreTo
  <2>2. tuples = [i \in 0..n |->
                       IF i = 0 THEN {[j \in {0} |-> g] : g \in KeysOf(q)}
                       ELSE UNION {{[j \in 0..i |-> IF j = i THEN t.val ELSE a[j]] :
                                     t \in {t \in RowsOf(q)[i] : t.key = a[0] /\ b[i][t] # 0}} :
                                    a \in tuples[i - 1]}]
    <3> HIDE DEF w
    <3>1. w = [i \in 0..n |->
                       IF i = 0 THEN {[j \in {0} |-> g] : g \in KeysOf(q)}
                       ELSE UNION {{[j \in 0..i |-> IF j = i THEN t.val ELSE a[j]] :
                                     t \in {t \in RowsOf(q)[i] : t.key = a[0] /\ b[i][t] # 0}} :
                                    a \in w[i - 1]}]
      BY <2>1 DEF IsTuples, NextTuples, RowsAt, Longer
    <3> QED
      BY <3>1, Zenon
  <2> HIDE DEF tuples
  <2>3. IsTuples(q, b, tuples)
    BY <2>2 DEF IsTuples, NextTuples, RowsAt, Longer
  <2>4. w[n] = T
    BY <1>1
  <2> HIDE DEF w
  <2>5. tuples[n] = w[n]
    BY <2>1, <2>3, TuplesUnique
  <2> QED
    BY <2>4, <2>5
<1>3. ASSUME NEW a \in T
      PROVE  copies(a)[n] = JoinCounts(q, b)[a]
  <2> DEFINE F == JoinFactors(q, b, a)
             w == [i \in 0..n |-> ProductOf(Restrict(F, 1..i))]
             f == copies(a)
  <2>1. IsCopies(q, b, a, w)
    BY CopiesAreProducts
  <2>2. f = [i \in 0..n |-> IF i = 0 THEN 1 ELSE f[i - 1] * b[i][[key |-> a[0], val |-> a[i]]]]
    <3> HIDE DEF w
    <3>1. w = [i \in 0..n |-> IF i = 0 THEN 1 ELSE w[i - 1] * b[i][[key |-> a[0], val |-> a[i]]]]
      BY <2>1 DEF IsCopies, Row
    <3> QED
      BY <3>1, Zenon
  <2> HIDE DEF f
  <2>3. IsCopies(q, b, a, f)
    BY <2>2 DEF IsCopies, Row
  <2>4. w[n] = ProductOf(F)
    <3>1. F = [r \in 1..n |-> F[r]]
      BY DEF JoinFactors
    <3> HIDE DEF F
    <3>2. Restrict(F, 1..n) = F
      BY <3>1 DEF Restrict
    <3> QED
      BY <1>1, <3>2
  <2>5. f[n] = w[n]
    <3> HIDE DEF w
    <3> QED
      BY <2>1, <2>3, CopiesUnique
  <2>6. a \in Tuples(q, I)
    BY <1>1 DEF TuplesTo
  <2> QED
    BY <2>4, <2>5, <2>6 DEF JoinCounts, f
<1>4. T = {a \in Tuples(q, I) : JoinCounts(q, b)[a] # 0}
  <2> SUFFICES ASSUME NEW a \in Tuples(q, I)
               PROVE  (\A r \in 1..n : CopiesAt(q, b, r, a[0], a[r]) # 0) <=> JoinCounts(q, b)[a] # 0
    BY <1>1 DEF TuplesTo
  <2> DEFINE F == JoinFactors(q, b, a)
  <2>1. JoinCounts(q, b)[a] = ProductOf(F) /\ F \in [1..n -> Nat]
    BY JoinCountsType DEF JoinCounts
  <2>2. \A r \in 1..n : F[r] = CopiesAt(q, b, r, a[0], a[r])
    BY DEF JoinFactors
  <2> HIDE DEF F
  <2>3. ProductOf(F) # 0 <=> \A r \in 1..n : F[r] # 0
    <3>1. IsFiniteSet(1..n) /\ F \in [1..n -> Int]
      BY <1>1, <2>1, FS_Interval
    <3> QED
      BY <3>1, ProductNotZero
  <2> QED
    BY <2>1, <2>2, <2>3
<1>5. JoinBagOf(q, b) = [a \in tuples[n] |-> copies(a)[n]]
  BY DEF JoinBagOf
<1> HIDE DEF tuples, copies, T
<1> QED
  BY <1>2, <1>3, <1>4, <1>5 DEF Bag

-----------------------------------------------------------------------------
(***************************************************************************)
(* An entry of a view.  A group is live if one of its rows has a factor    *)
(* that is not zero.                                                       *)
(***************************************************************************)

(* Counts of one sign that add up to nothing are none.                     *)
LEMMA NothingToCancel ==
  ASSUME NEW S, IsFiniteSet(S), NEW f \in [S -> Int],
         (\A x \in S : f[x] >= 0) \/ (\A x \in S : f[x] <= 0), SumFunction(f) = 0
  PROVE  \A x \in S : f[x] = 0
<1>1. PICK h : SumsOf(h, f, S) /\ SumFunction(f) = h[S]
  BY SumUnfold
<1>2. AnySummand(h, f, S) /\ h \in [SUBSET S -> Int] /\ h[{}] = 0
  <2>1. {} \in SUBSET S
    OBVIOUS
  <2> QED
    BY <1>1, <2>1, SumAnyOrder DEF SumsOf
<1> DEFINE Good == {T \in SUBSET S : IF \A x \in S : f[x] >= 0 THEN h[T] >= 0 ELSE h[T] <= 0}
<1>3. {} \in Good
  BY <1>2
<1>4. ASSUME NEW T \in SUBSET S, T # {}, T \ {Chosen(T)} \in Good
      PROVE  T \in Good
  <2>1. Chosen(T) \in T
    BY <1>4, ChosenIn
  <2>2. h[T] = f[Chosen(T)] + h[T \ {Chosen(T)}]
    BY <1>2, <2>1 DEF AnySummand
  <2>3. f[Chosen(T)] \in Int /\ h[T \ {Chosen(T)}] \in Int /\ h[T] \in Int
    BY <1>2, <2>1
  <2>4. CASE \A x \in S : f[x] >= 0
    <3>1. h[T \ {Chosen(T)}] >= 0 /\ f[Chosen(T)] >= 0
      BY <1>4, <2>1, <2>4
    <3> QED
      BY <2>2, <2>3, <2>4, <3>1
  <2>5. CASE ~\A x \in S : f[x] >= 0
    <3>1. h[T \ {Chosen(T)}] <= 0 /\ f[Chosen(T)] <= 0
      BY <1>4, <2>1, <2>5
    <3> QED
      BY <2>2, <2>3, <2>5, <3>1
  <2> QED
    BY <2>4, <2>5
<1>5. SUBSET S \subseteq Good
  <2> HIDE DEF Good
  <2> QED
    BY <1>3, <1>4, SubsetInduction
<1> SUFFICES ASSUME NEW x \in S
             PROVE  f[x] = 0
  OBVIOUS
<1>6. h[S] = f[x] + h[S \ {x}] /\ h[S] = 0 /\ f[x] \in Int /\ h[S \ {x}] \in Int
  BY <1>1, <1>2 DEF AnySummand
<1>7. CASE \A y \in S : f[y] >= 0
  <2>1. h[S \ {x}] >= 0 /\ f[x] >= 0
    BY <1>5, <1>7
  <2> QED
    BY <1>6, <2>1
<1>8. CASE ~\A y \in S : f[y] >= 0
  <2>1. h[S \ {x}] <= 0 /\ f[x] <= 0
    BY <1>5, <1>8
  <2> QED
    BY <1>6, <2>1
<1> QED
  BY <1>7, <1>8

ZeroOf(q, p) == IF p.lifted THEN RIsZero(q, p.val) ELSE p.val = 0
SumOf(q, x, y) == IF x.lifted THEN Payload(RPlus(q, x.val, y.val)) ELSE Long(x.val + y.val)
AssignedOf(q, r, p) == IF p.lifted THEN Payload(RAssign(q, r, p.val)) ELSE p

Live(q, r, c) == \E a \in Tuples(q, {r}) : c[a] # 0 /\ ~ZeroOf(q, FactorOf(q, r, a[r]))

LEMMA LiveGroup ==
  ASSUME NEW q \in Query, NEW b, BaseOK(q, b), NEW r \in 1..Size(q), NEW g
  PROVE  Live(q, r, GroupCounts(q, b, r, g)) <=>
           \E t \in RowsOf(q)[r] : t.key = g /\ b[r][t] # 0 /\ ~ZeroOf(q, FactorOf(q, r, t.val))
<1>0. {r} \in SUBSET Indices(q)
  BY SizeType DEF Indices
<1>1. ASSUME NEW a \in Tuples(q, {r}), GroupCounts(q, b, r, g)[a] # 0,
             ~ZeroOf(q, FactorOf(q, r, a[r]))
      PROVE  \E t \in RowsOf(q)[r] : t.key = g /\ b[r][t] # 0 /\ ~ZeroOf(q, FactorOf(q, r, t.val))
  <2> DEFINE t == Row(g, a[r])
  <2>1. CopiesAt(q, b, r, g, a[r]) # 0
    BY <1>1 DEF GroupCounts
  <2>2. t \in RowsOf(q)[r] /\ b[r][t] # 0
    BY <2>1 DEF CopiesAt
  <2>3. t.key = g /\ t.val = a[r]
    BY DEF Row
  <2> HIDE DEF t
  <2> QED
    BY <1>1, <2>2, <2>3
<1>2. ASSUME NEW t \in RowsOf(q)[r], t.key = g, b[r][t] # 0, ~ZeroOf(q, FactorOf(q, r, t.val))
      PROVE  Live(q, r, GroupCounts(q, b, r, g))
  <2> DEFINE a == [i \in {r} |-> t.val]
  <2>1. t = Row(g, t.val) /\ t.val \in ValuesAt(q, r)
    BY <1>2, SizeType
  <2>2. a \in Tuples(q, {r}) /\ a[r] = t.val
    BY <1>0, <2>1, TuplesAre
  <2>3. GroupCounts(q, b, r, g)[a] = b[r][t]
    BY <2>1, <2>2 DEF GroupCounts, CopiesAt
  <2> HIDE DEF a
  <2> QED
    BY <1>2, <2>2, <2>3 DEF Live
<1> QED
  BY <1>1, <1>2 DEF Live

(* What a value is told by: the rows of its group.                         *)
LEMMA ZeroLive ==
  ASSUME NEW q \in Query, RingLaws(q), NEW r \in 1..Size(q), NEW c \in Counts(q, {r}),
         OneSign(q, {r}, c), NEW p, ValueMeans(q, p, {r}, c)
  PROVE  ZeroOf(q, p) <=> ~Live(q, r, c)
<1>0. r \in Indices(q) /\ r # 0 /\ {r} \in SUBSET Indices(q)
  BY SizeType DEF Indices
<1>1. CASE r \in LiftedIn(q)
  <2>1. HasLifted(q, {r})
    BY <1>1 DEF HasLifted
  <2>2. p.lifted /\ Means(q, p.val, {r}, c)
    BY <2>1 DEF ValueMeans
  <2>3. RIsZero(q, p.val) <=> \A a \in Tuples(q, {r}) : c[a] # 0 => RIsZero(q, RLift(q, r, a[r]))
    BY <1>0, <1>1, <2>2 DEF RingLaws, IsZeroLaw
  <2>4. \A v : ZeroOf(q, FactorOf(q, r, v)) <=> RIsZero(q, RLift(q, r, v))
    BY <1>1 DEF ZeroOf, FactorOf, Payload
  <2> QED
    BY <2>2, <2>3, <2>4 DEF ZeroOf, Live
<1>2. CASE r \notin LiftedIn(q)
  <2>1. ~HasLifted(q, {r})
    BY <1>2 DEF HasLifted
  <2>2. p = Long(SumFunction(c))
    BY <2>1 DEF ValueMeans
  <2>3. ZeroOf(q, p) <=> SumFunction(c) = 0
    BY <2>2 DEF ZeroOf, Long
  <2>4. \A v : ~ZeroOf(q, FactorOf(q, r, v))
    BY <1>2 DEF ZeroOf, FactorOf, Long
  <2>5. Live(q, r, c) <=> \E a \in Tuples(q, {r}) : c[a] # 0
    BY <2>4 DEF Live
  <2>6. IsFiniteSet(Tuples(q, {r})) /\ c \in [Tuples(q, {r}) -> Int]
    BY <1>0, TuplesFinite DEF Counts
  <2>7. (\A a \in Tuples(q, {r}) : c[a] = 0) => SumFunction(c) = 0
    BY <2>6, SumOfZeros
  <2>8. (\A a \in Tuples(q, {r}) : c[a] >= 0) \/ (\A a \in Tuples(q, {r}) : c[a] <= 0)
    BY DEF OneSign, Positive, Negative
  <2>9. SumFunction(c) = 0 => \A a \in Tuples(q, {r}) : c[a] = 0
    BY <2>6, <2>8, NothingToCancel
  <2> QED
    BY <2>3, <2>5, <2>7, <2>9
<1> QED
  BY <1>1, <1>2

LEMMA AddedType ==
  ASSUME NEW q \in Query, NEW X \in SUBSET Indices(q), NEW c \in Counts(q, X), NEW d \in Counts(q, X)
  PROVE  /\ Added(q, X, c, d) \in Counts(q, X) /\ Added(q, X, c, d) = Added(q, X, d, c)
         /\ SumFunction(Added(q, X, c, d)) = SumFunction(c) + SumFunction(d)
         /\ SumFunction(c) \in Int /\ SumFunction(d) \in Int
<1>1. IsFiniteSet(Tuples(q, X)) /\ c \in [Tuples(q, X) -> Int] /\ d \in [Tuples(q, X) -> Int]
  BY TuplesFinite DEF Counts
<1>2. Added(q, X, c, d) \in [Tuples(q, X) -> Int]
  BY <1>1 DEF Added
<1>3. Added(q, X, c, d) = Added(q, X, d, c)
  BY <1>1 DEF Added
<1>4. PointwiseSum(Added(q, X, c, d), c, d, Tuples(q, X))
  BY DEF PointwiseSum, Added
<1>5. SumFunction(Added(q, X, c, d)) = SumFunction(c) + SumFunction(d)
  BY <1>1, <1>2, <1>4, SumAdds
<1> QED
  BY <1>1, <1>2, <1>3, <1>5, SumType DEF Counts

(* One entry meets the delta: x is the value looked up, old and new are    *)
(* the counts of its group before and after.                               *)
LEMMA SumMeans ==
  ASSUME NEW q \in Query, RingLaws(q), NEW r \in 1..Size(q),
         NEW c \in Counts(q, {r}), Positive(q, {r}, c),
         NEW d \in Counts(q, {r}), OneSign(q, {r}, d), Positive(q, {r}, Added(q, {r}, c, d)),
         NEW x, ValueMeans(q, x, {r}, c), NEW y, ValueMeans(q, y, {r}, d)
  PROVE  ValueMeans(q, SumOf(q, x, y), {r}, Added(q, {r}, c, d))
<1>0. r \in Indices(q) /\ r # 0 /\ {r} \in SUBSET Indices(q)
  BY SizeType DEF Indices
<1>1. CASE r \in LiftedIn(q)
  <2>1. HasLifted(q, {r}) /\ {r} \in Kept(q)
    BY <1>0, <1>1 DEF HasLifted, Kept
  <2>2. x.lifted /\ Means(q, x.val, {r}, c) /\ y.lifted /\ Means(q, y.val, {r}, d)
    BY <2>1 DEF ValueMeans
  <2>3. Means(q, RPlus(q, x.val, y.val), {r}, Added(q, {r}, c, d))
    BY <2>1, <2>2 DEF RingLaws, PlusLaw
  <2>4. SumOf(q, x, y).lifted /\ SumOf(q, x, y).val = RPlus(q, x.val, y.val)
    BY <2>2 DEF SumOf, Payload
  <2> QED
    BY <2>1, <2>3, <2>4 DEF ValueMeans
<1>2. CASE r \notin LiftedIn(q)
  <2>1. ~HasLifted(q, {r})
    BY <1>2 DEF HasLifted
  <2>2. x = Long(SumFunction(c)) /\ y = Long(SumFunction(d))
    BY <2>1 DEF ValueMeans
  <2>3. SumOf(q, x, y) = Long(SumFunction(c) + SumFunction(d))
    BY <2>2 DEF SumOf, Long
  <2>4. SumFunction(Added(q, {r}, c, d)) = SumFunction(c) + SumFunction(d)
    BY <1>0, AddedType
  <2> QED
    BY <2>1, <2>3, <2>4 DEF ValueMeans
<1> QED
  BY <1>1, <1>2

(* A zero does not matter to a sum.                                        *)
LEMMA ZeroAdds ==
  ASSUME NEW q \in Query, RingLaws(q), NEW r \in 1..Size(q),
         NEW c \in Counts(q, {r}), Positive(q, {r}, c),
         NEW d \in Counts(q, {r}), OneSign(q, {r}, d), Positive(q, {r}, Added(q, {r}, c, d)),
         NEW x, ValueMeans(q, x, {r}, c), NEW y, ValueMeans(q, y, {r}, d), ZeroOf(q, y)
  PROVE  /\ ValueMeans(q, x, {r}, Added(q, {r}, c, d))
         /\ Live(q, r, Added(q, {r}, c, d)) <=> Live(q, r, c)
<1>0. r \in Indices(q) /\ r # 0 /\ {r} \in SUBSET Indices(q)
  BY SizeType DEF Indices
<1>1. ~Live(q, r, d)
  BY ZeroLive
<1>2. \A a \in Tuples(q, {r}) : Added(q, {r}, c, d)[a] = c[a] + d[a] /\ c[a] \in Int /\ d[a] \in Int
  BY DEF Added, Counts
<1>3. \A a \in Tuples(q, {r}) : ~ZeroOf(q, FactorOf(q, r, a[r])) => Added(q, {r}, c, d)[a] = c[a]
  <2> SUFFICES ASSUME NEW a \in Tuples(q, {r}), ~ZeroOf(q, FactorOf(q, r, a[r]))
               PROVE  Added(q, {r}, c, d)[a] = c[a]
    OBVIOUS
  <2>1. d[a] = 0
    BY <1>1 DEF Live
  <2>2. Added(q, {r}, c, d)[a] = c[a] + d[a] /\ c[a] \in Int
    BY <1>2
  <2>3. \A i \in Int : i + 0 = i
    OBVIOUS
  <2> QED
    BY <2>1, <2>2, <2>3
<1>4. Live(q, r, Added(q, {r}, c, d)) <=> Live(q, r, c)
  <2> DEFINE s == Added(q, {r}, c, d)
  <2>1. \A a \in Tuples(q, {r}) : ~ZeroOf(q, FactorOf(q, r, a[r])) => s[a] = c[a]
    BY <1>3
  <2> HIDE DEF s
  <2> QED
    BY <2>1 DEF Live, s
<1>5. CASE r \in LiftedIn(q)
  <2>1. HasLifted(q, {r})
    BY <1>5 DEF HasLifted
  <2>2. x.lifted /\ Means(q, x.val, {r}, c) /\ y.lifted /\ Means(q, y.val, {r}, d)
    BY <2>1 DEF ValueMeans
  <2>3. RIsZero(q, y.val)
    BY <2>2 DEF ZeroOf
  <2>4. r \in LiftedIn(q) \ {0} /\ IsZeroLaw(q)
    BY <1>0, <1>5 DEF RingLaws
  <2>5. Means(q, x.val, {r}, Added(q, {r}, c, d))
    BY <2>2, <2>3, <2>4 DEF IsZeroLaw
  <2> QED
    BY <1>4, <2>1, <2>2, <2>5 DEF ValueMeans
<1>6. CASE r \notin LiftedIn(q)
  <2>1. ~HasLifted(q, {r})
    BY <1>6 DEF HasLifted
  <2>2. x = Long(SumFunction(c)) /\ y = Long(SumFunction(d))
    BY <2>1 DEF ValueMeans
  <2>3. SumFunction(d) = 0
    BY <2>2 DEF ZeroOf, Long
  <2>4. SumFunction(Added(q, {r}, c, d)) = SumFunction(c)
    BY <1>0, <2>3, AddedType
  <2> QED
    BY <1>4, <2>1, <2>2, <2>4 DEF ValueMeans
<1> QED
  BY <1>5, <1>6

(* The default stands for the rows of a group that is erased.              *)
LEMMA ErasedMeans ==
  ASSUME NEW q \in Query, RingLaws(q), NEW r \in 1..Size(q),
         NEW c \in Counts(q, {r}), Positive(q, {r}, c), NEW x, ValueMeans(q, x, {r}, c), ZeroOf(q, x)
  PROVE  ValueMeans(q, DefaultOf(q, r), {r}, c)
<1>0. r \in Indices(q) /\ r # 0
  BY SizeType DEF Indices
<1>1. CASE r \in LiftedIn(q)
  <2>1. HasLifted(q, {r})
    BY <1>1 DEF HasLifted
  <2>2. x.lifted /\ Means(q, x.val, {r}, c) /\ RIsZero(q, x.val)
    BY <2>1 DEF ValueMeans, ZeroOf
  <2>3. OneSign(q, {r}, c) /\ r \in LiftedIn(q) \ {0} /\ IsZeroLaw(q)
    BY <1>0, <1>1 DEF OneSign, RingLaws
  <2>4. Means(q, RZero(q, r), {r}, c)
    BY <2>2, <2>3 DEF IsZeroLaw
  <2>5. DefaultOf(q, r).lifted /\ DefaultOf(q, r).val = RZero(q, r)
    BY <1>1 DEF DefaultOf, Payload
  <2> QED
    BY <2>1, <2>4, <2>5 DEF ValueMeans
<1>2. CASE r \notin LiftedIn(q)
  <2>1. ~HasLifted(q, {r})
    BY <1>2 DEF HasLifted
  <2>2. x = Long(SumFunction(c)) /\ SumFunction(c) = 0
    BY <2>1 DEF ValueMeans, ZeroOf, Long
  <2> QED
    BY <1>2, <2>1, <2>2 DEF ValueMeans, DefaultOf
<1> QED
  BY <1>1, <1>2

(* A new entry stands for its group, which had no live rows.               *)
LEMMA AssignedMeans ==
  ASSUME NEW q \in Query, RingLaws(q), NEW r \in 1..Size(q),
         NEW c \in Counts(q, {r}), Positive(q, {r}, c),
         NEW d \in Counts(q, {r}), OneSign(q, {r}, d), Positive(q, {r}, Added(q, {r}, c, d)),
         ValueMeans(q, DefaultOf(q, r), {r}, c), ~Live(q, r, c),
         NEW y, ValueMeans(q, y, {r}, d), ~ZeroOf(q, y)
  PROVE  /\ ValueMeans(q, AssignedOf(q, r, y), {r}, Added(q, {r}, c, d))
         /\ Live(q, r, Added(q, {r}, c, d))
<1> DEFINE s == Added(q, {r}, c, d)
<1>0. r \in Indices(q) /\ r # 0 /\ {r} \in SUBSET Indices(q)
  BY SizeType DEF Indices
<1>1. s \in Counts(q, {r}) /\ s = Added(q, {r}, d, c) /\ SumFunction(s) = SumFunction(c) + SumFunction(d)
      /\ SumFunction(c) \in Int /\ SumFunction(d) \in Int
  BY <1>0, AddedType
<1>2. \A a \in Tuples(q, {r}) : s[a] = c[a] + d[a] /\ c[a] \in Int /\ d[a] \in Int
  BY DEF Added, Counts
<1>3. Live(q, r, d)
  BY ZeroLive
<1>4. PICK a \in Tuples(q, {r}) : d[a] # 0 /\ ~ZeroOf(q, FactorOf(q, r, a[r]))
  BY <1>3 DEF Live
<1>5. c[a] = 0
  BY <1>4 DEF Live
<1>6. s[a] = d[a] /\ s[a] >= 0
  <2>1. s[a] = 0 + d[a] /\ d[a] \in Int
    BY <1>2, <1>5
  <2>2. \A i \in Int : 0 + i = i
    OBVIOUS
  <2>3. s[a] >= 0
    BY DEF Positive
  <2> HIDE DEF s
  <2> QED
    BY <2>1, <2>2, <2>3
<1>7. Live(q, r, s)
  BY <1>4, <1>6 DEF Live
<1>8. Positive(q, {r}, d)
  <2>1. d[a] \in Int /\ d[a] # 0 /\ d[a] >= 0
    BY <1>2, <1>4, <1>6
  <2>2. ~(d[a] <= 0)
    <3>1. \A i \in Int : i # 0 /\ i >= 0 => ~(i <= 0)
      OBVIOUS
    <3> QED
      BY <2>1, <3>1
  <2> QED
    BY <2>2 DEF OneSign, Negative
<1>9. ZeroOf(q, DefaultOf(q, r))
  BY ZeroLive DEF OneSign
<1>10. OneSign(q, {r}, c)
  BY DEF OneSign
<1>12. Positive(q, {r}, s)
  OBVIOUS
<1> HIDE DEF s
<1>11. ValueMeans(q, AssignedOf(q, r, y), {r}, s)
  <2>1. CASE r \in LiftedIn(q)
    <3>1. HasLifted(q, {r}) /\ r \in LiftedIn(q) \ {0}
      BY <1>0, <2>1 DEF HasLifted
    <3>2. y.lifted /\ Means(q, y.val, {r}, d)
      BY <3>1 DEF ValueMeans
    <3>3. Means(q, RZero(q, r), {r}, c) /\ RIsZero(q, RZero(q, r))
      BY <1>9, <2>1, <3>1 DEF ValueMeans, DefaultOf, Payload, ZeroOf
    <3>4. Positive(q, {r}, Added(q, {r}, d, c))
      BY <1>1, <1>12
    <3>5. Means(q, y.val, {r}, Added(q, {r}, d, c))
      <4>1. IsZeroLaw(q)
        BY DEF RingLaws
      <4> QED
        BY <1>8, <1>10, <3>1, <3>2, <3>3, <3>4, <4>1 DEF IsZeroLaw
    <3>6. Means(q, y.val, {r}, s)
      BY <1>1, <3>5
    <3>7. Means(q, RAssign(q, r, y.val), {r}, s)
      BY <1>1, <1>12, <3>1, <3>6 DEF RingLaws, AssignLaw
    <3>8. AssignedOf(q, r, y).lifted /\ AssignedOf(q, r, y).val = RAssign(q, r, y.val)
      BY <3>2 DEF AssignedOf, Payload
    <3> QED
      BY <3>1, <3>7, <3>8 DEF ValueMeans
  <2>2. CASE r \notin LiftedIn(q)
    <3>1. ~HasLifted(q, {r})
      BY <2>2 DEF HasLifted
    <3>2. y = Long(SumFunction(d)) /\ DefaultOf(q, r) = Long(SumFunction(c))
      BY <3>1 DEF ValueMeans
    <3>3. SumFunction(c) = 0
      BY <1>9, <3>2 DEF ZeroOf, Long
    <3>4. SumFunction(s) = SumFunction(d)
      BY <1>1, <3>3
    <3>5. AssignedOf(q, r, y) = y
      BY <3>2 DEF AssignedOf, Long
    <3> QED
      BY <3>1, <3>2, <3>4, <3>5 DEF ValueMeans
  <2> QED
    BY <2>1, <2>2
<1> QED
  BY <1>7, <1>11 DEF s

Entry(q, w, r, g) == IF g \in DOMAIN w THEN w[g] ELSE DefaultOf(q, r)

StoreOf(q, w, r, g, d) ==
  IF ZeroOf(q, d) THEN w
  ELSE IF g \in DOMAIN w
  THEN IF ZeroOf(q, SumOf(q, w[g], d)) THEN Restrict(w, DOMAIN w \ {g})
       ELSE [w EXCEPT ![g] = SumOf(q, w[g], d)]
  ELSE [h \in DOMAIN w \cup {g} |-> IF h = g THEN AssignedOf(q, r, d) ELSE w[h]]

EntryMeans(q, w, r, g, c) ==
  ValueMeans(q, Entry(q, w, r, g), {r}, c) /\ (g \in DOMAIN w <=> Live(q, r, c))

LEMMA StoreMeans ==
  ASSUME NEW q \in Query, RingLaws(q), NEW r \in 1..Size(q), NEW w, NEW g,
         NEW c \in Counts(q, {r}), Positive(q, {r}, c),
         NEW d \in Counts(q, {r}), OneSign(q, {r}, d), Positive(q, {r}, Added(q, {r}, c, d)),
         EntryMeans(q, w, r, g, c), NEW y, ValueMeans(q, y, {r}, d)
  PROVE  EntryMeans(q, StoreOf(q, w, r, g, y), r, g, Added(q, {r}, c, d))
<1> DEFINE s == Added(q, {r}, c, d)
           v == StoreOf(q, w, r, g, y)
<1>0. {r} \in SUBSET Indices(q)
  BY SizeType DEF Indices
<1>1. s \in Counts(q, {r}) /\ Positive(q, {r}, s)
  BY <1>0, AddedType
<1>2. CASE ZeroOf(q, y)
  <2>1. v = w
    BY <1>2 DEF StoreOf
  <2>2. ValueMeans(q, Entry(q, w, r, g), {r}, s) /\ (Live(q, r, s) <=> Live(q, r, c))
    BY <1>2, ZeroAdds DEF EntryMeans
  <2> HIDE DEF s, v
  <2> QED
    BY <2>1, <2>2 DEF EntryMeans, s, v
<1>3. CASE ~ZeroOf(q, y) /\ g \in DOMAIN w
  <2> DEFINE z == SumOf(q, w[g], y)
  <2>1. ValueMeans(q, w[g], {r}, c)
    BY <1>3 DEF EntryMeans, Entry
  <2>2. ValueMeans(q, z, {r}, s)
    BY <2>1, SumMeans
  <2> HIDE DEF s
  <2>3. ZeroOf(q, z) <=> ~Live(q, r, s)
    <3> HIDE DEF z
    <3> QED
      BY <1>1, <2>2, ZeroLive DEF OneSign
  <2>4. CASE ZeroOf(q, z)
    <3>1. v = Restrict(w, DOMAIN w \ {g})
      BY <1>3, <2>4 DEF StoreOf
    <3>2. g \notin DOMAIN v
      BY <3>1 DEF Restrict
    <3>3. Entry(q, v, r, g) = DefaultOf(q, r)
      BY <3>2 DEF Entry
    <3>4. ValueMeans(q, DefaultOf(q, r), {r}, s)
      <4> HIDE DEF z
      <4> QED
        BY <1>1, <2>2, <2>4, ErasedMeans
    <3> HIDE DEF v
    <3> QED
      BY <2>3, <2>4, <3>2, <3>3, <3>4 DEF EntryMeans, s, v
  <2>5. CASE ~ZeroOf(q, z)
    <3>1. v = [w EXCEPT ![g] = z]
      BY <1>3, <2>5 DEF StoreOf
    <3> HIDE DEF z, v
    <3>2. g \in DOMAIN v /\ v[g] = z
      BY <1>3, <3>1
    <3>3. Entry(q, v, r, g) = z
      BY <3>2 DEF Entry
    <3> QED
      BY <2>2, <2>3, <2>5, <3>2, <3>3 DEF EntryMeans, s, v
  <2> QED
    BY <2>4, <2>5
<1>4. CASE ~ZeroOf(q, y) /\ g \notin DOMAIN w
  <2>1. ValueMeans(q, DefaultOf(q, r), {r}, c) /\ ~Live(q, r, c)
    BY <1>4 DEF EntryMeans, Entry
  <2>2. ValueMeans(q, AssignedOf(q, r, y), {r}, s) /\ Live(q, r, s)
    BY <1>4, <2>1, AssignedMeans
  <2>3. v = [h \in DOMAIN w \cup {g} |-> IF h = g THEN AssignedOf(q, r, y) ELSE w[h]]
    BY <1>4 DEF StoreOf
  <2>4. g \in DOMAIN v /\ v[g] = AssignedOf(q, r, y)
    BY <2>3
  <2> HIDE DEF s, v
  <2> QED
    BY <2>2, <2>4 DEF EntryMeans, Entry, s, v
<1> QED
  BY <1>2, <1>3, <1>4

(* Other entries stay as they are.                                         *)
LEMMA StoreDomain ==
  ASSUME NEW q, NEW r, NEW w, NEW g, NEW y
  PROVE  DOMAIN StoreOf(q, w, r, g, y) \subseteq DOMAIN w \cup {g}
BY DEF StoreOf, Restrict

LEMMA StoreKeeps ==
  ASSUME NEW q, NEW r, NEW w, NEW g, NEW y, NEW h, h # g, NEW c, EntryMeans(q, w, r, h, c)
  PROVE  EntryMeans(q, StoreOf(q, w, r, g, y), r, h, c)
<1> DEFINE v == StoreOf(q, w, r, g, y)
<1>1. /\ h \in DOMAIN v <=> h \in DOMAIN w
      /\ h \in DOMAIN w => v[h] = w[h]
  BY DEF StoreOf, Restrict
<1> HIDE DEF v
<1>2. Entry(q, v, r, h) = Entry(q, w, r, h)
  BY <1>1 DEF Entry
<1>3. EntryMeans(q, v, r, h, c)
  BY <1>1, <1>2 DEF EntryMeans
<1> QED
  BY <1>3 DEF v

-----------------------------------------------------------------------------
(***************************************************************************)
(* The program.  Before its last statement a trigger leaves the views at   *)
(* the base without the update, and its first one brings the root ahead.   *)
(***************************************************************************)

Bounded(q, b) == \A r \in 1..Size(q) : \A t \in RowsOf(q)[r] : b[r][t] \in 0..Program[q].copies

ViewOK(q, v, b) ==
  /\ v = [r \in 1..Size(q) |-> v[r]]
  /\ \A r \in 1..Size(q) : DOMAIN v[r] \subseteq KeysOf(q)
  /\ \A r \in 1..Size(q) : \A g \in KeysOf(q) :
       EntryMeans(q, v[r], r, g, GroupCounts(q, b, r, g))

RootOK(q, p, b) == p.lifted /\ Means(q, p.val, Indices(q), JoinCounts(q, b))

(* The base the views stand for.                                           *)
Behind(q, b, v, e, p, now) ==
  /\ BaseOK(q, b) /\ now = Advance(q, b, e) /\ ViewOK(q, v, b)
  /\ RootOK(q, p, IF e.rooted THEN now ELSE b)

IInv ==
  /\ query \in Query /\ BaseOK(query, base) /\ Bounded(query, base)
  /\ \/ event = Idle /\ ViewOK(query, view, base) /\ RootOK(query, root, base)
     \/ EventOK(query, event) /\ \E b : Behind(query, b, view, event, root, base)

(* The names of the specification are those used here.                     *)
LEMMA NamesOf ==
  /\ Rel = 1..Size(query) /\ Rows = RowsOf(query) /\ NumRel = Size(query)
  /\ Lifted = LiftedIn(query) /\ Keys = KeysOf(query)
BY DEF Rel, NumRel, Rows, RowsOf, Size, Lifted, LiftedIn, Keys, KeysOf

LEMMA DefaultIs == \A r : Default(r) = DefaultOf(query, r)
BY DEF Default, DefaultOf, Lifted, LiftedIn

LEMMA LookupIs == \A r, g : Lookup(r, g) = LookupOf(query, view, r, g)
BY DefaultIs DEF Lookup, LookupOf

LEMMA DeltaIs == \A e : Delta(e) = DeltaOf(query, e)
BY DEF Delta, DeltaOf, Mul, MulOf, Factor, FactorOf, Lifted, LiftedIn, Payload, Long

LEMMA RootDeltaIs == \A e : RootDelta(e) = RootDeltaOf(query, view, e)
<1> SUFFICES ASSUME NEW e
             PROVE  RootDelta(e) = RootDeltaOf(query, view, e)
  OBVIOUS
<1>1. \A x, y : Mul(x, y) = MulOf(query, x, y)
  BY DEF Mul, MulOf
<1>2. Operands(e) = OperandsOf(query, view, e)
  BY LookupIs, DeltaIs, NamesOf DEF Operands, OperandsOf
<1> QED
  BY <1>2 DEF RootDelta, RootDeltaOf, Mul, MulOf

LEMMA StoreIs ==
  \A w, r, g, d : Store(w, r, g, d) = StoreOf(query, w, r, g, d)
BY DEF Store, StoreOf, Zero, ZeroOf, Sum, SumOf, Assigned, AssignedOf

LEMMA NothingYet ==
  ASSUME NEW q \in Query, NEW b, BaseOK(q, b),
         \A r \in 1..Size(q) : \A t \in RowsOf(q)[r] : b[r][t] = 0
  PROVE  /\ \A r \in 1..Size(q) : \A g : GroupCounts(q, b, r, g) = Nothing(q, {r})
         /\ JoinCounts(q, b) = Nothing(q, Indices(q))
<1>1. \A r \in 1..Size(q) : \A g, v : CopiesAt(q, b, r, g, v) = 0
  BY DEF CopiesAt
<1>2. \A r \in 1..Size(q) : \A g : GroupCounts(q, b, r, g) = Nothing(q, {r})
  BY <1>1 DEF GroupCounts, Nothing
<1>3. ASSUME NEW a
      PROVE  ProductOf(JoinFactors(q, b, a)) = 0
  <2> DEFINE F == JoinFactors(q, b, a)
  <2>1. F \in [1..Size(q) -> Nat]
    BY JoinCountsType
  <2>2. \A r \in 1..Size(q) : F[r] = 0
    BY <1>1 DEF JoinFactors
  <2> HIDE DEF F
  <2>3. F \in [1..Size(q) -> Int] /\ IsFiniteSet(1..Size(q)) /\ 1 \in 1..Size(q)
    BY <2>1, SizeType, FS_Interval
  <2>4. ProductOf(F) = 0
    BY <2>2, <2>3, ProductNotZero
  <2> QED
    BY <2>4 DEF F
<1>4. JoinCounts(q, b) = Nothing(q, Indices(q))
  BY <1>3 DEF JoinCounts, Nothing
<1> QED
  BY <1>2, <1>4

LEMMA DefaultMeans ==
  ASSUME NEW q \in Query, RingLaws(q), NEW r \in 1..Size(q)
  PROVE  /\ ValueMeans(q, DefaultOf(q, r), {r}, Nothing(q, {r}))
         /\ ~Live(q, r, Nothing(q, {r}))
<1>0. r # 0 /\ {r} \in SUBSET Indices(q)
  BY SizeType DEF Indices
<1>1. ~Live(q, r, Nothing(q, {r}))
  BY DEF Live, Nothing
<1>2. CASE r \in LiftedIn(q)
  BY <1>0, <1>1, <1>2 DEF RingLaws, ZeroLaw, ValueMeans, DefaultOf, HasLifted, Payload
<1>3. CASE r \notin LiftedIn(q)
  <2> DEFINE z == Nothing(q, {r})
  <2>1. z \in [Tuples(q, {r}) -> Int] /\ \A a \in Tuples(q, {r}) : z[a] = 0
    BY DEF Nothing
  <2>2. IsFiniteSet(Tuples(q, {r}))
    BY <1>0, TuplesFinite
  <2> HIDE DEF z
  <2>3. SumFunction(z) = 0
    BY <2>1, <2>2, SumOfZeros
  <2> QED
    BY <1>1, <1>3, <2>3 DEF ValueMeans, DefaultOf, HasLifted, z
<1> QED
  BY <1>2, <1>3

LEMMA StartsRight ==
  ASSUME \A q \in Query : RingLaws(q), Init
  PROVE  IInv
<1> DEFINE n == Size(query)
<1>1. query \in Query /\ event = Idle /\ RingLaws(query) /\ n \in Nat \ {0}
  BY SizeType DEF Init
<1>2. base = [r \in 1..n |-> [t \in RowsOf(query)[r] |-> 0]]
  BY NamesOf DEF Init
<1>3. BaseOK(query, base) /\ \A r \in 1..n : \A t \in RowsOf(query)[r] : base[r][t] = 0
  BY <1>2 DEF BaseOK
<1>4. Bounded(query, base)
  <2>1. Program[query].copies \in Nat
    BY <1>1, RingViewAssumption
  <2> QED
    BY <1>3, <2>1 DEF Bounded
<1>5. view = [r \in 1..n |-> [g \in {} |-> DefaultOf(query, r)]]
  BY NamesOf, DefaultIs DEF Init
<1>6. /\ \A r \in 1..n : \A g : GroupCounts(query, base, r, g) = Nothing(query, {r})
      /\ JoinCounts(query, base) = Nothing(query, Indices(query))
  BY <1>1, <1>3, NothingYet
<1>7. ViewOK(query, view, base)
  <2>1. ASSUME NEW r \in 1..n, NEW g \in KeysOf(query)
        PROVE  EntryMeans(query, view[r], r, g, GroupCounts(query, base, r, g))
    <3>1. view[r] = [h \in {} |-> DefaultOf(query, r)]
      BY <1>5
    <3>2. g \notin DOMAIN view[r]
      BY <3>1
    <3> QED
      BY <1>1, <1>6, <3>2, DefaultMeans DEF EntryMeans, Entry
  <2>2. view = [r \in 1..n |-> view[r]] /\ \A r \in 1..n : DOMAIN view[r] \subseteq KeysOf(query)
    BY <1>5
  <2> QED
    BY <2>1, <2>2 DEF ViewOK
<1>8. RootOK(query, root, base)
  <2>1. PICK p \in RStart(query) : root = Payload(p)
    BY DEF Init
  <2>2. Means(query, p, Indices(query), Nothing(query, Indices(query)))
    BY <1>1 DEF RingLaws, ZeroLaw
  <2> QED
    BY <1>6, <2>1, <2>2 DEF RootOK, Payload
<1> QED
  BY <1>1, <1>3, <1>4, <1>7, <1>8 DEF IInv

LEMMA DeliverRight ==
  ASSUME IInv, NEW r \in Rel, NEW t \in Rows[r], NEW m \in Program[query].mults, Deliver(r, t, m)
  PROVE  IInv'
<1>1. /\ query \in Query /\ BaseOK(query, base) /\ Bounded(query, base) /\ event = Idle
      /\ query' = query /\ view' = view /\ root' = root
      /\ event' = [rel |-> r, row |-> t, mult |-> m, rooted |-> FALSE]
      /\ base' = [base EXCEPT ![r][t] = @ + m] /\ base[r][t] + m \in 0..Program[query].copies
  BY DEF IInv, Deliver
<1>2. r \in 1..Size(query) /\ t \in RowsOf(query)[r] /\ m \in Int
  BY <1>1, NamesOf, RingViewAssumption
<1>3. EventOK(query, event)'
  BY <1>1, <1>2 DEF EventOK
<1>4. ViewOK(query, view, base) /\ RootOK(query, root, base)
  <2>1. ~EventOK(query, event)
    BY <1>1, SizeType DEF EventOK, Idle
  <2> QED
    BY <2>1 DEF IInv
<1>5. base' = Advance(query, base, event')
  <2>1. base = [s \in 1..Size(query) |-> base[s]] /\ \A s \in 1..Size(query) : base[s] \in [RowsOf(query)[s] -> Nat]
    BY <1>1 DEF BaseOK
  <2>2. base' = [s \in 1..Size(query) |-> [u \in RowsOf(query)[s] |->
                   IF s = r /\ u = t THEN base[s][u] + m ELSE base[s][u]]]
    <3>1. base' = [s \in 1..Size(query) |-> IF s = r THEN [base[r] EXCEPT ![t] = @ + m] ELSE base[s]]
      BY <1>1, <1>2, <2>1
    <3>2. [base[r] EXCEPT ![t] = @ + m] =
            [u \in RowsOf(query)[r] |-> IF u = t THEN base[r][u] + m ELSE base[r][u]]
      BY <1>2, <2>1
    <3>3. \A s \in 1..Size(query) : base[s] = [u \in RowsOf(query)[s] |-> base[s][u]]
      BY <2>1
    <3>4. ASSUME NEW s \in 1..Size(query)
          PROVE  (IF s = r THEN [base[r] EXCEPT ![t] = @ + m] ELSE base[s]) =
                   [u \in RowsOf(query)[s] |-> IF s = r /\ u = t THEN base[s][u] + m ELSE base[s][u]]
      <4>1. CASE s = r
        BY <3>2, <4>1
      <4>2. CASE s # r
        BY <3>3, <4>2
      <4> QED
        BY <4>1, <4>2
    <3> QED
      BY <3>1, <3>4
  <2>3. event'.rel = r /\ event'.row = t /\ event'.mult = m
    BY <1>1
  <2> QED
    BY <2>2, <2>3 DEF Advance
<1>6. BaseOK(query', base') /\ Bounded(query', base')
  <2>1. \A s \in 1..Size(query) : \A u \in RowsOf(query)[s] :
          base'[s][u] = IF s = r /\ u = t THEN base[s][u] + m ELSE base[s][u]
    BY <1>1, <1>5 DEF Advance
  <2>2. \A s \in 1..Size(query) : \A u \in RowsOf(query)[s] : base'[s][u] \in 0..Program[query].copies
    BY <1>1, <2>1 DEF Bounded
  <2>3. Program[query].copies \in Nat
    BY <1>1, RingViewAssumption
  <2>4. \A s \in 1..Size(query) : \A u \in RowsOf(query)[s] : base'[s][u] \in Nat
    BY <2>2, <2>3
  <2>5. base' = [s \in 1..Size(query) |-> base'[s]]
        /\ \A s \in 1..Size(query) : base'[s] = [u \in RowsOf(query)[s] |-> base'[s][u]]
    BY <1>5 DEF Advance
  <2>6. \A s \in 1..Size(query) : base'[s] \in [RowsOf(query)[s] -> Nat]
    BY <2>4, <2>5
  <2> QED
    BY <1>1, <2>2, <2>5, <2>6 DEF BaseOK, Bounded
<1>7. Behind(query', base, view', event', root', base')
  BY <1>1, <1>4, <1>5 DEF Behind
<1> QED
  BY <1>1, <1>3, <1>6, <1>7 DEF IInv

LEMMA BaseBounded ==
  ASSUME NEW q \in Query, NEW b, BaseOK(q, b)
  PROVE  \A r \in 1..Size(q) : \A g : /\ GroupCounts(q, b, r, g) \in Counts(q, {r})
                                     /\ Positive(q, {r}, GroupCounts(q, b, r, g))
BY GroupCountsType

LEMMA ViewMeansOf ==
  ASSUME NEW q \in Query, NEW v, NEW b, ViewOK(q, v, b)
  PROVE  ViewMeans(q, v, b)
<1> SUFFICES ASSUME NEW r \in 1..Size(q), NEW g \in KeysOf(q)
             PROVE  ValueMeans(q, LookupOf(q, v, r, g), {r}, GroupCounts(q, b, r, g))
  BY DEF ViewMeans
<1>1. LookupOf(q, v, r, g) = Entry(q, v[r], r, g)
  BY DEF LookupOf, Entry
<1>2. ValueMeans(q, Entry(q, v[r], r, g), {r}, GroupCounts(q, b, r, g))
  BY DEF ViewOK, EntryMeans
<1> QED
  BY <1>1, <1>2

(* The first statement brings the root to the base with the update.        *)
LEMMA RootAhead ==
  ASSUME NEW q \in Query, RingLaws(q), NEW b, BaseOK(q, b), NEW v, ViewOK(q, v, b),
         NEW e, EventOK(q, e), BaseOK(q, Advance(q, b, e)), NEW p, RootOK(q, p, b)
  PROVE  RootOK(q, SumOf(q, p, RootDeltaOf(q, v, e)), Advance(q, b, e))
<1> DEFINE I == Indices(q)
           c == JoinCounts(q, b)
           d == Weighted(q, I, EventWeights(q, b, e))
           s == JoinCounts(q, Advance(q, b, e))
           y == RootDeltaOf(q, v, e)
<1>1. y.lifted /\ Means(q, y.val, I, d)
  BY ViewMeansOf, RootDeltaMeans
<1>2. c \in Counts(q, I) /\ Positive(q, I, c) /\ Positive(q, I, s)
  BY JoinCountsType
<1>3. d \in Counts(q, I) /\ OneSign(q, I, d)
  BY EventWeightsType
<1>4. s = Added(q, I, c, d)
  BY JoinAdvance
<1>5. p.lifted /\ Means(q, p.val, I, c)
  BY DEF RootOK
<1>6. I \in Kept(q) /\ PlusLaw(q)
  BY DEF Kept, RingLaws
<1> HIDE DEF I, c, d, s, y
<1>7. Means(q, RPlus(q, p.val, y.val), I, Added(q, I, c, d))
  BY <1>1, <1>2, <1>3, <1>4, <1>5, <1>6 DEF PlusLaw
<1>8. SumOf(q, p, y).lifted /\ SumOf(q, p, y).val = RPlus(q, p.val, y.val)
  BY <1>5 DEF SumOf, Payload
<1> QED
  BY <1>4, <1>7, <1>8 DEF RootOK, I, s, y

(* The last one brings the view of the updated relation there.             *)
LEMMA ViewAhead ==
  ASSUME NEW q \in Query, RingLaws(q), NEW b, BaseOK(q, b), NEW v, ViewOK(q, v, b),
         NEW e, EventOK(q, e), BaseOK(q, Advance(q, b, e)),
         NEW u, u = [v EXCEPT ![e.rel] = StoreOf(q, v[e.rel], e.rel, e.row.key, DeltaOf(q, e))]
  PROVE  ViewOK(q, u, Advance(q, b, e))
<1> DEFINE n == Size(q)
           r == e.rel
           k == e.row.key
           y == DeltaOf(q, e)
           d == DeltaCounts(q, e)
           now == Advance(q, b, e)
<1>1. r \in 1..n /\ k \in KeysOf(q)
  BY SizeType DEF EventOK
<1>2. v = [i \in 1..n |-> v[i]]
  BY DEF ViewOK
<1>3. u = [i \in 1..n |-> u[i]] /\ u[r] = StoreOf(q, v[r], r, k, y) /\ \A i \in 1..n : i # r => u[i] = v[i]
  BY <1>1, <1>2
<1>4. d \in Counts(q, {r}) /\ OneSign(q, {r}, d) /\ ValueMeans(q, y, {r}, d)
  BY DeltaMeans
<1>5. ASSUME NEW i \in 1..n
      PROVE  DOMAIN u[i] \subseteq KeysOf(q)
  <2>1. DOMAIN v[i] \subseteq KeysOf(q)
    BY DEF ViewOK
  <2>2. CASE i # r
    BY <1>3, <2>1, <2>2
  <2>3. CASE i = r
    <3>2. DOMAIN StoreOf(q, v[r], r, k, y) \subseteq DOMAIN v[r] \cup {k}
      BY StoreDomain
    <3> QED
      BY <1>1, <1>3, <2>1, <2>3, <3>2
  <2> QED
    BY <2>2, <2>3
<1>6. ASSUME NEW i \in 1..n, NEW g \in KeysOf(q)
      PROVE  EntryMeans(q, u[i], i, g, GroupCounts(q, now, i, g))
  <2> DEFINE c == GroupCounts(q, b, i, g)
             s == GroupCounts(q, now, i, g)
  <2>1. EntryMeans(q, v[i], i, g, c)
    BY DEF ViewOK
  <2>2. c \in Counts(q, {i}) /\ Positive(q, {i}, c) /\ Positive(q, {i}, s)
    BY BaseBounded
  <2>3. s = IF i = r /\ g = k THEN Added(q, {i}, c, d) ELSE c
    BY GroupAdvance
  <2> HIDE DEF c, s, d, y, now
  <2>4. CASE i # r
    BY <1>3, <2>1, <2>3, <2>4 DEF s
  <2>5. CASE i = r /\ g # k
    <3>1. s = c
      BY <2>3, <2>5
    <3>2. EntryMeans(q, StoreOf(q, v[r], r, k, y), r, g, c)
      BY <2>1, <2>5, StoreKeeps
    <3> QED
      BY <1>3, <2>5, <3>1, <3>2 DEF s
  <2>6. CASE i = r /\ g = k
    <3>1. s = Added(q, {r}, c, d) /\ c \in Counts(q, {r}) /\ Positive(q, {r}, c)
          /\ Positive(q, {r}, Added(q, {r}, c, d)) /\ EntryMeans(q, v[r], r, k, c)
      BY <2>1, <2>2, <2>3, <2>6
    <3>2. EntryMeans(q, StoreOf(q, v[r], r, k, y), r, k, Added(q, {r}, c, d))
      <4> HIDE DEF r, k
      <4> QED
        BY <1>1, <1>4, <3>1, StoreMeans DEF n
    <3> QED
      BY <1>3, <2>6, <3>1, <3>2 DEF s
  <2> QED
    BY <2>4, <2>5, <2>6
<1> QED
  BY <1>3, <1>5, <1>6 DEF ViewOK

LEMMA AddToRootRight ==
  ASSUME \A q \in Query : RingLaws(q), IInv, AddToRoot
  PROVE  IInv'
<1>1. /\ query \in Query /\ BaseOK(query, base) /\ Bounded(query, base) /\ RingLaws(query)
      /\ query' = query /\ view' = view /\ base' = base
      /\ event # Idle /\ ~event.rooted
      /\ root' = Sum(root, RootDelta(event))
      /\ event' = [event EXCEPT !.rooted = TRUE]
  BY DEF IInv, AddToRoot
<1>2. EventOK(query, event)
  BY <1>1 DEF IInv
<1>3. PICK b : Behind(query, b, view, event, root, base)
  BY <1>1 DEF IInv
<1>4. /\ BaseOK(query, b) /\ base = Advance(query, b, event) /\ ViewOK(query, view, b)
      /\ RootOK(query, root, b)
  BY <1>1, <1>3 DEF Behind
<1>5. RootOK(query, SumOf(query, root, RootDeltaOf(query, view, event)), Advance(query, b, event))
  BY <1>1, <1>2, <1>4, RootAhead
<1>6. root' = SumOf(query, root, RootDeltaOf(query, view, event))
  BY <1>1, RootDeltaIs DEF Sum, SumOf
<1>7. /\ EventOK(query, event') /\ event'.rooted
      /\ event'.rel = event.rel /\ event'.row = event.row /\ event'.mult = event.mult
  BY <1>1, <1>2 DEF EventOK
<1>8. Advance(query, b, event') = base
  BY <1>4, <1>7 DEF Advance
<1>9. Behind(query', b, view', event', root', base')
  BY <1>1, <1>4, <1>5, <1>6, <1>7, <1>8 DEF Behind
<1> QED
  BY <1>1, <1>7, <1>9 DEF IInv

LEMMA AddToViewRight ==
  ASSUME \A q \in Query : RingLaws(q), IInv, AddToView
  PROVE  IInv'
<1>1. /\ query \in Query /\ BaseOK(query, base) /\ Bounded(query, base) /\ RingLaws(query)
      /\ query' = query /\ root' = root /\ base' = base /\ event' = Idle
      /\ event # Idle /\ event.rooted
      /\ view' = [view EXCEPT ![event.rel] = Store(@, event.rel, event.row.key, Delta(event))]
  BY DEF IInv, AddToView
<1>2. EventOK(query, event)
  BY <1>1 DEF IInv
<1>3. PICK b : Behind(query, b, view, event, root, base)
  BY <1>1 DEF IInv
<1>4. /\ BaseOK(query, b) /\ base = Advance(query, b, event) /\ ViewOK(query, view, b)
      /\ RootOK(query, root, base)
  BY <1>1, <1>3 DEF Behind
<1>5. view' = [view EXCEPT ![event.rel] =
                 StoreOf(query, view[event.rel], event.rel, event.row.key, DeltaOf(query, event))]
  BY <1>1, StoreIs, DeltaIs
<1>6. ViewOK(query, view', Advance(query, b, event))
  BY <1>1, <1>2, <1>4, <1>5, ViewAhead
<1> QED
  BY <1>1, <1>4, <1>6 DEF IInv

-----------------------------------------------------------------------------

(* Every step of a program over a lawful payload type keeps the invariant. *)
THEOREM RingInvariant ==
  ASSUME \A q \in Query : RingLaws(q)
  PROVE  Spec => []IInv
<1>1. Init => IInv
  BY StartsRight
<1>2. IInv /\ [Next]_vars => IInv'
  <2> SUFFICES ASSUME IInv, [Next]_vars
               PROVE  IInv'
    OBVIOUS
  <2>1. CASE \E r \in Rel : \E t \in Rows[r], m \in Program[query].mults : Deliver(r, t, m)
    BY <2>1, DeliverRight
  <2>2. CASE AddToRoot
    BY <2>2, AddToRootRight
  <2>3. CASE AddToView
    BY <2>3, AddToViewRight
  <2>4. CASE UNCHANGED vars
    BY <2>4 DEF vars, IInv
  <2> QED
    BY <2>1, <2>2, <2>3, <2>4 DEF Next
<1> QED
  BY <1>1, <1>2, PTL DEF Spec

(* The counts of rows stay within their bound and a stored entry is of its *)
(* view's kind.                                                            *)
THEOREM RingTypes ==
  ASSUME \A q \in Query : RingLaws(q)
  PROVE  Spec => []TypeOK
<1>1. IInv => TypeOK
  <2> SUFFICES ASSUME IInv
               PROVE  TypeOK
    OBVIOUS
  <2>1. query \in Query /\ Bounded(query, base) /\ \E b : ViewOK(query, view, b)
    BY DEF IInv, Behind
  <2>2. PICK b : ViewOK(query, view, b)
    BY <2>1
  <2>3. ASSUME NEW r \in 1..Size(query), NEW g \in DOMAIN view[r]
        PROVE  g \in KeysOf(query) /\ view[r][g].lifted = (r \in LiftedIn(query))
    <3>1. g \in KeysOf(query)
      BY <2>2 DEF ViewOK
    <3>2. ValueMeans(query, view[r][g], {r}, GroupCounts(query, b, r, g))
      BY <2>2, <3>1 DEF ViewOK, EntryMeans, Entry
    <3>3. CASE r \in LiftedIn(query)
      <4>1. view[r][g].lifted
        BY <3>2, <3>3 DEF ValueMeans, HasLifted
      <4> QED
        BY <3>1, <3>3, <4>1
    <3>4. CASE r \notin LiftedIn(query)
      <4>1. view[r][g] = Long(SumFunction(GroupCounts(query, b, r, g)))
        BY <3>2, <3>4 DEF ValueMeans, HasLifted
      <4>2. view[r][g].lifted = FALSE
        BY <4>1 DEF Long
      <4>3. (r \in LiftedIn(query)) = FALSE
        BY <3>4
      <4> QED
        BY <3>1, <4>2, <4>3
    <3> QED
      BY <3>3, <3>4
  <2> QED
    BY <2>1, <2>3, NamesOf DEF TypeOK, Bounded
<1> QED
  BY <1>1, RingInvariant, PTL

(* Between triggers a payload is the sum over its group, and a group is    *)
(* stored exactly while it has rows that count.                            *)
THEOREM ViewsStayRight ==
  ASSUME \A q \in Query : RingLaws(q)
  PROVE  Spec => []ViewsMean
<1>1. IInv => ViewsMean
  <2> SUFFICES ASSUME IInv, event = Idle
               PROVE  ViewsMean
    BY DEF ViewsMean, StoredWhileNonEmpty
  <2>1. query \in Query /\ RingLaws(query) /\ BaseOK(query, base) /\ ViewOK(query, view, base)
    <3>1. query \in Query /\ BaseOK(query, base)
      BY DEF IInv
    <3>2. ~EventOK(query, event)
      BY <3>1, SizeType DEF EventOK, Idle
    <3> QED
      BY <3>1, <3>2 DEF IInv
  <2>2. ASSUME NEW r \in 1..Size(query), NEW g \in KeysOf(query)
        PROVE  g \in DOMAIN view[r] <=>
                 \E t \in Rows[r] : t.key = g /\ base[r][t] # 0 /\ ~Zero(Factor(r, t.val))
    <3>1. g \in DOMAIN view[r] <=> Live(query, r, GroupCounts(query, base, r, g))
      BY <2>1 DEF ViewOK, EntryMeans
    <3>2. Live(query, r, GroupCounts(query, base, r, g)) <=>
            \E t \in RowsOf(query)[r] :
              t.key = g /\ base[r][t] # 0 /\ ~ZeroOf(query, FactorOf(query, r, t.val))
      BY <2>1, LiveGroup
    <3>3. \A x : ZeroOf(query, FactorOf(query, r, x)) <=> Zero(Factor(r, x))
      BY DEF ZeroOf, Zero, FactorOf, Factor, Lifted, LiftedIn
    <3>4. Rows = RowsOf(query)
      BY NamesOf
    <3> QED
      BY <3>1, <3>2, <3>3, <3>4
  <2>3. ASSUME NEW r \in 1..Size(query), r \in LiftedIn(query), NEW g \in KeysOf(query)
        PROVE  RMeans(query, Lookup(r, g).val, {r}, GroupBag(r, g))
    <3>1. ValueMeans(query, LookupOf(query, view, r, g), {r}, GroupCounts(query, base, r, g))
      BY <2>1, ViewMeansOf DEF ViewMeans
    <3>2. RMeans(query, LookupOf(query, view, r, g).val, {r}, Bag(query, {r}, GroupCounts(query, base, r, g)))
      BY <2>3, <3>1 DEF ValueMeans, HasLifted, Means
    <3>3. GroupBagOf(query, base, r, g) = Bag(query, {r}, GroupCounts(query, base, r, g))
      BY <2>1, GroupBagIs
    <3>4. GroupBag(r, g) = GroupBagOf(query, base, r, g)
      BY DEF GroupBag, GroupBagOf, Rows, RowsOf
    <3> QED
      BY <3>2, <3>3, <3>4, LookupIs
  <2>4. StoredWhileNonEmpty
    BY <2>2, NamesOf DEF StoredWhileNonEmpty
  <2> QED
    BY <2>3, <2>4, NamesOf DEF ViewsMean
<1> QED
  BY <1>1, RingInvariant, PTL

(* And the root is the sum over the natural join.                          *)
THEOREM RootStaysRight ==
  ASSUME \A q \in Query : RingLaws(q)
  PROVE  Spec => []RootMeans
<1>1. IInv => RootMeans
  <2> SUFFICES ASSUME IInv, event = Idle
               PROVE  RMeans(query, root.val, 0..NumRel, JoinBag)
    BY DEF RootMeans
  <2>1. query \in Query /\ BaseOK(query, base) /\ RootOK(query, root, base)
    <3>1. query \in Query /\ BaseOK(query, base)
      BY DEF IInv
    <3>2. ~EventOK(query, event)
      BY <3>1, SizeType DEF EventOK, Idle
    <3> QED
      BY <3>1, <3>2 DEF IInv
  <2>2. RMeans(query, root.val, Indices(query), Bag(query, Indices(query), JoinCounts(query, base)))
    BY <2>1 DEF RootOK, Means
  <2>3. JoinBagOf(query, base) = Bag(query, Indices(query), JoinCounts(query, base))
    BY <2>1, JoinBagIs
  <2>4. JoinBag = JoinBagOf(query, base)
    BY DEF JoinBag, JoinBagOf, Rows, RowsOf, NumRel, Size, Keys, KeysOf, Rel
  <2>5. 0..NumRel = Indices(query)
    BY NamesOf DEF Indices
  <2> QED
    BY <2>2, <2>3, <2>4, <2>5
<1> QED
  BY <1>1, RingInvariant, PTL

-----------------------------------------------------------------------------
(***************************************************************************)
(* The cofactors of ring_cofactor_degree1.hpp: sums, over a bag of tuples, *)
(* of products of values.  The variables of relation r are vs[r], those  *)
(* of a relation before those of the next, and every relation is lifted.   *)
(***************************************************************************)

VarsOK(q, vs) ==
  /\ LiftedIn(q) = Indices(q) /\ vs[0] = {0}
  /\ \A r \in Indices(q) : vs[r] \in SUBSET Nat /\ vs[r] # {}
  /\ \A r, s \in Indices(q) : r < s => \A x \in vs[r], y \in vs[s] : x < y
  /\ \A g \in ValuesAt(q, 0) : g \in Int
  /\ \A r \in 1..Size(q) : \A v \in ValuesAt(q, r) : v \in [vs[r] -> Int]

Over(vs, X) == C!VarsOver(vs, X)
ValAt(vs, a, i) == C!ValueIn(vs, a, i)
PartAt(a, r, i) == IF r = 0 THEN a[0] ELSE a[r][i]

LEMMA OneOwner ==
  ASSUME NEW q, NEW vs, VarsOK(q, vs), NEW r \in Indices(q), NEW s \in Indices(q),
         NEW i \in vs[r], i \in vs[s]
  PROVE  r = s
<1>1. r \in Int /\ s \in Int /\ i \in Int
  <2>1. i \in Nat
    BY DEF VarsOK
  <2> QED
    BY <2>1 DEF Indices
<1>2. ~(r < s)
  <2> SUFFICES ASSUME r < s PROVE FALSE
    OBVIOUS
  <2>1. i < i
    BY DEF VarsOK
  <2> QED
    BY <1>1, <2>1
<1>3. ~(s < r)
  <2> SUFFICES ASSUME s < r PROVE FALSE
    OBVIOUS
  <2>1. i < i
    BY DEF VarsOK
  <2> QED
    BY <1>1, <2>1
<1> QED
  BY <1>1, <1>2, <1>3

LEMMA ValIs ==
  ASSUME NEW q, NEW vs, VarsOK(q, vs), NEW X \in SUBSET Indices(q), NEW a \in Tuples(q, X),
         NEW r \in X, NEW i \in vs[r]
  PROVE  ValAt(vs, a, i) = PartAt(a, r, i) /\ PartAt(a, r, i) \in Int /\ i \in Over(vs, X)
<1>1. DOMAIN a = X /\ a[r] \in ValuesAt(q, r)
  BY TuplesAre
<1>2. \A s \in X : i \in vs[s] => s = r
  BY OneOwner
<1> DEFINE k == CHOOSE s \in DOMAIN a : i \in vs[s]
<1>3. k = r
  BY <1>1, <1>2
<1>4. ValAt(vs, a, i) = PartAt(a, r, i)
  <2>1. ValAt(vs, a, i) = IF k = 0 THEN a[0] ELSE a[k][i]
    BY DEF ValAt, C!ValueIn
  <2> HIDE DEF k
  <2> QED
    BY <1>3, <2>1 DEF PartAt
<1>5. PartAt(a, r, i) \in Int
  <2>1. CASE r = 0
    BY <1>1, <2>1 DEF VarsOK, PartAt
  <2>2. CASE r # 0
    <3>1. r \in 1..Size(q)
      BY <2>2 DEF Indices
    <3>2. a[r] \in [vs[r] -> Int]
      BY <1>1, <3>1 DEF VarsOK
    <3> QED
      BY <2>2, <3>2 DEF PartAt
  <2> QED
    BY <2>1, <2>2
<1>6. i \in Over(vs, X)
  BY DEF Over, C!VarsOver
<1> QED
  BY <1>4, <1>5, <1>6

LEMMA ValType ==
  ASSUME NEW q, NEW vs, VarsOK(q, vs), NEW X \in SUBSET Indices(q), NEW a \in Tuples(q, X),
         NEW i \in Over(vs, X)
  PROVE  ValAt(vs, a, i) \in Int
<1>1. PICK r \in X : i \in vs[r]
  BY DEF Over, C!VarsOver
<1> QED
  BY <1>1, ValIs

(* A value is that of the part the variable is in.                         *)
LEMMA ValOn ==
  ASSUME NEW q, NEW vs, VarsOK(q, vs), NEW X \in SUBSET Indices(q), NEW Y \in SUBSET X,
         NEW a \in Tuples(q, X), NEW i \in Over(vs, Y)
  PROVE  ValAt(vs, On(a, Y), i) = ValAt(vs, a, i)
<1>1. PICK r \in Y : i \in vs[r]
  BY DEF Over, C!VarsOver
<1>2. On(a, Y) \in Tuples(q, Y) /\ On(a, Y)[r] = a[r]
  <2>1. \A j \in Y : On(a, Y)[j] = a[j] /\ a[j] \in ValuesAt(q, j)
    BY TuplesAre DEF On
  <2>2. On(a, Y) = [j \in Y |-> On(a, Y)[j]]
    BY DEF On
  <2> QED
    BY <2>1, <2>2, TuplesAre
<1>3. ValAt(vs, On(a, Y), i) = PartAt(On(a, Y), r, i) /\ ValAt(vs, a, i) = PartAt(a, r, i)
  BY <1>1, <1>2, ValIs
<1> QED
  BY <1>2, <1>3 DEF PartAt

-----------------------------------------------------------------------------

(* The sum of the weights w over the counts c.                             *)
Times1(q, X, c, w) == [a \in Tuples(q, X) |-> c[a] * w[a]]
SumOver(q, X, c, w) == SumFunction(Times1(q, X, c, w))

LEMMA SumOverType ==
  ASSUME NEW q \in Query, NEW X \in SUBSET Indices(q), NEW c \in Counts(q, X), NEW w \in Counts(q, X)
  PROVE  Times1(q, X, c, w) \in Counts(q, X) /\ SumOver(q, X, c, w) \in Int
<1>1. Times1(q, X, c, w) \in [Tuples(q, X) -> Int]
  BY DEF Times1, Counts
<1>2. IsFiniteSet(Tuples(q, X))
  BY TuplesFinite
<1> QED
  BY <1>1, <1>2, SumType DEF Counts, SumOver

BagSum(q, X, c, w) == SumFunction([a \in DOMAIN Bag(q, X, c) |-> Bag(q, X, c)[a] * w[a]])

(* Tuples that are not in the bag do not count.                            *)
LEMMA SupportSum ==
  ASSUME NEW q \in Query, NEW X \in SUBSET Indices(q), NEW c \in Counts(q, X), NEW w \in Counts(q, X)
  PROVE  BagSum(q, X, c, w) = SumOver(q, X, c, w)
<1> DEFINE S == Tuples(q, X)
           f == Times1(q, X, c, w)
           p == [a \in S |-> IF c[a] # 0 THEN 1 ELSE 0]
           g == [x \in {0, 1} |-> SumFunction(Restrict(f, Part(S, p, x)))]
           T == {a \in S : c[a] # 0}
<1>1. f \in [S -> Int] /\ IsFiniteSet(S) /\ c \in [S -> Int] /\ w \in [S -> Int]
  BY SumOverType, TuplesFinite DEF Counts
<1>2. p \in [S -> {0, 1}] /\ IsFiniteSet({0, 1})
  <2>1. {0, 1} = {0} \cup {1}
    OBVIOUS
  <2>2. IsFiniteSet({0} \cup {1})
    BY FS_Singleton, FS_AddElement
  <2> QED
    BY <2>1, <2>2
<1>3. \A x \in {0, 1} : /\ IsFiniteSet(Part(S, p, x)) /\ Part(S, p, x) \subseteq S
                       /\ Restrict(f, Part(S, p, x)) \in [Part(S, p, x) -> Int]
  <2> SUFFICES ASSUME NEW x \in {0, 1}
               PROVE  /\ IsFiniteSet(Part(S, p, x)) /\ Part(S, p, x) \subseteq S
                      /\ Restrict(f, Part(S, p, x)) \in [Part(S, p, x) -> Int]
    OBVIOUS
  <2>1. Part(S, p, x) \subseteq S
    BY DEF Part
  <2>2. IsFiniteSet(Part(S, p, x))
    BY <1>1, <2>1, FS_Subset
  <2> HIDE DEF f, p
  <2> QED
    BY <1>1, <2>1, <2>2 DEF Restrict
<1>4. g \in [{0, 1} -> Int]
  BY <1>3, SumType
<1>5. g[0] = 0
  <2> DEFINE k == Restrict(f, Part(S, p, 0))
  <2>1. \A a \in Part(S, p, 0) : c[a] = 0 /\ a \in S
    BY DEF Part
  <2>2. \A a \in Part(S, p, 0) : k[a] = 0
    <3> SUFFICES ASSUME NEW a \in Part(S, p, 0)
                 PROVE  k[a] = 0
      OBVIOUS
    <3>1. k[a] = f[a] /\ f[a] = c[a] * w[a] /\ c[a] = 0 /\ w[a] \in Int
      BY <1>1, <2>1 DEF Restrict, Times1
    <3>2. \A i \in Int : 0 * i = 0
      OBVIOUS
    <3> QED
      BY <3>1, <3>2
  <2>3. k \in [Part(S, p, 0) -> Int] /\ IsFiniteSet(Part(S, p, 0))
    BY <1>3
  <2> HIDE DEF k
  <2>4. SumFunction(k) = 0
    BY <2>2, <2>3, SumOfZeros
  <2> QED
    BY <2>4 DEF k
<1>6. SumFunction(f) = SumFunction(g)
  <2>1. SumsByPart(g, f, S, p, {0, 1})
    BY DEF SumsByPart
  <2> HIDE DEF f, g, p, S
  <2> QED
    BY <1>1, <1>2, <1>4, <2>1, SumPartition
<1>7. SumFunction(g) = g[1]
  <2>1. \A y \in {0, 1} \ {1} : g[y] = 0
    BY <1>5
  <2> HIDE DEF g
  <2> QED
    BY <1>2, <1>4, <2>1, SumSingle
<1>8. [a \in DOMAIN Bag(q, X, c) |-> Bag(q, X, c)[a] * w[a]] = Restrict(f, Part(S, p, 1))
  <2>1. Part(S, p, 1) = T
    BY DEF Part
  <2>2. DOMAIN Bag(q, X, c) = T /\ \A a \in T : Bag(q, X, c)[a] = c[a]
    BY DEF Bag
  <2>3. Restrict(f, T) = [a \in T |-> c[a] * w[a]]
    BY DEF Restrict, Times1
  <2> QED
    BY <2>1, <2>2, <2>3
<1> QED
  BY <1>6, <1>7, <1>8 DEF BagSum, SumOver

(* The weights whose sums a cofactor holds.                                *)
Ones(q, X) == [a \in Tuples(q, X) |-> 1]
Vals(q, vs, X, i) == [a \in Tuples(q, X) |-> ValAt(vs, a, i)]
Prods(q, vs, X, i, j) == [a \in Tuples(q, X) |-> ValAt(vs, a, i) * ValAt(vs, a, j)]

CofactorBy(q, vs, X, c) ==
  [count |-> SumFunction(c),
   sum1 |-> [i \in Over(vs, X) |-> SumOver(q, X, c, Vals(q, vs, X, i))],
   sum2 |-> [i \in Over(vs, X) |-> SumOver(q, X, c, Prods(q, vs, X, i, i))],
   degree2 |-> [p \in C!Pairs(Over(vs, X)) |-> SumOver(q, X, c, Prods(q, vs, X, p[1], p[2]))]]

LEMMA WeightsType ==
  ASSUME NEW q, NEW vs, VarsOK(q, vs), NEW X \in SUBSET Indices(q)
  PROVE  /\ Ones(q, X) \in Counts(q, X)
         /\ \A i \in Over(vs, X) : Vals(q, vs, X, i) \in Counts(q, X)
         /\ \A i, j \in Over(vs, X) : Prods(q, vs, X, i, j) \in Counts(q, X)
<1>1. \A i \in Over(vs, X) : \A a \in Tuples(q, X) : ValAt(vs, a, i) \in Int
  BY ValType
<1>2. \A i, j \in Over(vs, X) : \A a \in Tuples(q, X) : ValAt(vs, a, i) * ValAt(vs, a, j) \in Int
  BY <1>1
<1> QED
  BY <1>1, <1>2 DEF Counts, Ones, Vals, Prods

LEMMA PairsIn ==
  ASSUME NEW V, NEW p \in C!Pairs(V)
  PROVE  p[1] \in V /\ p[2] \in V /\ p[1] < p[2] /\ p = <<p[1], p[2]>>
BY DEF C!Pairs

LEMMA SumOnes ==
  ASSUME NEW q \in Query, NEW X \in SUBSET Indices(q), NEW c \in Counts(q, X)
  PROVE  SumOver(q, X, c, Ones(q, X)) = SumFunction(c)
<1>1. \A a \in Tuples(q, X) : c[a] * 1 = c[a]
  BY DEF Counts
<1>2. Times1(q, X, c, Ones(q, X)) = [a \in Tuples(q, X) |-> c[a]]
  BY <1>1 DEF Times1, Ones
<1>3. c = [a \in Tuples(q, X) |-> c[a]]
  BY DEF Counts
<1> QED
  BY <1>2, <1>3 DEF SumOver

LEMMA SameSum ==
  ASSUME NEW f
  PROVE  C!SumFunction(f) = SumFunction(f)
BY DEF C!SumFunction, C!SumFunctionOnSet, C!FoldFunctionOnSet, C!MapThenFoldSet,
       SumFunction, SumFunctionOnSet, FoldFunctionOnSet, MapThenFoldSet

(* The cofactor of a bag.                                                  *)
LEMMA CofactorOfBag ==
  ASSUME NEW q \in Query, NEW vs, VarsOK(q, vs), NEW X \in SUBSET Indices(q), NEW c \in Counts(q, X),
         NEW p
  PROVE  C!MeansCofactor(vs, p, X, Bag(q, X, c)) <=> p = CofactorBy(q, vs, X, c)
<1> DEFINE m == Bag(q, X, c)
           V == Over(vs, X)
<1>1. DOMAIN m \subseteq Tuples(q, X)
  BY DEF Bag
<1>2. C!Total(m, LAMBDA a : 1) = SumFunction(c)
  <2>1. [a \in DOMAIN m |-> m[a] * 1] = [a \in DOMAIN m |-> m[a] * Ones(q, X)[a]]
    BY <1>1 DEF Ones
  <2>2. C!Total(m, LAMBDA a : 1) = SumFunction([a \in DOMAIN m |-> m[a] * 1])
    BY SameSum DEF C!Total
  <2>3. BagSum(q, X, c, Ones(q, X)) = SumFunction(c)
    BY SupportSum, SumOnes, WeightsType
  <2> QED
    BY <2>1, <2>2, <2>3 DEF BagSum
<1>3. ASSUME NEW i \in V
      PROVE  C!Total(m, LAMBDA a : C!ValueIn(vs, a, i)) = SumOver(q, X, c, Vals(q, vs, X, i))
  <2>1. [a \in DOMAIN m |-> m[a] * ValAt(vs, a, i)] = [a \in DOMAIN m |-> m[a] * Vals(q, vs, X, i)[a]]
    BY <1>1 DEF Vals
  <2>2. C!Total(m, LAMBDA a : C!ValueIn(vs, a, i)) = SumFunction([a \in DOMAIN m |-> m[a] * ValAt(vs, a, i)])
    BY SameSum DEF C!Total, ValAt
  <2>3. BagSum(q, X, c, Vals(q, vs, X, i)) = SumOver(q, X, c, Vals(q, vs, X, i))
    BY SupportSum, WeightsType
  <2> QED
    BY <2>1, <2>2, <2>3 DEF BagSum
<1>4. ASSUME NEW i \in V, NEW j \in V
      PROVE  C!Total(m, LAMBDA a : C!ValueIn(vs, a, i) * C!ValueIn(vs, a, j)) =
               SumOver(q, X, c, Prods(q, vs, X, i, j))
  <2>1. [a \in DOMAIN m |-> m[a] * (ValAt(vs, a, i) * ValAt(vs, a, j))] =
          [a \in DOMAIN m |-> m[a] * Prods(q, vs, X, i, j)[a]]
    BY <1>1 DEF Prods
  <2>2. C!Total(m, LAMBDA a : C!ValueIn(vs, a, i) * C!ValueIn(vs, a, j)) =
          SumFunction([a \in DOMAIN m |-> m[a] * (ValAt(vs, a, i) * ValAt(vs, a, j))])
    BY SameSum DEF C!Total, ValAt
  <2>3. BagSum(q, X, c, Prods(q, vs, X, i, j)) = SumOver(q, X, c, Prods(q, vs, X, i, j))
    BY SupportSum, WeightsType
  <2> QED
    BY <2>1, <2>2, <2>3 DEF BagSum
<1>5. C!Cofactor(V, m, LAMBDA a, i : C!ValueIn(vs, a, i)) =
        [count |-> C!Total(m, LAMBDA a : 1),
         sum1 |-> [i \in V |-> C!Total(m, LAMBDA a : C!ValueIn(vs, a, i))],
         sum2 |-> [i \in V |-> C!Total(m, LAMBDA a : C!ValueIn(vs, a, i) * C!ValueIn(vs, a, i))],
         degree2 |-> [r \in C!Pairs(V) |->
           C!Total(m, LAMBDA a : C!ValueIn(vs, a, r[1]) * C!ValueIn(vs, a, r[2]))]]
  BY DEF C!Cofactor
<1>6. C!MeansCofactor(vs, p, X, m) <=> p = C!Cofactor(V, m, LAMBDA a, i : C!ValueIn(vs, a, i))
  BY DEF C!MeansCofactor, Over
<1> HIDE DEF m, V
<1>7. [i \in V |-> C!Total(m, LAMBDA a : C!ValueIn(vs, a, i))] = [i \in V |-> SumOver(q, X, c, Vals(q, vs, X, i))]
  BY <1>3
<1>8. [i \in V |-> C!Total(m, LAMBDA a : C!ValueIn(vs, a, i) * C!ValueIn(vs, a, i))] =
        [i \in V |-> SumOver(q, X, c, Prods(q, vs, X, i, i))]
  BY <1>4
<1>9. [r \in C!Pairs(V) |-> C!Total(m, LAMBDA a : C!ValueIn(vs, a, r[1]) * C!ValueIn(vs, a, r[2]))] =
        [r \in C!Pairs(V) |-> SumOver(q, X, c, Prods(q, vs, X, r[1], r[2]))]
  <2>1. \A r \in C!Pairs(V) : r[1] \in V /\ r[2] \in V
    BY PairsIn
  <2> QED
    BY <1>4, <2>1
<1> QED
  BY <1>2, <1>5, <1>6, <1>7, <1>8, <1>9 DEF CofactorBy, V, m

(* The sums over pairs of tuples.                                          *)
LEMMA CrossOver ==
  ASSUME NEW q \in Query, NEW X \in SUBSET Indices(q), NEW Y \in SUBSET Indices(q), X \cap Y = {},
         NEW c \in Counts(q, X), NEW d \in Counts(q, Y), NEW w \in Counts(q, X), NEW z \in Counts(q, Y)
  PROVE  SumOver(q, X \cup Y, Cross(q, X, Y, c, d), Cross(q, X, Y, w, z)) =
           SumOver(q, X, c, w) * SumOver(q, Y, d, z)
<1>0. Split(q, X, Y)
  BY TuplesSplit
<1> DEFINE cw == Times1(q, X, c, w)
           dz == Times1(q, Y, d, z)
<1>1. cw \in Counts(q, X) /\ dz \in Counts(q, Y)
  BY SumOverType
<1>2. ASSUME NEW a \in Tuples(q, X \cup Y)
      PROVE  Cross(q, X, Y, c, d)[a] * Cross(q, X, Y, w, z)[a] = cw[On(a, X)] * dz[On(a, Y)]
  <2>1. On(a, X) \in Tuples(q, X) /\ On(a, Y) \in Tuples(q, Y)
    BY <1>0 DEF Split
  <2>2. /\ c[On(a, X)] \in Int /\ d[On(a, Y)] \in Int /\ w[On(a, X)] \in Int /\ z[On(a, Y)] \in Int
    BY <2>1 DEF Counts
  <2>3. cw[On(a, X)] = c[On(a, X)] * w[On(a, X)] /\ dz[On(a, Y)] = d[On(a, Y)] * z[On(a, Y)]
    BY <2>1 DEF Times1
  <2>4. /\ Cross(q, X, Y, c, d)[a] = c[On(a, X)] * d[On(a, Y)]
        /\ Cross(q, X, Y, w, z)[a] = w[On(a, X)] * z[On(a, Y)]
    BY DEF Cross
  <2>5. \A k, l, m, n \in Int : (k * l) * (m * n) = (k * m) * (l * n)
    OBVIOUS
  <2> HIDE DEF cw, dz
  <2> QED
    BY <2>2, <2>3, <2>4, <2>5
<1>3. Times1(q, X \cup Y, Cross(q, X, Y, c, d), Cross(q, X, Y, w, z)) = Cross(q, X, Y, cw, dz)
  <2> HIDE DEF cw, dz
  <2>1. Cross(q, X, Y, cw, dz) = [a \in Tuples(q, X \cup Y) |-> cw[On(a, X)] * dz[On(a, Y)]]
    BY DEF Cross
  <2>2. Times1(q, X \cup Y, Cross(q, X, Y, c, d), Cross(q, X, Y, w, z)) =
          [a \in Tuples(q, X \cup Y) |-> Cross(q, X, Y, c, d)[a] * Cross(q, X, Y, w, z)[a]]
    BY DEF Times1
  <2> QED
    BY <1>2, <2>1, <2>2
<1>4. SumsMultiply(q, X, Y, cw, dz)
  <2> HIDE DEF cw, dz
  <2> QED
    BY <1>1, CrossSum
<1> QED
  BY <1>3, <1>4 DEF SumOver, SumsMultiply

-----------------------------------------------------------------------------
(***************************************************************************)
(* The sums of a cofactor under the operations on bags.                    *)
(***************************************************************************)

LEMMA SumsOfNothing ==
  ASSUME NEW q \in Query, NEW X \in SUBSET Indices(q)
  PROVE  /\ Nothing(q, X) \in Counts(q, X) /\ SumFunction(Nothing(q, X)) = 0
         /\ \A w \in Counts(q, X) : SumOver(q, X, Nothing(q, X), w) = 0
<1>1. Nothing(q, X) \in [Tuples(q, X) -> Int] /\ \A a \in Tuples(q, X) : Nothing(q, X)[a] = 0
  BY DEF Nothing
<1>2. IsFiniteSet(Tuples(q, X))
  BY TuplesFinite
<1>3. SumFunction(Nothing(q, X)) = 0
  BY <1>1, <1>2, SumOfZeros
<1>4. ASSUME NEW w \in Counts(q, X)
      PROVE  SumOver(q, X, Nothing(q, X), w) = 0
  <2> DEFINE f == Times1(q, X, Nothing(q, X), w)
  <2>1. \A a \in Tuples(q, X) : w[a] \in Int
    BY DEF Counts
  <2>2. \A k \in Int : 0 * k = 0
    OBVIOUS
  <2>3. \A a \in Tuples(q, X) : f[a] = 0
    BY <1>1, <2>1, <2>2 DEF Times1
  <2>4. f \in [Tuples(q, X) -> Int]
    BY <1>1, SumOverType DEF Counts
  <2> HIDE DEF f
  <2>5. SumFunction(f) = 0
    BY <1>2, <2>3, <2>4, SumOfZeros
  <2> QED
    BY <2>5 DEF f, SumOver
<1> QED
  BY <1>1, <1>3, <1>4 DEF Counts

LEMMA SumsOfOnly ==
  ASSUME NEW q \in Query, NEW i \in Indices(q), NEW v \in ValuesAt(q, i)
  PROVE  /\ [j \in {i} |-> v] \in Tuples(q, {i})
         /\ Only(q, i, v) \in Counts(q, {i}) /\ SumFunction(Only(q, i, v)) = 1
         /\ \A w \in Counts(q, {i}) : SumOver(q, {i}, Only(q, i, v), w) = w[[j \in {i} |-> v]]
<1> DEFINE S == Tuples(q, {i})
           t == [j \in {i} |-> v]
           O == Only(q, i, v)
<1>1. t \in S
  <2>1. t = [j \in {i} |-> t[j]] /\ \A j \in {i} : t[j] \in ValuesAt(q, j)
    OBVIOUS
  <2> HIDE DEF t
  <2> QED
    BY <2>1, TuplesAre
<1>2. O \in [S -> Int] /\ O[t] = 1
  BY <1>1 DEF Only
<1>3. \A a \in S \ {t} : O[a] = 0
  <2> SUFFICES ASSUME NEW a \in S, a[i] = v
               PROVE  a = t
    BY DEF Only
  <2>1. a = [j \in {i} |-> a[j]]
    BY TuplesAre
  <2> QED
    BY <2>1
<1>4. IsFiniteSet(S)
  BY TuplesFinite
<1>5. SumFunction(O) = 1
  <2> HIDE DEF O, t, S
  <2> QED
    BY <1>1, <1>2, <1>3, <1>4, SumSingle
<1>6. ASSUME NEW w \in Counts(q, {i})
      PROVE  SumOver(q, {i}, O, w) = w[t]
  <2> DEFINE f == Times1(q, {i}, O, w)
  <2>1. \A a \in S : w[a] \in Int /\ f[a] = O[a] * w[a]
    BY DEF Counts, Times1
  <2>2. f \in [S -> Int]
    BY <1>2, SumOverType DEF Counts
  <2> HIDE DEF f, O, t, S
  <2>3. \A k \in Int : 0 * k = 0 /\ 1 * k = k
    OBVIOUS
  <2>4. \A a \in S \ {t} : f[a] = 0
    BY <1>3, <2>1, <2>3
  <2>5. SumFunction(f) = f[t]
    BY <1>1, <1>4, <2>2, <2>4, SumSingle
  <2>6. f[t] = w[t]
    BY <1>1, <1>2, <2>1, <2>3
  <2> QED
    BY <2>5, <2>6 DEF f, SumOver, S
<1> QED
  BY <1>1, <1>2, <1>5, <1>6 DEF Counts

LEMMA SumsOfAdded ==
  ASSUME NEW q \in Query, NEW X \in SUBSET Indices(q), NEW c \in Counts(q, X), NEW d \in Counts(q, X),
         NEW w \in Counts(q, X)
  PROVE  SumOver(q, X, Added(q, X, c, d), w) = SumOver(q, X, c, w) + SumOver(q, X, d, w)
<1> DEFINE f == Times1(q, X, c, w)
           g == Times1(q, X, d, w)
           k == Times1(q, X, Added(q, X, c, d), w)
<1>1. f \in Counts(q, X) /\ g \in Counts(q, X) /\ k \in Counts(q, X)
  BY AddedType, SumOverType
<1>2. ASSUME NEW a \in Tuples(q, X)
      PROVE  k[a] = f[a] + g[a]
  <2>1. c[a] \in Int /\ d[a] \in Int /\ w[a] \in Int
    BY DEF Counts
  <2>2. k[a] = (c[a] + d[a]) * w[a] /\ f[a] = c[a] * w[a] /\ g[a] = d[a] * w[a]
    BY DEF Times1, Added
  <2>3. \A x, y, z \in Int : (x + y) * z = x * z + y * z
    OBVIOUS
  <2> HIDE DEF f, g, k
  <2> QED
    BY <2>1, <2>2, <2>3
<1>3. k = Added(q, X, f, g)
  <2>1. k = [a \in Tuples(q, X) |-> k[a]]
    BY <1>1 DEF Counts
  <2> HIDE DEF f, g, k
  <2> QED
    BY <1>2, <2>1 DEF Added
<1>4. SumFunction(k) = SumFunction(f) + SumFunction(g)
  <2> HIDE DEF f, g, k
  <2> QED
    BY <1>1, <1>3, AddedType
<1> QED
  BY <1>4 DEF SumOver

(* The values of a joined tuple are those of its parts.                    *)
LEMMA LeftVals ==
  ASSUME NEW q \in Query, NEW vs, VarsOK(q, vs), NEW X \in SUBSET Indices(q), NEW Y \in SUBSET Indices(q),
         X \cap Y = {}, NEW i \in Over(vs, X), NEW j \in Over(vs, X)
  PROVE  /\ Vals(q, vs, X \cup Y, i) = Cross(q, X, Y, Vals(q, vs, X, i), Ones(q, Y))
         /\ Prods(q, vs, X \cup Y, i, j) = Cross(q, X, Y, Prods(q, vs, X, i, j), Ones(q, Y))
<1> DEFINE Z == X \cup Y
<1>1. Z \in SUBSET Indices(q) /\ X \in SUBSET Z
  OBVIOUS
<1>2. ASSUME NEW a \in Tuples(q, Z)
      PROVE  /\ On(a, X) \in Tuples(q, X) /\ On(a, Y) \in Tuples(q, Y)
             /\ ValAt(vs, On(a, X), i) = ValAt(vs, a, i) /\ ValAt(vs, On(a, X), j) = ValAt(vs, a, j)
             /\ ValAt(vs, On(a, X), i) \in Int /\ ValAt(vs, On(a, X), j) \in Int
  <2>1. On(a, X) \in Tuples(q, X) /\ On(a, Y) \in Tuples(q, Y)
    BY TuplesSplit DEF Split
  <2> HIDE DEF Z
  <2>2. ValAt(vs, On(a, X), i) = ValAt(vs, a, i) /\ ValAt(vs, On(a, X), j) = ValAt(vs, a, j)
    BY <1>1, ValOn
  <2>3. ValAt(vs, On(a, X), i) \in Int /\ ValAt(vs, On(a, X), j) \in Int
    BY <2>1, ValType
  <2> QED
    BY <2>1, <2>2, <2>3
<1>3. \A k \in Int : k * 1 = k
  OBVIOUS
<1>4. Vals(q, vs, Z, i) = Cross(q, X, Y, Vals(q, vs, X, i), Ones(q, Y))
  BY <1>2, <1>3 DEF Vals, Cross, Ones
<1>5. Prods(q, vs, Z, i, j) = Cross(q, X, Y, Prods(q, vs, X, i, j), Ones(q, Y))
  <2>1. \A a \in Tuples(q, Z) :
          (ValAt(vs, On(a, X), i) * ValAt(vs, On(a, X), j)) * 1 = ValAt(vs, a, i) * ValAt(vs, a, j)
    BY <1>2, <1>3
  <2> QED
    BY <1>2, <2>1 DEF Prods, Cross, Ones
<1> QED
  BY <1>4, <1>5

LEMMA MixedVals ==
  ASSUME NEW q \in Query, NEW vs, VarsOK(q, vs), NEW X \in SUBSET Indices(q), NEW Y \in SUBSET Indices(q),
         X \cap Y = {}, NEW i \in Over(vs, X), NEW j \in Over(vs, Y)
  PROVE  Prods(q, vs, X \cup Y, i, j) = Cross(q, X, Y, Vals(q, vs, X, i), Vals(q, vs, Y, j))
<1> DEFINE Z == X \cup Y
<1>1. Z \in SUBSET Indices(q) /\ X \in SUBSET Z /\ Y \in SUBSET Z
  OBVIOUS
<1>2. ASSUME NEW a \in Tuples(q, Z)
      PROVE  /\ On(a, X) \in Tuples(q, X) /\ On(a, Y) \in Tuples(q, Y)
             /\ ValAt(vs, On(a, X), i) = ValAt(vs, a, i) /\ ValAt(vs, On(a, Y), j) = ValAt(vs, a, j)
  <2>1. On(a, X) \in Tuples(q, X) /\ On(a, Y) \in Tuples(q, Y)
    BY TuplesSplit DEF Split
  <2> HIDE DEF Z
  <2>2. ValAt(vs, On(a, X), i) = ValAt(vs, a, i)
    BY <1>1, ValOn
  <2>3. ValAt(vs, On(a, Y), j) = ValAt(vs, a, j)
    BY <1>1, ValOn
  <2> QED
    BY <2>1, <2>2, <2>3
<1> QED
  BY <1>2 DEF Vals, Prods, Cross

(* The sums over the tuples of a join.                                     *)
LeftSums(q, vs, X, Y, c, d) ==
  /\ \A i \in Over(vs, X) :
       SumOver(q, X \cup Y, Cross(q, X, Y, c, d), Vals(q, vs, X \cup Y, i)) =
         SumFunction(d) * SumOver(q, X, c, Vals(q, vs, X, i))
  /\ \A i, j \in Over(vs, X) :
       SumOver(q, X \cup Y, Cross(q, X, Y, c, d), Prods(q, vs, X \cup Y, i, j)) =
         SumFunction(d) * SumOver(q, X, c, Prods(q, vs, X, i, j))

LEMMA SumsOfLeft ==
  ASSUME NEW q \in Query, NEW vs, VarsOK(q, vs), NEW X \in SUBSET Indices(q), NEW Y \in SUBSET Indices(q),
         X \cap Y = {}, NEW c \in Counts(q, X), NEW d \in Counts(q, Y)
  PROVE  LeftSums(q, vs, X, Y, c, d)
<1> DEFINE n == SumFunction(d)
           m == Cross(q, X, Y, c, d)
<1>1. n \in Int /\ SumOver(q, Y, d, Ones(q, Y)) = n /\ Ones(q, Y) \in Counts(q, Y)
  BY SumOnes, SumOverType, WeightsType
<1>2. \A k \in Int : k * n = n * k
  BY <1>1
<1> HIDE DEF n
<1>3. ASSUME NEW w \in Counts(q, X)
      PROVE  SumOver(q, X \cup Y, m, Cross(q, X, Y, w, Ones(q, Y))) = n * SumOver(q, X, c, w)
  <2>1. SumOver(q, X \cup Y, m, Cross(q, X, Y, w, Ones(q, Y))) =
          SumOver(q, X, c, w) * SumOver(q, Y, d, Ones(q, Y))
    BY <1>1, CrossOver
  <2>2. SumOver(q, X, c, w) \in Int
    BY SumOverType
  <2> QED
    BY <1>1, <1>2, <2>1, <2>2
<1>4. ASSUME NEW i \in Over(vs, X)
      PROVE  SumOver(q, X \cup Y, m, Vals(q, vs, X \cup Y, i)) = n * SumOver(q, X, c, Vals(q, vs, X, i))
  <2>1. Vals(q, vs, X, i) \in Counts(q, X)
    BY WeightsType
  <2>2. Vals(q, vs, X \cup Y, i) = Cross(q, X, Y, Vals(q, vs, X, i), Ones(q, Y))
    BY LeftVals
  <2> HIDE DEF m
  <2> QED
    BY <1>3, <2>1, <2>2
<1>5. ASSUME NEW i \in Over(vs, X), NEW j \in Over(vs, X)
      PROVE  SumOver(q, X \cup Y, m, Prods(q, vs, X \cup Y, i, j)) = n * SumOver(q, X, c, Prods(q, vs, X, i, j))
  <2>1. Prods(q, vs, X, i, j) \in Counts(q, X)
    BY WeightsType
  <2>2. Prods(q, vs, X \cup Y, i, j) = Cross(q, X, Y, Prods(q, vs, X, i, j), Ones(q, Y))
    BY LeftVals
  <2> HIDE DEF m
  <2> QED
    BY <1>3, <2>1, <2>2
<1> QED
  BY <1>4, <1>5 DEF LeftSums, n, m

MixedSums(q, vs, X, Y, c, d) ==
  \A i \in Over(vs, X), j \in Over(vs, Y) :
    SumOver(q, X \cup Y, Cross(q, X, Y, c, d), Prods(q, vs, X \cup Y, i, j)) =
      SumOver(q, X, c, Vals(q, vs, X, i)) * SumOver(q, Y, d, Vals(q, vs, Y, j))

LEMMA SumsOfMixed ==
  ASSUME NEW q \in Query, NEW vs, VarsOK(q, vs), NEW X \in SUBSET Indices(q), NEW Y \in SUBSET Indices(q),
         X \cap Y = {}, NEW c \in Counts(q, X), NEW d \in Counts(q, Y)
  PROVE  MixedSums(q, vs, X, Y, c, d)
<1> SUFFICES ASSUME NEW i \in Over(vs, X), NEW j \in Over(vs, Y)
             PROVE  SumOver(q, X \cup Y, Cross(q, X, Y, c, d), Prods(q, vs, X \cup Y, i, j)) =
                      SumOver(q, X, c, Vals(q, vs, X, i)) * SumOver(q, Y, d, Vals(q, vs, Y, j))
  BY DEF MixedSums
<1>1. Vals(q, vs, X, i) \in Counts(q, X) /\ Vals(q, vs, Y, j) \in Counts(q, Y)
  BY WeightsType
<1>2. Prods(q, vs, X \cup Y, i, j) = Cross(q, X, Y, Vals(q, vs, X, i), Vals(q, vs, Y, j))
  BY MixedVals
<1> QED
  BY <1>1, <1>2, CrossOver
-----------------------------------------------------------------------------
(***************************************************************************)
(* The operators of a cofactor.                                            *)
(***************************************************************************)

LEMMA Fields ==
  ASSUME NEW q, NEW vs, NEW X, NEW c
  PROVE  LET p == CofactorBy(q, vs, X, c)
         IN  /\ C!VarsOf(p) = Over(vs, X) /\ DOMAIN p.degree2 = C!Pairs(Over(vs, X))
             /\ p.count = SumFunction(c) /\ (C!IsZero(p) <=> SumFunction(c) = 0)
             /\ \A i \in Over(vs, X) : /\ p.sum1[i] = SumOver(q, X, c, Vals(q, vs, X, i))
                                       /\ p.sum2[i] = SumOver(q, X, c, Prods(q, vs, X, i, i))
             /\ \A k \in C!Pairs(Over(vs, X)) :
                  p.degree2[k] = SumOver(q, X, c, Prods(q, vs, X, k[1], k[2]))
BY DEF CofactorBy, C!VarsOf, C!IsZero

LEMMA AllZero ==
  ASSUME NEW q \in Query, NEW X \in SUBSET Indices(q), NEW d \in Counts(q, X), OneSign(q, X, d),
         SumFunction(d) = 0
  PROVE  \A a \in Tuples(q, X) : d[a] = 0
<1>1. d \in [Tuples(q, X) -> Int] /\ IsFiniteSet(Tuples(q, X))
  BY TuplesFinite DEF Counts
<1>2. (\A a \in Tuples(q, X) : d[a] >= 0) \/ (\A a \in Tuples(q, X) : d[a] <= 0)
  BY DEF OneSign, Positive, Negative
<1> QED
  BY <1>1, <1>2, NothingToCancel

(* Operands without rows.                                                  *)
LEMMA AddedNone ==
  ASSUME NEW q \in Query, NEW X \in SUBSET Indices(q), NEW c \in Counts(q, X), NEW d \in Counts(q, X),
         OneSign(q, X, d), SumFunction(d) = 0
  PROVE  Added(q, X, c, d) = c
<1>1. \A a \in Tuples(q, X) : c[a] + d[a] = c[a]
  BY AllZero DEF Counts
<1>2. c = [a \in Tuples(q, X) |-> c[a]]
  BY DEF Counts
<1> QED
  BY <1>1, <1>2 DEF Added

LEMMA CrossNone ==
  ASSUME NEW q \in Query, NEW X \in SUBSET Indices(q), NEW Y \in SUBSET Indices(q), X \cap Y = {},
         NEW c \in Counts(q, X), NEW d \in Counts(q, Y), OneSign(q, X, c), OneSign(q, Y, d),
         SumFunction(c) = 0 \/ SumFunction(d) = 0
  PROVE  Cross(q, X, Y, c, d) = Nothing(q, X \cup Y)
<1>1. \A a \in Tuples(q, X \cup Y) : /\ On(a, X) \in Tuples(q, X) /\ On(a, Y) \in Tuples(q, Y)
                                     /\ c[On(a, X)] \in Int /\ d[On(a, Y)] \in Int
  BY TuplesSplit DEF Split, Counts
<1>2. (\A a \in Tuples(q, X) : c[a] = 0) \/ (\A a \in Tuples(q, Y) : d[a] = 0)
  BY AllZero
<1>3. \A k \in Int : 0 * k = 0 /\ k * 0 = 0
  OBVIOUS
<1>4. \A a \in Tuples(q, X \cup Y) : c[On(a, X)] * d[On(a, Y)] = 0
  BY <1>1, <1>2, <1>3
<1> QED
  BY <1>4 DEF Cross, Nothing

(* A payload that is zero when the number of its rows is 0.                *)
ZeroByCount(q) ==
  /\ \A r \in LiftedIn(q) \ {0} : \A c \in Counts(q, {r}) : \A p :
       Means(q, p, {r}, c) => (RIsZero(q, p) <=> SumFunction(c) = 0)
  /\ \A r \in LiftedIn(q) \ {0} : \A v \in ValuesAt(q, r) : ~RIsZero(q, RLift(q, r, v))

LEMMA CountIsZeroLaw ==
  ASSUME NEW q \in Query, ZeroLaw(q), ZeroByCount(q)
  PROVE  IsZeroLaw(q)
<1> SUFFICES ASSUME NEW r \in LiftedIn(q) \ {0}, NEW c \in Counts(q, {r}), NEW p,
                    OneSign(q, {r}, c), Means(q, p, {r}, c)
             PROVE  /\ RIsZero(q, p) <=> \A a \in Tuples(q, {r}) : c[a] # 0 => RIsZero(q, RLift(q, r, a[r]))
                    /\ RIsZero(q, p) =>
                         /\ Positive(q, {r}, c) => Means(q, RZero(q, r), {r}, c)
                         /\ \A d \in Counts(q, {r}) : \A s :
                              /\ Positive(q, {r}, d) /\ Positive(q, {r}, Added(q, {r}, d, c))
                              /\ Means(q, s, {r}, d)
                              => Means(q, s, {r}, Added(q, {r}, d, c))
  BY DEF IsZeroLaw
<1>1. {r} \in SUBSET Indices(q)
  BY SizeType
<1>2. RIsZero(q, p) <=> SumFunction(c) = 0
  BY DEF ZeroByCount
<1>3. \A a \in Tuples(q, {r}) : ~RIsZero(q, RLift(q, r, a[r]))
  <2>1. \A a \in Tuples(q, {r}) : a[r] \in ValuesAt(q, r)
    BY <1>1, TuplesAre
  <2> QED
    BY <2>1 DEF ZeroByCount
<1>4. SumFunction(c) = 0 <=> \A a \in Tuples(q, {r}) : c[a] = 0
  <2>1. SumFunction(c) = 0 => \A a \in Tuples(q, {r}) : c[a] = 0
    BY <1>1, AllZero
  <2>2. (\A a \in Tuples(q, {r}) : c[a] = 0) => SumFunction(c) = 0
    BY <1>1, TuplesFinite, SumOfZeros DEF Counts
  <2> QED
    BY <2>1, <2>2
<1>5. ASSUME SumFunction(c) = 0
      PROVE  c = Nothing(q, {r}) /\ \A d \in Counts(q, {r}) : Added(q, {r}, d, c) = d
  <2>1. c = [a \in Tuples(q, {r}) |-> c[a]]
    BY DEF Counts
  <2>2. c = Nothing(q, {r})
    BY <1>4, <1>5, <2>1 DEF Nothing
  <2>3. \A d \in Counts(q, {r}) : Added(q, {r}, d, c) = d
    BY <1>1, <1>5, AddedNone
  <2> QED
    BY <2>2, <2>3
<1>6. Means(q, RZero(q, r), {r}, Nothing(q, {r}))
  BY DEF ZeroLaw
<1> QED
  BY <1>2, <1>3, <1>4, <1>5, <1>6

LEMMA ZeroIs ==
  ASSUME NEW q \in Query, NEW vs, VarsOK(q, vs), NEW X \in SUBSET Indices(q)
  PROVE  CofactorBy(q, vs, X, Nothing(q, X)) = C!ZeroOf(Over(vs, X))
<1> DEFINE N == Nothing(q, X)
           V == Over(vs, X)
<1>1. SumFunction(N) = 0 /\ \A w \in Counts(q, X) : SumOver(q, X, N, w) = 0
  BY SumsOfNothing
<1> HIDE DEF N, V
<1>2. \A i \in V : SumOver(q, X, N, Vals(q, vs, X, i)) = 0
  BY <1>1, WeightsType DEF V
<1>3. \A i, j \in V : SumOver(q, X, N, Prods(q, vs, X, i, j)) = 0
  BY <1>1, WeightsType DEF V
<1>4. [i \in V |-> SumOver(q, X, N, Vals(q, vs, X, i))] = [i \in V |-> 0]
  BY <1>2
<1>5. [i \in V |-> SumOver(q, X, N, Prods(q, vs, X, i, i))] = [i \in V |-> 0]
  BY <1>3
<1>6. [k \in C!Pairs(V) |-> SumOver(q, X, N, Prods(q, vs, X, k[1], k[2]))] = [k \in C!Pairs(V) |-> 0]
  BY <1>3, PairsIn
<1> QED
  BY <1>1, <1>4, <1>5, <1>6 DEF CofactorBy, C!ZeroOf, V, N

LEMMA LiftIs ==
  ASSUME NEW q \in Query, NEW vs, VarsOK(q, vs), NEW r \in Indices(q), NEW v \in ValuesAt(q, r)
  PROVE  CofactorBy(q, vs, {r}, Only(q, r, v)) = C!LiftAt(r, v)
<1> DEFINE O == Only(q, r, v)
           t == [j \in {r} |-> v]
           a == IF r = 0 THEN [i \in {0} |-> v] ELSE v
           V == vs[r]
           X == {r}
<1>1. t \in Tuples(q, X) /\ SumFunction(O) = 1 /\ \A w \in Counts(q, X) : SumOver(q, X, O, w) = w[t]
  BY SumsOfOnly
<1>2. X \in SUBSET Indices(q) /\ Over(vs, X) = V /\ r \in X
  BY DEF Over, C!VarsOver
<1>3. DOMAIN a = V
  <2>1. CASE r = 0
    BY <2>1 DEF VarsOK
  <2>2. CASE r # 0
    <3>1. r \in 1..Size(q)
      BY <2>2 DEF Indices
    <3>2. v \in [V -> Int]
      BY <3>1 DEF VarsOK
    <3> QED
      BY <2>2, <3>2
  <2> QED
    BY <2>1, <2>2
<1>4. ASSUME NEW i \in V
      PROVE  ValAt(vs, t, i) = a[i]
  <2>1. ValAt(vs, t, i) = PartAt(t, r, i)
    <3> HIDE DEF t, X
    <3> QED
      BY <1>1, <1>2, ValIs
  <2>2. PartAt(t, r, i) = a[i]
    BY DEF PartAt, VarsOK
  <2> QED
    BY <2>1, <2>2
<1> HIDE DEF O, t, X, a, V
<1>5. \A i \in V : SumOver(q, X, O, Vals(q, vs, X, i)) = a[i]
  <2> SUFFICES ASSUME NEW i \in V PROVE SumOver(q, X, O, Vals(q, vs, X, i)) = a[i]
    OBVIOUS
  <2>1. Vals(q, vs, X, i) \in Counts(q, X)
    BY <1>2, WeightsType
  <2>2. Vals(q, vs, X, i)[t] = a[i]
    BY <1>1, <1>4 DEF Vals
  <2> QED
    BY <1>1, <2>1, <2>2
<1>6. \A i, j \in V : SumOver(q, X, O, Prods(q, vs, X, i, j)) = a[i] * a[j]
  <2> SUFFICES ASSUME NEW i \in V, NEW j \in V PROVE SumOver(q, X, O, Prods(q, vs, X, i, j)) = a[i] * a[j]
    OBVIOUS
  <2>1. Prods(q, vs, X, i, j) \in Counts(q, X)
    BY <1>2, WeightsType
  <2>2. Prods(q, vs, X, i, j)[t] = a[i] * a[j]
    BY <1>1, <1>4 DEF Prods
  <2> QED
    BY <1>1, <2>1, <2>2
<1>7. [i \in V |-> SumOver(q, X, O, Vals(q, vs, X, i))] = a
  <2>1. a = [i \in V |-> a[i]]
    <3>1. CASE r = 0
      BY <1>3, <3>1 DEF a
    <3>2. CASE r # 0
      <4>1. r \in 1..Size(q)
        BY <3>2 DEF Indices
      <4>2. v \in [V -> Int]
        BY <4>1 DEF VarsOK, V
      <4> QED
        BY <3>2, <4>2 DEF a
    <3> QED
      BY <3>1, <3>2
  <2> QED
    BY <1>5, <2>1
<1>8. [i \in V |-> SumOver(q, X, O, Prods(q, vs, X, i, i))] = [i \in V |-> a[i] * a[i]]
  BY <1>6
<1>9. [k \in C!Pairs(V) |-> SumOver(q, X, O, Prods(q, vs, X, k[1], k[2]))] =
        [k \in C!Pairs(V) |-> a[k[1]] * a[k[2]]]
  BY <1>6, PairsIn
<1>10. C!LiftAt(r, v) = C!Lift(a)
  BY DEF C!LiftAt, a
<1>11. CofactorBy(q, vs, X, O) = C!Lift(a)
  BY <1>1, <1>2, <1>3, <1>7, <1>8, <1>9 DEF CofactorBy, C!Lift
<1> QED
  BY <1>10, <1>11 DEF O, X

LEMMA ScaleIs ==
  ASSUME NEW q \in Query, NEW vs, VarsOK(q, vs), NEW X \in SUBSET Indices(q), NEW Y, Y = {},
         NEW c \in Counts(q, X), NEW d \in Counts(q, Y)
  PROVE  CofactorBy(q, vs, X \cup Y, Cross(q, X, Y, c, d)) =
           C!Scale(SumFunction(d), CofactorBy(q, vs, X, c))
<1> DEFINE m == Cross(q, X, Y, c, d)
           n == SumFunction(d)
           V == Over(vs, X)
           Z == X \cup Y
           p == CofactorBy(q, vs, X, c)
<1>1. Y \in SUBSET Indices(q) /\ X \cap Y = {} /\ Over(vs, Z) = V
  BY DEF Over, C!VarsOver
<1>2. SumFunction(m) = n * SumFunction(c)
  <2>1. SumFunction(m) = SumFunction(c) * n
    <3>1. SumsMultiply(q, X, Y, c, d)
      BY <1>1, CrossSum
    <3> QED
      BY <3>1 DEF SumsMultiply
  <2>2. n \in Int /\ SumFunction(c) \in Int
    BY <1>1, TuplesFinite, SumType DEF Counts
  <2> HIDE DEF m, n
  <2> QED
    BY <2>1, <2>2
<1>3. LeftSums(q, vs, X, Y, c, d)
  BY <1>1, SumsOfLeft
<1>4. /\ C!VarsOf(p) = V /\ p.count = SumFunction(c)
      /\ \A i \in V : /\ p.sum1[i] = SumOver(q, X, c, Vals(q, vs, X, i))
                      /\ p.sum2[i] = SumOver(q, X, c, Prods(q, vs, X, i, i))
      /\ \A k \in C!Pairs(V) : p.degree2[k] = SumOver(q, X, c, Prods(q, vs, X, k[1], k[2]))
  BY Fields
<1> HIDE DEF m, n, V, p, Z
<1>5. /\ \A i \in V : SumOver(q, Z, m, Vals(q, vs, Z, i)) = n * SumOver(q, X, c, Vals(q, vs, X, i))
      /\ \A i, j \in V : SumOver(q, Z, m, Prods(q, vs, Z, i, j)) = n * SumOver(q, X, c, Prods(q, vs, X, i, j))
  BY <1>3 DEF LeftSums, m, n, V, Z
<1>6. [i \in V |-> SumOver(q, Z, m, Vals(q, vs, Z, i))] = [i \in V |-> n * p.sum1[i]]
  BY <1>4, <1>5
<1>7. [i \in V |-> SumOver(q, Z, m, Prods(q, vs, Z, i, i))] = [i \in V |-> n * p.sum2[i]]
  BY <1>4, <1>5
<1>8. [k \in C!Pairs(V) |-> SumOver(q, Z, m, Prods(q, vs, Z, k[1], k[2]))] =
        [k \in C!Pairs(V) |-> n * p.degree2[k]]
  BY <1>4, <1>5, PairsIn
<1>9. CofactorBy(q, vs, Z, m) = C!Scale(n, p)
  BY <1>1, <1>2, <1>4, <1>6, <1>7, <1>8 DEF CofactorBy, C!Scale
<1> QED
  BY <1>9 DEF Z, m, n, p

LEMMA PlusIs ==
  ASSUME NEW q \in Query, NEW vs, VarsOK(q, vs), NEW X \in SUBSET Indices(q),
         NEW c \in Counts(q, X), NEW d \in Counts(q, X), OneSign(q, X, d)
  PROVE  CofactorBy(q, vs, X, Added(q, X, c, d)) =
           C!Plus(CofactorBy(q, vs, X, c), CofactorBy(q, vs, X, d))
<1> DEFINE s == Added(q, X, c, d)
           V == Over(vs, X)
           p == CofactorBy(q, vs, X, c)
           r == CofactorBy(q, vs, X, d)
<1>1. SumFunction(s) = SumFunction(c) + SumFunction(d)
  BY AddedType
<1>2. CASE SumFunction(d) = 0
  <2>1. C!Plus(p, r) = p
    BY <1>2, Fields DEF C!Plus
  <2>3. s = c
    BY <1>2, AddedNone
  <2> QED
    BY <2>1, <2>3
<1>3. CASE SumFunction(d) # 0
  <2>1. /\ C!VarsOf(p) = V /\ p.count = SumFunction(c)
        /\ \A i \in V : /\ p.sum1[i] = SumOver(q, X, c, Vals(q, vs, X, i))
                        /\ p.sum2[i] = SumOver(q, X, c, Prods(q, vs, X, i, i))
        /\ \A k \in C!Pairs(V) : p.degree2[k] = SumOver(q, X, c, Prods(q, vs, X, k[1], k[2]))
    BY Fields
  <2>2. /\ ~C!IsZero(r) /\ r.count = SumFunction(d)
        /\ \A i \in V : /\ r.sum1[i] = SumOver(q, X, d, Vals(q, vs, X, i))
                        /\ r.sum2[i] = SumOver(q, X, d, Prods(q, vs, X, i, i))
        /\ \A k \in C!Pairs(V) : r.degree2[k] = SumOver(q, X, d, Prods(q, vs, X, k[1], k[2]))
    BY <1>3, Fields
  <2>3. \A i \in V : SumOver(q, X, s, Vals(q, vs, X, i)) =
                       SumOver(q, X, c, Vals(q, vs, X, i)) + SumOver(q, X, d, Vals(q, vs, X, i))
    BY SumsOfAdded, WeightsType
  <2>4. \A i, j \in V : SumOver(q, X, s, Prods(q, vs, X, i, j)) =
                          SumOver(q, X, c, Prods(q, vs, X, i, j)) + SumOver(q, X, d, Prods(q, vs, X, i, j))
    BY SumsOfAdded, WeightsType
  <2> HIDE DEF s, V, p, r
  <2>5. [i \in V |-> SumOver(q, X, s, Vals(q, vs, X, i))] = [i \in V |-> p.sum1[i] + r.sum1[i]]
    BY <2>1, <2>2, <2>3
  <2>6. [i \in V |-> SumOver(q, X, s, Prods(q, vs, X, i, i))] = [i \in V |-> p.sum2[i] + r.sum2[i]]
    BY <2>1, <2>2, <2>4
  <2>7. [k \in C!Pairs(V) |-> SumOver(q, X, s, Prods(q, vs, X, k[1], k[2]))] =
          [k \in C!Pairs(V) |-> p.degree2[k] + r.degree2[k]]
    BY <2>1, <2>2, <2>4, PairsIn
  <2>8. C!Plus(p, r) = C!Added(p, r)
    BY <2>2 DEF C!Plus
  <2>9. CofactorBy(q, vs, X, s) = C!Added(p, r)
    BY <1>1, <2>1, <2>2, <2>5, <2>6, <2>7 DEF CofactorBy, C!Added, V
  <2> QED
    BY <2>8, <2>9 DEF s, p, r
<1> QED
  BY <1>2, <1>3

(* The payload of lower indices comes first.                               *)
Before(X, Y) == \A x \in X, y \in Y : x < y

LEMMA VarsBefore ==
  ASSUME NEW q \in Query, NEW vs, VarsOK(q, vs), NEW X \in SUBSET Indices(q), NEW Y \in SUBSET Indices(q),
         Before(X, Y)
  PROVE  /\ X \cap Y = {} /\ Over(vs, X) \in SUBSET Nat /\ Over(vs, Y) \in SUBSET Nat
         /\ Over(vs, X \cup Y) = Over(vs, X) \cup Over(vs, Y)
         /\ \A x \in Over(vs, X), y \in Over(vs, Y) : x < y
<1>1. X \cap Y = {}
  <2> SUFFICES ASSUME NEW x \in X, x \in Y PROVE FALSE
    OBVIOUS
  <2>1. x < x /\ x \in Int
    BY DEF Before, Indices
  <2> QED
    BY <2>1
<1>2. Over(vs, X) \in SUBSET Nat /\ Over(vs, Y) \in SUBSET Nat
  BY DEF Over, C!VarsOver, VarsOK
<1>3. Over(vs, X \cup Y) = Over(vs, X) \cup Over(vs, Y)
  BY DEF Over, C!VarsOver
<1>4. \A x \in Over(vs, X), y \in Over(vs, Y) : x < y
  <2> SUFFICES ASSUME NEW x \in Over(vs, X), NEW y \in Over(vs, Y) PROVE x < y
    OBVIOUS
  <2>1. PICK r \in X : x \in vs[r]
    BY DEF Over, C!VarsOver
  <2>2. PICK s \in Y : y \in vs[s]
    BY DEF Over, C!VarsOver
  <2>3. r \in Indices(q) /\ s \in Indices(q) /\ r < s
    BY DEF Before
  <2> QED
    BY <2>1, <2>2, <2>3 DEF VarsOK
<1> QED
  BY <1>1, <1>2, <1>3, <1>4

LEMMA MinIs ==
  ASSUME NEW T \in SUBSET Nat, T # {}
  PROVE  C!Min(T) \in T
<1>1. \E x \in T : \A y \in T : x <= y
  BY LeastNumber
<1> QED
  BY <1>1 DEF C!Min

LEMMA MultiplyIs ==
  ASSUME NEW q \in Query, NEW vs, VarsOK(q, vs), NEW X \in SUBSET Indices(q), NEW Y \in SUBSET Indices(q),
         Before(X, Y), NEW c \in Counts(q, X), NEW d \in Counts(q, Y)
  PROVE  CofactorBy(q, vs, X \cup Y, Cross(q, X, Y, c, d)) =
           C!Multiply(CofactorBy(q, vs, X, c), CofactorBy(q, vs, Y, d))
<1> DEFINE Z == X \cup Y
           m == Cross(q, X, Y, c, d)
           n == SumFunction(c)
           l == SumFunction(d)
           V == Over(vs, X)
           W == Over(vs, Y)
           p == CofactorBy(q, vs, X, c)
           r == CofactorBy(q, vs, Y, d)
<1>1. /\ X \cap Y = {} /\ V \in SUBSET Nat /\ W \in SUBSET Nat /\ Over(vs, Z) = V \cup W
      /\ \A x \in V, y \in W : x < y
  BY VarsBefore
<1>2. SumFunction(m) = n * l
  <2>1. SumsMultiply(q, X, Y, c, d)
    BY <1>1, CrossSum
  <2> QED
    BY <2>1 DEF SumsMultiply
<1>3. /\ C!VarsOf(p) = V /\ DOMAIN p.degree2 = C!Pairs(V) /\ p.count = n
      /\ \A i \in V : /\ p.sum1[i] = SumOver(q, X, c, Vals(q, vs, X, i))
                      /\ p.sum2[i] = SumOver(q, X, c, Prods(q, vs, X, i, i))
      /\ \A k \in C!Pairs(V) : p.degree2[k] = SumOver(q, X, c, Prods(q, vs, X, k[1], k[2]))
  BY Fields
<1>4. /\ C!VarsOf(r) = W /\ DOMAIN r.degree2 = C!Pairs(W) /\ r.count = l
      /\ \A i \in W : /\ r.sum1[i] = SumOver(q, Y, d, Vals(q, vs, Y, i))
                      /\ r.sum2[i] = SumOver(q, Y, d, Prods(q, vs, Y, i, i))
      /\ \A k \in C!Pairs(W) : r.degree2[k] = SumOver(q, Y, d, Prods(q, vs, Y, k[1], k[2]))
  BY Fields
<1>5. LeftSums(q, vs, X, Y, c, d)
  BY <1>1, SumsOfLeft
<1>6. LeftSums(q, vs, Y, X, d, c)
  <2>1. Y \cap X = {}
    BY <1>1
  <2> QED
    BY <2>1, SumsOfLeft
<1>7. MixedSums(q, vs, X, Y, c, d)
  BY <1>1, SumsOfMixed
<1>8. Y \cup X = Z /\ Cross(q, Y, X, d, c) = m
  BY <1>1, CrossCommutes
<1> HIDE DEF Z, m, n, l, V, W, p, r
<1>9. ASSUME NEW i \in V
      PROVE  /\ i \notin W
             /\ SumOver(q, Z, m, Vals(q, vs, Z, i)) = l * p.sum1[i]
             /\ \A j \in V : SumOver(q, Z, m, Prods(q, vs, Z, i, j)) =
                               l * SumOver(q, X, c, Prods(q, vs, X, i, j))
             /\ \A j \in W : SumOver(q, Z, m, Prods(q, vs, Z, i, j)) = p.sum1[i] * r.sum1[j]
  <2>1. i \notin W
    <3>1. \A y \in W : i < y /\ i \in Int
      BY <1>1
    <3>2. ~(i < i)
      BY <1>1
    <3> QED
      BY <3>1, <3>2
  <2>2. SumOver(q, Z, m, Vals(q, vs, Z, i)) = l * p.sum1[i]
    BY <1>3, <1>5 DEF LeftSums, Z, m, l, V
  <2>3. \A j \in V : SumOver(q, Z, m, Prods(q, vs, Z, i, j)) =
                       l * SumOver(q, X, c, Prods(q, vs, X, i, j))
    BY <1>5 DEF LeftSums, Z, m, l, V
  <2>4. ASSUME NEW j \in W
        PROVE  SumOver(q, Z, m, Prods(q, vs, Z, i, j)) = p.sum1[i] * r.sum1[j]
    <3>1. SumOver(q, Z, m, Prods(q, vs, Z, i, j)) =
            SumOver(q, X, c, Vals(q, vs, X, i)) * SumOver(q, Y, d, Vals(q, vs, Y, j))
      BY <1>7 DEF MixedSums, Z, m, V, W
    <3>2. p.sum1[i] = SumOver(q, X, c, Vals(q, vs, X, i)) /\ r.sum1[j] = SumOver(q, Y, d, Vals(q, vs, Y, j))
      BY <1>3, <1>4
    <3> QED
      BY <3>1, <3>2
  <2> QED
    BY <2>1, <2>2, <2>3, <2>4
<1>10. ASSUME NEW i \in W
       PROVE  /\ SumOver(q, Z, m, Vals(q, vs, Z, i)) = n * r.sum1[i]
              /\ \A j \in W : SumOver(q, Z, m, Prods(q, vs, Z, i, j)) =
                                n * SumOver(q, Y, d, Prods(q, vs, Y, i, j))
  <2>1. SumOver(q, Z, m, Vals(q, vs, Z, i)) = n * r.sum1[i]
    <3>1. SumOver(q, Y \cup X, Cross(q, Y, X, d, c), Vals(q, vs, Y \cup X, i)) =
            n * SumOver(q, Y, d, Vals(q, vs, Y, i))
      BY <1>6 DEF LeftSums, n, W
    <3> QED
      BY <1>4, <1>8, <3>1
  <2>2. ASSUME NEW j \in W
        PROVE  SumOver(q, Z, m, Prods(q, vs, Z, i, j)) = n * SumOver(q, Y, d, Prods(q, vs, Y, i, j))
    <3>1. SumOver(q, Y \cup X, Cross(q, Y, X, d, c), Prods(q, vs, Y \cup X, i, j)) =
            n * SumOver(q, Y, d, Prods(q, vs, Y, i, j))
      BY <1>6 DEF LeftSums, n, W
    <3> QED
      BY <1>8, <3>1
  <2> QED
    BY <2>1, <2>2
<1> DEFINE U == V \cup W
<1>11. [i \in U |-> SumOver(q, Z, m, Vals(q, vs, Z, i))] =
         [i \in U |-> IF i \in V THEN l * p.sum1[i] ELSE n * r.sum1[i]]
  BY <1>9, <1>10
<1>12. [i \in U |-> SumOver(q, Z, m, Prods(q, vs, Z, i, i))] =
         [i \in U |-> IF i \in V THEN l * p.sum2[i] ELSE n * r.sum2[i]]
  <2>1. \A i \in V : SumOver(q, Z, m, Prods(q, vs, Z, i, i)) = l * p.sum2[i]
    BY <1>3, <1>9
  <2>2. \A i \in W : SumOver(q, Z, m, Prods(q, vs, Z, i, i)) = n * r.sum2[i]
    BY <1>4, <1>10
  <2> QED
    BY <2>1, <2>2
<1>13. ASSUME NEW k \in C!Pairs(U)
       PROVE  SumOver(q, Z, m, Prods(q, vs, Z, k[1], k[2])) =
                IF k \in C!Pairs(V) THEN l * p.degree2[k]
                ELSE IF k \in C!Pairs(W) THEN n * r.degree2[k]
                ELSE p.sum1[k[1]] * r.sum1[k[2]]
  <2>1. k[1] \in U /\ k[2] \in U /\ k[1] < k[2] /\ k = <<k[1], k[2]>>
    BY PairsIn
  <2>2. \A T : k[1] \in T /\ k[2] \in T => k \in C!Pairs(T)
    BY <2>1 DEF C!Pairs
  <2>3. k \in C!Pairs(V) => k[1] \in V /\ k[2] \in V
    BY PairsIn
  <2>4. k \in C!Pairs(W) => k[1] \in W /\ k[2] \in W
    BY PairsIn
  <2>5. CASE k[1] \in V /\ k[2] \in V
    BY <1>3, <1>9, <2>2, <2>5
  <2>6. CASE k[1] \in W /\ k[2] \in W
    <3>1. k[1] \notin V
      BY <1>9, <2>6
    <3> QED
      BY <1>4, <1>10, <2>2, <2>3, <2>6, <3>1
  <2>7. CASE k[1] \in V /\ k[2] \in W
    <3>1. k[2] \notin V /\ k[1] \notin W
      BY <1>9, <2>7
    <3> QED
      BY <1>9, <2>3, <2>4, <2>7, <3>1
  <2>8. CASE k[1] \in W /\ k[2] \in V
    <3>1. k[2] < k[1] /\ k[1] \in Nat /\ k[2] \in Nat
      BY <1>1, <2>8
    <3> QED
      BY <2>1, <3>1
  <2> QED
    BY <2>1, <2>5, <2>6, <2>7, <2>8
<1>14. [k \in C!Pairs(U) |-> SumOver(q, Z, m, Prods(q, vs, Z, k[1], k[2]))] =
         [k \in C!Pairs(U) |-> IF k \in C!Pairs(V) THEN l * p.degree2[k]
                               ELSE IF k \in C!Pairs(W) THEN n * r.degree2[k]
                               ELSE p.sum1[k[1]] * r.sum1[k[2]]]
  BY <1>13
<1>15. C!Multiply(p, r) =
         [count |-> n * l,
          sum1 |-> [i \in U |-> IF i \in V THEN l * p.sum1[i] ELSE n * r.sum1[i]],
          sum2 |-> [i \in U |-> IF i \in V THEN l * p.sum2[i] ELSE n * r.sum2[i]],
          degree2 |-> [k \in C!Pairs(U) |-> IF k \in C!Pairs(V) THEN l * p.degree2[k]
                                            ELSE IF k \in C!Pairs(W) THEN n * r.degree2[k]
                                            ELSE p.sum1[k[1]] * r.sum1[k[2]]]]
  BY <1>3, <1>4 DEF C!Multiply
<1>16. Over(vs, Z) = U
  BY <1>1
<1> HIDE DEF U
<1>17. CofactorBy(q, vs, Z, m) = C!Multiply(p, r)
  BY <1>2, <1>11, <1>12, <1>14, <1>15, <1>16 DEF CofactorBy
<1> QED
  BY <1>17 DEF Z, m, p, r

LEMMA TimesIs ==
  ASSUME NEW q \in Query, NEW vs, VarsOK(q, vs), NEW X \in SUBSET Indices(q), NEW Y \in SUBSET Indices(q),
         X # {}, Y # {}, X \cap Y = {}, Apart(X, Y), NEW c \in Counts(q, X), NEW d \in Counts(q, Y),
         OneSign(q, X, c), OneSign(q, Y, d)
  PROVE  CofactorBy(q, vs, X \cup Y, Cross(q, X, Y, c, d)) =
           C!Times(CofactorBy(q, vs, X, c), CofactorBy(q, vs, Y, d))
<1> DEFINE p == CofactorBy(q, vs, X, c)
           r == CofactorBy(q, vs, Y, d)
           V == Over(vs, X)
           W == Over(vs, Y)
<1>1. /\ C!VarsOf(p) = V /\ (C!IsZero(p) <=> SumFunction(c) = 0)
      /\ C!VarsOf(r) = W /\ (C!IsZero(r) <=> SumFunction(d) = 0)
  BY Fields
<1>2. V # {} /\ W # {}
  BY DEF Over, C!VarsOver, VarsOK
<1> HIDE DEF p, r, V, W
<1>3. CASE SumFunction(c) = 0 \/ SumFunction(d) = 0
  <2>1. Cross(q, X, Y, c, d) = Nothing(q, X \cup Y)
    BY <1>3, CrossNone
  <2>2. C!Times(p, r) = C!ZeroOf(V \cup W)
    BY <1>1, <1>3 DEF C!Times
  <2>3. Over(vs, X \cup Y) = V \cup W
    BY DEF Over, C!VarsOver, V, W
  <2>4. CofactorBy(q, vs, X \cup Y, Nothing(q, X \cup Y)) = C!ZeroOf(Over(vs, X \cup Y))
    BY ZeroIs
  <2> QED
    BY <2>1, <2>2, <2>3, <2>4 DEF p, r
<1>4. CASE SumFunction(c) # 0 /\ SumFunction(d) # 0 /\ Before(X, Y)
  <2>1. V \in SUBSET Nat /\ W \in SUBSET Nat /\ \A x \in V, y \in W : x < y
    BY <1>4, VarsBefore DEF V, W
  <2>2. C!Min(V) < C!Min(W)
    BY <1>2, <2>1, MinIs
  <2>3. C!Times(p, r) = C!Multiply(p, r)
    BY <1>1, <1>4, <2>2 DEF C!Times
  <2> QED
    BY <1>4, <2>3, MultiplyIs DEF p, r
<1>5. CASE SumFunction(c) # 0 /\ SumFunction(d) # 0 /\ Before(Y, X)
  <2>1. V \in SUBSET Nat /\ W \in SUBSET Nat /\ \A x \in W, y \in V : x < y
    BY <1>5, VarsBefore DEF V, W
  <2>2. ~(C!Min(V) < C!Min(W))
    <3>1. C!Min(V) \in Nat /\ C!Min(W) \in Nat /\ C!Min(W) < C!Min(V)
      BY <1>2, <2>1, MinIs
    <3> QED
      BY <3>1
  <2>3. C!Times(p, r) = C!Multiply(r, p)
    BY <1>1, <1>5, <2>2 DEF C!Times
  <2>4. CofactorBy(q, vs, Y \cup X, Cross(q, Y, X, d, c)) = C!Multiply(r, p)
    BY <1>5, MultiplyIs DEF p, r
  <2>5. Y \cup X = X \cup Y /\ Cross(q, Y, X, d, c) = Cross(q, X, Y, c, d)
    BY CrossCommutes
  <2> QED
    BY <2>3, <2>4, <2>5 DEF p, r
<1>6. Before(X, Y) \/ Before(Y, X)
  BY DEF Apart, Before
<1> QED
  BY <1>3, <1>4, <1>5, <1>6

-----------------------------------------------------------------------------
(***************************************************************************)
(* The laws.                                                               *)
(***************************************************************************)

(* A query whose payloads are the cofactors over the variables vs.         *)
CofactorQuery(q, vs) ==
  /\ VarsOK(q, vs)
  /\ \A r \in 1..Size(q) : RZero(q, r) = C!ZeroOf(Over(vs, {r}))
  /\ RStart(q) = {C!ZeroOf(Over(vs, Indices(q)))}
  /\ \A r, v : RLift(q, r, v) = C!LiftAt(r, v)
  /\ \A p, r : RPlus(q, p, r) = C!Plus(p, r) /\ RTimes(q, p, r) = C!Times(p, r)
  /\ \A r, p : RAssign(q, r, p) = p
  /\ \A n, p : RScale(q, n, p) = C!Scale(n, p)
  /\ \A p : RIsZero(q, p) <=> C!IsZero(p)
  /\ \A p, X, m : RMeans(q, p, X, m) <=> C!MeansCofactor(vs, p, X, m)

LEMMA CofactorMeans ==
  ASSUME NEW q \in Query, NEW vs, CofactorQuery(q, vs), NEW X \in SUBSET Indices(q),
         NEW c \in Counts(q, X), NEW p
  PROVE  Means(q, p, X, c) <=> p = CofactorBy(q, vs, X, c)
<1>1. C!MeansCofactor(vs, p, X, Bag(q, X, c)) <=> p = CofactorBy(q, vs, X, c)
  BY CofactorOfBag DEF CofactorQuery
<1>2. RMeans(q, p, X, Bag(q, X, c)) <=> C!MeansCofactor(vs, p, X, Bag(q, X, c))
  BY DEF CofactorQuery
<1> QED
  BY <1>1, <1>2 DEF Means

(* The cofactors of degree one keep the laws: multiplying by the counts    *)
(* and adding up is right even though an operand with count 0 is skipped.  *)
THEOREM CofactorsAreLawful ==
  ASSUME NEW q \in Query, NEW vs, CofactorQuery(q, vs)
  PROVE  RingLaws(q)
<1>1. /\ VarsOK(q, vs) /\ LiftedIn(q) = Indices(q) /\ 0 \in Indices(q)
      /\ Size(q) \in Nat \ {0} /\ \A r \in Indices(q) \ {0} : r \in 1..Size(q)
  BY SizeType DEF CofactorQuery, VarsOK, Indices
<1>2. \A X \in SUBSET Indices(q) : HasLifted(q, X) <=> X # {}
  BY <1>1 DEF HasLifted
<1>3. ZeroLaw(q)
  <2>1. ASSUME NEW r \in LiftedIn(q) \ {0}
        PROVE  Means(q, RZero(q, r), {r}, Nothing(q, {r}))
    <3>1. {r} \in SUBSET Indices(q) /\ RZero(q, r) = C!ZeroOf(Over(vs, {r}))
      BY <1>1 DEF CofactorQuery
    <3> QED
      BY <1>1, <3>1, ZeroIs, SumsOfNothing, CofactorMeans
  <2>2. ASSUME NEW p \in RStart(q)
        PROVE  Means(q, p, Indices(q), Nothing(q, Indices(q)))
    <3>1. Indices(q) \in SUBSET Indices(q) /\ p = C!ZeroOf(Over(vs, Indices(q)))
      BY DEF CofactorQuery
    <3> QED
      BY <1>1, <3>1, ZeroIs, SumsOfNothing, CofactorMeans
  <2> QED
    BY <2>1, <2>2 DEF ZeroLaw
<1>4. LiftLaw(q)
  <2> SUFFICES ASSUME NEW i \in LiftedIn(q), NEW v \in ValuesAt(q, i)
               PROVE  Means(q, RLift(q, i, v), {i}, Only(q, i, v))
    BY DEF LiftLaw
  <2>1. i \in Indices(q) /\ {i} \in SUBSET Indices(q) /\ RLift(q, i, v) = C!LiftAt(i, v)
    BY <1>1 DEF CofactorQuery
  <2>2. Only(q, i, v) \in Counts(q, {i})
    BY <2>1, SumsOfOnly
  <2>3. CofactorBy(q, vs, {i}, Only(q, i, v)) = C!LiftAt(i, v)
    BY <1>1, <2>1, LiftIs
  <2> QED
    BY <2>1, <2>2, <2>3, CofactorMeans
<1>5. ScaleLaw(q)
  <2> SUFFICES ASSUME NEW X \in SUBSET Indices(q), NEW Y \in SUBSET Indices(q),
                      NEW c \in Counts(q, X), NEW d \in Counts(q, Y), NEW p,
                      ~HasLifted(q, Y), Means(q, p, X, c)
               PROVE  Means(q, RScale(q, SumFunction(d), p), X \cup Y, Cross(q, X, Y, c, d))
    BY DEF ScaleLaw
  <2>1. Y = {} /\ X \cap Y = {} /\ X \cup Y \in SUBSET Indices(q)
    BY <1>2
  <2>2. p = CofactorBy(q, vs, X, c)
    BY CofactorMeans
  <2>3. CofactorBy(q, vs, X \cup Y, Cross(q, X, Y, c, d)) = C!Scale(SumFunction(d), p)
    BY <1>1, <2>1, <2>2, ScaleIs
  <2>4. RScale(q, SumFunction(d), p) = C!Scale(SumFunction(d), p)
    BY DEF CofactorQuery
  <2>5. Cross(q, X, Y, c, d) \in Counts(q, X \cup Y)
    BY <2>1, CrossSum
  <2> QED
    BY <2>1, <2>3, <2>4, <2>5, CofactorMeans
<1>6. TimesLaw(q)
  <2> SUFFICES ASSUME NEW X \in SUBSET Indices(q), NEW Y \in SUBSET Indices(q),
                      NEW c \in Counts(q, X), NEW d \in Counts(q, Y), NEW p, NEW r,
                      X \cap Y = {}, Apart(X, Y), HasLifted(q, X), HasLifted(q, Y),
                      OneSign(q, X, c), OneSign(q, Y, d), Means(q, p, X, c), Means(q, r, Y, d)
               PROVE  Means(q, RTimes(q, p, r), X \cup Y, Cross(q, X, Y, c, d))
    BY DEF TimesLaw
  <2>1. X # {} /\ Y # {} /\ X \cup Y \in SUBSET Indices(q)
    BY <1>2
  <2>2. p = CofactorBy(q, vs, X, c) /\ r = CofactorBy(q, vs, Y, d)
    BY CofactorMeans
  <2>3. CofactorBy(q, vs, X \cup Y, Cross(q, X, Y, c, d)) = C!Times(p, r)
    BY <1>1, <2>1, <2>2, TimesIs
  <2>4. RTimes(q, p, r) = C!Times(p, r)
    BY DEF CofactorQuery
  <2>5. Cross(q, X, Y, c, d) \in Counts(q, X \cup Y)
    BY CrossSum
  <2> QED
    BY <2>1, <2>3, <2>4, <2>5, CofactorMeans
<1>7. PlusLaw(q)
  <2> SUFFICES ASSUME NEW X \in Kept(q), NEW c \in Counts(q, X), NEW d \in Counts(q, X), NEW p, NEW r,
                      OneSign(q, X, d), Means(q, p, X, c), Means(q, r, X, d)
               PROVE  Means(q, RPlus(q, p, r), X, Added(q, X, c, d))
    BY DEF PlusLaw
  <2>1. X \in SUBSET Indices(q)
    BY <1>1 DEF Kept
  <2>2. p = CofactorBy(q, vs, X, c) /\ r = CofactorBy(q, vs, X, d)
    BY <2>1, CofactorMeans
  <2>3. CofactorBy(q, vs, X, Added(q, X, c, d)) = C!Plus(p, r)
    BY <1>1, <2>1, <2>2, PlusIs
  <2>4. RPlus(q, p, r) = C!Plus(p, r)
    BY DEF CofactorQuery
  <2>5. Added(q, X, c, d) \in Counts(q, X)
    BY <2>1, AddedType
  <2> QED
    BY <2>1, <2>3, <2>4, <2>5, CofactorMeans
<1>8. AssignLaw(q)
  BY DEF AssignLaw, CofactorQuery
<1>9. IsZeroLaw(q)
  <2>1. ASSUME NEW r \in LiftedIn(q) \ {0}, NEW c \in Counts(q, {r}), NEW p, Means(q, p, {r}, c)
        PROVE  RIsZero(q, p) <=> SumFunction(c) = 0
    <3>1. p = CofactorBy(q, vs, {r}, c)
      BY <1>1, <2>1, CofactorMeans
    <3>2. C!IsZero(p) <=> SumFunction(c) = 0
      BY <3>1, Fields
    <3> QED
      BY <3>2 DEF CofactorQuery
  <2>2. ASSUME NEW r, NEW v
        PROVE  ~RIsZero(q, RLift(q, r, v))
    <3>1. ~C!IsZero(C!LiftAt(r, v))
      BY DEF C!LiftAt, C!Lift, C!IsZero
    <3> QED
      BY <3>1 DEF CofactorQuery
  <2> QED
    BY <1>3, <2>1, <2>2, CountIsZeroLaw DEF ZeroByCount
<1>10. JoinLaw(q)
  BY <1>1 DEF JoinLaw
<1> QED
  BY <1>3, <1>4, <1>5, <1>6, <1>7, <1>8, <1>9, <1>10 DEF RingLaws

-----------------------------------------------------------------------------
(***************************************************************************)
(* Sums over rows of what their values are lifted to: the payloads of      *)
(* averages and of TPC-H 1 and 12 hold such sums beside a count.           *)
(***************************************************************************)

(* The sum of the lifted values of a tuple, as g lifts them.               *)
LiftsOK(q, g) == \A i \in LiftedIn(q) : \A v \in ValuesAt(q, i) : g[i][v] \in Int
Lifts(q, X, g, a) == [i \in X \cap LiftedIn(q) |-> g[i][a[i]]]
Weight(q, X, g) == [a \in Tuples(q, X) |-> SumFunction(Lifts(q, X, g, a))]
Linear(q, X, g, c) == SumOver(q, X, c, Weight(q, X, g))

LEMMA LiftsType ==
  ASSUME NEW q \in Query, NEW g, LiftsOK(q, g), NEW X \in SUBSET Indices(q), NEW a \in Tuples(q, X)
  PROVE  /\ IsFiniteSet(X \cap LiftedIn(q))
         /\ Lifts(q, X, g, a) \in [X \cap LiftedIn(q) -> Int]
         /\ SumFunction(Lifts(q, X, g, a)) \in Int
<1>1. IsFiniteSet(X \cap LiftedIn(q))
  BY IndicesFinite, FS_Subset
<1>2. \A i \in X : a[i] \in ValuesAt(q, i)
  BY TuplesAre
<1>3. Lifts(q, X, g, a) \in [X \cap LiftedIn(q) -> Int]
  BY <1>2 DEF Lifts, LiftsOK
<1> QED
  BY <1>1, <1>3, SumType

LEMMA WeightType ==
  ASSUME NEW q \in Query, NEW g, LiftsOK(q, g), NEW X \in SUBSET Indices(q)
  PROVE  Weight(q, X, g) \in Counts(q, X)
BY LiftsType DEF Weight, Counts

LEMMA LinearType ==
  ASSUME NEW q \in Query, NEW g, LiftsOK(q, g), NEW X \in SUBSET Indices(q), NEW c \in Counts(q, X)
  PROVE  Linear(q, X, g, c) \in Int /\ SumFunction(c) \in Int
<1>1. SumFunction(c) \in Int
  BY TuplesFinite, SumType DEF Counts
<1> QED
  BY <1>1, WeightType, SumOverType DEF Linear

(* A joined tuple has the values of its parts.                             *)
LEMMA WeightSplits ==
  ASSUME NEW q \in Query, NEW g, LiftsOK(q, g), NEW X \in SUBSET Indices(q), NEW Y \in SUBSET Indices(q),
         X \cap Y = {}, NEW a \in Tuples(q, X \cup Y)
  PROVE  Weight(q, X \cup Y, g)[a] = Weight(q, X, g)[On(a, X)] + Weight(q, Y, g)[On(a, Y)]
<1> DEFINE L == LiftedIn(q)
           Z == X \cup Y
           f == Lifts(q, Z, g, a)
<1>1. Z \in SUBSET Indices(q) /\ On(a, X) \in Tuples(q, X) /\ On(a, Y) \in Tuples(q, Y)
  BY TuplesSplit DEF Split
<1>2. IsFiniteSet(Z \cap L) /\ f \in [Z \cap L -> Int]
  BY <1>1, LiftsType
<1>3. Restrict(f, X \cap L) = Lifts(q, X, g, On(a, X))
  <2>1. Restrict(f, X \cap L) = [i \in X \cap L |-> g[i][a[i]]]
    BY DEF Restrict, Lifts
  <2>2. Lifts(q, X, g, On(a, X)) = [i \in X \cap L |-> g[i][a[i]]]
    BY DEF Lifts, On
  <2> QED
    BY <2>1, <2>2
<1>4. Restrict(f, Y \cap L) = Lifts(q, Y, g, On(a, Y))
  <2>1. Restrict(f, Y \cap L) = [i \in Y \cap L |-> g[i][a[i]]]
    BY DEF Restrict, Lifts
  <2>2. Lifts(q, Y, g, On(a, Y)) = [i \in Y \cap L |-> g[i][a[i]]]
    BY DEF Lifts, On
  <2> QED
    BY <2>1, <2>2
<1>5. SumFunction(f) = SumFunction(Restrict(f, X \cap L)) + SumFunction(Restrict(f, Y \cap L))
  <2>1. Z \cap L = (X \cap L) \cup (Y \cap L) /\ (X \cap L) \cap (Y \cap L) = {}
    OBVIOUS
  <2>2. X \cap L \in SUBSET (Z \cap L) /\ Y \cap L \in SUBSET (Z \cap L)
    OBVIOUS
  <2> HIDE DEF f, Z, L
  <2> QED
    BY <1>2, <2>1, <2>2, SumSplit
<1> QED
  BY <1>1, <1>3, <1>4, <1>5 DEF Weight

(* A tuple without lifted values counts, but adds nothing.                 *)
LEMMA WeightUnlifted ==
  ASSUME NEW q \in Query, NEW g, LiftsOK(q, g), NEW X \in SUBSET Indices(q), ~HasLifted(q, X)
  PROVE  \A a \in Tuples(q, X) : Weight(q, X, g)[a] = 0
<1> SUFFICES ASSUME NEW a \in Tuples(q, X)
             PROVE  SumFunction(Lifts(q, X, g, a)) = 0
  BY DEF Weight
<1>1. X \cap LiftedIn(q) = {}
  BY DEF HasLifted
<1> QED
  BY <1>1, LiftsType, SumOfZeros

LEMMA SumsCommute ==
  ASSUME NEW q \in Query, NEW X \in SUBSET Indices(q), NEW c \in Counts(q, X), NEW w \in Counts(q, X)
  PROVE  SumOver(q, X, c, w) = SumOver(q, X, w, c)
<1>1. \A a \in Tuples(q, X) : c[a] \in Int /\ w[a] \in Int
  BY DEF Counts
<1>2. \A k, l \in Int : k * l = l * k
  OBVIOUS
<1>3. Times1(q, X, c, w) = Times1(q, X, w, c)
  BY <1>1, <1>2 DEF Times1
<1> QED
  BY <1>3 DEF SumOver

LEMMA WeightsAdd ==
  ASSUME NEW q \in Query, NEW X \in SUBSET Indices(q), NEW c \in Counts(q, X), NEW w \in Counts(q, X),
         NEW z \in Counts(q, X)
  PROVE  SumOver(q, X, c, Added(q, X, w, z)) = SumOver(q, X, c, w) + SumOver(q, X, c, z)
<1>1. SumOver(q, X, c, Added(q, X, w, z)) = SumOver(q, X, Added(q, X, w, z), c)
  BY AddedType, SumsCommute
<1>2. SumOver(q, X, w, c) = SumOver(q, X, c, w) /\ SumOver(q, X, z, c) = SumOver(q, X, c, z)
  BY SumsCommute
<1> QED
  BY <1>1, <1>2, SumsOfAdded

(* The sums of a product, of one row, and of a sum.                        *)
Distributes(q, X, Y, g, c, d) ==
  Linear(q, X \cup Y, g, Cross(q, X, Y, c, d)) =
    SumFunction(c) * Linear(q, Y, g, d) + SumFunction(d) * Linear(q, X, g, c)

LEMMA LinearCross ==
  ASSUME NEW q \in Query, NEW g, LiftsOK(q, g), NEW X \in SUBSET Indices(q), NEW Y \in SUBSET Indices(q),
         X \cap Y = {}, NEW c \in Counts(q, X), NEW d \in Counts(q, Y)
  PROVE  Distributes(q, X, Y, g, c, d)
<1> DEFINE m == Cross(q, X, Y, c, d)
           Z == X \cup Y
           u == Weight(q, X, g)
           w == Weight(q, Y, g)
           p == Cross(q, X, Y, u, Ones(q, Y))
           r == Cross(q, X, Y, Ones(q, X), w)
<1>1. Z \in SUBSET Indices(q) /\ m \in Counts(q, Z) /\ SumsMultiply(q, X, Y, c, d)
  BY CrossSum
<1>2. u \in Counts(q, X) /\ w \in Counts(q, Y) /\ Ones(q, X) \in Counts(q, X) /\ Ones(q, Y) \in Counts(q, Y)
  BY WeightType DEF Ones, Counts
<1>3. p \in Counts(q, Z) /\ r \in Counts(q, Z)
  <2> HIDE DEF u, w
  <2> QED
    BY <1>2, CrossSum
<1>4. ASSUME NEW a \in Tuples(q, Z)
      PROVE  Weight(q, Z, g)[a] = p[a] + r[a]
  <2>1. On(a, X) \in Tuples(q, X) /\ On(a, Y) \in Tuples(q, Y)
    BY TuplesSplit DEF Split
  <2>2. Weight(q, Z, g)[a] = u[On(a, X)] + w[On(a, Y)]
    BY WeightSplits
  <2>3. u[On(a, X)] \in Int /\ w[On(a, Y)] \in Int
    BY <1>2, <2>1 DEF Counts
  <2> HIDE DEF u, w
  <2>4. p[a] = u[On(a, X)] * 1 /\ r[a] = 1 * w[On(a, Y)]
    BY <2>1 DEF Cross, Ones
  <2> HIDE DEF p, r
  <2>5. \A k \in Int : k * 1 = k /\ 1 * k = k
    OBVIOUS
  <2> QED
    BY <2>2, <2>3, <2>4, <2>5
<1>5. Weight(q, Z, g) = Added(q, Z, p, r)
  <2>1. Weight(q, Z, g) = [a \in Tuples(q, Z) |-> Weight(q, Z, g)[a]]
    BY DEF Weight
  <2> HIDE DEF p, r
  <2> QED
    BY <1>4, <2>1 DEF Added
<1>6. SumOver(q, Z, m, Added(q, Z, p, r)) = SumOver(q, Z, m, p) + SumOver(q, Z, m, r)
  <2> HIDE DEF m, p, r, Z
  <2> QED
    BY <1>1, <1>3, WeightsAdd
<1>7. SumOver(q, Z, m, p) = Linear(q, X, g, c) * SumFunction(d)
  <2>1. SumOver(q, Z, m, p) = SumOver(q, X, c, u) * SumOver(q, Y, d, Ones(q, Y))
    <3> HIDE DEF u, w
    <3> QED
      BY <1>2, CrossOver
  <2> QED
    BY <2>1, SumOnes DEF Linear
<1>8. SumOver(q, Z, m, r) = SumFunction(c) * Linear(q, Y, g, d)
  <2>1. SumOver(q, Z, m, r) = SumOver(q, X, c, Ones(q, X)) * SumOver(q, Y, d, w)
    <3> HIDE DEF u, w
    <3> QED
      BY <1>2, CrossOver
  <2> QED
    BY <2>1, SumOnes DEF Linear
<1>9. Linear(q, Z, g, m) = SumOver(q, Z, m, Added(q, Z, p, r))
  BY <1>5 DEF Linear
<1>10. /\ Linear(q, X, g, c) \in Int /\ SumFunction(c) \in Int
       /\ Linear(q, Y, g, d) \in Int /\ SumFunction(d) \in Int
  BY LinearType
<1> HIDE DEF m, Z, p, r
<1>11. \A i, j, k, l \in Int : i * j + k * l = k * l + j * i
  OBVIOUS
<1>12. Linear(q, Z, g, m) = SumFunction(c) * Linear(q, Y, g, d) + SumFunction(d) * Linear(q, X, g, c)
  BY <1>6, <1>7, <1>8, <1>9, <1>10, <1>11
<1> QED
  BY <1>12 DEF Distributes, m, Z
LEMMA LinearOfNothing ==
  ASSUME NEW q \in Query, NEW g, LiftsOK(q, g), NEW X \in SUBSET Indices(q)
  PROVE  Linear(q, X, g, Nothing(q, X)) = 0
BY WeightType, SumsOfNothing DEF Linear

LEMMA LinearOfOnly ==
  ASSUME NEW q \in Query, NEW g, LiftsOK(q, g), NEW i \in LiftedIn(q), NEW v \in ValuesAt(q, i)
  PROVE  Linear(q, {i}, g, Only(q, i, v)) = g[i][v]
<1> DEFINE t == [j \in {i} |-> v]
           f == Lifts(q, {i}, g, t)
<1>1. i \in Indices(q) /\ {i} \in SUBSET Indices(q) /\ {i} \cap LiftedIn(q) = {i}
  BY SizeType
<1>2. /\ t \in Tuples(q, {i})
      /\ \A w \in Counts(q, {i}) : SumOver(q, {i}, Only(q, i, v), w) = w[t]
  BY <1>1, SumsOfOnly
<1>3. Linear(q, {i}, g, Only(q, i, v)) = Weight(q, {i}, g)[t]
  <2> HIDE DEF t
  <2> QED
    BY <1>1, <1>2, WeightType DEF Linear
<1>4. Weight(q, {i}, g)[t] = SumFunction(f)
  BY <1>2 DEF Weight
<1>5. IsFiniteSet({i}) /\ f \in [{i} -> Int] /\ f[i] = g[i][v]
  <2>1. IsFiniteSet({i}) /\ f \in [{i} -> Int]
    <3>1. IsFiniteSet({i} \cap LiftedIn(q)) /\ f \in [{i} \cap LiftedIn(q) -> Int]
      <4> HIDE DEF t
      <4> QED
        BY <1>1, <1>2, LiftsType
    <3> QED
      BY <1>1, <3>1
  <2>2. f[i] = g[i][t[i]] /\ t[i] = v
    BY <1>1 DEF Lifts
  <2> QED
    BY <2>1, <2>2
<1>6. SumFunction(f) = f[i]
  <2>1. i \in {i} /\ \A y \in {i} \ {i} : f[y] = 0
    OBVIOUS
  <2> HIDE DEF f
  <2> QED
    BY <1>5, <2>1, SumSingle
<1> QED
  BY <1>3, <1>4, <1>5, <1>6

LEMMA LinearOfAdded ==
  ASSUME NEW q \in Query, NEW g, LiftsOK(q, g), NEW X \in SUBSET Indices(q),
         NEW c \in Counts(q, X), NEW d \in Counts(q, X)
  PROVE  Linear(q, X, g, Added(q, X, c, d)) = Linear(q, X, g, c) + Linear(q, X, g, d)
BY WeightType, SumsOfAdded DEF Linear

(* Rows that are only counted multiply.                                    *)
LEMMA LinearOfUnlifted ==
  ASSUME NEW q \in Query, NEW g, LiftsOK(q, g), NEW X \in SUBSET Indices(q), ~HasLifted(q, X),
         NEW c \in Counts(q, X)
  PROVE  Linear(q, X, g, c) = 0
<1> DEFINE f == Times1(q, X, c, Weight(q, X, g))
<1>1. f \in [Tuples(q, X) -> Int] /\ IsFiniteSet(Tuples(q, X))
  BY WeightType, SumOverType, TuplesFinite DEF Counts
<1>2. ASSUME NEW a \in Tuples(q, X)
      PROVE  f[a] = 0
  <2>1. f[a] = c[a] * Weight(q, X, g)[a] /\ c[a] \in Int
    BY DEF Times1, Counts
  <2>2. Weight(q, X, g)[a] = 0
    BY WeightUnlifted
  <2>3. \A k \in Int : k * 0 = 0
    OBVIOUS
  <2> HIDE DEF f
  <2> QED
    BY <2>1, <2>2, <2>3
<1> HIDE DEF f
<1>3. SumFunction(f) = 0
  BY <1>1, <1>2, SumOfZeros
<1> QED
  BY <1>3 DEF f, Linear, SumOver

Scales(q, X, Y, g, c, d) ==
  Linear(q, X \cup Y, g, Cross(q, X, Y, c, d)) = SumFunction(d) * Linear(q, X, g, c)

LEMMA LinearScaled ==
  ASSUME NEW q \in Query, NEW g, LiftsOK(q, g), NEW X \in SUBSET Indices(q), NEW Y \in SUBSET Indices(q),
         X \cap Y = {}, ~HasLifted(q, Y), NEW c \in Counts(q, X), NEW d \in Counts(q, Y)
  PROVE  Scales(q, X, Y, g, c, d)
<1>1. Linear(q, X \cup Y, g, Cross(q, X, Y, c, d)) =
        SumFunction(c) * Linear(q, Y, g, d) + SumFunction(d) * Linear(q, X, g, c)
  BY LinearCross DEF Distributes
<1>2. Linear(q, Y, g, d) = 0
  BY LinearOfUnlifted
<1>3. Linear(q, X, g, c) \in Int /\ SumFunction(c) \in Int /\ SumFunction(d) \in Int
  BY LinearType
<1>4. SumFunction(c) * 0 = 0 /\ SumFunction(d) * Linear(q, X, g, c) \in Int
  BY <1>3
<1>5. \A k \in Int : 0 + k = k
  OBVIOUS
<1> QED
  BY <1>1, <1>2, <1>4, <1>5 DEF Scales

-----------------------------------------------------------------------------
(***************************************************************************)
(* The payloads of averages and of TPC-H 1 and 12.                         *)
(***************************************************************************)

LEMMA SameSumOf ==
  ASSUME NEW f
  PROVE  RQ!SumFunction(f) = SumFunction(f)
BY DEF RQ!SumFunction, RQ!SumFunctionOnSet, RQ!FoldFunctionOnSet, RQ!MapThenFoldSet,
       SumFunction, SumFunctionOnSet, FoldFunctionOnSet, MapThenFoldSet

LEMMA CountOfBag ==
  ASSUME NEW q \in Query, NEW X \in SUBSET Indices(q), NEW c \in Counts(q, X)
  PROVE  RQ!Total(Bag(q, X, c), LAMBDA a : 1) = SumFunction(c)
<1> DEFINE m == Bag(q, X, c)
<1>1. DOMAIN m \subseteq Tuples(q, X)
  BY DEF Bag
<1>2. [a \in DOMAIN m |-> m[a] * 1] = [a \in DOMAIN m |-> m[a] * Ones(q, X)[a]]
  BY <1>1 DEF Ones
<1>3. RQ!Total(m, LAMBDA a : 1) = SumFunction([a \in DOMAIN m |-> m[a] * 1])
  BY SameSumOf DEF RQ!Total
<1>4. BagSum(q, X, c, Ones(q, X)) = SumFunction(c)
  <2>1. Ones(q, X) \in Counts(q, X)
    BY DEF Ones, Counts
  <2> QED
    BY <2>1, SupportSum, SumOnes
<1> QED
  BY <1>2, <1>3, <1>4 DEF BagSum

(* A query whose payloads are the averages over its lifted values.         *)
AverageQuery(q) ==
  /\ \A i \in LiftedIn(q) : ValuesAt(q, i) \subseteq Int
  /\ \A r : RZero(q, r) = RQ!ZeroAvg(r)
  /\ RStart(q) = {RQ!ZeroAvg(0)}
  /\ \A r, v : RLift(q, r, v) = RQ!LiftAvg(r, v)
  /\ \A p, r : RPlus(q, p, r) = RQ!PlusAvg(p, r) /\ RTimes(q, p, r) = RQ!TimesAvg(p, r)
  /\ \A r, p : RAssign(q, r, p) = p
  /\ \A n, p : RScale(q, n, p) = RQ!ScaleAvg(n, p)
  /\ \A p : RIsZero(q, p) <=> RQ!IsZeroAvg(p)
  /\ \A p, X, m : RMeans(q, p, X, m) <=> RQ!MeansAvg(LiftedIn(q), p, X, m)

Values(q) == [i \in LiftedIn(q) |-> [v \in ValuesAt(q, i) |-> v]]

AverageOf(q, p, X, c) == p.count = SumFunction(c) /\ p.sum = Linear(q, X, Values(q), c)

LEMMA ValuesOK ==
  ASSUME NEW q \in Query, AverageQuery(q)
  PROVE  LiftsOK(q, Values(q))
BY DEF AverageQuery, LiftsOK, Values

LEMMA AverageMeans ==
  ASSUME NEW q \in Query, AverageQuery(q), NEW X \in SUBSET Indices(q), NEW c \in Counts(q, X), NEW p
  PROVE  Means(q, p, X, c) <=> AverageOf(q, p, X, c)
<1> DEFINE m == Bag(q, X, c)
           L == LiftedIn(q)
           w == Weight(q, X, Values(q))
<1>1. \A a \in DOMAIN m : a \in Tuples(q, X)
  BY DEF Bag
<1>2. ASSUME NEW a \in DOMAIN m
      PROVE  RQ!SumFunction([i \in X \cap L |-> a[i]]) = w[a]
  <2>1. \A i \in X : a[i] \in ValuesAt(q, i)
    BY <1>1, TuplesAre
  <2>2. Lifts(q, X, Values(q), a) = [i \in X \cap L |-> a[i]]
    BY <2>1 DEF Lifts, Values
  <2>3. w[a] = SumFunction(Lifts(q, X, Values(q), a))
    BY <1>1 DEF Weight
  <2> HIDE DEF w, L
  <2> QED
    BY <2>2, <2>3, SameSumOf
<1>3. RQ!Total(m, LAMBDA a : RQ!SumFunction([i \in X \cap L |-> a[i]])) = Linear(q, X, Values(q), c)
  <2>1. RQ!Total(m, LAMBDA a : RQ!SumFunction([i \in X \cap L |-> a[i]])) =
          SumFunction([a \in DOMAIN m |-> m[a] * RQ!SumFunction([i \in X \cap L |-> a[i]])])
    BY SameSumOf DEF RQ!Total
  <2>2. [a \in DOMAIN m |-> m[a] * RQ!SumFunction([i \in X \cap L |-> a[i]])] = [a \in DOMAIN m |-> m[a] * w[a]]
    <3> HIDE DEF m, w, L
    <3> QED
      BY <1>2
  <2>3. BagSum(q, X, c, w) = SumOver(q, X, c, w)
    <3>1. w \in Counts(q, X)
      BY ValuesOK, WeightType
    <3> HIDE DEF w
    <3> QED
      BY <3>1, SupportSum
  <2> QED
    BY <2>1, <2>2, <2>3 DEF BagSum, Linear
<1>4. RQ!MeansAvg(L, p, X, m) <=> AverageOf(q, p, X, c)
  BY <1>3, CountOfBag DEF RQ!MeansAvg, AverageOf
<1>5. RMeans(q, p, X, m) <=> RQ!MeansAvg(L, p, X, m)
  BY DEF AverageQuery
<1> QED
  BY <1>4, <1>5 DEF Means

(* RingAvg keeps the laws: a product weighs the sum of one operand with     *)
(* the count of the other.                                                 *)
THEOREM AveragesAreLawful ==
  ASSUME NEW q \in Query, AverageQuery(q)
  PROVE  RingLaws(q)
<1> DEFINE g == Values(q)
<1>1. LiftsOK(q, g)
  BY ValuesOK
<1>2. \A r \in LiftedIn(q) : r \in Indices(q) /\ {r} \in SUBSET Indices(q)
  BY SizeType
<1> HIDE DEF g
<1>3. ZeroLaw(q)
  <2>1. ASSUME NEW X \in SUBSET Indices(q), NEW r
        PROVE  Means(q, RZero(q, r), X, Nothing(q, X))
    <3>1. Nothing(q, X) \in Counts(q, X) /\ SumFunction(Nothing(q, X)) = 0
      BY SumsOfNothing
    <3>2. Linear(q, X, g, Nothing(q, X)) = 0
      BY <1>1, LinearOfNothing
    <3>3. RZero(q, r) = [count |-> 0, sum |-> 0]
      BY DEF AverageQuery, RQ!ZeroAvg
    <3> QED
      BY <3>1, <3>2, <3>3, AverageMeans DEF AverageOf, g
  <2>2. RStart(q) = {RZero(q, 0)} /\ Indices(q) \in SUBSET Indices(q)
    BY DEF AverageQuery
  <2> QED
    BY <1>2, <2>1, <2>2 DEF ZeroLaw
<1>4. LiftLaw(q)
  <2> SUFFICES ASSUME NEW i \in LiftedIn(q), NEW v \in ValuesAt(q, i)
               PROVE  Means(q, RLift(q, i, v), {i}, Only(q, i, v))
    BY DEF LiftLaw
  <2>1. Only(q, i, v) \in Counts(q, {i}) /\ SumFunction(Only(q, i, v)) = 1
    BY <1>2, SumsOfOnly
  <2>2. Linear(q, {i}, g, Only(q, i, v)) = v
    <3>1. Linear(q, {i}, g, Only(q, i, v)) = g[i][v]
      BY <1>1, LinearOfOnly
    <3> QED
      BY <3>1 DEF g, Values
  <2>3. RLift(q, i, v) = [count |-> 1, sum |-> v]
    BY DEF AverageQuery, RQ!LiftAvg
  <2> QED
    BY <1>2, <2>1, <2>2, <2>3, AverageMeans DEF AverageOf, g
<1>5. ASSUME NEW X \in SUBSET Indices(q), NEW Y \in SUBSET Indices(q), X \cap Y = {}, ~HasLifted(q, Y),
             NEW c \in Counts(q, X), NEW d \in Counts(q, Y), NEW p, Means(q, p, X, c)
      PROVE  Means(q, RScale(q, SumFunction(d), p), X \cup Y, Cross(q, X, Y, c, d))
  <2> DEFINE m == Cross(q, X, Y, c, d)
             n == SumFunction(d)
  <2>1. m \in Counts(q, X \cup Y) /\ SumFunction(m) = SumFunction(c) * n
    <3>1. m \in Counts(q, X \cup Y) /\ SumsMultiply(q, X, Y, c, d)
      BY <1>5, CrossSum
    <3> QED
      BY <3>1 DEF SumsMultiply
  <2>2. Linear(q, X \cup Y, g, m) = n * Linear(q, X, g, c)
    BY <1>1, <1>5, LinearScaled DEF Scales
  <2>3. p.count = SumFunction(c) /\ p.sum = Linear(q, X, g, c)
    BY <1>5, AverageMeans DEF AverageOf, g
  <2>4. n \in Int /\ SumFunction(c) \in Int
    BY <1>1, LinearType
  <2>5. RScale(q, n, p) = [count |-> n * p.count, sum |-> n * p.sum]
    BY DEF AverageQuery, RQ!ScaleAvg
  <2> HIDE DEF m, n
  <2>6. SumFunction(m) = n * p.count
    BY <2>1, <2>3, <2>4
  <2>7. AverageOf(q, RScale(q, n, p), X \cup Y, m)
    BY <2>2, <2>3, <2>5, <2>6 DEF AverageOf, g
  <2> QED
    BY <2>1, <2>7, AverageMeans DEF m, n
<1>6. ScaleLaw(q)
  BY <1>5 DEF ScaleLaw
<1>7. TimesLaw(q)
  <2> SUFFICES ASSUME NEW X \in SUBSET Indices(q), NEW Y \in SUBSET Indices(q),
                      NEW c \in Counts(q, X), NEW d \in Counts(q, Y), NEW p, NEW r,
                      X \cap Y = {}, Means(q, p, X, c), Means(q, r, Y, d)
               PROVE  Means(q, RTimes(q, p, r), X \cup Y, Cross(q, X, Y, c, d))
    BY DEF TimesLaw
  <2> DEFINE m == Cross(q, X, Y, c, d)
  <2>1. m \in Counts(q, X \cup Y) /\ SumFunction(m) = SumFunction(c) * SumFunction(d)
    <3>1. m \in Counts(q, X \cup Y) /\ SumsMultiply(q, X, Y, c, d)
      BY CrossSum
    <3> QED
      BY <3>1 DEF SumsMultiply
  <2>2. Linear(q, X \cup Y, g, m) =
          SumFunction(c) * Linear(q, Y, g, d) + SumFunction(d) * Linear(q, X, g, c)
    BY <1>1, LinearCross DEF Distributes
  <2>3. p.count = SumFunction(c) /\ p.sum = Linear(q, X, g, c)
    BY AverageMeans DEF AverageOf, g
  <2>4. r.count = SumFunction(d) /\ r.sum = Linear(q, Y, g, d)
    BY AverageMeans DEF AverageOf, g
  <2>5. p.count \in Int /\ p.sum \in Int /\ r.count \in Int /\ r.sum \in Int
    BY <1>1, <2>3, <2>4, LinearType
  <2>6. RTimes(q, p, r) = [count |-> p.count * r.count, sum |-> p.sum * r.count + r.sum * p.count]
    BY DEF AverageQuery, RQ!TimesAvg
  <2> HIDE DEF m
  <2>7. \A i, j, k, l \in Int : i * j + k * l = l * k + j * i
    OBVIOUS
  <2>8. Linear(q, X \cup Y, g, m) = p.sum * r.count + r.sum * p.count
    BY <2>2, <2>3, <2>4, <2>5, <2>7
  <2>9. AverageOf(q, RTimes(q, p, r), X \cup Y, m)
    BY <2>1, <2>3, <2>4, <2>6, <2>8 DEF AverageOf, g
  <2> QED
    BY <2>1, <2>9, AverageMeans DEF m
<1>8. PlusLaw(q)
  <2> SUFFICES ASSUME NEW X \in Kept(q), NEW c \in Counts(q, X), NEW d \in Counts(q, X), NEW p, NEW r,
                      Means(q, p, X, c), Means(q, r, X, d)
               PROVE  Means(q, RPlus(q, p, r), X, Added(q, X, c, d))
    BY DEF PlusLaw
  <2>1. X \in SUBSET Indices(q)
    BY <1>2 DEF Kept
  <2>2. /\ Added(q, X, c, d) \in Counts(q, X)
        /\ SumFunction(Added(q, X, c, d)) = SumFunction(c) + SumFunction(d)
    BY <2>1, AddedType
  <2>3. Linear(q, X, g, Added(q, X, c, d)) = Linear(q, X, g, c) + Linear(q, X, g, d)
    BY <1>1, <2>1, LinearOfAdded
  <2>4. p.count = SumFunction(c) /\ p.sum = Linear(q, X, g, c)
    BY <2>1, AverageMeans DEF AverageOf, g
  <2>5. r.count = SumFunction(d) /\ r.sum = Linear(q, X, g, d)
    BY <2>1, AverageMeans DEF AverageOf, g
  <2>6. RPlus(q, p, r) = [count |-> p.count + r.count, sum |-> p.sum + r.sum]
    BY DEF AverageQuery, RQ!PlusAvg
  <2>7. AverageOf(q, RPlus(q, p, r), X, Added(q, X, c, d))
    BY <2>2, <2>3, <2>4, <2>5, <2>6 DEF AverageOf, g
  <2> QED
    BY <2>1, <2>2, <2>7, AverageMeans
<1>9. AssignLaw(q)
  BY DEF AssignLaw, AverageQuery
<1>10. IsZeroLaw(q)
  <2>1. ASSUME NEW r \in LiftedIn(q) \ {0}, NEW c \in Counts(q, {r}), NEW p, Means(q, p, {r}, c)
        PROVE  RIsZero(q, p) <=> SumFunction(c) = 0
    <3>1. p.count = SumFunction(c)
      BY <1>2, <2>1, AverageMeans DEF AverageOf
    <3> QED
      BY <3>1 DEF AverageQuery, RQ!IsZeroAvg
  <2>2. \A r, v : ~RIsZero(q, RLift(q, r, v))
    BY DEF AverageQuery, RQ!IsZeroAvg, RQ!LiftAvg
  <2> QED
    BY <1>3, <2>1, <2>2, CountIsZeroLaw DEF ZeroByCount
<1>11. JoinLaw(q)
  <2> SUFFICES ASSUME 0 \notin LiftedIn(q), NEW k \in KeysOf(q), NEW c \in Counts(q, 1..Size(q)), NEW p,
                      Means(q, p, 1..Size(q), c)
               PROVE  Means(q, p, Indices(q), Cross(q, 1..Size(q), {0}, c, Only(q, 0, k)))
    BY DEF JoinLaw
  <2> DEFINE X == 1..Size(q)
             Y == {0}
             d == Only(q, 0, k)
             m == Cross(q, X, Y, c, d)
  <2>1. /\ X \in SUBSET Indices(q) /\ Y \in SUBSET Indices(q) /\ X \cap Y = {} /\ X \cup Y = Indices(q)
        /\ 0 \in Indices(q) /\ ~HasLifted(q, Y)
    BY SizeType DEF Indices, HasLifted
  <2>2. d \in Counts(q, Y) /\ SumFunction(d) = 1
    BY <2>1, SumsOfOnly DEF ValuesAt
  <2> HIDE DEF X, Y, d
  <2>3. m \in Counts(q, X \cup Y) /\ SumFunction(m) = SumFunction(c) * 1
    <3>1. m \in Counts(q, X \cup Y) /\ SumsMultiply(q, X, Y, c, d)
      BY <2>1, <2>2, CrossSum DEF X
    <3> QED
      BY <2>2, <3>1 DEF SumsMultiply
  <2>4. Linear(q, X \cup Y, g, m) = 1 * Linear(q, X, g, c)
    <3>1. Scales(q, X, Y, g, c, d)
      BY <1>1, <2>1, <2>2, LinearScaled DEF X
    <3> QED
      BY <2>2, <3>1 DEF Scales
  <2>5. p.count = SumFunction(c) /\ p.sum = Linear(q, X, g, c)
    BY <2>1, AverageMeans DEF AverageOf, g, X
  <2>6. Linear(q, X, g, c) \in Int /\ SumFunction(c) \in Int
    BY <1>1, <2>1, LinearType DEF X
  <2> HIDE DEF m
  <2>7. AverageOf(q, p, X \cup Y, m)
    BY <2>3, <2>4, <2>5, <2>6 DEF AverageOf, g
  <2> QED
    BY <2>1, <2>3, <2>7, AverageMeans DEF X, Y, d, m
<1> QED
  BY <1>3, <1>4, <1>6, <1>7, <1>8, <1>9, <1>10, <1>11 DEF RingLaws

-----------------------------------------------------------------------------
(* TPCH query 12: only the priority of an order is lifted.                 *)
PriorityQuery(q) ==
  /\ LiftedIn(q) = {1}
  /\ \A r : RZero(q, r) = RQ!Zero12(r)
  /\ RStart(q) = {RQ!Zero12(0)}
  /\ \A r, v : RLift(q, r, v) = RQ!Lift12(r, v)
  /\ \A p, r : RPlus(q, p, r) = RQ!Plus12(p, r)
  /\ \A r, p : RAssign(q, r, p) = p
  /\ \A n, p : RScale(q, n, p) = RQ!Scale12(n, p)
  /\ \A p : RIsZero(q, p) <=> RQ!IsZero12(p)
  /\ \A p, X, m : RMeans(q, p, X, m) <=> RQ!Means12(p, X, m)

HighBit(q) == [i \in {1} |-> [v \in ValuesAt(q, 1) |-> IF v \in RQ!High THEN 1 ELSE 0]]
LowBit(q) == [i \in {1} |-> [v \in ValuesAt(q, 1) |-> IF v \in RQ!High THEN 0 ELSE 1]]

PrioritiesOf(q, p, X, c) ==
  /\ p.count = SumFunction(c)
  /\ p.high_line_count = Linear(q, X, HighBit(q), c)
  /\ p.low_line_count = Linear(q, X, LowBit(q), c)

LEMMA BitsOK ==
  ASSUME NEW q \in Query, PriorityQuery(q)
  PROVE  LiftsOK(q, HighBit(q)) /\ LiftsOK(q, LowBit(q))
BY DEF PriorityQuery, LiftsOK, HighBit, LowBit

(* The weight of a tuple is that of its order.                             *)
LEMMA WeightOfOne ==
  ASSUME NEW q \in Query, LiftedIn(q) = {1}, NEW g, LiftsOK(q, g),
         NEW X \in SUBSET Indices(q), 1 \in X, NEW a \in Tuples(q, X)
  PROVE  a[1] \in ValuesAt(q, 1) /\ Weight(q, X, g)[a] = g[1][a[1]]
<1> DEFINE f == Lifts(q, X, g, a)
<1>1. X \cap LiftedIn(q) = {1}
  OBVIOUS
<1>2. IsFiniteSet({1}) /\ f \in [{1} -> Int]
  <2>1. IsFiniteSet(X \cap LiftedIn(q)) /\ f \in [X \cap LiftedIn(q) -> Int]
    BY LiftsType
  <2> QED
    BY <1>1, <2>1
<1>3. f[1] = g[1][a[1]] /\ Weight(q, X, g)[a] = SumFunction(f)
  BY <1>1 DEF Lifts, Weight
<1>4. SumFunction(f) = f[1]
  <2>1. 1 \in {1} /\ \A y \in {1} \ {1} : f[y] = 0
    OBVIOUS
  <2> HIDE DEF f
  <2> QED
    BY <1>2, <2>1, SumSingle
<1>5. a[1] \in ValuesAt(q, 1)
  BY TuplesAre
<1> QED
  BY <1>3, <1>4, <1>5

LEMMA PrioritiesMean ==
  ASSUME NEW q \in Query, PriorityQuery(q), NEW X \in SUBSET Indices(q), 1 \in X,
         NEW c \in Counts(q, X), NEW p
  PROVE  Means(q, p, X, c) <=> PrioritiesOf(q, p, X, c)
<1> DEFINE m == Bag(q, X, c)
           h == Weight(q, X, HighBit(q))
           l == Weight(q, X, LowBit(q))
<1>1. \A a \in DOMAIN m : a \in Tuples(q, X)
  BY DEF Bag
<1>2. \A a \in DOMAIN m : h[a] = IF a[1] \in RQ!High THEN 1 ELSE 0
  BY <1>1, BitsOK, WeightOfOne DEF PriorityQuery, HighBit
<1>3. \A a \in DOMAIN m : l[a] = IF a[1] \in RQ!High THEN 0 ELSE 1
  BY <1>1, BitsOK, WeightOfOne DEF PriorityQuery, LowBit
<1>4. h \in Counts(q, X) /\ l \in Counts(q, X)
  BY BitsOK, WeightType
<1>5. RQ!Total(m, LAMBDA a : IF a[1] \in RQ!High THEN 1 ELSE 0) = Linear(q, X, HighBit(q), c)
  <2>1. RQ!Total(m, LAMBDA a : IF a[1] \in RQ!High THEN 1 ELSE 0) =
          SumFunction([a \in DOMAIN m |-> m[a] * (IF a[1] \in RQ!High THEN 1 ELSE 0)])
    BY SameSumOf DEF RQ!Total
  <2>2. BagSum(q, X, c, h) = SumOver(q, X, c, h)
    <3> HIDE DEF h
    <3> QED
      BY <1>4, SupportSum
  <2>3. [a \in DOMAIN m |-> m[a] * (IF a[1] \in RQ!High THEN 1 ELSE 0)] = [a \in DOMAIN m |-> m[a] * h[a]]
    <3> HIDE DEF m, h
    <3> QED
      BY <1>2
  <2> QED
    BY <2>1, <2>2, <2>3 DEF BagSum, Linear
<1>6. RQ!Total(m, LAMBDA a : IF a[1] \in RQ!High THEN 0 ELSE 1) = Linear(q, X, LowBit(q), c)
  <2>1. RQ!Total(m, LAMBDA a : IF a[1] \in RQ!High THEN 0 ELSE 1) =
          SumFunction([a \in DOMAIN m |-> m[a] * (IF a[1] \in RQ!High THEN 0 ELSE 1)])
    BY SameSumOf DEF RQ!Total
  <2>2. BagSum(q, X, c, l) = SumOver(q, X, c, l)
    <3> HIDE DEF l
    <3> QED
      BY <1>4, SupportSum
  <2>3. [a \in DOMAIN m |-> m[a] * (IF a[1] \in RQ!High THEN 0 ELSE 1)] = [a \in DOMAIN m |-> m[a] * l[a]]
    <3> HIDE DEF m, l
    <3> QED
      BY <1>3
  <2> QED
    BY <2>1, <2>2, <2>3 DEF BagSum, Linear
<1>7. RQ!Means12(p, X, m) <=> PrioritiesOf(q, p, X, c)
  BY <1>5, <1>6, CountOfBag DEF RQ!Means12, PrioritiesOf
<1>8. RMeans(q, p, X, m) <=> RQ!Means12(p, X, m)
  BY DEF PriorityQuery
<1> QED
  BY <1>7, <1>8 DEF Means

(* So does TPCH12Payload, though a sum or product with an operand of count *)
(* 0 and a scaling by 1 take short cuts.                                   *)
THEOREM Query12IsLawful ==
  ASSUME NEW q \in Query, PriorityQuery(q)
  PROVE  RingLaws(q)
<1> DEFINE g == HighBit(q)
           k == LowBit(q)
<1>1. LiftsOK(q, g) /\ LiftsOK(q, k)
  BY BitsOK
<1>2. /\ \A X \in SUBSET Indices(q) : HasLifted(q, X) <=> 1 \in X
      /\ LiftedIn(q) = {1} /\ 1 \in Indices(q) /\ {1} \in SUBSET Indices(q)
      /\ Kept(q) = {{1}, Indices(q)}
  BY SizeType DEF PriorityQuery, HasLifted, Kept
<1> HIDE DEF g, k
<1>3. ZeroLaw(q)
  <2>1. ASSUME NEW X \in SUBSET Indices(q), 1 \in X, NEW r
        PROVE  Means(q, RZero(q, r), X, Nothing(q, X))
    <3>1. Nothing(q, X) \in Counts(q, X) /\ SumFunction(Nothing(q, X)) = 0
      BY SumsOfNothing
    <3>2. Linear(q, X, g, Nothing(q, X)) = 0 /\ Linear(q, X, k, Nothing(q, X)) = 0
      BY <1>1, LinearOfNothing
    <3>3. RZero(q, r) = [count |-> 0, high_line_count |-> 0, low_line_count |-> 0]
      BY DEF PriorityQuery, RQ!Zero12, RQ!Payload12
    <3> QED
      BY <2>1, <3>1, <3>2, <3>3, PrioritiesMean DEF PrioritiesOf, g, k
  <2>2. RStart(q) = {RZero(q, 0)} /\ Indices(q) \in SUBSET Indices(q)
    BY DEF PriorityQuery
  <2> QED
    BY <1>2, <2>1, <2>2 DEF ZeroLaw
<1>4. LiftLaw(q)
  <2> SUFFICES ASSUME NEW v \in ValuesAt(q, 1)
               PROVE  Means(q, RLift(q, 1, v), {1}, Only(q, 1, v))
    BY <1>2 DEF LiftLaw
  <2>1. Only(q, 1, v) \in Counts(q, {1}) /\ SumFunction(Only(q, 1, v)) = 1
    BY <1>2, SumsOfOnly
  <2>2. Linear(q, {1}, g, Only(q, 1, v)) = IF v \in RQ!High THEN 1 ELSE 0
    <3>1. Linear(q, {1}, g, Only(q, 1, v)) = g[1][v]
      BY <1>1, <1>2, LinearOfOnly
    <3> QED
      BY <3>1 DEF g, HighBit
  <2>3. Linear(q, {1}, k, Only(q, 1, v)) = IF v \in RQ!High THEN 0 ELSE 1
    <3>1. Linear(q, {1}, k, Only(q, 1, v)) = k[1][v]
      BY <1>1, <1>2, LinearOfOnly
    <3> QED
      BY <3>1 DEF k, LowBit
  <2>4. RLift(q, 1, v) = [count |-> 1, high_line_count |-> IF v \in RQ!High THEN 1 ELSE 0,
                          low_line_count |-> IF v \in RQ!High THEN 0 ELSE 1]
    BY DEF PriorityQuery, RQ!Lift12, RQ!Payload12
  <2> QED
    BY <1>2, <2>1, <2>2, <2>3, <2>4, PrioritiesMean DEF PrioritiesOf, g, k
<1>5. ASSUME NEW X \in SUBSET Indices(q), NEW Y \in SUBSET Indices(q), X \cap Y = {}, 1 \in X,
             NEW c \in Counts(q, X), NEW d \in Counts(q, Y), NEW p, Means(q, p, X, c)
      PROVE  Means(q, RScale(q, SumFunction(d), p), X \cup Y, Cross(q, X, Y, c, d))
  <2> DEFINE m == Cross(q, X, Y, c, d)
             n == SumFunction(d)
  <2>1. m \in Counts(q, X \cup Y) /\ SumFunction(m) = SumFunction(c) * n
    <3>1. m \in Counts(q, X \cup Y) /\ SumsMultiply(q, X, Y, c, d)
      BY <1>5, CrossSum
    <3> QED
      BY <3>1 DEF SumsMultiply
  <2>2. Linear(q, X \cup Y, g, m) = n * Linear(q, X, g, c) /\ Linear(q, X \cup Y, k, m) = n * Linear(q, X, k, c)
    <3>1. ~HasLifted(q, Y)
      BY <1>2, <1>5
    <3>2. Scales(q, X, Y, g, c, d) /\ Scales(q, X, Y, k, c, d)
      BY <1>1, <1>5, <3>1, LinearScaled
    <3> QED
      BY <3>2 DEF Scales
  <2>3. p.count = SumFunction(c) /\ p.high_line_count = Linear(q, X, g, c) /\ p.low_line_count = Linear(q, X, k, c)
    BY <1>5, PrioritiesMean DEF PrioritiesOf, g, k
  <2>4. n \in Int /\ p.count \in Int /\ p.high_line_count \in Int /\ p.low_line_count \in Int
    BY <1>1, <2>3, LinearType
  <2>5. RScale(q, n, p) = RQ!Scale12(n, p)
    BY DEF PriorityQuery
  <2> HIDE DEF m, n
  <2>6. SumFunction(m) = n * p.count
    BY <2>1, <2>3, <2>4
  <2>7. PrioritiesOf(q, RScale(q, n, p), X \cup Y, m)
    <3>1. CASE n = 1
      <4>1. \A i \in Int : 1 * i = i
        OBVIOUS
      <4>2. RScale(q, n, p) = p
        BY <2>5, <3>1 DEF RQ!Scale12
      <4>3. SumFunction(m) = p.count
        BY <2>4, <2>6, <3>1, <4>1
      <4>4. Linear(q, X \cup Y, g, m) = p.high_line_count /\ Linear(q, X \cup Y, k, m) = p.low_line_count
        BY <2>2, <2>3, <2>4, <3>1, <4>1
      <4> QED
        BY <4>2, <4>3, <4>4 DEF PrioritiesOf, g, k
    <3>2. CASE n # 1
      <4>1. RScale(q, n, p) = [count |-> n * p.count, high_line_count |-> n * p.high_line_count,
                               low_line_count |-> n * p.low_line_count]
        BY <2>5, <3>2 DEF RQ!Scale12, RQ!Payload12
      <4> QED
        BY <2>2, <2>3, <2>6, <4>1 DEF PrioritiesOf, g, k
    <3> QED
      BY <3>1, <3>2
  <2> QED
    BY <1>5, <2>1, <2>7, PrioritiesMean DEF m, n
<1>6. ScaleLaw(q)
  BY <1>2, <1>5 DEF ScaleLaw
<1>7. TimesLaw(q)
  BY <1>2 DEF TimesLaw
<1>8. PlusLaw(q)
  <2> SUFFICES ASSUME NEW X \in Kept(q), NEW c \in Counts(q, X), NEW d \in Counts(q, X), NEW p, NEW r,
                      OneSign(q, X, d), Means(q, p, X, c), Means(q, r, X, d)
               PROVE  Means(q, RPlus(q, p, r), X, Added(q, X, c, d))
    BY DEF PlusLaw
  <2>1. X \in SUBSET Indices(q) /\ 1 \in X
    BY <1>2
  <2>2. p.count = SumFunction(c) /\ p.high_line_count = Linear(q, X, g, c) /\ p.low_line_count = Linear(q, X, k, c)
    BY <2>1, PrioritiesMean DEF PrioritiesOf, g, k
  <2>3. r.count = SumFunction(d) /\ r.high_line_count = Linear(q, X, g, d) /\ r.low_line_count = Linear(q, X, k, d)
    BY <2>1, PrioritiesMean DEF PrioritiesOf, g, k
  <2>4. RPlus(q, p, r) = RQ!Plus12(p, r)
    BY DEF PriorityQuery
  <2>5. CASE r.count = 0
    <3>1. Added(q, X, c, d) = c
      BY <2>1, <2>3, <2>5, AddedNone
    <3>2. RPlus(q, p, r) = p
      BY <2>4, <2>5 DEF RQ!Plus12, RQ!IsZero12
    <3> QED
      BY <3>1, <3>2
  <2>6. CASE r.count # 0
    <3>1. /\ Added(q, X, c, d) \in Counts(q, X)
          /\ SumFunction(Added(q, X, c, d)) = SumFunction(c) + SumFunction(d)
      BY <2>1, AddedType
    <3>2. /\ Linear(q, X, g, Added(q, X, c, d)) = Linear(q, X, g, c) + Linear(q, X, g, d)
          /\ Linear(q, X, k, Added(q, X, c, d)) = Linear(q, X, k, c) + Linear(q, X, k, d)
      BY <1>1, <2>1, LinearOfAdded
    <3>3. RPlus(q, p, r) = [count |-> p.count + r.count, high_line_count |-> p.high_line_count + r.high_line_count,
                            low_line_count |-> p.low_line_count + r.low_line_count]
      BY <2>4, <2>6 DEF RQ!Plus12, RQ!IsZero12, RQ!Payload12
    <3>4. PrioritiesOf(q, RPlus(q, p, r), X, Added(q, X, c, d))
      BY <2>2, <2>3, <3>1, <3>2, <3>3 DEF PrioritiesOf, g, k
    <3> QED
      BY <2>1, <3>1, <3>4, PrioritiesMean
  <2> QED
    BY <2>5, <2>6
<1>9. AssignLaw(q)
  BY DEF AssignLaw, PriorityQuery
<1>10. IsZeroLaw(q)
  <2>1. ASSUME NEW r \in LiftedIn(q) \ {0}, NEW c \in Counts(q, {r}), NEW p, Means(q, p, {r}, c)
        PROVE  RIsZero(q, p) <=> SumFunction(c) = 0
    <3>1. r = 1 /\ 1 \in {r}
      BY <1>2
    <3>2. p.count = SumFunction(c)
      BY <1>2, <2>1, <3>1, PrioritiesMean DEF PrioritiesOf
    <3> QED
      BY <3>2 DEF PriorityQuery, RQ!IsZero12
  <2>2. \A r, v : ~RIsZero(q, RLift(q, r, v))
    BY DEF PriorityQuery, RQ!IsZero12, RQ!Lift12, RQ!Payload12
  <2> QED
    BY <1>3, <2>1, <2>2, CountIsZeroLaw DEF ZeroByCount
<1>11. JoinLaw(q)
  <2> SUFFICES ASSUME NEW j \in KeysOf(q), NEW c \in Counts(q, 1..Size(q)), NEW p,
                      Means(q, p, 1..Size(q), c)
               PROVE  Means(q, p, Indices(q), Cross(q, 1..Size(q), {0}, c, Only(q, 0, j)))
    BY DEF JoinLaw
  <2> DEFINE X == 1..Size(q)
             Y == {0}
             d == Only(q, 0, j)
  <2>1. /\ X \in SUBSET Indices(q) /\ Y \in SUBSET Indices(q) /\ X \cap Y = {} /\ X \cup Y = Indices(q)
        /\ 0 \in Indices(q) /\ 1 \in X
    BY SizeType DEF Indices
  <2>2. d \in Counts(q, Y) /\ SumFunction(d) = 1
    BY <2>1, SumsOfOnly DEF ValuesAt
  <2>3. RScale(q, 1, p) = p
    BY DEF PriorityQuery, RQ!Scale12
  <2> HIDE DEF X, Y, d
  <2>4. Means(q, RScale(q, SumFunction(d), p), X \cup Y, Cross(q, X, Y, c, d))
    BY <1>5, <2>1, <2>2 DEF X
  <2> QED
    BY <2>1, <2>2, <2>3, <2>4 DEF X, Y, d
<1> QED
  BY <1>3, <1>4, <1>6, <1>7, <1>8, <1>9, <1>10, <1>11 DEF RingLaws

-----------------------------------------------------------------------------
(* TPCH query 1: every value is the function of the expressions.           *)
ExpressionQuery(q) ==
  /\ LiftedIn(q) = Indices(q) \ {0}
  /\ \A i \in LiftedIn(q) : ValuesAt(q, i) \subseteq [RQ!Sums01 -> Int]
  /\ \A r : RZero(q, r) = RQ!Zero01(r)
  /\ RStart(q) = {RQ!Zero01(0)}
  /\ \A r, v : RLift(q, r, v) = RQ!Lift01(r, v)
  /\ \A p, r : RPlus(q, p, r) = RQ!Plus01(p, r) /\ RTimes(q, p, r) = RQ!Times01(p, r)
  /\ \A r, p : RAssign(q, r, p) = p
  /\ \A n, p : RScale(q, n, p) = RQ!Scale01(n, p)
  /\ \A p : RIsZero(q, p) <=> RQ!IsZero01(p)
  /\ \A p, X, m : RMeans(q, p, X, m) <=> RQ!Means01(p, X, m)

Field(q, f) == [i \in LiftedIn(q) |-> [v \in ValuesAt(q, i) |-> v[f]]]

AveragesAgree(p) ==
  \A f \in RQ!Averaged01 : RQ!SameQuotient(p.avg[f], RQ!Quotient(p.sum[f], p.count_order))

SumsOf01(q, p, X, c) ==
  /\ p.count_order = SumFunction(c)
  /\ \A f \in RQ!Sums01 : p.sum[f] = Linear(q, X, Field(q, f), c)
  /\ AveragesAgree(p)

LEMMA FieldsOK ==
  ASSUME NEW q \in Query, ExpressionQuery(q), NEW f \in RQ!Sums01
  PROVE  LiftsOK(q, Field(q, f))
<1> SUFFICES ASSUME NEW i \in LiftedIn(q), NEW v \in ValuesAt(q, i)
             PROVE  Field(q, f)[i][v] \in Int
  BY DEF LiftsOK
<1>1. v \in [RQ!Sums01 -> Int]
  BY DEF ExpressionQuery
<1>2. Field(q, f)[i][v] = v[f]
  BY DEF Field
<1> QED
  BY <1>1, <1>2

LEMMA SumsOfBag01 ==
  ASSUME NEW q \in Query, ExpressionQuery(q), NEW X \in SUBSET Indices(q), NEW c \in Counts(q, X),
         NEW f \in RQ!Sums01
  PROVE  RQ!Total(Bag(q, X, c), LAMBDA a : RQ!SumFunction([i \in X \ {0} |-> a[i][f]])) =
           Linear(q, X, Field(q, f), c)
<1> DEFINE m == Bag(q, X, c)
           w == Weight(q, X, Field(q, f))
<1>1. \A a \in DOMAIN m : a \in Tuples(q, X)
  BY DEF Bag
<1>2. ASSUME NEW a \in DOMAIN m
      PROVE  RQ!SumFunction([i \in X \ {0} |-> a[i][f]]) = w[a]
  <2>1. \A i \in X : a[i] \in ValuesAt(q, i)
    BY <1>1, TuplesAre
  <2>2. X \cap LiftedIn(q) = X \ {0}
    BY DEF ExpressionQuery
  <2>3. Lifts(q, X, Field(q, f), a) = [i \in X \ {0} |-> a[i][f]]
    BY <2>1, <2>2 DEF Lifts, Field
  <2>4. w[a] = SumFunction(Lifts(q, X, Field(q, f), a))
    BY <1>1 DEF Weight
  <2> HIDE DEF w
  <2> QED
    BY <2>3, <2>4, SameSumOf
<1>3. RQ!Total(m, LAMBDA a : RQ!SumFunction([i \in X \ {0} |-> a[i][f]])) =
        SumFunction([a \in DOMAIN m |-> m[a] * RQ!SumFunction([i \in X \ {0} |-> a[i][f]])])
  BY SameSumOf DEF RQ!Total
<1>4. [a \in DOMAIN m |-> m[a] * RQ!SumFunction([i \in X \ {0} |-> a[i][f]])] = [a \in DOMAIN m |-> m[a] * w[a]]
  <2> HIDE DEF m, w
  <2> QED
    BY <1>2
<1>5. BagSum(q, X, c, w) = SumOver(q, X, c, w)
  <2>1. w \in Counts(q, X)
    BY FieldsOK, WeightType
  <2> HIDE DEF w
  <2> QED
    BY <2>1, SupportSum
<1> QED
  BY <1>3, <1>4, <1>5 DEF BagSum, Linear

LEMMA SumsMean01 ==
  ASSUME NEW q \in Query, ExpressionQuery(q), NEW X \in SUBSET Indices(q), NEW c \in Counts(q, X), NEW p
  PROVE  Means(q, p, X, c) <=> SumsOf01(q, p, X, c)
<1>1. RQ!Means01(p, X, Bag(q, X, c)) <=> SumsOf01(q, p, X, c)
  BY SumsOfBag01, CountOfBag DEF RQ!Means01, SumsOf01, AveragesAgree
<1>2. RMeans(q, p, X, Bag(q, X, c)) <=> RQ!Means01(p, X, Bag(q, X, c))
  BY DEF ExpressionQuery
<1> QED
  BY <1>1, <1>2 DEF Means

(* The averages are computed anew.                                         *)
LEMMA PayloadIs ==
  ASSUME NEW n, NEW s
  PROVE  /\ RQ!Payload01(n, s).count_order = n /\ RQ!Payload01(n, s).sum = s
         /\ AveragesAgree(RQ!Payload01(n, s))
BY DEF RQ!Payload01, RQ!Averages01, AveragesAgree, RQ!SameQuotient

(* And TPCH1Payload: its averages are computed anew from the sums, or kept *)
(* with them.                                                              *)
THEOREM Query01IsLawful ==
  ASSUME NEW q \in Query, ExpressionQuery(q)
  PROVE  RingLaws(q)
<1>1. \A f \in RQ!Sums01 : LiftsOK(q, Field(q, f))
  BY FieldsOK
<1>2. \A r \in LiftedIn(q) : r \in Indices(q) /\ {r} \in SUBSET Indices(q)
  BY SizeType
<1>3. ASSUME NEW X \in SUBSET Indices(q), NEW r
      PROVE  Means(q, RQ!Zero01(r), X, Nothing(q, X))
  <2>1. Nothing(q, X) \in Counts(q, X) /\ SumFunction(Nothing(q, X)) = 0
    BY SumsOfNothing
  <2>2. \A f \in RQ!Sums01 : Linear(q, X, Field(q, f), Nothing(q, X)) = 0
    BY <1>1, LinearOfNothing
  <2>3. /\ RQ!Zero01(r).count_order = 0 /\ AveragesAgree(RQ!Zero01(r))
        /\ \A f \in RQ!Sums01 : RQ!Zero01(r).sum[f] = 0
    BY PayloadIs DEF RQ!Zero01
  <2> QED
    BY <2>1, <2>2, <2>3, SumsMean01 DEF SumsOf01
<1>4. ZeroLaw(q)
  <2>1. /\ \A r : RZero(q, r) = RQ!Zero01(r)
        /\ RStart(q) = {RQ!Zero01(0)} /\ Indices(q) \in SUBSET Indices(q)
    BY DEF ExpressionQuery
  <2> QED
    BY <1>2, <1>3, <2>1 DEF ZeroLaw
<1>5. LiftLaw(q)
  <2> SUFFICES ASSUME NEW i \in LiftedIn(q), NEW v \in ValuesAt(q, i)
               PROVE  Means(q, RLift(q, i, v), {i}, Only(q, i, v))
    BY DEF LiftLaw
  <2>1. Only(q, i, v) \in Counts(q, {i}) /\ SumFunction(Only(q, i, v)) = 1
    BY <1>2, SumsOfOnly
  <2>2. ASSUME NEW f \in RQ!Sums01
        PROVE  Linear(q, {i}, Field(q, f), Only(q, i, v)) = v[f]
    <3>1. Linear(q, {i}, Field(q, f), Only(q, i, v)) = Field(q, f)[i][v]
      BY <1>1, LinearOfOnly
    <3> QED
      BY <3>1 DEF Field
  <2>3. RLift(q, i, v) = RQ!Payload01(1, v)
    BY DEF ExpressionQuery, RQ!Lift01
  <2>4. SumsOf01(q, RLift(q, i, v), {i}, Only(q, i, v))
    BY <2>1, <2>2, <2>3, PayloadIs DEF SumsOf01
  <2> QED
    BY <1>2, <2>1, <2>4, SumsMean01
<1>6. ASSUME NEW X \in SUBSET Indices(q), NEW Y \in SUBSET Indices(q), X \cap Y = {}, ~HasLifted(q, Y),
             NEW c \in Counts(q, X), NEW d \in Counts(q, Y), NEW p, Means(q, p, X, c)
      PROVE  Means(q, RScale(q, SumFunction(d), p), X \cup Y, Cross(q, X, Y, c, d))
  <2> DEFINE m == Cross(q, X, Y, c, d)
             n == SumFunction(d)
  <2>1. m \in Counts(q, X \cup Y) /\ SumFunction(m) = SumFunction(c) * n
    <3>1. m \in Counts(q, X \cup Y) /\ SumsMultiply(q, X, Y, c, d)
      BY <1>6, CrossSum
    <3> QED
      BY <3>1 DEF SumsMultiply
  <2>2. p.count_order = SumFunction(c) /\ AveragesAgree(p)
    BY <1>6, SumsMean01 DEF SumsOf01
  <2>3. n \in Int /\ p.count_order \in Int
    BY <2>2, TuplesFinite, SumType DEF Counts
  <2>4. ASSUME NEW f \in RQ!Sums01
        PROVE  p.sum[f] \in Int /\ Linear(q, X \cup Y, Field(q, f), m) = n * p.sum[f]
    <3>1. p.sum[f] = Linear(q, X, Field(q, f), c)
      BY <1>6, SumsMean01 DEF SumsOf01
    <3>2. p.sum[f] \in Int
      BY <1>1, <3>1, LinearType
    <3>3. Scales(q, X, Y, Field(q, f), c, d)
      BY <1>1, <1>6, LinearScaled
    <3> QED
      BY <3>1, <3>2, <3>3 DEF Scales
  <2>5. RScale(q, n, p) = RQ!Scale01(n, p)
    BY DEF ExpressionQuery
  <2> HIDE DEF m, n
  <2>6. SumFunction(m) = n * p.count_order
    BY <2>1, <2>2, <2>3
  <2>7. CASE n = 1
    <3>1. \A i \in Int : 1 * i = i
      OBVIOUS
    <3>2. RScale(q, n, p) = p
      BY <2>5, <2>7 DEF RQ!Scale01
    <3>3. SumFunction(m) = p.count_order
      BY <2>3, <2>6, <2>7, <3>1
    <3>4. \A f \in RQ!Sums01 : Linear(q, X \cup Y, Field(q, f), m) = p.sum[f]
      BY <2>4, <2>7, <3>1
    <3>5. SumsOf01(q, p, X \cup Y, m)
      BY <2>2, <3>3, <3>4 DEF SumsOf01
    <3> QED
      BY <1>6, <2>1, <3>2, <3>5, SumsMean01 DEF m, n
  <2>8. CASE n # 1
    <3> DEFINE s == [f \in RQ!Sums01 |-> n * p.sum[f]]
               k == n * p.count_order
    <3>1. RScale(q, n, p) = RQ!Payload01(k, s)
      BY <2>5, <2>8 DEF RQ!Scale01
    <3>2. \A f \in RQ!Sums01 : s[f] = Linear(q, X \cup Y, Field(q, f), m)
      BY <2>4
    <3>3. SumFunction(m) = k
      BY <2>6
    <3> HIDE DEF s, k
    <3>4. /\ RScale(q, n, p).count_order = k /\ RScale(q, n, p).sum = s
          /\ AveragesAgree(RScale(q, n, p))
      BY <3>1, PayloadIs
    <3>5. SumsOf01(q, RScale(q, n, p), X \cup Y, m)
      BY <3>2, <3>3, <3>4 DEF SumsOf01
    <3> QED
      BY <1>6, <2>1, <3>5, SumsMean01 DEF m, n
  <2> QED
    BY <2>7, <2>8
<1>7. ScaleLaw(q)
  BY <1>6 DEF ScaleLaw
<1>8. TimesLaw(q)
  <2> SUFFICES ASSUME NEW X \in SUBSET Indices(q), NEW Y \in SUBSET Indices(q),
                      NEW c \in Counts(q, X), NEW d \in Counts(q, Y), NEW p, NEW r,
                      X \cap Y = {}, OneSign(q, X, c), OneSign(q, Y, d), Means(q, p, X, c), Means(q, r, Y, d)
               PROVE  Means(q, RTimes(q, p, r), X \cup Y, Cross(q, X, Y, c, d))
    BY DEF TimesLaw
  <2> DEFINE m == Cross(q, X, Y, c, d)
             s == [f \in RQ!Sums01 |-> p.count_order * r.sum[f] + r.count_order * p.sum[f]]
  <2>1. m \in Counts(q, X \cup Y) /\ SumFunction(m) = SumFunction(c) * SumFunction(d)
    <3>1. m \in Counts(q, X \cup Y) /\ SumsMultiply(q, X, Y, c, d)
      BY CrossSum
    <3> QED
      BY <3>1 DEF SumsMultiply
  <2>2. p.count_order = SumFunction(c) /\ r.count_order = SumFunction(d)
    BY SumsMean01 DEF SumsOf01
  <2>3. RTimes(q, p, r) = RQ!Times01(p, r)
    BY DEF ExpressionQuery
  <2>4. CASE p.count_order = 0 \/ r.count_order = 0
    <3>1. RTimes(q, p, r) = RQ!Zero01(1)
      BY <2>3, <2>4 DEF RQ!Times01, RQ!IsZero01
    <3>2. m = Nothing(q, X \cup Y)
      BY <2>2, <2>4, CrossNone
    <3> HIDE DEF m
    <3>3. Means(q, RQ!Zero01(1), X \cup Y, m)
      BY <1>3, <3>2
    <3> QED
      BY <3>1, <3>3 DEF m
  <2>5. CASE p.count_order # 0 /\ r.count_order # 0
    <3> DEFINE k == p.count_order * r.count_order
    <3>1. RTimes(q, p, r) = RQ!Payload01(k, s)
      BY <2>3, <2>5 DEF RQ!Times01, RQ!IsZero01
    <3>2. ASSUME NEW f \in RQ!Sums01
          PROVE  s[f] = Linear(q, X \cup Y, Field(q, f), m)
      <4>1. p.sum[f] = Linear(q, X, Field(q, f), c) /\ r.sum[f] = Linear(q, Y, Field(q, f), d)
        BY SumsMean01 DEF SumsOf01
      <4>2. Distributes(q, X, Y, Field(q, f), c, d)
        BY <1>1, LinearCross
      <4> QED
        BY <2>2, <4>1, <4>2 DEF Distributes
    <3>3. SumFunction(m) = k
      BY <2>1, <2>2
    <3> HIDE DEF s, m, k
    <3>4. SumsOf01(q, RTimes(q, p, r), X \cup Y, m)
      BY <3>1, <3>2, <3>3, PayloadIs DEF SumsOf01
    <3> QED
      BY <2>1, <3>4, SumsMean01 DEF m
  <2> QED
    BY <2>4, <2>5
<1>9. PlusLaw(q)
  <2> SUFFICES ASSUME NEW X \in Kept(q), NEW c \in Counts(q, X), NEW d \in Counts(q, X), NEW p, NEW r,
                      OneSign(q, X, d), Means(q, p, X, c), Means(q, r, X, d)
               PROVE  Means(q, RPlus(q, p, r), X, Added(q, X, c, d))
    BY DEF PlusLaw
  <2> DEFINE s == [f \in RQ!Sums01 |-> p.sum[f] + r.sum[f]]
  <2>1. X \in SUBSET Indices(q)
    BY <1>2 DEF Kept
  <2>2. p.count_order = SumFunction(c) /\ r.count_order = SumFunction(d)
    BY <2>1, SumsMean01 DEF SumsOf01
  <2>3. RPlus(q, p, r) = RQ!Plus01(p, r)
    BY DEF ExpressionQuery
  <2>4. CASE r.count_order = 0
    <3>1. Added(q, X, c, d) = c
      BY <2>1, <2>2, <2>4, AddedNone
    <3>2. RPlus(q, p, r) = p
      BY <2>3, <2>4 DEF RQ!Plus01, RQ!IsZero01
    <3> QED
      BY <3>1, <3>2
  <2>5. CASE r.count_order # 0
    <3>1. /\ Added(q, X, c, d) \in Counts(q, X)
          /\ SumFunction(Added(q, X, c, d)) = SumFunction(c) + SumFunction(d)
      BY <2>1, AddedType
    <3>2. RPlus(q, p, r) = RQ!Payload01(p.count_order + r.count_order, s)
      BY <2>3, <2>5 DEF RQ!Plus01, RQ!IsZero01
    <3>3. ASSUME NEW f \in RQ!Sums01
          PROVE  s[f] = Linear(q, X, Field(q, f), Added(q, X, c, d))
      <4>1. p.sum[f] = Linear(q, X, Field(q, f), c) /\ r.sum[f] = Linear(q, X, Field(q, f), d)
        BY <2>1, SumsMean01 DEF SumsOf01
      <4>2. Linear(q, X, Field(q, f), Added(q, X, c, d)) =
              Linear(q, X, Field(q, f), c) + Linear(q, X, Field(q, f), d)
        BY <1>1, <2>1, LinearOfAdded
      <4> QED
        BY <4>1, <4>2
    <3> HIDE DEF s
    <3>4. SumsOf01(q, RPlus(q, p, r), X, Added(q, X, c, d))
      BY <2>2, <3>1, <3>2, <3>3, PayloadIs DEF SumsOf01
    <3> QED
      BY <2>1, <3>1, <3>4, SumsMean01
  <2> QED
    BY <2>4, <2>5
<1>10. AssignLaw(q)
  BY DEF AssignLaw, ExpressionQuery
<1>11. IsZeroLaw(q)
  <2>1. ASSUME NEW r \in LiftedIn(q) \ {0}, NEW c \in Counts(q, {r}), NEW p, Means(q, p, {r}, c)
        PROVE  RIsZero(q, p) <=> SumFunction(c) = 0
    <3>1. p.count_order = SumFunction(c)
      BY <1>2, <2>1, SumsMean01 DEF SumsOf01
    <3> QED
      BY <3>1 DEF ExpressionQuery, RQ!IsZero01
  <2>2. ASSUME NEW r, NEW v
        PROVE  ~RIsZero(q, RLift(q, r, v))
    <3>1. RLift(q, r, v).count_order = 1
      BY PayloadIs DEF ExpressionQuery, RQ!Lift01
    <3> QED
      BY <3>1 DEF ExpressionQuery, RQ!IsZero01
  <2> QED
    BY <1>4, <2>1, <2>2, CountIsZeroLaw DEF ZeroByCount
<1>12. JoinLaw(q)
  <2> SUFFICES ASSUME NEW j \in KeysOf(q), NEW c \in Counts(q, 1..Size(q)), NEW p,
                      Means(q, p, 1..Size(q), c)
               PROVE  Means(q, p, Indices(q), Cross(q, 1..Size(q), {0}, c, Only(q, 0, j)))
    BY DEF JoinLaw
  <2> DEFINE X == 1..Size(q)
             Y == {0}
             d == Only(q, 0, j)
  <2>1. /\ X \in SUBSET Indices(q) /\ Y \in SUBSET Indices(q) /\ X \cap Y = {} /\ X \cup Y = Indices(q)
        /\ 0 \in Indices(q) /\ ~HasLifted(q, Y)
    BY SizeType DEF Indices, HasLifted, ExpressionQuery
  <2>2. d \in Counts(q, Y) /\ SumFunction(d) = 1
    BY <2>1, SumsOfOnly DEF ValuesAt
  <2>3. RScale(q, 1, p) = p
    BY DEF ExpressionQuery, RQ!Scale01
  <2> HIDE DEF X, Y, d
  <2>4. Means(q, RScale(q, SumFunction(d), p), X \cup Y, Cross(q, X, Y, c, d))
    BY <1>6, <2>1, <2>2 DEF X
  <2> QED
    BY <2>1, <2>2, <2>3, <2>4 DEF X, Y, d
<1> QED
  BY <1>4, <1>5, <1>7, <1>8, <1>9, <1>10, <1>11, <1>12 DEF RingLaws

-----------------------------------------------------------------------------

(* So the views and the root of a query that learns over continuous        *)
(* variables, averages, or is TPC-H 1 or 12 stay right.                    *)
THEOREM PayloadsStayRight ==
  ASSUME \A q \in Query : \/ \E vs : CofactorQuery(q, vs)
                         \/ AverageQuery(q)
                         \/ PriorityQuery(q)
                         \/ ExpressionQuery(q)
  PROVE  Spec => [](ViewsMean /\ RootMeans)
<1>1. \A q \in Query : RingLaws(q)
  BY CofactorsAreLawful, AveragesAreLawful, Query12IsLawful, Query01IsLawful
<1>2. Spec => []ViewsMean
  BY <1>1, ViewsStayRight
<1>3. Spec => []RootMeans
  BY <1>1, RootStaysRight
<1> QED
  BY <1>2, <1>3, PTL
=============================================================================
