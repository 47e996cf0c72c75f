--------------------------- MODULE RingCategorical ---------------------------
(***************************************************************************)
(* The payloads of learning queries with categorical variables,            *)
(* ring/ring_cofactor_degree1_categorical.hpp: for continuous variables    *)
(* sums of values and products, for categorical ones maps from values to   *)
(* sums.  A variable is known by its number; the arrays become functions   *)
(* of the variables, over integers.                                        *)
(***************************************************************************)
EXTENDS Integers, FiniteSetsExt, Functions


(* An unordered_map with one entry, and without.                           *)
Entry(k, x) == [i \in {k} |-> x]
EmptyMap == [i \in {} |-> 0]
At(m, k) == IF k \in DOMAIN m THEN m[k] ELSE 0

(* operator+= of maps; sums that become zero stay.                         *)
AddMaps(m, n) == [k \in DOMAIN m \cup DOMAIN n |-> At(m, k) + At(n, k)]

(* operator* of maps: all pairs of keys.                                   *)
MultiplyMaps(m, n) == [p \in (DOMAIN m) \X (DOMAIN n) |-> m[p[1]] * n[p[2]]]

ScaleMap(alpha, m) == [k \in DOMAIN m |-> alpha * m[k]]

(* The pairs i < j of an array of degree 2.                                *)
Pairs(X) == {p \in X \X X : p[1] < p[2]}

ContOf(c) == DOMAIN c.cont_sum1
CatOf(c) == DOMAIN c.cat_sum1
VarsOf(c) == ContOf(c) \cup CatOf(c)

(* RingCofactor() sets the count only: the sums of the continuous          *)
(* variables are what the memory held, here x for each of them; unset is   *)
(* not part of the payload and remembers x.                                *)
DefaultIn(x, C, K) ==
  [count |-> 0, unset |-> x,
   cont_sum1 |-> [i \in C |-> x], cont_sum2 |-> [i \in C |-> x],
   cont_degree2 |-> [p \in Pairs(C) |-> x],
   cat_sum1 |-> [i \in K |-> EmptyMap], cat_sum2 |-> [i \in K |-> EmptyMap],
   cat_degree2 |-> [p \in Pairs(K) |-> EmptyMap],
   cont_cat_degree2 |-> [p \in C \X K |-> EmptyMap]]

(* The default of memory that held anything but zeros.                     *)
Unset == 7
ZeroOver(C, K) == DefaultIn(Unset, C, K)

(* Uliftcont: the constructor from continuous values.                      *)
Uliftcont(a) ==
  [DefaultIn(0, DOMAIN a, {}) EXCEPT
     !.count = 1, !.cont_sum1 = a, !.cont_sum2 = [i \in DOMAIN a |-> a[i] * a[i]],
     !.cont_degree2 = [p \in Pairs(DOMAIN a) |-> a[p[1]] * a[p[2]]]]

(* Uliftcat: the constructor from categorical values.                      *)
Uliftcat(a) ==
  LET one == [i \in DOMAIN a |-> Entry(a[i], 1)]
  IN  [DefaultIn(0, {}, DOMAIN a) EXCEPT
         !.count = 1, !.cat_sum1 = one, !.cat_sum2 = one,
         !.cat_degree2 = [p \in Pairs(DOMAIN a) |-> MultiplyMaps(one[p[1]], one[p[2]])]]

IsZeroCat(c) == c.count = 0

Added(c, d) ==
  LET sums(u, v) == [i \in DOMAIN u |-> u[i] + v[i]]
      maps(u, v) == [i \in DOMAIN u |-> AddMaps(u[i], v[i])]
  IN  [count |-> c.count + d.count, unset |-> c.unset + d.unset,
       cont_sum1 |-> sums(c.cont_sum1, d.cont_sum1),
       cont_sum2 |-> sums(c.cont_sum2, d.cont_sum2),
       cont_degree2 |-> sums(c.cont_degree2, d.cont_degree2),
       cat_sum1 |-> maps(c.cat_sum1, d.cat_sum1), cat_sum2 |-> maps(c.cat_sum2, d.cat_sum2),
       cat_degree2 |-> maps(c.cat_degree2, d.cat_degree2),
       cont_cat_degree2 |-> maps(c.cont_cat_degree2, d.cont_cat_degree2)]

(* operator+=                                                              *)
PlusCat(c, d) == IF IsZeroCat(d) THEN c ELSE Added(c, d)

(* The part of a product that has the sum of one factor times the count of *)
(* the other, for i in the arrays u of c or v of d, and across otherwise.  *)
Part(c, d, u, v, scale(_, _), i, across) ==
  CASE i \in DOMAIN u -> scale(d.count, u[i])
    [] i \in DOMAIN v -> scale(c.count, v[i])
    [] OTHER -> across

(* Mutant: a continuous variable of d is combined with the categorical     *)
(* ones of d only.                                                         *)
ContTimesCatOneWay(c, d, p) ==
  IF p[1] \in ContOf(c) THEN ScaleMap(c.cont_sum1[p[1]], d.cat_sum1[p[2]]) ELSE EmptyMap

(* CONT_i * CAT_j of variables of different factors.                       *)
ContTimesCat(c, d, p) ==
  IF p[1] \in ContOf(c) THEN ScaleMap(c.cont_sum1[p[1]], d.cat_sum1[p[2]])
  ELSE ScaleMap(d.cont_sum1[p[1]], c.cat_sum1[p[2]])

(* multiply: the variables of c come before those of d.                    *)
Multiply(c, d) ==
  LET C == ContOf(c) \cup ContOf(d)
      K == CatOf(c) \cup CatOf(d)
      num(a, x) == a * x
  IN  [count |-> c.count * d.count, unset |-> 0,
       cont_sum1 |-> [i \in C |-> Part(c, d, c.cont_sum1, d.cont_sum1, num, i, 0)],
       cont_sum2 |-> [i \in C |-> Part(c, d, c.cont_sum2, d.cont_sum2, num, i, 0)],
       cont_degree2 |->
         [p \in Pairs(C) |-> Part(c, d, c.cont_degree2, d.cont_degree2, num, p,
                                  c.cont_sum1[p[1]] * d.cont_sum1[p[2]])],
       cat_sum1 |-> [i \in K |-> Part(c, d, c.cat_sum1, d.cat_sum1, ScaleMap, i, EmptyMap)],
       cat_sum2 |-> [i \in K |-> Part(c, d, c.cat_sum2, d.cat_sum2, ScaleMap, i, EmptyMap)],
       cat_degree2 |->
         [p \in Pairs(K) |-> Part(c, d, c.cat_degree2, d.cat_degree2, ScaleMap, p,
                                  MultiplyMaps(c.cat_sum1[p[1]], d.cat_sum1[p[2]]))],
       cont_cat_degree2 |->
         [p \in C \X K |-> Part(c, d, c.cont_cat_degree2, d.cont_cat_degree2, ScaleMap, p,
                                ContTimesCat(c, d, p))]]

(* operator*: the payload with the lower index first.                      *)
TimesCat(c, d) ==
  IF IsZeroCat(c) \/ IsZeroCat(d) THEN ZeroOver(ContOf(c) \cup ContOf(d), CatOf(c) \cup CatOf(d))
  ELSE IF Min(VarsOf(c)) < Min(VarsOf(d)) THEN Multiply(c, d) ELSE Multiply(d, c)

(* operator*(long), multiply(long)                                         *)
ScaleCat(alpha, c) ==
  LET sums(u) == [i \in DOMAIN u |-> alpha * u[i]]
      maps(u) == [i \in DOMAIN u |-> ScaleMap(alpha, u[i])]
  IN  IF alpha = 1 THEN c
      ELSE [count |-> alpha * c.count, unset |-> alpha * c.unset,
            cont_sum1 |-> sums(c.cont_sum1), cont_sum2 |-> sums(c.cont_sum2),
            cont_degree2 |-> sums(c.cont_degree2),
            cat_sum1 |-> maps(c.cat_sum1), cat_sum2 |-> maps(c.cat_sum2),
            cat_degree2 |-> maps(c.cat_degree2),
            cont_cat_degree2 |-> maps(c.cont_cat_degree2)]

-----------------------------------------------------------------------------
(* What a payload stands for: sums over the tuples of the bag m, a(i)      *)
(* being the value of variable i in tuple a, and what was in the memory    *)
(* before.                                                                 *)

Total(m, f(_)) == MapThenSumSet(LAMBDA a : m[a] * f(a), DOMAIN m)

(* The map has, for each key, the sum of f over the tuples with that key.  *)
SumsBy(map, m, key(_), f(_)) ==
  \A k \in DOMAIN map \cup {key(a) : a \in DOMAIN m} :
    At(map, k) = Total(m, LAMBDA a : IF key(a) = k THEN f(a) ELSE 0)

CofactorOf(c, m, val(_, _)) ==
  /\ c.count = Total(m, LAMBDA a : 1)
  /\ \A i \in ContOf(c) :
       /\ c.cont_sum1[i] = c.unset + Total(m, LAMBDA a : val(a, i))
       /\ c.cont_sum2[i] = c.unset + Total(m, LAMBDA a : val(a, i) * val(a, i))
  /\ \A p \in DOMAIN c.cont_degree2 :
       c.cont_degree2[p] = c.unset + Total(m, LAMBDA a : val(a, p[1]) * val(a, p[2]))
  /\ \A i \in CatOf(c) :
       /\ SumsBy(c.cat_sum1[i], m, LAMBDA a : val(a, i), LAMBDA a : 1)
       /\ SumsBy(c.cat_sum2[i], m, LAMBDA a : val(a, i), LAMBDA a : 1)
  /\ \A p \in DOMAIN c.cat_degree2 :
       SumsBy(c.cat_degree2[p], m, LAMBDA a : <<val(a, p[1]), val(a, p[2])>>, LAMBDA a : 1)
  /\ \A p \in DOMAIN c.cont_cat_degree2 :
       SumsBy(c.cont_cat_degree2[p], m, LAMBDA a : val(a, p[2]), LAMBDA a : val(a, p[1]))
=============================================================================
