---------------------------- MODULE RingCofactor ----------------------------
(***************************************************************************)
(* The payloads of learning queries over continuous variables, over        *)
(* integers instead of doubles.                                            *)
(*                                                                         *)
(* ring/ring_cofactor_degree1.hpp: the number of tuples and the sums of    *)
(* the values of some variables, of their squares and of their products.   *)
(* The variables of a payload are a range of numbers, IDX to IDX + SZ - 1. *)
(***************************************************************************)
EXTENDS Integers, FiniteSetsExt, SequencesExt

(* The variables whose products degree2 holds, DEG2_SZ pairs.              *)
Pairs(X) == {p \in X \X X : p[1] < p[2]}

(* RingCofactor()                                                          *)
ZeroOf(X) ==
  [count |-> 0, sum1 |-> [i \in X |-> 0], sum2 |-> [i \in X |-> 0],
   degree2 |-> [p \in Pairs(X) |-> 0]]

VarsOf(c) == DOMAIN c.sum1

(* Ulift: the payload of one tuple with the values a.                      *)
Lift(a) ==
  [count |-> 1, sum1 |-> a, sum2 |-> [i \in DOMAIN a |-> a[i] * a[i]],
   degree2 |-> [p \in Pairs(DOMAIN a) |-> a[p[1]] * a[p[2]]]]

IsZero(c) == c.count = 0

Added(c, d) ==
  [count |-> c.count + d.count,
   sum1 |-> [i \in VarsOf(c) |-> c.sum1[i] + d.sum1[i]],
   sum2 |-> [i \in VarsOf(c) |-> c.sum2[i] + d.sum2[i]],
   degree2 |-> [p \in Pairs(VarsOf(c)) |-> c.degree2[p] + d.degree2[p]]]

(* operator+=                                                              *)
Plus(c, d) == IF IsZero(d) THEN c ELSE Added(c, d)

(* multiply: every tuple of c joins every tuple of d.  The variables of c  *)
(* come before those of d.                                                 *)
Multiply(c, d) ==
  LET X == VarsOf(c) \cup VarsOf(d)
      linear(u, v) == [i \in X |-> IF i \in VarsOf(c) THEN d.count * u[i] ELSE c.count * v[i]]
  IN  [count |-> c.count * d.count,
       sum1 |-> linear(c.sum1, d.sum1),
       sum2 |-> linear(c.sum2, d.sum2),
       degree2 |-> [p \in Pairs(X) |->
                      IF p \in DOMAIN c.degree2 THEN d.count * c.degree2[p]
                      ELSE IF p \in DOMAIN d.degree2 THEN c.count * d.degree2[p]
                      ELSE c.sum1[p[1]] * d.sum1[p[2]]]]

(* operator*: the payload with the lower variables is multiplied by the    *)
(* other.                                                                  *)
Times(c, d) ==
  IF IsZero(c) \/ IsZero(d) THEN ZeroOf(VarsOf(c) \cup VarsOf(d))
  ELSE IF Min(VarsOf(c)) < Min(VarsOf(d)) THEN Multiply(c, d) ELSE Multiply(d, c)

(* operator*(long), operator*(long, c): a tuple's multiplicity.            *)
Scale(alpha, c) ==
  [count |-> alpha * c.count,
   sum1 |-> [i \in VarsOf(c) |-> alpha * c.sum1[i]],
   sum2 |-> [i \in VarsOf(c) |-> alpha * c.sum2[i]],
   degree2 |-> [p \in Pairs(VarsOf(c)) |-> alpha * c.degree2[p]]]

(* The payload of a row: v of the join variable, which is 0, or an         *)
(* assignment to the variables of relation r.                              *)
LiftAt(r, v) == Lift(IF r = 0 THEN [i \in {0} |-> v] ELSE v)

(* The sum over a bag m of tuples with their multiplicities.               *)
Total(m, f(_)) == SumFunction([a \in DOMAIN m |-> m[a] * f(a)])

(* What a payload over the variables V stands for, val(a, i) being the     *)
(* value of variable i in tuple a.                                         *)
Cofactor(V, m, val(_, _)) ==
  [count |-> Total(m, LAMBDA a : 1),
   sum1 |-> [i \in V |-> Total(m, LAMBDA a : val(a, i))],
   sum2 |-> [i \in V |-> Total(m, LAMBDA a : val(a, i) * val(a, i))],
   degree2 |-> [p \in Pairs(V) |-> Total(m, LAMBDA a : val(a, p[1]) * val(a, p[2]))]]

(* The tuples over X have a row at every index: relation r has the         *)
(* variables vars[r].                                                      *)
ValueIn(vars, a, i) ==
  LET r == CHOOSE r \in DOMAIN a : i \in vars[r]
  IN  IF r = 0 THEN a[0] ELSE a[r][i]

VarsOver(vars, X) == UNION {vars[r] : r \in X}

MeansCofactor(vars, c, X, m) ==
  c = Cofactor(VarsOver(vars, X), m, LAMBDA a, i : ValueIn(vars, a, i))

-----------------------------------------------------------------------------
(***************************************************************************)
(* The payloads of ring/ring_cofactor_degree2.hpp: the sums of the first   *)
(* four powers of each variable and of the products of two variables up to *)
(* degree four.  The arrays degree2, degree3 and degree4 have one, two and *)
(* three elements for each pair of variables; here they are one sequence   *)
(* with the six elements of each pair, in the order of the arrays.  The    *)
(* code relies on all payloads of a view having the pairs in one order;    *)
(* pairs and mixed are not part of a payload and record whether they do:   *)
(* the pairs whose elements are in degree, empty while nothing was written *)
(* there, and whether pairs in another order have been added.              *)
(***************************************************************************)

Powers(x) == <<x, x * x, x * x * x, x * x * x * x>>

(* The variables of a payload follow each other: first, first + 1, ...     *)
ZeroOver(first, n) ==
  [first |-> first, count |-> 0, sum |-> [i \in 1..n |-> <<0, 0, 0, 0>>],
   degree |-> [k \in 1..((n * (n - 1)) \div 2) |-> <<0, 0, 0, 0, 0, 0>>],
   pairs |-> <<>>, mixed |-> FALSE]

(* The elements of two variables by their powers: as the constructor of    *)
(* several variables writes them, and as multiply does for variables of    *)
(* different factors.                                                      *)
Within(s, t) ==
  <<s[1] * t[1], s[1] * t[2], s[2] * t[1], s[1] * t[3], s[2] * t[2], s[3] * t[1]>>
Across(s, t) ==
  <<s[1] * t[1], s[2] * t[1], s[1] * t[2], s[3] * t[1], s[2] * t[2], s[1] * t[3]>>

(* Ulift: a holds the values of variables that follow each other.          *)
LiftOf(a) ==
  LET i == Min(DOMAIN a)
      n == Cardinality(DOMAIN a)
      each(f(_, _)) ==
        FlattenSeq([j \in 1..n |-> [k \in 1..(n - j) |-> f(i + j - 1, i + j - 1 + k)]])
  IN  [first |-> i, count |-> 1, sum |-> [k \in 1..n |-> Powers(a[i + k - 1])],
       degree |-> each(LAMBDA x, y : Within(Powers(a[x]), Powers(a[y]))),
       pairs |-> each(LAMBDA x, y : [vars |-> <<x, y>>, within |-> TRUE]), mixed |-> FALSE]

IsZeroDeg(c) == c.count = 0

ScaledBy(a, t) == [i \in DOMAIN t |-> a * t[i]]

(* operator+=                                                              *)
PlusDeg(c, d) ==
  LET each(s, t) == [k \in DOMAIN s |-> [i \in DOMAIN s[k] |-> s[k][i] + t[k][i]]]
  IN  IF IsZeroDeg(d) THEN c
      ELSE [c EXCEPT !.count = @ + d.count, !.sum = each(@, d.sum),
                     !.degree = each(@, d.degree),
                     !.pairs = IF @ = <<>> THEN d.pairs ELSE @,
                     !.mixed = @ \/ c.pairs \notin {<<>>, d.pairs}]

(* multiply: the pairs within c, those within d, and those across.         *)
MultiplyDeg(c, d) ==
  LET across(f(_, _)) ==
        FlattenSeq([i \in DOMAIN c.sum |-> [j \in DOMAIN d.sum |-> f(i, j)]])
      pair(i, j) == [vars |-> <<c.first + i - 1, d.first + j - 1>>, within |-> FALSE]
  IN
  [first |-> c.first, count |-> d.count * c.count,
   sum |-> [i \in DOMAIN c.sum |-> ScaledBy(d.count, c.sum[i])]
           \o [i \in DOMAIN d.sum |-> ScaledBy(c.count, d.sum[i])],
   degree |-> [k \in DOMAIN c.degree |-> ScaledBy(d.count, c.degree[k])]
              \o [k \in DOMAIN d.degree |-> ScaledBy(c.count, d.degree[k])]
              \o across(LAMBDA i, j : Across(c.sum[i], d.sum[j])),
   pairs |-> c.pairs \o d.pairs \o across(pair), mixed |-> c.mixed \/ d.mixed]

(* operator*: the payload with the lower index first.                      *)
TimesDeg(c, d) ==
  IF IsZeroDeg(c) \/ IsZeroDeg(d)
  THEN ZeroOver(Min({c.first, d.first}), Len(c.sum) + Len(d.sum))
  ELSE IF c.first < d.first THEN MultiplyDeg(c, d) ELSE MultiplyDeg(d, c)

(* operator*(long), multiply(long)                                         *)
ScaleDeg(alpha, c) ==
  [c EXCEPT !.count = alpha * @, !.sum = [i \in DOMAIN @ |-> ScaledBy(alpha, @[i])],
            !.degree = [k \in DOMAIN @ |-> ScaledBy(alpha, @[k])]]

-----------------------------------------------------------------------------

(* The sums over the bag m, val(a, i) being the value of variable i in     *)
(* tuple a.  Each element is the sum for its pair unless pairs in several  *)
(* orders were added: then only the elements of all pairs together are     *)
(* what they should be.                                                    *)
PowersOf(c, m, val(_, _)) ==
  LET n == Len(c.sum)
      element(p, a) == LET s == Powers(val(a, p.vars[1]))
                           t == Powers(val(a, p.vars[2]))
                       IN  IF p.within THEN Within(s, t) ELSE Across(s, t)
      right(k, e) == Total(m, LAMBDA a : element(c.pairs[k], a)[e])
      total(f(_)) == SumFunction([k \in DOMAIN c.pairs |-> f(k)])
  IN  /\ c.count = Total(m, LAMBDA a : 1)
      /\ \A k \in 1..n, e \in 1..4 :
           c.sum[k][e] = Total(m, LAMBDA a : Powers(val(a, c.first + k - 1))[e])
      /\ Len(c.pairs) \in {0, Len(c.degree)}
      /\ c.pairs = <<>> => DOMAIN m = {} \/ c.degree = <<>>
      /\ \A e \in 1..6 :
           IF c.mixed THEN total(LAMBDA k : c.degree[k][e]) = total(LAMBDA k : right(k, e))
           ELSE \A k \in DOMAIN c.pairs : c.degree[k][e] = right(k, e)
=============================================================================
