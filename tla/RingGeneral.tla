----------------------------- MODULE RingGeneral -----------------------------
(***************************************************************************)
(* The payloads of ring/ring_cofactor_general.hpp: sums over continuous    *)
(* variables and dictionaries (ring/dictionary.hpp) of sums by the values  *)
(* of categorical ones.  Values of continuous variables are doubles; here  *)
(* they are counted in halves, and products of two in quarters.            *)
(***************************************************************************)
EXTENDS Integers, FiniteSetsExt, SequencesExt

(* A Dictionary is a list of tuples with a key and a value.                *)
KeysOf(d) == {d[j].key : j \in DOMAIN d}
ValueAt(d, k) == IF k \in KeysOf(d) THEN d[SelectInSeq(d, LAMBDA t : t.key = k)].value ELSE 0

(* Dictionary::operator+=: linear search, new keys at the end.             *)
PlusDict(d, e) ==
  [j \in DOMAIN d |-> [d[j] EXCEPT !.value = @ + ValueAt(e, d[j].key)]]
  \o SelectSeq(e, LAMBDA t : t.key \notin KeysOf(d))

(* Dictionary::multiply(Dictionary): the keys become the two slots.        *)
TimesDict(d, e) ==
  FlattenSeq([i \in DOMAIN d |->
    [j \in DOMAIN e |-> [key |-> <<d[i].key, e[j].key>>, value |-> d[i].value * e[j].value]]])

(* The value as a long: doubles lose their fraction, toward zero.          *)
Truncated(halves) == IF halves >= 0 THEN halves \div 2 ELSE -((-halves) \div 2)

(* Dictionary::multiply(long)                                              *)
ScaleDict(alpha, d) == [j \in DOMAIN d |-> [d[j] EXCEPT !.value = @ * alpha]]

(* cont * cat: the factor is a double and the parameter a long.            *)
ContTimesCat(cont, cat) == ScaleDict(Truncated(cont), cat)

Upto(X) == {p \in X \X X : p[1] <= p[2]}
Pairs(X) == {p \in X \X X : p[1] < p[2]}

ContOf(c) == DOMAIN c.sum1
CatOf(c) == DOMAIN c.cat1

(* RingCofactor() sets the count only: the sums of the continuous          *)
(* variables are what the memory held, here x for each of them; unset is   *)
(* not part of the payload and remembers x.                                *)
DefaultIn(x, C, K) ==
  [count |-> 0, unset |-> x, sum1 |-> [i \in C |-> x], sum2 |-> [p \in Upto(C) |-> x],
   cat1 |-> [i \in K |-> <<>>], contcat |-> [p \in C \X K |-> <<>>],
   catcat |-> [p \in Pairs(K) |-> <<>>]]

(* The default of memory that held anything but zeros.                     *)
Unset == 7
ZeroOver(C, K) == DefaultIn(Unset, C, K)

(* Uliftcont, Uliftcat: the constructor with variables of one kind.        *)
Uliftcont(a) ==
  [DefaultIn(0, DOMAIN a, {}) EXCEPT
     !.count = 1, !.sum1 = a, !.sum2 = [p \in Upto(DOMAIN a) |-> a[p[1]] * a[p[2]]]]

Uliftcat(a) ==
  [DefaultIn(0, {}, DOMAIN a) EXCEPT
     !.count = 1,
     !.cat1 = [i \in DOMAIN a |-> <<[key |-> a[i], value |-> 1]>>],
     !.catcat = [p \in Pairs(DOMAIN a) |-> <<[key |-> <<a[p[1]], a[p[2]]>>, value |-> 1]>>]]

IsZeroGen(c) == c.count = 0

(* operator+=                                                              *)
PlusGen(c, d) ==
  LET sums(u, v) == [i \in DOMAIN u |-> u[i] + v[i]]
      dicts(u, v) == [i \in DOMAIN u |-> PlusDict(u[i], v[i])]
  IN  IF IsZeroGen(d) THEN c
      ELSE [count |-> c.count + d.count, unset |-> c.unset + d.unset,
            sum1 |-> sums(c.sum1, d.sum1), sum2 |-> sums(c.sum2, d.sum2), cat1 |-> dicts(c.cat1, d.cat1),
            contcat |-> dicts(c.contcat, d.contcat), catcat |-> dicts(c.catcat, d.catcat)]

(* PART 1: scalar arrays.                                                  *)
ScalarPart(c, d, u, v, i, across) ==
  CASE i \in DOMAIN u -> d.count * u[i]
    [] i \in DOMAIN v -> c.count * v[i]
    [] OTHER -> across

(* PART 2: relation arrays.                                                *)
RelationPart(c, d, u, v, i, across) ==
  CASE i \in DOMAIN u -> ScaleDict(d.count, u[i])
    [] i \in DOMAIN v -> ScaleDict(c.count, v[i])
    [] OTHER -> across

(* multiply: the variables of c come before those of d.                    *)
Multiply(c, d) ==
  LET C == ContOf(c) \cup ContOf(d)
      K == CatOf(c) \cup CatOf(d)
  IN  [count |-> c.count * d.count, unset |-> 0,
       sum1 |-> [i \in C |-> ScalarPart(c, d, c.sum1, d.sum1, i, 0)],
       sum2 |-> [p \in Upto(C) |-> ScalarPart(c, d, c.sum2, d.sum2, p,
                                              c.sum1[p[1]] * d.sum1[p[2]])],
       cat1 |-> [i \in K |-> RelationPart(c, d, c.cat1, d.cat1, i, <<>>)],
       contcat |-> [p \in C \X K |-> RelationPart(c, d, c.contcat, d.contcat, p,
                      IF p[1] \in ContOf(c) THEN ContTimesCat(c.sum1[p[1]], d.cat1[p[2]])
                      ELSE ContTimesCat(d.sum1[p[1]], c.cat1[p[2]]))],
       catcat |-> [p \in Pairs(K) |-> RelationPart(c, d, c.catcat, d.catcat, p,
                                        TimesDict(c.cat1[p[1]], d.cat1[p[2]]))]]

(* operator*: the payload with the lower index first.                      *)
TimesGen(c, d) ==
  LET first(x) == Min(ContOf(x) \cup CatOf(x))
  IN  IF IsZeroGen(c) \/ IsZeroGen(d)
      THEN ZeroOver(ContOf(c) \cup ContOf(d), CatOf(c) \cup CatOf(d))
      ELSE IF first(c) < first(d) THEN Multiply(c, d) ELSE Multiply(d, c)

(* operator*(long), multiply(long)                                         *)
ScaleGen(alpha, c) ==
  LET sums(u) == [i \in DOMAIN u |-> alpha * u[i]]
      dicts(u) == [i \in DOMAIN u |-> ScaleDict(alpha, u[i])]
  IN  IF alpha = 0 THEN ZeroOver(ContOf(c), CatOf(c))
      ELSE
      [count |-> alpha * c.count, unset |-> alpha * c.unset, sum1 |-> sums(c.sum1), sum2 |-> sums(c.sum2),
       cat1 |-> dicts(c.cat1), contcat |-> dicts(c.contcat), catcat |-> dicts(c.catcat)]

-----------------------------------------------------------------------------

Total(m, f(_)) == MapThenSumSet(LAMBDA a : m[a] * f(a), DOMAIN m)

(* The dictionary has every key once and, unit times, the sum of f over    *)
(* the tuples with that key.                                               *)
SumsBy(dict, unit, m, key(_), f(_)) ==
  /\ Cardinality(KeysOf(dict)) = Len(dict)
  /\ \A k \in KeysOf(dict) \cup {key(a) : a \in DOMAIN m} :
       unit * ValueAt(dict, k) = Total(m, LAMBDA a : IF key(a) = k THEN f(a) ELSE 0)

(* The sums over the bag m, val(a, i) being the value of variable i, and   *)
(* what was in the memory before.                                          *)
CofactorOf(c, m, val(_, _)) ==
  /\ c.count = Total(m, LAMBDA a : 1)
  /\ \A i \in ContOf(c) : c.sum1[i] = c.unset + Total(m, LAMBDA a : val(a, i))
  /\ \A p \in DOMAIN c.sum2 : c.sum2[p] = c.unset + Total(m, LAMBDA a : val(a, p[1]) * val(a, p[2]))
  /\ \A i \in CatOf(c) : SumsBy(c.cat1[i], 1, m, LAMBDA a : val(a, i), LAMBDA a : 1)
  /\ \A p \in DOMAIN c.contcat :
       SumsBy(c.contcat[p], 2, m, LAMBDA a : val(a, p[2]), LAMBDA a : val(a, p[1]))
  /\ \A p \in DOMAIN c.catcat :
       SumsBy(c.catcat[p], 1, m, LAMBDA a : <<val(a, p[1]), val(a, p[2])>>, LAMBDA a : 1)
=============================================================================
