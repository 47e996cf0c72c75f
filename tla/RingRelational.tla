--------------------------- MODULE RingRelational ---------------------------
(***************************************************************************)
(* Relations as payloads, ring/ring_relational.hpp: a RingRelation, a map  *)
(* from tuples to multiplicities, is what a view stores; a VectorRelation, *)
(* a list of tuples with multiplicities, is what a lift and a product      *)
(* make.  A tuple is the sequence of the values of its keys, each with the *)
(* index it was lifted at; tuples are concatenated as the code does.       *)
(***************************************************************************)
EXTENDS Integers, FiniteSetsExt, SequencesExt, Functions

(* Both kinds have the index of their first key.                           *)
IsMap(c) == c.kind = "map"
MapOf(idx, s) == [kind |-> "map", idx |-> idx, store |-> s]
VectorOf(idx, s) == [kind |-> "vector", idx |-> idx, store |-> s]

EmptyMap == [t \in {} |-> 0]
ZeroRel(r) == MapOf(r, EmptyMap)

(* Ulift                                                                   *)
LiftRel(i, v) == VectorOf(i, <<[key |-> <<<<i, v>>>>, mult |-> 1]>>)

(* What iterating over the store yields, in some order.                    *)
Entries(c) ==
  IF IsMap(c) THEN LET keys == SetToSeq(DOMAIN c.store)
                   IN  [k \in DOMAIN keys |-> [key |-> keys[k], mult |-> c.store[keys[k]]]]
  ELSE c.store

IsZeroRel(c) == IF IsMap(c) THEN DOMAIN c.store = {} ELSE c.store = <<>>

(* store[key] += mult, which makes an entry that is not there.             *)
AddEntry(s, e) ==
  IF e.key \in DOMAIN s THEN [s EXCEPT ![e.key] = @ + e.mult]
  ELSE [k \in DOMAIN s \cup {e.key} |-> IF k = e.key THEN e.mult ELSE s[k]]

(* ... and if it is zero then, it is erased.                               *)
AddOrErase(s, e) ==
  LET added == AddEntry(s, e)
  IN  IF added[e.key] = 0 THEN Restrict(added, DOMAIN added \ {e.key}) ELSE added

(* operator+= of a RingRelation or a VectorRelation.                       *)
PlusRel(c, d) == [c EXCEPT !.store = FoldLeft(AddOrErase, @, Entries(d))]

(* operator= of a VectorRelation: no zeros are erased.                     *)
AssignRel(r, d) ==
  IF IsMap(d) THEN d ELSE MapOf(d.idx, FoldLeft(AddEntry, EmptyMap, d.store))

(* multiply: the tuples of c before those of d.                            *)
Multiply(c, d) ==
  LET s == Entries(c)
      t == Entries(d)
  IN  VectorOf(c.idx, FlattenSeq([i \in DOMAIN s |-> [j \in DOMAIN t |->
        [key |-> s[i].key \o t[j].key, mult |-> s[i].mult * t[j].mult]]]))

(* operator*: the lower index comes first.                                 *)
TimesRel(c, d) ==
  IF IsZeroRel(c) \/ IsZeroRel(d) THEN VectorOf(Min({c.idx, d.idx}), <<>>)
  ELSE IF c.idx < d.idx THEN Multiply(c, d) ELSE Multiply(d, c)

(* operator*(long): a RingRelation times 0 is empty, a VectorRelation has  *)
(* zeros.                                                                  *)
ScaleRel(alpha, c) ==
  IF IsMap(c) THEN IF alpha = 0 THEN ZeroRel(c.idx)
                   ELSE [c EXCEPT !.store = [k \in DOMAIN @ |-> alpha * @[k]]]
  ELSE [c EXCEPT !.store = [k \in DOMAIN @ |-> [@[k] EXCEPT !.mult = alpha * @]]]

(* A tuple of the bag over X in the order of the indexes.                  *)
InOrder(a, X) == [k \in 1..Cardinality(X) |-> LET i == SetToSortSeq(X, <)[k] IN <<i, a[i]>>]

(* A stored relation is the bag of the tuples, with no tuple of            *)
(* multiplicity zero.                                                      *)
MeansRel(c, X, m) ==
  /\ DOMAIN c.store = {InOrder(a, X) : a \in DOMAIN m}
  /\ \A a \in DOMAIN m : c.store[InOrder(a, X)] = m[a]

-----------------------------------------------------------------------------
(***************************************************************************)
(* The listing of a join result as payload, ring/ring_relational_opt.hpp   *)
(* and ring/container.hpp: a view stores a RelationMap; a product is not   *)
(* computed but kept as a Container of its factors and a scale, and only   *)
(* operator+= and operator= enumerate its tuples.                          *)
(***************************************************************************)

ContainerOf(idx, values, scale) ==
  [kind |-> "container", idx |-> idx, values |-> values, scale |-> scale]

ZeroList(r) == MapOf(r, EmptyMap)

IsZeroList(c) == IF c.kind = "map" THEN DOMAIN c.store = {} ELSE c.scale = 0

(* FactoryContainer::create: an empty value has scale 0; a container only  *)
(* changes its scale.                                                      *)
Create(c, scale) ==
  IF c.kind = "map"
  THEN ContainerOf(c.idx, <<c.store>>, IF IsZeroList(c) THEN 0 ELSE scale)
  ELSE [c EXCEPT !.scale = scale * @]

(* Ulift: a container with a RelationVector of one tuple.                  *)
LiftList(i, v) == ContainerOf(i, <<[t \in {<<<<i, v>>>>} |-> 1]>>, 1)

(* operator*: the values of the lower index first, the scales multiplied.  *)
TimesList(c, d) ==
  LET x == Create(c, 1)
      y == Create(d, 1)
      both(u, v) == ContainerOf(u.idx, u.values \o v.values, u.scale * v.scale)
  IN  IF x.idx < y.idx THEN both(x, y) ELSE both(y, x)

ScaleList(alpha, c) == Create(c, alpha)

(* The tuples of a container: nested loops from the last value to the      *)
(* first, the multiplicity starting with the scale.                        *)
Expanded(c) ==
  LET step(v, done) ==
        FlattenSeq([i \in DOMAIN done |->
          LET keys == SetToSeq(DOMAIN v)
          IN  [j \in DOMAIN keys |-> [key |-> keys[j] \o done[i].key,
                                      mult |-> v[keys[j]] * done[i].mult]]])
  IN  FoldRight(step, c.values, <<[key |-> <<>>, mult |-> c.scale]>>)

(* apply2                                                                  *)
Apply(s, c) == FoldLeft(AddOrErase, s, Expanded(c))

(* operator+= of a Container; a container that is zero is not enumerated.  *)
PlusList(c, d) == IF IsZeroList(d) THEN c ELSE [c EXCEPT !.store = Apply(@, Create(d, 1))]

(* operator= of a Container                                                *)
AssignList(r, d) ==
  MapOf(d.idx, IF IsZeroList(d) THEN EmptyMap ELSE Apply(EmptyMap, Create(d, 1)))

(* What Application::on_end_processing prints of a listing: the number of  *)
(* output tuples and the total multiplicity.                               *)
OutputSize(c) == Cardinality(DOMAIN c.store)
TotalMultiplicity(c) == MapThenSumSet(LAMBDA t : c.store[t], DOMAIN c.store)

(* The stored listing is the bag of the tuples, and the printed numbers    *)
(* are its size and its total.                                             *)
MeansList(c, X, m) ==
  /\ DOMAIN c.store = {InOrder(a, X) : a \in DOMAIN m}
  /\ \A a \in DOMAIN m : c.store[InOrder(a, X)] = m[a]
  /\ OutputSize(c) = Cardinality(DOMAIN m)
  /\ TotalMultiplicity(c) = MapThenSumSet(LAMBDA a : m[a], DOMAIN m)
=============================================================================
