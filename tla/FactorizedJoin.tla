--------------------------- MODULE FactorizedJoin ---------------------------
(***************************************************************************)
(* A join result kept factorized over a view tree and enumerated from it:  *)
(* the triggers of the generated program, and the nested loops             *)
(* of Application::on_end_processing.  A node lifts a set of variables and *)
(* may have one relation as a child; its number is the index of its ring.  *)
(***************************************************************************)
EXTENDS Integers, Sequences, FiniteSets, Functions, FiniteSetsExt, SequencesExt

-----------------------------------------------------------------------------
(***************************************************************************)
(* The queries with a factorized result: their view trees, and the nested  *)
(* loops of application_*_factorized_join.hpp that enumerate the result.   *)
(* The variables that only one relation has are one variable, named after  *)
(* the relation.                                                           *)
(***************************************************************************)

Inner(up, lift) == [up |-> up, lift |-> lift, rel |-> ""]
Leaf(up, rel) == [up |-> up, lift |-> {rel}, rel |-> rel]

(* A loop over the values of a node, and one over their multiplicities.    *)
Values(node, keys) == [node |-> node, keys |-> keys, counts |-> FALSE]
Tuples(node, keys) == [node |-> node, keys |-> keys, counts |-> TRUE]

(* A row: the values of the join variables, and of the relation's own.     *)
RowOf(rel, keys, own) == [v \in DOMAIN keys \cup {rel} |-> IF v = rel THEN own ELSE keys[v]]

HousingTree ==
  <<Inner(0, {"postcode"}), Leaf(1, "House"), Leaf(1, "Shop"), Leaf(1, "Institution"),
    Leaf(1, "Restaurant"), Leaf(1, "Demographics"), Leaf(1, "Transport")>>

HousingPlan == <<Values(1, {})>> \o [i \in 1..6 |-> Tuples(i + 1, {"postcode"})]

RetailerTree ==
  <<Inner(0, {"locn"}), Inner(1, {"dateid"}),
    [up |-> 2, lift |-> {"ksn", "Inventory"}, rel |-> "Inventory"], Leaf(3, "Item"),
    Leaf(2, "Weather"), Inner(1, {"zip"}), Leaf(6, "Location"), Leaf(6, "Census")>>

(* Mutant: an inner node's value is taken for a multiplicity.              *)
RetailerPlanCounting ==
  <<Values(1, {}), Tuples(2, {"locn"}), Tuples(3, {"locn", "dateid"}), Tuples(4, {"ksn"}),
    Tuples(5, {"locn", "dateid"}), Values(6, {"locn"}), Tuples(7, {"locn", "zip"}),
    Tuples(8, {"zip"})>>

RetailerPlan ==
  <<Values(1, {}), Values(2, {"locn"}), Tuples(3, {"locn", "dateid"}), Tuples(4, {"ksn"}),
    Tuples(5, {"locn", "dateid"}), Values(6, {"locn"}), Tuples(7, {"locn", "zip"}),
    Tuples(8, {"zip"})>>

FQ1Tree ==
  <<Inner(0, {"orderkey"}), Inner(1, {"partkey"}), Inner(2, {"suppkey"}), Leaf(3, "Lineitem"),
    Leaf(3, "Partsupp"), Leaf(2, "Part"), Leaf(1, "Orders")>>

FQ1Plan ==
  <<Values(1, {}), Values(2, {"orderkey"}), Values(3, {"orderkey", "partkey"}),
    Tuples(4, {"orderkey", "partkey", "suppkey"}), Tuples(5, {"partkey", "suppkey"}),
    Tuples(6, {"partkey"}), Tuples(7, {"orderkey"})>>

FQ2Tree ==
  <<Inner(0, {"orderkey"}), Inner(1, {"partkey"}), Leaf(2, "Lineitem"), Leaf(2, "Part"),
    Inner(1, {"custkey"}), Inner(5, {"nationkey"}), Leaf(6, "Customer"), Leaf(6, "Nation"),
    Leaf(5, "Orders")>>

FQ2Plan ==
  <<Values(1, {}), Values(2, {"orderkey"}), Tuples(3, {"orderkey", "partkey"}),
    Tuples(4, {"partkey"}), Values(5, {"orderkey"}), Values(6, {"custkey"}),
    Tuples(7, {"custkey", "nationkey"}), Tuples(8, {"nationkey"}),
    Tuples(9, {"orderkey", "custkey"})>>

FQ3Tree ==
  <<Inner(0, {"orderkey"}), Inner(1, {"partkey"}), Inner(2, {"suppkey"}), Leaf(3, "Lineitem"),
    Leaf(3, "Partsupp"), Leaf(3, "Supplier"), Inner(1, {"custkey"}), Leaf(7, "Customer"),
    Leaf(7, "Orders")>>

FQ3Plan ==
  <<Values(1, {}), Values(2, {"orderkey"}), Values(3, {"orderkey", "partkey"}),
    Tuples(4, {"orderkey", "partkey", "suppkey"}), Tuples(5, {"partkey", "suppkey"}),
    Tuples(6, {"suppkey"}), Values(7, {"orderkey"}), Tuples(8, {"custkey"}),
    Tuples(9, {"orderkey", "custkey"})>>

FQ4Tree ==
  <<Inner(0, {"suppkey"}), Inner(1, {"partkey"}), Leaf(2, "Lineitem"), Leaf(2, "Partsupp"),
    Leaf(1, "Supplier")>>

FQ4Plan ==
  <<Values(1, {}), Values(2, {"suppkey"}), Tuples(3, {"partkey", "suppkey"}),
    Tuples(4, {"partkey", "suppkey"}), Tuples(5, {"suppkey"})>>

-----------------------------------------------------------------------------
(***************************************************************************)
(* The factorized representation of a join result as payload,              *)
(* ring/ring_factorized.hpp.  A RelationMap stores the values of one node  *)
(* of the view tree; a product is an Accumulator that keeps the factor of  *)
(* the lowest node and of the others only a scale, which is zero for an    *)
(* empty factor.  A payload of a node never holds what is below the node.  *)
(***************************************************************************)

Map(s, c) == [store |-> s, count |-> c]

EmptyStore == [v \in {} |-> 0]

(* RelationMap()                                                           *)
ZeroFact == Map(EmptyStore, 0)

Acc(idx, s, scale) == [idx |-> idx, store |-> s, scale |-> scale]

(* FactoryAccumulator::create                                              *)
CreateFact(idx, p, scale) == Acc(idx, p.store, IF p.count > 0 THEN scale ELSE 0)

(* Ulift: a SingletonRelation, whose count is 1.                           *)
LiftFact(idx, v) == Acc(idx, [w \in {v} |-> 1], 1)

(* operator* of two Accumulators: the lower index stays.                   *)
TimesFact(a, b) ==
  LET kept == IF a.idx < b.idx THEN a ELSE b
  IN  [kept EXCEPT !.scale = a.scale * b.scale]

(* operator* of an Accumulator and a long                                  *)
ScaleFact(a, n) == [a EXCEPT !.scale = @ * n]

IsZeroAcc(a) == a.scale = 0
IsZeroFact(p) == p.count = 0

(* Accumulator::apply: no entry is ever erased.                            *)
ApplyFact(p, a) ==
  Map([v \in DOMAIN p.store \cup DOMAIN a.store |->
         (IF v \in DOMAIN p.store THEN p.store[v] ELSE 0)
           + (IF v \in DOMAIN a.store THEN a.store[v] * a.scale ELSE 0)],
      p.count + MapThenSumSet(LAMBDA v : a.store[v] * a.scale, DOMAIN a.store))

(* operator+= and operator= of an Accumulator                              *)
PlusFact(p, a) == IF IsZeroAcc(a) THEN p ELSE ApplyFact(p, a)
AssignFact(a) == PlusFact(ZeroFact, a)

-----------------------------------------------------------------------------
CONSTANTS
  Query,      \* the queries
  TreeOf,     \* [Query -> nodes in pre-order: [up, lift, rel], rel "" for none]
  RowsOf,     \* [Query -> [relations -> sets of rows]], a row is a function
  PlanOf,     \* [Query -> loops from the outermost in: [node, keys, counts]]
  CopiesOf,   \* [Query -> [relations -> bound on the copies of a row]]
  Mults       \* the multiplicities an update may have

VARIABLE query  \* the query that was compiled; it never changes

Tree == TreeOf[query]
Rows == RowsOf[query]
Plan == PlanOf[query]
MaxCopies == CopiesOf[query]

Node == DOMAIN Tree
Root == 1
Relation == DOMAIN Rows
Owner(r) == CHOOSE n \in Node : Tree[n].rel = r
Schema(r) == UNION {DOMAIN t : t \in Rows[r]}

ASSUME FactorizedJoinAssumption ==
  /\ \A q \in Query :
       /\ \A n \in DOMAIN TreeOf[q] \ {1} : TreeOf[q][n].up \in 1..(n - 1)
       /\ \A r \in DOMAIN RowsOf[q] :
            RowsOf[q][r] # {} /\ \E n \in DOMAIN TreeOf[q] : TreeOf[q][n].rel = r
  /\ Mults \subseteq Int \ {0}

InsertsAndDeletes == {1, -1}
Inserts == {1}

VARIABLES
  base,   \* [Relation -> [rows -> copies]], the history of the streams
  view    \* [Node -> [keys that are stored -> payload]]

vars == <<query, base, view>>

(* From node n to the root.                                                *)
PathOf(n) ==
  LET path[m \in Node] == IF m = Root THEN <<m>> ELSE <<m>> \o path[Tree[m].up]
  IN  path[n]

Below(n) == {m \in Node : n \in Range(PathOf(m))}

(* The free variables of a view: what joins it with the nodes above.       *)
Keys(n) ==
  UNION {Schema(Tree[m].rel) : m \in {m \in Below(n) : Tree[m].rel # ""}}
    \cap UNION {Tree[m].lift : m \in Range(PathOf(n)) \ {n}}

Consistent(s, t) == \A v \in DOMAIN s \cap DOMAIN t : s[v] = t[v]
Union(s, t) == [v \in DOMAIN s \cup DOMAIN t |-> IF v \in DOMAIN s THEN s[v] ELSE t[v]]

Init ==
  /\ query \in Query
  /\ base = [r \in Relation |-> [t \in Rows[r] |-> 0]]
  /\ view = [n \in Node |-> [k \in {} |-> ZeroFact]]

-----------------------------------------------------------------------------
(* The trigger of one tuple                                                *)

(* A term of a delta: the variables bound so far, and the product so far.  *)
(* The terms joined with the stored entries of the view of node m ...      *)
WithView(terms, m) ==
  UNION {{[env |-> Union(d.env, k), acc |-> TimesFact(d.acc, CreateFact(m, view[m][k], 1))] :
            k \in {k \in DOMAIN view[m] : Consistent(k, d.env)}} : d \in terms}

(* ... and with the stored tuples of relation r.                           *)
WithRelation(terms, r) ==
  UNION {{[env |-> Union(d.env, t), acc |-> ScaleFact(d.acc, base[r][t])] :
            t \in {t \in Rows[r] : base[r][t] # 0 /\ Consistent(t, d.env)}} : d \in terms}

(* The views below node n other than that of node c.                       *)
Siblings(n, c) == SelectSeq([m \in Node |-> m], LAMBDA m : m # Root /\ Tree[m].up = n /\ m # c)

(* The delta of node n from the delta of its child: the siblings and then  *)
(* the variables that n lifts.  A tuple of n's own relation comes without  *)
(* a payload yet, with its multiplicity.                                   *)
DeltaAt(n, c, terms, own) ==
  LET lifted == {[env |-> d.env, acc |-> LET l == LiftFact(n, Restrict(d.env, Tree[n].lift))
                                         IN  IF own THEN ScaleFact(l, d.acc) ELSE TimesFact(d.acc, l)] :
                   d \in IF own \/ Tree[n].rel = "" THEN terms ELSE WithRelation(terms, Tree[n].rel)}
  IN  FoldLeft(WithView, lifted, Siblings(n, c))

Deltas(r, t, m) ==
  LET path == PathOf(Owner(r))
      delta[i \in 1..Len(path)] ==
        IF i = 1 THEN DeltaAt(path[1], 0, {[env |-> t, acc |-> m]}, TRUE)
        ELSE DeltaAt(path[i], path[i - 1], delta[i - 1], FALSE)
  IN  [n \in Range(path) |-> delta[CHOOSE i \in 1..Len(path) : path[i] = n]]

(* The statement of a view: incrementOrAssignNonZero for every term, or    *)
(* operator+= of the root, which is no map entry and is never erased.      *)
StoreFact(n, v, d) ==
  LET k == Restrict(d.env, Keys(n))
      grown == IF k \in DOMAIN v THEN PlusFact(v[k], d.acc) ELSE AssignFact(d.acc)
  IN  IF IsZeroAcc(d.acc) THEN v
      ELSE IF n # Root /\ k \in DOMAIN v /\ IsZeroFact(grown)
      THEN Restrict(v, DOMAIN v \ {k})
      ELSE [h \in DOMAIN v \cup {k} |-> IF h = k THEN grown ELSE v[h]]

(* No statement reads a view that another one of the trigger writes.       *)
Update(r, t, m) ==
  /\ base[r][t] + m \in 0..MaxCopies[r]
  /\ base' = [base EXCEPT ![r][t] = @ + m]
  /\ LET delta == Deltas(r, t, m)
     IN  view' = [n \in Node |->
           IF n \in DOMAIN delta
           THEN FoldLeft(LAMBDA v, d : StoreFact(n, v, d), view[n], SetToSeq(delta[n]))
           ELSE view[n]]
  /\ UNCHANGED query

Next == \E r \in Relation : \E t \in Rows[r], m \in Mults : Update(r, t, m)

Spec == Init /\ [][Next]_vars

-----------------------------------------------------------------------------
(* on_end_processing: the loops of Plan.  The first runs over the root,    *)
(* the others over the payload found under the given keys; the value of a  *)
(* loop counts only where the code multiplies it.                          *)

Loop(done, step) ==
  UNION {LET k == Restrict(o.key, step.keys)
             store == IF k \in DOMAIN view[step.node] THEN view[step.node][k].store ELSE EmptyStore
         IN  {[key |-> Union(o.key, v),
               value |-> IF step.counts THEN o.value * store[v] ELSE o.value] : v \in DOMAIN store} :
           o \in done}

Output == FoldLeft(Loop, {[key |-> [v \in {} |-> ""], value |-> 1]}, Plan)

output_size == Cardinality(Output)
total_multiplicity == MapThenSumSet(LAMBDA o : o.value, Output)

-----------------------------------------------------------------------------

(* The natural join of a set of relations, with multiplicities.            *)
Join(rels) ==
  FoldSet(LAMBDA r, done :
            {[key |-> Union(p[1].key, p[2]), value |-> p[1].value * base[r][p[2]]] :
               p \in {p \in done \X Rows[r] : base[r][p[2]] # 0 /\ Consistent(p[1].key, p[2])}},
          {[key |-> [v \in {} |-> ""], value |-> 1]}, rels)

(* Copies are within their bound, and a view is keyed by its free          *)
(* variables and stores values of the variables it lifts.                  *)
TypeOK ==
  /\ \A r \in Relation : \A t \in Rows[r] : base[r][t] \in 0..MaxCopies[r]
  /\ \A n \in Node : \A k \in DOMAIN view[n] :
       /\ DOMAIN k = Keys(n)
       /\ \A v \in DOMAIN view[n][k].store : DOMAIN v = Tree[n].lift

(* A view has a value under a key exactly when the relations below join    *)
(* there: so no loop runs into a dead end, and the enumeration has          *)
(* constant delay.                                                         *)
NoDeadEnds ==
  \A n \in Node :
    LET below == {Tree[m].rel : m \in Below(n)} \ {""}
    IN  UNION {{k} \X DOMAIN view[n][k].store : k \in DOMAIN view[n]} =
          {<<Restrict(o.key, Keys(n)), Restrict(o.key, Tree[n].lift)>> : o \in Join(below)}

(* What the loops print is the natural join of the relations, every tuple  *)
(* once and with its multiplicity, whatever the order of the updates: the  *)
(* loops look every view up under the right keys and multiply exactly the  *)
(* values that are multiplicities and no counts of derivations, and never  *)
(* run into a dead end.                                                    *)
EnumerationIsJoin ==
  /\ NoDeadEnds
  /\ Output = Join(Relation)
  /\ output_size = Cardinality(Join(Relation))
  /\ total_multiplicity = MapThenSumSet(LAMBDA o : o.value, Join(Relation))
=============================================================================
