--------------------------- MODULE CodeGenerator ----------------------------
(***************************************************************************)
(* Which views of a view tree are stored, and which statements each        *)
(* trigger of the generated program holds (CodeGenerator.scala).           *)
(***************************************************************************)
EXTENDS ViewTree, Functions

CONSTANTS
  Streams,     \* the relations declared CREATE STREAM; the others are tables
  Distributed  \* the views whose payload is a DISTRIBUTED custom type

ASSUME SourceAssumption ==
  /\ Streams \subseteq Relation
  /\ Distributed \subseteq Node

IsStatic(n) == RelationsOf(n) \cap Streams = {}

IsStaticFor(n, r) == r \notin RelationsOf(n)

(* Mutant: views are stored for the reader only, none to maintain others.  *)
IsMaterializedForReader(n) == n = Root \/ n \in Distributed

(* A view is stored when it is the root, distributed, or next to a sibling *)
(* a stream can change.                                                    *)
IsMaterialized(n) ==
  \/ n = Root
  \/ n \in Distributed
  \/ \E c \in Siblings(n) : RelationsOf(c) \cap Streams # {}

Materialized == {n \in Node : IsMaterialized(n)}

(* Mutant: only the root is maintained.                                    *)
UpdateTargetsRootOnly(r) == {n \in {Root} : ~IsStaticFor(n, r)}

(* Targets of the := statements of the SYSTEM READY trigger and of the +=  *)
(* statements of the update triggers of relation r.                        *)
ReadyTargets == {n \in Materialized : IsStatic(n)}

UpdateTargets(r) == {n \in Materialized : ~IsStaticFor(n, r)}

(* createDeltaExpr goes down the one child that depends on r and multiplies *)
(* in the siblings it passes: the nodes it visits below n, and the views   *)
(* it reads.                                                               *)
DeltaPath(n, r) == {m \in Node : m \in Subtree[n] /\ ~IsStaticFor(m, r)}

DeltaReads(n, r) == UNION {Siblings(m) : m \in DeltaPath(n, r) \ {n}}

(* createDeltaExpr's "# of delta paths not 1" error is unreachable.        *)
OneDeltaPath ==
  \A r \in Streams : \A n \in Node \ Relation :
    ~IsStaticFor(n, r) => Cardinality({c \in Children(n) : ~IsStaticFor(c, r)}) = 1

-----------------------------------------------------------------------------
(***************************************************************************)
(* What the expressions of the generated M3 program evaluate to, over the  *)
(* ring of integers (payload type long).  A relation or view over the      *)
(* variables X is a function from rows [X -> Dom] to multiplicities; a row *)
(* with multiplicity 0 is not stored.  createDefExpr, createExpr and       *)
(* createDeltaExpr of CodeGenerator.scala, and the statement operators     *)
(* := and += of a trigger.                                                 *)
(***************************************************************************)

CONSTANTS
  Dom,      \* the values of a variable
  TermVal   \* [Term -> [rows over TermVars -> Int]]: the value of a term;
            \* a conjunct is a comparison and counts 1 where it holds, else 0

Row(X) == [X -> Dom]

ASSUME ValueAssumption ==
  /\ IsFiniteSet(Dom)
  /\ \A t \in Term : TermVal[t] \in [Row(TermVars[t]) -> Int]
  /\ \A w \in WhTerm : TermVal[w] \in [Row(TermVars[w]) -> {0, 1}]

Proj(a, X) == [x \in X |-> a[x]]

Bag(X) == [Row(X) -> Int]

Zero(X) == [t \in Row(X) |-> 0]

Plus(u, v) == [t \in DOMAIN u |-> u[t] + v[t]]

(* f itself.  TLC computes the values of a function where it compares it,  *)
(* once, and otherwise anew wherever it is used.                           *)
Table(f) == CHOOSE g \in {f} : g = g

ProductFunction(f) == FoldFunction(LAMBDA x, y : x * y, 1, f)

TermProduct(n, a) == ProductFunction([t \in View[n].terms |-> TermVal[t][Proj(a, TermVars[t])]])

RowsWith(n, t) == {a \in Row(View[n].avail) : Proj(a, View[n].free) = t}

(* AggSum over the free variables of n of the product of the values val(c) *)
(* of its children and of its terms.                                       *)
JoinAndSum(n, val) ==
  LET v == Table(val)
      Joined(a) == TermProduct(n, a) * ProductFunction([c \in Children(n) |-> v[c][Proj(a, View[c].free)]])
  IN  [t \in Row(View[n].free) |-> SumFunction([a \in RowsWith(n, t) |-> Joined(a)])]

(* A relation leaf keeps all its attributes: it is its rows times the terms. *)
ScaleByTerms(n, bag) == [t \in Row(View[n].free) |-> bag[t] * TermProduct(n, t)]

(* createDefExpr: the value of every view from the tables and the stored   *)
(* views; createExpr: a stored child is read, any other is inlined.        *)
DefExpr(base, stored) ==
  LET def[n \in Node] ==
        IF n \in Relation THEN ScaleByTerms(n, base[n])
        ELSE JoinAndSum(n, [c \in Children(n) |->
                              IF IsMaterialized(c) THEN stored[c] ELSE def[c]])
  IN  def

CreateExpr(base, stored) ==
  LET def == DefExpr(base, stored)
  IN  [n \in Node |-> IF IsMaterialized(n) THEN stored[n] ELSE def[n]]

(* createDeltaExpr: the change of every view that depends on r when r      *)
(* changes by delta.  A batch trigger reads the delta relation, an insert  *)
(* or delete trigger is the delta of one row with multiplicity 1 or -1.    *)
DeltaExpr(r, delta, base, stored) ==
  LET expr == CreateExpr(base, stored)
      d[n \in {m \in Node : ~IsStaticFor(m, r)}] ==
        IF n \in Relation THEN ScaleByTerms(n, delta)
        ELSE JoinAndSum(n, [c \in Children(n) |->
                              IF IsStaticFor(c, r) THEN expr[c] ELSE d[c]])
  IN  d

(* Evaluation of every view from the base relations alone, with nothing    *)
(* stored: each node adds its value to those of its subtree.               *)
Recompute(base) ==
  LET full[n \in Node] ==
        IF n \in Relation THEN ScaleByTerms(n, base[n])
        ELSE JoinAndSum(n, [c \in Children(n) |-> full[c]])
  IN  Table(full)

(* The SQL query itself: SUM of the factors over the natural join, WHERE   *)
(* the conjuncts hold, GROUP BY the free variables.                        *)
Query(base) ==
  [t \in Row(FreeVars) |->
     SumFunction(
       [a \in {a \in Row(Variable) : Proj(a, FreeVars) = t} |->
          ProductFunction([r \in Relation |-> base[r][Proj(a, Keys[r])]])
          * ProductFunction([s \in Term |-> TermVal[s][Proj(a, TermVars[s])]])])]

(* A SUM factor is applied where one of its variables is above all its     *)
(* others.  Without such a variable it is lost, which a 1 can afford.      *)
HasPlace(s) == \E n \in TermVars[s] : TermVars[s] \subseteq Subtree[n]

FactorsPlaced ==
  \A s \in SumTerm : HasPlace(s) \/ \A a \in Row(TermVars[s]) : TermVal[s][a] = 1
=============================================================================
