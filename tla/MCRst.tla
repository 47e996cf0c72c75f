------------------------------- MODULE MCRst -------------------------------
(***************************************************************************)
(* The d-tree of examples/queries/simple/rst.txt without the variable      *)
(* "extra": A is the root, R(A,B) hangs below B, T(C,D) below D and        *)
(* S(A,C,E) below E.                                                       *)
(***************************************************************************)
EXTENDS FIVM, TLC

A == 1
B == 2
R == 3
C == 4
D == 5
T == 6
E == 7
S == 8

RstNode == 1..8
RstRelation == {R, S, T}
RstParent == (B :> A) @@ (R :> B) @@ (C :> A) @@ (D :> C) @@ (T :> D) @@ (E :> C) @@ (S :> E)
RstKeys ==
     (A :> {}) @@ (B :> {A}) @@ (R :> {A, B}) @@ (C :> {A}) @@ (D :> {C})
  @@ (T :> {C, D}) @@ (E :> {A, C}) @@ (S :> {A, C, E})

Values == {1, 2}

RowsOver(X, V) == {[x \in X |-> v[x]] : v \in V}

(* Four assignments of A..E, projected on the schema of each relation: the *)
(* arriving tuples join, fail to join, and meet in shared keys.            *)
Samples ==
  { (A :> 1) @@ (B :> 1) @@ (C :> 1) @@ (D :> 2) @@ (E :> 1),
    (A :> 1) @@ (B :> 2) @@ (C :> 2) @@ (D :> 2) @@ (E :> 2) }

RstRows == [r \in RstRelation |-> RowsOver(RstKeys[r], Samples)]

(* SUM(A*B*C*D) of rst_RT.sql.                                             *)
ProductTerms == {"A", "B", "C", "D"}
ProductVars == ("A" :> {A}) @@ ("B" :> {B}) @@ ("C" :> {C}) @@ ("D" :> {D})
ProductVal ==
  [s \in ProductTerms |-> [a \in [ProductVars[s] -> Values] |->
                             a[CHOOSE x \in ProductVars[s] : TRUE]]]

(* SUM((A+B*extra)*B*D) of rst_RT_complex.sql, with E for extra, and a     *)
(* WHERE clause with a conjunct R covers and one that spans two branches.  *)
ComplexSum == {"A+B*E", "B", "D"}
ComplexWh == {"A=1", "B<D"}
ComplexVars ==
  ("A+B*E" :> {A, B, E}) @@ ("B" :> {B}) @@ ("D" :> {D}) @@ ("A=1" :> {A}) @@ ("B<D" :> {B, D})
Holds(p) == IF p THEN 1 ELSE 0
ComplexVal ==
     ("A+B*E" :> [a \in [{A, B, E} -> Values] |-> a[A] + a[B] * a[E]])
  @@ ("B" :> [a \in [{B} -> Values] |-> a[B]])
  @@ ("D" :> [a \in [{D} -> Values] |-> a[D]])
  @@ ("A=1" :> [a \in [{A} -> Values] |-> Holds(a[A] = 1)])
  @@ ("B<D" :> [a \in [{B, D} -> Values] |-> Holds(a[B] < a[D])])

(* SUM((B+E)*D): a factor whose variables lie in two branches.             *)
BranchSum == {"B+E", "D"}
BranchVars == ("B+E" :> {B, E}) @@ ("D" :> {D})
BranchVal ==
     ("B+E" :> [a \in [{B, E} -> Values] |-> a[B] + a[E]])
  @@ ("D" :> [a \in [{D} -> Values] |-> a[D]])

(* TLC tabulates a function when it checks its type.                       *)
ASSUME Tabulated ==
  /\ Subtree \in [Node -> SUBSET Node]
  /\ View \in [Node -> [avail : SUBSET Variable, free : SUBSET Variable, terms : SUBSET Term]]

ASSUME RstWellFormed == WellFormed

(* B+E has no place: neither B nor E is above the other.                   *)
ASSUME RstFactorsPlaced == FactorsPlaced <=> SumTerm = ComplexSum
=============================================================================
