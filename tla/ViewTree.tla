------------------------------ MODULE ViewTree ------------------------------
(***************************************************************************)
(* The view tree: one view per d-tree node, with the free variables it     *)
(* keeps and the SUM and WHERE terms it applies (tree/ViewTree.scala).     *)
(* A SUM aggregate reaches this module as the list of its factors and a    *)
(* WHERE clause as the list of its conjuncts, the output of                *)
(* SQLToM3Compiler.                                                        *)
(***************************************************************************)
EXTENDS Integers, FiniteSets

-----------------------------------------------------------------------------
(***************************************************************************)
(* The d-tree of a query: a variable order whose inner nodes are the query *)
(* variables and whose leaves are its relations (tree/DTree.scala), held   *)
(* in the generic tree of tree/Tree.scala and built by DTreeParser from    *)
(* the parent numbers of the input file.  Nodes are numbered in the        *)
(* pre-order of Tree.iterator, so a variable and its node are the same     *)
(* number.                                                                 *)
(***************************************************************************)

CONSTANTS
  Node,      \* the nodes of the tree
  Root,      \* the only node without a parent
  Parent,    \* [Node \ {Root} -> Node]
  Relation,  \* the leaves: DTreeRelation nodes
  Keys       \* [Node -> SUBSET Variable]: the attributes of a relation,
             \* and the keys a variable's line of the file lists

Variable == Node \ Relation

(* One root, nodes listed in pre-order, relations among them.              *)
ASSUME TreeAssumption ==
  /\ Node \subseteq Nat
  /\ IsFiniteSet(Node)
  /\ Root \in Node
  /\ Parent \in [Node \ {Root} -> Node]
  /\ \A n \in Node \ {Root} : Parent[n] < n
  /\ \A m, n \in Node \ {Root} : Parent[n] < m /\ m < n => Parent[n] <= Parent[m]
  /\ Relation \subseteq Node
  /\ Keys \in [Node -> SUBSET Variable]

Children(n) == {c \in Node \ {Root} : Parent[c] = n}

Siblings(n) == IF n = Root THEN {} ELSE Children(Parent[n]) \ {n}

(* The nodes of the subtree rooted at n, n included: those in every set    *)
(* that holds n and, with a node, its children (Tree.iterator).            *)
ClosedUnderChildren(S) == \A c \in Node \ {Root} : Parent[c] \in S => c \in S

Subtree ==
  [n \in Node |-> {m \in Node : \A S \in SUBSET Node :
                     n \in S /\ ClosedUnderChildren(S) => m \in S}]

VariablesOf(n) == Subtree[n] \ Relation      \* DTreeImp.getVariables

RelationsOf(n) == Subtree[n] \cap Relation   \* DTreeImp.getRelations

RelationKeys(n) == UNION {Keys[r] : r \in RelationsOf(n)}

Ancestors(n) == {a \in Node \ {n} : n \in Subtree[a]}

(* What a d-tree file promises and the code relies on without checking: a  *)
(* leaf is a relation, a relation hangs below all its attributes, every    *)
(* variable is an attribute of a relation below it, and its keys are the   *)
(* variables above it that relations below it mention.                     *)
WellFormed ==
  /\ \A n \in Node : n \in Relation <=> Children(n) = {}
  /\ \A r \in Relation : Keys[r] \subseteq Ancestors(r)
  /\ \A v \in Variable : v \in RelationKeys(v)
  /\ \A v \in Variable : Keys[v] = Ancestors(v) \cap RelationKeys(v)

-----------------------------------------------------------------------------
CONSTANTS
  FreeVars,   \* the GROUP BY variables
  SumTerm,    \* the factors of the SUM aggregate
  WhTerm,     \* the conjuncts of the WHERE clause
  TermVars    \* [SumTerm \cup WhTerm -> SUBSET Variable], M3ExprImp.getVariables

Term == SumTerm \cup WhTerm

ASSUME TermAssumption ==
  /\ FreeVars \subseteq Variable
  /\ TermVars \in [Term -> SUBSET Variable]
  /\ IsFiniteSet(Term)
  /\ SumTerm \cap WhTerm = {}

Covered(t, X) == TermVars[t] \subseteq X

ChildVariables(n) == UNION {VariablesOf(c) : c \in Children(n)}

(* WHERE conjuncts no child covers by the attributes of its relations:     *)
(* the others are pushed below.                                            *)
WhereAt(n) == {w \in WhTerm : \A c \in Children(n) : ~Covered(w, RelationKeys(c))}

(* Mutant: the rule of WHERE conjuncts applied to SUM factors.             *)
SumAtLikeWhere(n) == {s \in SumTerm : \A c \in Children(n) : ~Covered(s, RelationKeys(c))}

(* SUM factors not covered by the variables of the children's subtrees.    *)
SumAt(n) == {s \in SumTerm : ~Covered(s, ChildVariables(n))}

(* The terms applied at n, given the variables available there.            *)
NodeTerms(n, available) ==
     {w \in WhereAt(n) : Covered(w, available)}
  \cup {s \in SumAt(n) : Covered(s, VariablesOf(n))}

(* Terms left for an ancestor keep their variables free.                   *)
RestVars(n, available) ==
  UNION {TermVars[t] : t \in (WhereAt(n) \cup SumAt(n)) \ NodeTerms(n, available)}

(* ViewTree.apply, bottom-up: what a view keeps of what its children offer. *)
View ==
  LET view[n \in Node] ==
        LET available == IF n \in Relation THEN Keys[n]
                         ELSE UNION {view[c].free : c \in Children(n)}
        IN  [avail |-> available,
             free  |-> available \cap (Keys[n] \cup FreeVars \cup RestVars(n, available)),
             terms |-> NodeTerms(n, available)]
  IN  view
=============================================================================
