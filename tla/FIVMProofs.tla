----------------------------- MODULE FIVMProofs -----------------------------
(***************************************************************************)
(* What holds of every d-tree, of the views compiled from it, of the       *)
(* values of their expressions, and of the maintenance program that runs   *)
(* them, for every query, domain, set of streams and input.                *)
(*                                                                         *)
(* The views come first (rels stands for any relations, kids for what is   *)
(* known of the views of the children), then the triggers.                 *)
(***************************************************************************)
EXTENDS FiniteSums, FIVM

LEMMA ProductIsFold ==
  ASSUME NEW f
  PROVE  ProductFunction(f) = ProductOf(f)
BY DEF ProductFunction, ProductOf

-----------------------------------------------------------------------------
(***************************************************************************)
(* The tree and its numbering.                                             *)
(***************************************************************************)

(* A subtree contains its root.                                            *)
LEMMA SubtreeSelf ==
  ASSUME NEW n \in Node
  PROVE  n \in Subtree[n]
BY DEF Subtree

(* Every other node of a subtree has its parent in the subtree.            *)
LEMMA SubtreeParent ==
  ASSUME NEW n \in Node, NEW m \in Subtree[n], m # n
  PROVE  m \in Node \ {Root} /\ Parent[m] \in Subtree[n]
<1> DEFINE S == {k \in Subtree[n] : k = n \/ (k # Root /\ Parent[k] \in Subtree[n])}
<1>1. S \in SUBSET Node
  BY DEF Subtree
<1>2. n \in S
  BY SubtreeSelf
<1>3. ClosedUnderChildren(S)
  <2> SUFFICES ASSUME NEW c \in Node \ {Root}, Parent[c] \in S
               PROVE  c \in S
    BY DEF ClosedUnderChildren
  <2>1. Parent[c] \in Subtree[n]
    OBVIOUS
  <2>2. c \in Subtree[n]
    BY <2>1, TreeAssumption DEF Subtree, ClosedUnderChildren
  <2> QED
    BY <2>1, <2>2
<1>4. m \in S
  BY <1>1, <1>2, <1>3 DEF Subtree
<1> QED
  BY <1>4 DEF Subtree

(* A subtree is closed under children.                                     *)
LEMMA SubtreeClosed ==
  ASSUME NEW n \in Node, NEW c \in Node \ {Root}, Parent[c] \in Subtree[n]
  PROVE  c \in Subtree[n]
BY DEF Subtree, ClosedUnderChildren

(* Pre-order numbering: no node of a subtree precedes its root.            *)
LEMMA SubtreeAfterRoot ==
  ASSUME NEW n \in Node, NEW m \in Subtree[n]
  PROVE  n <= m
<1> DEFINE S == {k \in Node : n <= k}
<1>1. n \in S
  BY TreeAssumption
<1>2. ClosedUnderChildren(S)
  <2> SUFFICES ASSUME NEW c \in Node \ {Root}, Parent[c] \in S
               PROVE  c \in S
    BY DEF ClosedUnderChildren
  <2>1. n \in Nat /\ c \in Nat /\ Parent[c] \in Nat /\ Parent[c] < c /\ n <= Parent[c]
    BY TreeAssumption
  <2> QED
    BY <2>1
<1>3. m \in S
  BY <1>1, <1>2 DEF Subtree
<1> QED
  BY <1>3

(* Two children of one node have no node in common below them, so a        *)
(* relation reaches their parent through one of them only.                 *)
LEMMA SiblingsDisjoint ==
  ASSUME NEW a \in Node \ {Root}, NEW b \in Node \ {Root},
         a # b, Parent[a] = Parent[b]
  PROVE  Subtree[a] \cap Subtree[b] = {}
<1> DEFINE S == {k \in Node : a <= k /\ k \notin Subtree[b]}
<1>1. Parent[a] \notin Subtree[b]
  <2>1. Parent[b] \in Nat /\ b \in Nat /\ Parent[b] < b
    BY TreeAssumption
  <2>2. Parent[b] \in Subtree[b] => b <= Parent[b]
    BY SubtreeAfterRoot
  <2> QED
    BY <2>1, <2>2
<1>2. a \in S
  <2>1. a \notin Subtree[b]
    BY <1>1, SubtreeParent
  <2> QED
    BY <2>1, TreeAssumption
<1>3. ClosedUnderChildren(S)
  <2> SUFFICES ASSUME NEW c \in Node \ {Root}, Parent[c] \in S
               PROVE  c \in S
    BY DEF ClosedUnderChildren
  <2>1. a \in Nat /\ c \in Nat /\ Parent[c] \in Nat /\ Parent[c] < c /\ a <= Parent[c]
    BY TreeAssumption
  <2>2. c # b
    <3>1. Parent[a] < a /\ Parent[a] \in Nat
      BY TreeAssumption
    <3> QED
      BY <2>1, <3>1
  <2>3. c \notin Subtree[b]
    BY <2>2, SubtreeParent
  <2> QED
    BY <2>1, <2>3
<1>4. Subtree[a] \subseteq S
  BY <1>2, <1>3 DEF Subtree
<1> QED
  BY <1>4

(* A node of a subtree other than its root is below one of its children.   *)
LEMMA SubtreeThroughChild ==
  ASSUME NEW n \in Node, NEW m \in Subtree[n], m # n
  PROVE  \E c \in Children(n) : m \in Subtree[c]
<1> DEFINE Below == {k \in Node : \E c \in Children(n) : k \in Subtree[c]}
           S == {n} \cup Below
<1>1. ClosedUnderChildren(S)
  <2> SUFFICES ASSUME NEW c \in Node \ {Root}, Parent[c] \in S
               PROVE  c \in S
    BY DEF ClosedUnderChildren
  <2>1. CASE Parent[c] = n
    BY <2>1, SubtreeSelf DEF Children
  <2>2. CASE Parent[c] \in Below
    BY <2>2, SubtreeClosed DEF Children
  <2> QED
    BY <2>1, <2>2
<1>2. m \in S
  BY <1>1 DEF Subtree
<1> QED
  BY <1>2

(* The children of a node have it not below them, and nothing that is not  *)
(* below it.                                                               *)
LEMMA ChildSubtree ==
  ASSUME NEW n \in Node, NEW c \in Children(n)
  PROVE  Subtree[c] \subseteq Subtree[n] \ {n}
<1>1. c \in Node \ {Root} /\ Parent[c] = n
  BY DEF Children
<1>2. ClosedUnderChildren(Subtree[n])
  BY SubtreeClosed DEF ClosedUnderChildren
<1>3. c \in Subtree[n] /\ Subtree[n] \in SUBSET Node
  BY <1>1, SubtreeSelf, SubtreeClosed DEF Subtree
<1>4. Subtree[c] \subseteq Subtree[n]
  BY <1>1, <1>2, <1>3 DEF Subtree
<1>5. n \notin Subtree[c]
  <2>1. n \in Nat /\ c \in Nat /\ n < c
    BY <1>1, TreeAssumption
  <2> QED
    BY <1>1, <2>1, SubtreeAfterRoot
<1> QED
  BY <1>4, <1>5

(* A subtree contains the subtrees of its nodes.                           *)
LEMMA SubtreeTransitive ==
  ASSUME NEW n \in Node, NEW m \in Subtree[n]
  PROVE  Subtree[m] \subseteq Subtree[n]
<1>1. ClosedUnderChildren(Subtree[n])
  BY SubtreeClosed DEF ClosedUnderChildren
<1>2. m \in Node /\ Subtree[n] \in SUBSET Node
  BY DEF Subtree
<1> QED
  BY <1>1, <1>2 DEF Subtree

(* A property of every node follows from that of its children.             *)
LEMMA TreeInduction ==
  ASSUME NEW D \in SUBSET Node, NEW Good,
         \A n \in D : (\A c \in Children(n) \cap D : c \in Good) => n \in Good
  PROVE  D \subseteq Good
<1> DEFINE Bad == D \ Good
<1> SUFFICES ASSUME Bad # {} PROVE FALSE
  OBVIOUS
<1>1. Bad \in SUBSET Nat /\ IsFiniteSet(Bad)
  BY TreeAssumption, FS_Subset
<1>2. PICK n \in Bad : \A m \in Bad : m <= n
  BY <1>1, GreatestNumber
<1>3. ASSUME NEW c \in Children(n) \cap D
      PROVE  c \in Good
  <2>1. n \in Nat /\ c \in Nat /\ n < c
    BY <1>1, TreeAssumption DEF Children
  <2> QED
    BY <1>2, <2>1
<1> QED
  BY <1>3

(* A function defined by recursion over the children exists.               *)
SolvesTree(f, D, Step) == \A n \in D : f[n] = Step[n][f]

LEMMA TreeRecursion ==
  ASSUME NEW D \in SUBSET Node, NEW F, NEW f0 \in F, NEW Step,
         \A f \in F : [n \in D |-> Step[n][f]] \in F,
         \A f, g \in F : \A n \in D :
           (\A c \in Children(n) \cap D : f[c] = g[c]) => Step[n][f] = Step[n][g]
  PROVE  \E f \in F : SolvesTree(f, D, Step)
<1>1. PICK b \in Nat : \A n \in Node : n <= b
  BY TreeAssumption, NumbersBounded
<1>0. \A n \in D : n \in Nat /\ n <= b
  BY <1>1, TreeAssumption
<1> DEFINE N == {k \in Nat : \E f \in F : \A n \in D : b < n + k => f[n] = Step[n][f]}
<1>2. 0 \in N
  <2>1. \A n \in D : ~(b < n + 0)
    BY <1>0
  <2>2. \A n \in D : b < n + 0 => f0[n] = Step[n][f0]
    BY <2>1
  <2> QED
    BY <2>2, 0 \in Nat
<1>3. ASSUME NEW k \in N
      PROVE  k + 1 \in N
  <2>0. k \in Nat /\ k + 1 \in Nat
    OBVIOUS
  <2>1. PICK f \in F : \A n \in D : b < n + k => f[n] = Step[n][f]
    OBVIOUS
  <2> DEFINE g == [n \in D |-> Step[n][f]]
  <2>2. g \in F
    OBVIOUS
  <2>3. ASSUME NEW n \in D, b < n + (k + 1)
        PROVE  g[n] = Step[n][g]
    <3>1. ASSUME NEW c \in Children(n) \cap D
          PROVE  f[c] = g[c]
      <4>1. n \in Nat /\ c \in Nat /\ n < c
        BY TreeAssumption DEF Children
      <4>2. b < c + k
        BY <1>1, <2>0, <2>3, <4>1
      <4> QED
        BY <2>1, <4>2
    <3>2. Step[n][f] = Step[n][g]
      BY <2>2, <3>1
    <3> QED
      BY <3>2
  <2> HIDE DEF g
  <2> QED
    BY <2>0, <2>2, <2>3
<1> HIDE DEF N
<1>4. N = Nat
  <2>1. N \in SUBSET Nat
    BY DEF N
  <2> QED
    BY <1>2, <1>3, <2>1, NumberInduction
<1>5. PICK f \in F : \A n \in D : b < n + (b + 1) => f[n] = Step[n][f]
  <2>1. b + 1 \in N
    BY <1>1, <1>4
  <2> QED
    BY <2>1 DEF N
<1>6. \A n \in D : b < n + (b + 1)
  BY <1>0
<1> QED
  BY <1>5, <1>6 DEF SolvesTree

(* Pre-order: the nodes of a subtree have consecutive numbers.             *)
LEMMA SubtreeInterval ==
  ASSUME NEW n \in Node, NEW a \in Subtree[n], NEW k \in Node, n <= k, k <= a
  PROVE  k \in Subtree[n]
<1> DEFINE S == {m \in Subtree[n] : \A j \in Node : n <= j /\ j <= m => j \in Subtree[n]}
<1>1. S \in SUBSET Node
  BY DEF Subtree
<1>2. n \in S
  BY SubtreeSelf, TreeAssumption
<1>3. ClosedUnderChildren(S)
  <2> SUFFICES ASSUME NEW c \in Node \ {Root}, Parent[c] \in S
               PROVE  c \in S
    BY DEF ClosedUnderChildren
  <2>1. c \in Subtree[n]
    BY SubtreeClosed
  <2> DEFINE Out == {j \in Node : n <= j /\ j <= c /\ j \notin Subtree[n]}
  <2>2. Out = {}
    <3> SUFFICES ASSUME Out # {} PROVE FALSE
      OBVIOUS
    <3>1. Out \in SUBSET Nat
      BY TreeAssumption
    <3>2. PICK j \in Out : \A i \in Out : j <= i
      BY <3>1, LeastNumber
    <3>3. /\ j \in Nat /\ c \in Nat /\ n \in Nat /\ Parent[c] \in Node
          /\ Parent[c] \in Nat /\ Parent[c] < c
      BY TreeAssumption
    <3>4. Parent[c] < j /\ j < c
      <4>1. ~(j <= Parent[c])
        OBVIOUS
      <4>2. j # c
        BY <2>1
      <4> QED
        BY <3>3, <4>1, <4>2
    <3>5. n <= Parent[c]
      BY <1>1, SubtreeAfterRoot
    <3>6. j # Root
      <4>1. \A m \in Node : Root <= m
        <5>1. PICK m \in Node : \A i \in Node : m <= i
          BY TreeAssumption, LeastNumber
        <5>2. CASE m = Root
          BY <5>1, <5>2
        <5>3. CASE m # Root
          <6>1. Parent[m] \in Node /\ Parent[m] < m /\ m \in Nat /\ Parent[m] \in Nat
            BY <5>3, TreeAssumption
          <6> QED
            BY <5>1, <6>1
        <5> QED
          BY <5>2, <5>3
      <4>2. Root <= Parent[c] /\ Root \in Nat
        BY <3>3, <4>1, TreeAssumption
      <4> QED
        BY <3>3, <3>4, <4>2
    <3>7. Parent[c] <= Parent[j] /\ Parent[j] \in Node /\ Parent[j] < j /\ Parent[j] \in Nat
      BY <3>4, <3>6, TreeAssumption
    <3>8. Parent[j] \notin Out
      BY <3>2, <3>3, <3>7
    <3>9. n <= Parent[j] /\ Parent[j] <= c
      BY <3>3, <3>4, <3>5, <3>7
    <3>10. Parent[j] \in Subtree[n]
      BY <3>7, <3>8, <3>9
    <3> QED
      BY <3>6, <3>10, SubtreeClosed
  <2> QED
    BY <2>1, <2>2
<1>4. a \in S
  BY <1>1, <1>2, <1>3 DEF Subtree
<1> QED
  BY <1>4

-----------------------------------------------------------------------------
(***************************************************************************)
(* The views.                                                              *)
(***************************************************************************)

(* What a node offers and keeps, given the views of its children.          *)
Offered(n, kids) ==
  IF n \in Relation THEN Keys[n] ELSE UNION {kids[c].free : c \in Children(n)}

ViewOf(n, kids) ==
  [avail |-> Offered(n, kids),
   free  |-> Offered(n, kids) \cap (Keys[n] \cup FreeVars \cup RestVars(n, Offered(n, kids))),
   terms |-> NodeTerms(n, Offered(n, kids))]

ViewType == [avail : SUBSET Variable, free : SUBSET Variable, terms : SUBSET Term]

LEMMA ViewOfType ==
  ASSUME NEW n \in Node, NEW kids, \A c \in Children(n) : kids[c] \in ViewType
  PROVE  ViewOf(n, kids) \in ViewType
<1>1. Offered(n, kids) \in SUBSET Variable
  BY TreeAssumption DEF Offered, ViewType
<1>2. NodeTerms(n, Offered(n, kids)) \in SUBSET Term
  BY DEF NodeTerms, WhereAt, SumAt, Term
<1>3. Offered(n, kids) \cap (Keys[n] \cup FreeVars \cup RestVars(n, Offered(n, kids))) \in SUBSET Variable
  BY <1>1
<1> QED
  BY <1>1, <1>2, <1>3 DEF ViewOf, ViewType

LEMMA ViewUnfold == \A n \in Node : View[n] = ViewOf(n, View)
<1> DEFINE F == [Node -> ViewType]
           Step == [n \in Node |-> [v \in F |-> ViewOf(n, v)]]
           Rec(v) == [n \in Node |-> ViewOf(n, v)]
<1>0. \A n \in Node : Children(n) \subseteq Node
  BY DEF Children
<1>1. \A n \in Node : \A v \in F : ViewOf(n, v) \in ViewType
  BY <1>0, ViewOfType
<1>2. \A v, w \in F : \A n \in Node :
        (\A c \in Children(n) \cap Node : v[c] = w[c]) => ViewOf(n, v) = ViewOf(n, w)
  <2> SUFFICES ASSUME NEW v \in F, NEW w \in F, NEW n \in Node,
                      \A c \in Children(n) \cap Node : v[c] = w[c]
               PROVE  Offered(n, v) = Offered(n, w)
    BY DEF ViewOf
  <2>1. \A c \in Children(n) : v[c].free = w[c].free
    BY <1>0
  <2> QED
    BY <2>1, Zenon DEF Offered
<1>3. [n \in Node |-> [avail |-> {}, free |-> {}, terms |-> {}]] \in F
  BY DEF ViewType
<1>4. \A f \in F : [n \in Node |-> Step[n][f]] \in F
  BY <1>1
<1>5. \A f, g \in F : \A n \in Node :
        (\A c \in Children(n) \cap Node : f[c] = g[c]) => Step[n][f] = Step[n][g]
  BY <1>2
<1>6. PICK v \in F : SolvesTree(v, Node, Step)
  <2> HIDE DEF F, Step
  <2> QED
    BY <1>3, <1>4, <1>5, TreeRecursion
<1>7. v = Rec(v)
  BY <1>6 DEF SolvesTree
<1>8. View = Rec(View)
  <2>1. View = CHOOSE w : w = Rec(w)
    BY Zenon DEF View, ViewOf, Offered
  <2> QED
    BY <1>7, <2>1, Zenon
<1> QED
  BY <1>8, Zenon

LEMMA ViewTyped == \A n \in Node : View[n] \in ViewType
<1> DEFINE Good == {n \in Node : View[n] \in ViewType}
<1>1. ASSUME NEW n \in Node, \A c \in Children(n) \cap Node : c \in Good
      PROVE  n \in Good
  <2>1. \A c \in Children(n) : View[c] \in ViewType
    BY <1>1 DEF Children
  <2> QED
    BY <2>1, ViewOfType, ViewUnfold
<1> HIDE DEF Good
<1>2. Node \subseteq Good
  <2>1. Node \in SUBSET Node
    OBVIOUS
  <2> QED
    BY <1>1, <2>1, TreeInduction
<1> QED
  BY <1>2 DEF Good

LEMMA ViewFields ==
  ASSUME NEW n \in Node
  PROVE  /\ View[n].avail = Offered(n, View)
         /\ View[n].free = View[n].avail \cap (Keys[n] \cup FreeVars \cup RestVars(n, View[n].avail))
         /\ View[n].terms = NodeTerms(n, View[n].avail)
         /\ View[n].avail \subseteq Variable
         /\ View[n].free \subseteq View[n].avail
         /\ View[n].terms \subseteq Term
<1>1. View[n] = ViewOf(n, View) /\ View[n] \in ViewType
  BY ViewUnfold, ViewTyped
<1>2. /\ View[n].avail = Offered(n, View)
      /\ View[n].free = Offered(n, View) \cap (Keys[n] \cup FreeVars \cup RestVars(n, Offered(n, View)))
      /\ View[n].terms = NodeTerms(n, Offered(n, View))
  BY <1>1 DEF ViewOf
<1>3. View[n].avail \subseteq Variable /\ View[n].terms \subseteq Term
  BY <1>1 DEF ViewType
<1> QED
  BY <1>2, <1>3, Zenon

(* A relation keeps all its attributes.                                    *)
LEMMA LeafView ==
  ASSUME NEW r \in Relation
  PROVE  r \in Node /\ View[r].avail = Keys[r] /\ View[r].free = Keys[r]
<1>1. r \in Node
  BY TreeAssumption
<1>2. View[r].avail = Keys[r]
  BY <1>1, ViewFields DEF Offered
<1> QED
  BY <1>1, <1>2, ViewFields

(* What a child keeps is available to its parent.                          *)
LEMMA ChildFree ==
  ASSUME NEW n \in Node \ Relation, NEW c \in Children(n)
  PROVE  c \in Node /\ View[c].free \subseteq View[n].avail
<1>1. View[n].avail = UNION {View[d].free : d \in Children(n)}
  BY ViewFields DEF Offered
<1> QED
  BY <1>1 DEF Children

(* A relation is a leaf.                                                   *)
LEMMA LeafSubtree ==
  ASSUME WellFormed, NEW r \in Relation
  PROVE  r \in Node /\ Subtree[r] = {r} /\ RelationsOf(r) = {r}
<1>1. r \in Node /\ Children(r) = {}
  BY TreeAssumption DEF WellFormed
<1>2. Subtree[r] = {r}
  BY <1>1, SubtreeSelf, SubtreeThroughChild
<1> QED
  BY <1>1, <1>2 DEF RelationsOf

(* Between a relation and the node of one of its attributes every view     *)
(* keeps the attribute, and so the node finds its own variable available.  *)
LEMMA AttributeKept ==
  ASSUME WellFormed, NEW v \in Variable, NEW m \in Subtree[v], m # v, v \in RelationKeys(m)
  PROVE  v \in View[m].free
<1> DEFINE D == Subtree[v] \ {v}
           Good == {k \in Node : v \in RelationKeys(k) => v \in View[k].free}
<1>0. v \in Node /\ D \in SUBSET Node
  BY DEF Variable, Subtree
<1>1. ASSUME NEW k \in D, \A c \in Children(k) \cap D : c \in Good
      PROVE  k \in Good
  <2> SUFFICES ASSUME v \in RelationKeys(k)
               PROVE  v \in View[k].free
    BY <1>0
  <2>0. k \in Node
    BY <1>0
  <2>1. PICK r \in RelationsOf(k) : v \in Keys[r]
    BY DEF RelationKeys
  <2>2. CASE k \in Relation
    <3>1. r = k
      BY <2>1, <2>2, LeafSubtree
    <3> QED
      BY <2>1, <2>2, <3>1, LeafView
  <2>3. CASE k \notin Relation
    <3>1. r \in Subtree[k] /\ r # k /\ r \in Relation
      BY <2>1, <2>3 DEF RelationsOf
    <3>2. PICK c \in Children(k) : r \in Subtree[c]
      BY <2>0, <3>1, SubtreeThroughChild
    <3>3. c \in Node \ {Root} /\ Parent[c] = k
      BY DEF Children
    <3>4. c \in D
      <4>1. c \in Subtree[v]
        BY <1>0, <3>3, SubtreeClosed
      <4>2. v <= k /\ k < c /\ v \in Nat /\ k \in Nat /\ c \in Nat
        BY <1>0, <2>0, <3>3, SubtreeAfterRoot, TreeAssumption
      <4> QED
        BY <4>1, <4>2
    <3>5. v \in RelationKeys(c)
      BY <2>1, <3>1, <3>2 DEF RelationKeys, RelationsOf
    <3>6. v \in View[c].free
      BY <1>1, <3>4, <3>5
    <3>7. v \in View[k].avail
      BY <2>0, <2>3, <3>6, ChildFree
    <3>8. v \in Keys[k]
      <4>1. k \in Variable /\ v \in Ancestors(k)
        BY <1>0, <2>0, <2>3 DEF Variable, Ancestors
      <4> QED
        BY <4>1 DEF WellFormed
    <3> QED
      BY <2>0, <3>7, <3>8, ViewFields
  <2> QED
    BY <2>2, <2>3
<1> HIDE DEF Good
<1>2. D \subseteq Good
  BY <1>0, <1>1, TreeInduction
<1> QED
  BY <1>2 DEF Good

LEMMA OwnVariable ==
  ASSUME WellFormed, NEW v \in Variable
  PROVE  v \in View[v].avail
<1>1. v \in Node /\ v \notin Relation
  BY DEF Variable
<1>2. PICK r \in RelationsOf(v) : v \in Keys[r]
  BY DEF WellFormed, RelationKeys
<1>3. r \in Subtree[v] /\ r \in Relation /\ r # v
  BY <1>1 DEF RelationsOf
<1>4. PICK c \in Children(v) : r \in Subtree[c]
  BY <1>1, <1>3, SubtreeThroughChild
<1>5. c \in Subtree[v] /\ c # v
  BY <1>1, ChildSubtree, SubtreeSelf DEF Children
<1>6. v \in RelationKeys(c)
  BY <1>2, <1>3, <1>4 DEF RelationKeys, RelationsOf
<1>7. v \in View[c].free
  BY <1>5, <1>6, AttributeKept
<1> QED
  BY <1>1, <1>7, ChildFree

(* Where a SUM factor goes, whatever the tree and the query: to the node   *)
(* of that variable of the factor which is above all its others.  A factor *)
(* without variables, or whose variables lie in different branches, has no *)
(* such variable: it is applied nowhere and is lost from the aggregate.    *)
THEOREM FactorPlacement ==
  ASSUME NEW s \in SumTerm, NEW n \in Node, NEW available
  PROVE  s \in NodeTerms(n, available) <=> n \in TermVars[s] /\ TermVars[s] \subseteq Subtree[n]
<1>1. TermVars[s] \subseteq Node \ Relation
  BY TermAssumption DEF Term, Variable
<1>2. s \in NodeTerms(n, available) <=>
        TermVars[s] \subseteq VariablesOf(n) /\ ~(TermVars[s] \subseteq ChildVariables(n))
  BY TermAssumption DEF NodeTerms, SumAt, WhereAt, Covered
<1>3. TermVars[s] \subseteq VariablesOf(n) <=> TermVars[s] \subseteq Subtree[n]
  BY <1>1 DEF VariablesOf
<1>4. ASSUME NEW v \in TermVars[s], TermVars[s] \subseteq Subtree[n]
      PROVE  v \in ChildVariables(n) <=> v # n
  <2>1. CASE v = n
    BY <2>1, ChildSubtree DEF ChildVariables, VariablesOf
  <2>2. CASE v # n
    <3>1. PICK c \in Children(n) : v \in Subtree[c]
      BY <1>4, <2>2, SubtreeThroughChild
    <3> QED
      BY <1>1, <2>2, <3>1 DEF ChildVariables, VariablesOf
  <2> QED
    BY <2>1, <2>2
<1> QED
  BY <1>2, <1>3, <1>4

(* A SUM factor whose own node is n is left for it by every node below,    *)
(* and so its variables are kept on the way up.                            *)
LEMMA FactorKept ==
  ASSUME WellFormed, NEW n \in Node, NEW s \in SumTerm, n \in TermVars[s],
         NEW v \in TermVars[s], NEW m \in Subtree[n], m # n, v \in Subtree[m]
  PROVE  v \in View[m].free
<1> DEFINE D == Subtree[n] \ {n}
           Good == {k \in Node : v \in Subtree[k] => v \in View[k].free}
<1>0. D \in SUBSET Node /\ v \in Variable /\ s \in Term
  BY TermAssumption DEF Subtree, Term
<1>1. ASSUME NEW k \in D, \A c \in Children(k) \cap D : c \in Good
      PROVE  k \in Good
  <2> SUFFICES ASSUME v \in Subtree[k]
               PROVE  v \in View[k].free
    BY <1>0
  <2>0. k \in Node
    BY <1>0
  <2>1. n \notin Subtree[k]
    <3>1. n <= k /\ n \in Nat /\ k \in Nat /\ n # k
      BY <2>0, SubtreeAfterRoot, TreeAssumption
    <3> QED
      BY <2>0, <3>1, SubtreeAfterRoot
  <2>2. k \notin Relation
    BY <1>0, LeafSubtree DEF Variable
  <2>3. s \in SumAt(k) \ NodeTerms(k, View[k].avail)
    <3>1. n \notin ChildVariables(k)
      BY <2>0, <2>1, ChildSubtree DEF ChildVariables, VariablesOf
    <3>2. n \notin VariablesOf(k)
      BY <2>1 DEF VariablesOf
    <3> QED
      BY <3>1, <3>2, TermAssumption DEF SumAt, NodeTerms, WhereAt, Covered
  <2>4. v \in RestVars(k, View[k].avail)
    BY <2>3 DEF RestVars
  <2>5. v \in View[k].avail
    <3>1. CASE v = k
      BY <1>0, <3>1, OwnVariable
    <3>2. CASE v # k
      <4>1. PICK c \in Children(k) : v \in Subtree[c]
        BY <2>0, <3>2, SubtreeThroughChild
      <4>2. c \in D
        <5>1. c \in Node \ {Root} /\ Parent[c] = k
          BY DEF Children
        <5>2. c \in Subtree[n]
          BY <5>1, SubtreeClosed
        <5>3. n <= k /\ k < c /\ n \in Nat /\ k \in Nat /\ c \in Nat
          BY <2>0, <5>1, SubtreeAfterRoot, TreeAssumption
        <5> QED
          BY <5>2, <5>3
      <4>3. v \in View[c].free
        BY <1>1, <4>1, <4>2
      <4> QED
        BY <2>0, <2>2, <4>3, ChildFree
    <3> QED
      BY <3>1, <3>2
  <2> QED
    BY <2>0, <2>4, <2>5, ViewFields
<1> HIDE DEF Good
<1>2. D \subseteq Good
  BY <1>0, <1>1, TreeInduction
<1> QED
  BY <1>0, <1>2 DEF Good

(* The generated code never reads a variable that is not there: every term *)
(* a view applies has its variables among those its children offer.        *)
THEOREM TermsCovered ==
  ASSUME WellFormed, NEW n \in Node, NEW t \in View[n].terms
  PROVE  t \in Term /\ TermVars[t] \subseteq View[n].avail
<1>1. t \in NodeTerms(n, View[n].avail) /\ t \in Term
  BY ViewFields
<1>2. CASE t \in WhTerm
  BY <1>1, <1>2, TermAssumption DEF NodeTerms, SumAt, Covered
<1>3. CASE t \in SumTerm
  <2>1. n \in TermVars[t] /\ TermVars[t] \subseteq Subtree[n]
    BY <1>1, <1>3, FactorPlacement
  <2>2. n \in Variable /\ n \notin Relation
    BY <1>1, <2>1, TermAssumption DEF Variable
  <2> SUFFICES ASSUME NEW v \in TermVars[t] PROVE v \in View[n].avail
    BY <1>1
  <2>3. CASE v = n
    BY <2>2, <2>3, OwnVariable
  <2>4. CASE v # n
    <3>1. PICK c \in Children(n) : v \in Subtree[c]
      BY <2>1, <2>4, SubtreeThroughChild
    <3>2. c \in Subtree[n] /\ c # n
      BY ChildSubtree, SubtreeSelf DEF Children
    <3>3. v \in View[c].free
      BY <1>3, <2>1, <3>1, <3>2, FactorKept
    <3> QED
      BY <2>2, <3>3, ChildFree
  <2> QED
    BY <2>3, <2>4
<1> QED
  BY <1>1, <1>2, <1>3 DEF Term

-----------------------------------------------------------------------------
(***************************************************************************)
(* The values of expressions.                                              *)
(***************************************************************************)

LEMMA TableIs ==
  ASSUME NEW f
  PROVE  Table(f) = f
BY DEF Table

LEMMA RowFinite ==
  ASSUME NEW X \in SUBSET Node
  PROVE  IsFiniteSet(Row(X))
BY TreeAssumption, ValueAssumption, FS_Subset, FunctionsFinite DEF Row

LEMMA ProjType ==
  ASSUME NEW X, NEW a \in Row(X), NEW Y \in SUBSET X
  PROVE  Proj(a, Y) \in Row(Y)
BY DEF Proj, Row

LEMMA ChildrenFinite ==
  ASSUME NEW n
  PROVE  IsFiniteSet(Children(n)) /\ Children(n) \in SUBSET Node
BY TreeAssumption, FS_Subset DEF Children

LEMMA TermProductType ==
  ASSUME WellFormed, NEW n \in Node, NEW a \in Row(View[n].avail)
  PROVE  TermProduct(n, a) \in Int
<1> DEFINE f == [t \in View[n].terms |-> TermVal[t][Proj(a, TermVars[t])]]
<1>1. IsFiniteSet(View[n].terms)
  BY ViewFields, TermAssumption, FS_Subset
<1>2. f \in [View[n].terms -> Int]
  <2> SUFFICES ASSUME NEW t \in View[n].terms
               PROVE  TermVal[t][Proj(a, TermVars[t])] \in Int
    OBVIOUS
  <2>1. t \in Term /\ TermVars[t] \subseteq View[n].avail
    BY TermsCovered
  <2>2. Proj(a, TermVars[t]) \in Row(TermVars[t])
    BY <2>1, ProjType
  <2> QED
    BY <2>1, <2>2, ValueAssumption
<1> HIDE DEF f
<1>3. ProductFunction(f) \in Int
  BY <1>1, <1>2, ProductType, ProductIsFold
<1> QED
  BY <1>3, Zenon DEF f, TermProduct

(* One row of the join of the children.                                    *)
Factors(n, val, a) == [c \in Children(n) |-> val[c][Proj(a, View[c].free)]]

Joined(n, val, a) == TermProduct(n, a) * ProductFunction(Factors(n, val, a))

BagsBelow(n, val) == \A c \in Children(n) : val[c] \in Bag(View[c].free)

LEMMA JoinAndSumIs ==
  ASSUME NEW n, NEW val
  PROVE  JoinAndSum(n, val) =
           [t \in Row(View[n].free) |-> SumFunction([a \in RowsWith(n, t) |-> Joined(n, val, a)])]
BY TableIs, Zenon DEF JoinAndSum, Joined, Factors

LEMMA FactorsType ==
  ASSUME WellFormed, NEW n \in Node \ Relation, NEW val, BagsBelow(n, val),
         NEW a \in Row(View[n].avail)
  PROVE  Factors(n, val, a) \in [Children(n) -> Int]
<1> SUFFICES ASSUME NEW c \in Children(n)
             PROVE  val[c][Proj(a, View[c].free)] \in Int
  BY DEF Factors
<1>1. Proj(a, View[c].free) \in Row(View[c].free)
  BY ChildFree, ProjType
<1>2. val[c] \in [Row(View[c].free) -> Int]
  BY DEF BagsBelow, Bag
<1> QED
  BY <1>1, <1>2

LEMMA JoinedType ==
  ASSUME WellFormed, NEW n \in Node \ Relation, NEW val, BagsBelow(n, val),
         NEW a \in Row(View[n].avail)
  PROVE  Joined(n, val, a) \in Int
<1>1. TermProduct(n, a) \in Int
  BY TermProductType
<1>2. ProductFunction(Factors(n, val, a)) \in Int
  BY FactorsType, ChildrenFinite, ProductType, ProductIsFold
<1> QED
  BY <1>1, <1>2 DEF Joined

LEMMA RowsWithFinite ==
  ASSUME NEW n \in Node, NEW t
  PROVE  RowsWith(n, t) \in SUBSET Row(View[n].avail) /\ IsFiniteSet(RowsWith(n, t))
<1>1. View[n].avail \in SUBSET Node
  BY ViewFields DEF Variable
<1>2. RowsWith(n, t) \in SUBSET Row(View[n].avail)
  BY DEF RowsWith
<1> QED
  BY <1>1, <1>2, RowFinite, FS_Subset

LEMMA JoinAndSumType ==
  ASSUME WellFormed, NEW n \in Node \ Relation, NEW val, BagsBelow(n, val)
  PROVE  JoinAndSum(n, val) \in Bag(View[n].free)
<1> SUFFICES ASSUME NEW t \in Row(View[n].free)
             PROVE  SumFunction([a \in RowsWith(n, t) |-> Joined(n, val, a)]) \in Int
  BY JoinAndSumIs DEF Bag
<1>1. [a \in RowsWith(n, t) |-> Joined(n, val, a)] \in [RowsWith(n, t) -> Int]
  BY RowsWithFinite, JoinedType
<1> QED
  BY <1>1, RowsWithFinite, SumType

(* Only the values of the children count.                                  *)
LEMMA JoinAndSumLocal ==
  ASSUME NEW n, NEW u, NEW w, \A c \in Children(n) : u[c] = w[c]
  PROVE  JoinAndSum(n, u) = JoinAndSum(n, w)
<1>1. \A a : Factors(n, u, a) = Factors(n, w, a)
  BY Zenon DEF Factors
<1>2. \A a : Joined(n, u, a) = Joined(n, w, a)
  BY <1>1, Zenon DEF Joined
<1>3. \A t : [a \in RowsWith(n, t) |-> Joined(n, u, a)] = [a \in RowsWith(n, t) |-> Joined(n, w, a)]
  BY <1>2, Zenon
<1> QED
  BY <1>3, JoinAndSumIs, Zenon

(* The join takes the value of one child times something the others give.  *)
LEMMA JoinedFactor ==
  ASSUME WellFormed, NEW n \in Node \ Relation, NEW c \in Children(n),
         NEW a \in Row(View[n].avail), NEW u, BagsBelow(n, u)
  PROVE  \E k \in Int :
           \A w : BagsBelow(n, w) /\ (\A d \in Children(n) \ {c} : w[d] = u[d]) =>
                    Joined(n, w, a) = k * w[c][Proj(a, View[c].free)]
<1> DEFINE others == [d \in Children(n) |-> IF d = c THEN 1 ELSE Factors(n, u, a)[d]]
           k == TermProduct(n, a) * ProductFunction(others)
<1>1. others \in [Children(n) -> Int]
  BY FactorsType
<1>2. TermProduct(n, a) \in Int /\ ProductFunction(others) \in Int
  <2> HIDE DEF others
  <2> QED
    BY <1>1, TermProductType, ChildrenFinite, ProductType, ProductIsFold
<1>3. k \in Int
  BY <1>2
<1>4. ASSUME NEW w, BagsBelow(n, w), \A d \in Children(n) \ {c} : w[d] = u[d]
      PROVE  Joined(n, w, a) = k * w[c][Proj(a, View[c].free)]
  <2> DEFINE f == Factors(n, w, a)
             x == w[c][Proj(a, View[c].free)]
  <2>1. f \in [Children(n) -> Int]
    BY <1>4, FactorsType
  <2>2. \A d \in Children(n) \ {c} : f[d] = others[d]
    BY <1>4 DEF Factors
  <2>3. others[c] = 1 /\ f[c] = x
    BY DEF Factors
  <2> HIDE DEF others, f, x
  <2>4. ProductFunction(f) = ProductFunction(others) * x
    BY <1>1, <2>1, <2>2, <2>3, ChildrenFinite, ProductFactor, ProductIsFold
  <2>5. x \in Int
    BY <2>1, <2>3
  <2>6. Joined(n, w, a) = TermProduct(n, a) * (ProductFunction(others) * x)
    BY <2>4 DEF Joined, f
  <2>7. \A i, j, l \in Int : i * (j * l) = (i * j) * l
    OBVIOUS
  <2> QED
    BY <1>2, <2>5, <2>6, <2>7 DEF x
<1> HIDE DEF k
<1> QED
  BY <1>3, <1>4

(* A view is linear in each of its children.                               *)
LEMMA JoinAndSumAdds ==
  ASSUME WellFormed, NEW n \in Node \ Relation, NEW c \in Children(n),
         NEW u, NEW v, NEW w, BagsBelow(n, u), BagsBelow(n, v), BagsBelow(n, w),
         \A d \in Children(n) \ {c} : v[d] = u[d] /\ w[d] = u[d],
         w[c] = Plus(u[c], v[c])
  PROVE  JoinAndSum(n, w) = Plus(JoinAndSum(n, u), JoinAndSum(n, v))
<1>1. ASSUME NEW a \in Row(View[n].avail)
      PROVE  Joined(n, w, a) = Joined(n, u, a) + Joined(n, v, a)
  <2>1. PICK k \in Int :
          \A z : BagsBelow(n, z) /\ (\A d \in Children(n) \ {c} : z[d] = u[d]) =>
                   Joined(n, z, a) = k * z[c][Proj(a, View[c].free)]
    BY JoinedFactor
  <2> DEFINE p == Proj(a, View[c].free)
  <2>2. /\ Joined(n, u, a) = k * u[c][p]
        /\ Joined(n, v, a) = k * v[c][p]
        /\ Joined(n, w, a) = k * w[c][p]
    BY <2>1
  <2>3. p \in Row(View[c].free)
    BY ChildFree, ProjType
  <2>4. u[c] \in [Row(View[c].free) -> Int] /\ v[c] \in [Row(View[c].free) -> Int]
    BY DEF BagsBelow, Bag
  <2>5. w[c][p] = u[c][p] + v[c][p] /\ u[c][p] \in Int /\ v[c][p] \in Int
    BY <2>3, <2>4 DEF Plus
  <2>6. \A i, j, l \in Int : i * (j + l) = i * j + i * l
    OBVIOUS
  <2> HIDE DEF p
  <2> QED
    BY <2>2, <2>5, <2>6
<1>2. ASSUME NEW t \in Row(View[n].free)
      PROVE  JoinAndSum(n, w)[t] = JoinAndSum(n, u)[t] + JoinAndSum(n, v)[t]
  <2> DEFINE X == RowsWith(n, t)
             fu == [a \in X |-> Joined(n, u, a)]
             fv == [a \in X |-> Joined(n, v, a)]
             fw == [a \in X |-> Joined(n, w, a)]
  <2>1. X \in SUBSET Row(View[n].avail) /\ IsFiniteSet(X)
    BY RowsWithFinite
  <2>2. fu \in [X -> Int] /\ fv \in [X -> Int] /\ fw \in [X -> Int]
    BY <2>1, JoinedType
  <2>3. PointwiseSum(fw, fu, fv, X)
    BY <1>1, <2>1 DEF PointwiseSum
  <2>4. SumFunction(fw) = SumFunction(fu) + SumFunction(fv)
    <3> HIDE DEF fu, fv, fw, X
    <3> QED
      BY <2>1, <2>2, <2>3, SumAdds
  <2> QED
    BY <2>4, JoinAndSumIs
<1>3. JoinAndSum(n, u) \in Bag(View[n].free) /\ JoinAndSum(n, w) \in Bag(View[n].free)
  BY JoinAndSumType
<1> QED
  BY <1>2, <1>3 DEF Plus, Bag

(* One empty child makes a join empty.                                     *)
LEMMA JoinAndSumZero ==
  ASSUME WellFormed, NEW n \in Node \ Relation, NEW c \in Children(n),
         NEW u, BagsBelow(n, u), u[c] = Zero(View[c].free)
  PROVE  JoinAndSum(n, u) = Zero(View[n].free)
<1>1. ASSUME NEW a \in Row(View[n].avail)
      PROVE  Joined(n, u, a) = 0
  <2>1. PICK k \in Int : Joined(n, u, a) = k * u[c][Proj(a, View[c].free)]
    BY JoinedFactor
  <2>2. Proj(a, View[c].free) \in Row(View[c].free)
    BY ChildFree, ProjType
  <2>3. u[c][Proj(a, View[c].free)] = 0
    BY <2>2 DEF Zero
  <2> QED
    BY <2>1, <2>3
<1>2. ASSUME NEW t \in Row(View[n].free)
      PROVE  SumFunction([a \in RowsWith(n, t) |-> Joined(n, u, a)]) = 0
  <2> DEFINE X == RowsWith(n, t)
             f == [a \in X |-> Joined(n, u, a)]
  <2>1. X \in SUBSET Row(View[n].avail) /\ IsFiniteSet(X)
    BY RowsWithFinite
  <2>2. f \in [X -> Int] /\ \A a \in X : f[a] = 0
    BY <1>1, <2>1
  <2> HIDE DEF f, X
  <2>3. SumFunction(f) = 0
    BY <2>1, <2>2, SumOfZeros
  <2> QED
    BY <2>3 DEF f, X
<1> QED
  BY <1>2, JoinAndSumIs DEF Zero

-----------------------------------------------------------------------------
(***************************************************************************)
(* The values of the views of a whole tree.                                *)
(***************************************************************************)

BagsOf(D) == {f \in [D -> UNION {Bag(View[n].free) : n \in Node}] : \A n \in D : f[n] \in Bag(View[n].free)}

BaseOK(rels) == \A r \in Relation : rels[r] \in Bag(Keys[r])

StoredOK(stored) == \A n \in Materialized : stored[n] \in Bag(View[n].free)

LEMMA BagsOfUse ==
  ASSUME NEW D \in SUBSET Node, NEW f
  PROVE  /\ f \in BagsOf(D) => \A n \in D : f[n] \in Bag(View[n].free)
         /\ (\A n \in D : f[n] \in Bag(View[n].free)) => [n \in D |-> f[n]] \in BagsOf(D)
         /\ [n \in D |-> Zero(View[n].free)] \in BagsOf(D)
<1>1. \A n \in D : Zero(View[n].free) \in Bag(View[n].free)
  BY DEF Zero, Bag
<1> QED
  BY <1>1 DEF BagsOf

LEMMA ScaleType ==
  ASSUME WellFormed, NEW r \in Relation, NEW bag \in Bag(Keys[r])
  PROVE  ScaleByTerms(r, bag) \in Bag(View[r].free)
<1>1. \A t \in Row(Keys[r]) : TermProduct(r, t) \in Int /\ bag[t] \in Int
  BY LeafView, TermProductType DEF Bag
<1>2. \A t \in Row(Keys[r]) : bag[t] * TermProduct(r, t) \in Int
  BY <1>1
<1> QED
  BY <1>2, LeafView DEF ScaleByTerms, Bag

LEMMA ScaleAdds ==
  ASSUME WellFormed, NEW r \in Relation, NEW u \in Bag(Keys[r]), NEW v \in Bag(Keys[r])
  PROVE  ScaleByTerms(r, Plus(u, v)) = Plus(ScaleByTerms(r, u), ScaleByTerms(r, v))
<1>1. View[r].free = Keys[r] /\ DOMAIN u = Row(Keys[r])
  BY LeafView DEF Bag
<1>2. ASSUME NEW t \in Row(Keys[r])
      PROVE  (u[t] + v[t]) * TermProduct(r, t) = u[t] * TermProduct(r, t) + v[t] * TermProduct(r, t)
  <2>1. TermProduct(r, t) \in Int /\ u[t] \in Int /\ v[t] \in Int
    BY LeafView, TermProductType DEF Bag
  <2>2. \A i, j, k \in Int : (i + j) * k = i * k + j * k
    OBVIOUS
  <2> QED
    BY <2>1, <2>2
<1> QED
  BY <1>1, <1>2 DEF ScaleByTerms, Plus

(* One node of Recompute, DefExpr and DeltaExpr.                           *)
FullValue(n, rels, full) ==
  IF n \in Relation THEN ScaleByTerms(n, rels[n])
  ELSE JoinAndSum(n, [c \in Children(n) |-> full[c]])

DefValue(n, rels, stored, def) ==
  IF n \in Relation THEN ScaleByTerms(n, rels[n])
  ELSE JoinAndSum(n, [c \in Children(n) |-> IF IsMaterialized(c) THEN stored[c] ELSE def[c]])

DeltaValue(n, r, delta, expr, d) ==
  IF n \in Relation THEN ScaleByTerms(n, delta)
  ELSE JoinAndSum(n, [c \in Children(n) |-> IF IsStaticFor(c, r) THEN expr[c] ELSE d[c]])

LEMMA FullValueType ==
  ASSUME WellFormed, NEW rels, BaseOK(rels), NEW n \in Node,
         NEW full, \A c \in Children(n) : full[c] \in Bag(View[c].free)
  PROVE  FullValue(n, rels, full) \in Bag(View[n].free)
<1>1. CASE n \in Relation
  BY <1>1, ScaleType DEF FullValue, BaseOK
<1>2. CASE n \notin Relation
  <2> DEFINE val == [c \in Children(n) |-> full[c]]
  <2>1. BagsBelow(n, val)
    BY DEF BagsBelow
  <2> HIDE DEF val
  <2>2. JoinAndSum(n, val) \in Bag(View[n].free)
    BY <1>2, <2>1, JoinAndSumType
  <2> QED
    BY <1>2, <2>2, Zenon DEF FullValue, val
<1> QED
  BY <1>1, <1>2

LEMMA FullUnfold ==
  ASSUME WellFormed, NEW rels, BaseOK(rels)
  PROVE  \A n \in Node : Recompute(rels)[n] = FullValue(n, rels, Recompute(rels))
<1> DEFINE F == BagsOf(Node)
           Step == [n \in Node |-> [f \in F |-> FullValue(n, rels, f)]]
           Rec(f) == [n \in Node |-> FullValue(n, rels, f)]
           f0 == [n \in Node |-> Zero(View[n].free)]
<1>0. Node \in SUBSET Node /\ \A n \in Node : Children(n) \subseteq Node
  BY DEF Children
<1>1. f0 \in F
  BY <1>0, BagsOfUse
<1>2. \A f \in F : [n \in Node |-> Step[n][f]] \in F
  <2> SUFFICES ASSUME NEW f \in F PROVE [n \in Node |-> FullValue(n, rels, f)] \in F
    OBVIOUS
  <2> DEFINE g == [n \in Node |-> FullValue(n, rels, f)]
  <2>1. \A n \in Node : f[n] \in Bag(View[n].free)
    BY <1>0, BagsOfUse
  <2>2. \A n \in Node : FullValue(n, rels, f) \in Bag(View[n].free)
    BY <1>0, <2>1, FullValueType
  <2>3. \A n \in Node : g[n] \in Bag(View[n].free)
    BY <2>2
  <2>4. g = [n \in Node |-> g[n]]
    OBVIOUS
  <2> HIDE DEF g, F
  <2>5. [n \in Node |-> g[n]] \in BagsOf(Node)
    BY <1>0, <2>3, BagsOfUse
  <2>6. g \in F
    BY <2>4, <2>5 DEF F
  <2> QED
    BY <2>6 DEF g
<1>3. \A f, g \in F : \A n \in Node :
        (\A c \in Children(n) \cap Node : f[c] = g[c]) => Step[n][f] = Step[n][g]
  <2> SUFFICES ASSUME NEW f \in F, NEW g \in F, NEW n \in Node,
                      \A c \in Children(n) \cap Node : f[c] = g[c]
               PROVE  FullValue(n, rels, f) = FullValue(n, rels, g)
    OBVIOUS
  <2>1. [c \in Children(n) |-> f[c]] = [c \in Children(n) |-> g[c]]
    BY <1>0
  <2> QED
    BY <2>1, Zenon DEF FullValue
<1>4. PICK f \in F : SolvesTree(f, Node, Step)
  <2> HIDE DEF F, Step, f0
  <2> QED
    BY <1>0, <1>1, <1>2, <1>3, TreeRecursion
<1>5. f = Rec(f)
  <2>1. DOMAIN f = Node /\ f = [n \in DOMAIN f |-> f[n]]
    BY DEF BagsOf
  <2>2. \A n \in Node : f[n] = FullValue(n, rels, f)
    BY <1>4 DEF SolvesTree
  <2> QED
    BY <2>1, <2>2
<1>6. Recompute(rels) = Rec(Recompute(rels))
  <2>1. Recompute(rels) = CHOOSE g : g = Rec(g)
    BY TableIs, Zenon DEF Recompute, FullValue
  <2> QED
    BY <1>5, <2>1, Zenon
<1> QED
  BY <1>6, Zenon

LEMMA FullType ==
  ASSUME WellFormed, NEW rels, BaseOK(rels)
  PROVE  \A n \in Node : Recompute(rels)[n] \in Bag(View[n].free)
<1> DEFINE Good == {n \in Node : Recompute(rels)[n] \in Bag(View[n].free)}
<1>1. ASSUME NEW n \in Node, \A c \in Children(n) \cap Node : c \in Good
      PROVE  n \in Good
  <2>1. \A c \in Children(n) : Recompute(rels)[c] \in Bag(View[c].free)
    BY <1>1 DEF Children
  <2> QED
    BY <2>1, FullUnfold, FullValueType
<1> HIDE DEF Good
<1>2. Node \in SUBSET Node
  OBVIOUS
<1>3. Node \subseteq Good
  BY <1>1, <1>2, TreeInduction
<1> QED
  BY <1>3 DEF Good

(* A view depends on the relations below it alone.                         *)
SameBelow(n, rels, rels2) == \A r \in RelationsOf(n) : rels[r] = rels2[r]

LEMMA FullLocal ==
  ASSUME WellFormed, NEW rels, BaseOK(rels), NEW rels2, BaseOK(rels2),
         NEW n \in Node, SameBelow(n, rels, rels2)
  PROVE  Recompute(rels)[n] = Recompute(rels2)[n]
<1> DEFINE D == Subtree[n]
           Good == {k \in Node : Recompute(rels)[k] = Recompute(rels2)[k]}
<1>0. D \in SUBSET Node
  BY DEF Subtree
<1>1. ASSUME NEW k \in D, \A c \in Children(k) \cap D : c \in Good
      PROVE  k \in Good
  <2>1. k \in Node
    BY <1>0
  <2>2. CASE k \in Relation
    <3>1. rels[k] = rels2[k]
      BY <2>2 DEF RelationsOf, SameBelow
    <3>2. FullValue(k, rels, Recompute(rels)) = FullValue(k, rels2, Recompute(rels2))
      BY <2>2, <3>1 DEF FullValue
    <3> QED
      BY <2>1, <3>2, FullUnfold
  <2>3. CASE k \notin Relation
    <3>1. \A c \in Children(k) : c \in D
      BY SubtreeClosed DEF Children
    <3>2. [c \in Children(k) |-> Recompute(rels)[c]] = [c \in Children(k) |-> Recompute(rels2)[c]]
      BY <1>1, <3>1
    <3>3. FullValue(k, rels, Recompute(rels)) = FullValue(k, rels2, Recompute(rels2))
      BY <2>3, <3>2, Zenon DEF FullValue
    <3> QED
      BY <2>1, <3>3, FullUnfold
  <2> QED
    BY <2>2, <2>3
<1> HIDE DEF Good
<1>2. D \subseteq Good
  BY <1>0, <1>1, TreeInduction
<1> QED
  BY <1>2, SubtreeSelf DEF Good

(* A view with an empty relation below it is empty.                        *)
LEMMA FullEmpty ==
  ASSUME WellFormed, NEW rels, BaseOK(rels), NEW r \in Relation, rels[r] = Zero(Keys[r]),
         NEW n \in Node, r \in RelationsOf(n)
  PROVE  Recompute(rels)[n] = Zero(View[n].free)
<1> DEFINE D == {k \in Node : r \in RelationsOf(k)}
           Good == {k \in Node : Recompute(rels)[k] = Zero(View[k].free)}
<1>1. ASSUME NEW k \in D, \A c \in Children(k) \cap D : c \in Good
      PROVE  k \in Good
  <2>1. CASE k \in Relation
    <3>1. k = r
      BY <2>1, LeafSubtree
    <3>2. ScaleByTerms(r, rels[r]) = Zero(View[r].free)
      <4> SUFFICES ASSUME NEW t \in Row(Keys[r])
                   PROVE  rels[r][t] * TermProduct(r, t) = 0
        BY LeafView DEF ScaleByTerms, Zero
      <4>1. TermProduct(r, t) \in Int
        BY LeafView, TermProductType
      <4> QED
        BY <4>1 DEF Zero
    <3> QED
      BY <2>1, <3>1, <3>2, FullUnfold DEF FullValue
  <2>2. CASE k \notin Relation
    <3>1. r \in Subtree[k] /\ r # k
      BY <2>2 DEF RelationsOf
    <3>2. PICK c \in Children(k) : r \in Subtree[c]
      BY <3>1, SubtreeThroughChild
    <3>3. c \in Node /\ Recompute(rels)[c] = Zero(View[c].free)
      BY <1>1, <3>2 DEF Children, RelationsOf
    <3> DEFINE val == [d \in Children(k) |-> Recompute(rels)[d]]
    <3>4. BagsBelow(k, val)
      BY FullType DEF BagsBelow, Children
    <3>5. val[c] = Zero(View[c].free)
      BY <3>3
    <3> HIDE DEF val
    <3>6. JoinAndSum(k, val) = Zero(View[k].free)
      BY <2>2, <3>4, <3>5, JoinAndSumZero
    <3>7. Recompute(rels)[k] = JoinAndSum(k, val)
      BY <2>2, FullUnfold, Zenon DEF FullValue, val
    <3> QED
      BY <3>6, <3>7
  <2> QED
    BY <2>1, <2>2
<1>2. D \in SUBSET Node /\ n \in D
  OBVIOUS
<1> HIDE DEF Good, D
<1>3. D \subseteq Good
  BY <1>1, <1>2, TreeInduction
<1> QED
  BY <1>2, <1>3 DEF Good

-----------------------------------------------------------------------------
(***************************************************************************)
(* The statements of the generated triggers.                               *)
(***************************************************************************)

LEMMA DefValueType ==
  ASSUME WellFormed, NEW rels, BaseOK(rels), NEW stored, StoredOK(stored), NEW n \in Node,
         NEW def, \A c \in Children(n) : def[c] \in Bag(View[c].free)
  PROVE  DefValue(n, rels, stored, def) \in Bag(View[n].free)
<1>1. CASE n \in Relation
  BY <1>1, ScaleType DEF DefValue, BaseOK
<1>2. CASE n \notin Relation
  <2> DEFINE val == [c \in Children(n) |-> IF IsMaterialized(c) THEN stored[c] ELSE def[c]]
  <2>1. BagsBelow(n, val)
    BY DEF BagsBelow, StoredOK, Materialized, Children
  <2> HIDE DEF val
  <2>2. JoinAndSum(n, val) \in Bag(View[n].free)
    BY <1>2, <2>1, JoinAndSumType
  <2> QED
    BY <1>2, <2>2, Zenon DEF DefValue, val
<1> QED
  BY <1>1, <1>2

LEMMA DefUnfold ==
  ASSUME WellFormed, NEW rels, BaseOK(rels), NEW stored, StoredOK(stored)
  PROVE  \A n \in Node : DefExpr(rels, stored)[n] = DefValue(n, rels, stored, DefExpr(rels, stored))
<1> DEFINE F == BagsOf(Node)
           Step == [n \in Node |-> [f \in F |-> DefValue(n, rels, stored, f)]]
           Rec(f) == [n \in Node |-> DefValue(n, rels, stored, f)]
           f0 == [n \in Node |-> Zero(View[n].free)]
<1>0. Node \in SUBSET Node /\ \A n \in Node : Children(n) \subseteq Node
  BY DEF Children
<1>1. f0 \in F
  BY <1>0, BagsOfUse
<1>2. \A f \in F : [n \in Node |-> Step[n][f]] \in F
  <2> SUFFICES ASSUME NEW f \in F PROVE [n \in Node |-> DefValue(n, rels, stored, f)] \in F
    OBVIOUS
  <2> DEFINE g == [n \in Node |-> DefValue(n, rels, stored, f)]
  <2>1. \A n \in Node : f[n] \in Bag(View[n].free)
    BY <1>0, BagsOfUse
  <2>2. \A n \in Node : DefValue(n, rels, stored, f) \in Bag(View[n].free)
    BY <1>0, <2>1, DefValueType
  <2>3. \A n \in Node : g[n] \in Bag(View[n].free)
    BY <2>2
  <2>4. g = [n \in Node |-> g[n]]
    OBVIOUS
  <2> HIDE DEF g, F
  <2>5. [n \in Node |-> g[n]] \in BagsOf(Node)
    BY <1>0, <2>3, BagsOfUse
  <2>6. g \in F
    BY <2>4, <2>5 DEF F
  <2> QED
    BY <2>6 DEF g
<1>3. \A f, g \in F : \A n \in Node :
        (\A c \in Children(n) \cap Node : f[c] = g[c]) => Step[n][f] = Step[n][g]
  <2> SUFFICES ASSUME NEW f \in F, NEW g \in F, NEW n \in Node,
                      \A c \in Children(n) \cap Node : f[c] = g[c]
               PROVE  DefValue(n, rels, stored, f) = DefValue(n, rels, stored, g)
    OBVIOUS
  <2>1. \A c \in Children(n) : f[c] = g[c]
    BY <1>0
  <2>2. [c \in Children(n) |-> IF IsMaterialized(c) THEN stored[c] ELSE f[c]]
          = [c \in Children(n) |-> IF IsMaterialized(c) THEN stored[c] ELSE g[c]]
    BY <2>1, Zenon
  <2> QED
    BY <2>2, Zenon DEF DefValue
<1>4. PICK f \in F : SolvesTree(f, Node, Step)
  <2> HIDE DEF F, Step, f0
  <2> QED
    BY <1>0, <1>1, <1>2, <1>3, TreeRecursion
<1>5. f = Rec(f)
  <2>1. DOMAIN f = Node /\ f = [n \in DOMAIN f |-> f[n]]
    BY DEF BagsOf
  <2>2. \A n \in Node : f[n] = DefValue(n, rels, stored, f)
    BY <1>4 DEF SolvesTree
  <2> QED
    BY <2>1, <2>2
<1>6. DefExpr(rels, stored) = Rec(DefExpr(rels, stored))
  <2>1. DefExpr(rels, stored) = CHOOSE g : g = Rec(g)
    BY Zenon DEF DefExpr, DefValue
  <2> QED
    BY <1>5, <2>1, Zenon
<1> QED
  BY <1>6, Zenon

(* A := statement computes its view from the relations when the stored     *)
(* views below it, which it reads, are up to date.                         *)
THEOREM DefinitionRight ==
  ASSUME WellFormed, NEW rels, BaseOK(rels), NEW stored, StoredOK(stored), NEW n \in Node,
         \A m \in Materialized : m \in Subtree[n] /\ m # n => stored[m] = Recompute(rels)[m]
  PROVE  DefExpr(rels, stored)[n] = Recompute(rels)[n]
<1> DEFINE D == Subtree[n]
           Good == {k \in Node : DefExpr(rels, stored)[k] = Recompute(rels)[k]}
<1>0. D \in SUBSET Node
  BY DEF Subtree
<1>1. ASSUME NEW k \in D, \A c \in Children(k) \cap D : c \in Good
      PROVE  k \in Good
  <2>1. k \in Node
    BY <1>0
  <2>2. \A c \in Children(k) : c \in Node /\ c \in D /\ c # n
    <3> SUFFICES ASSUME NEW c \in Children(k) PROVE c \in Node /\ c \in D /\ c # n
      OBVIOUS
    <3>1. c \in Node \ {Root} /\ Parent[c] = k
      BY DEF Children
    <3>2. n <= k /\ k < c /\ n \in Nat /\ k \in Nat /\ c \in Nat
      BY <2>1, <3>1, SubtreeAfterRoot, TreeAssumption
    <3> QED
      BY <3>1, <3>2, SubtreeClosed
  <2>3. ASSUME NEW c \in Children(k)
        PROVE  (IF IsMaterialized(c) THEN stored[c] ELSE DefExpr(rels, stored)[c]) = Recompute(rels)[c]
    BY <1>1, <2>2 DEF Materialized
  <2>4. [c \in Children(k) |-> IF IsMaterialized(c) THEN stored[c] ELSE DefExpr(rels, stored)[c]]
          = [c \in Children(k) |-> Recompute(rels)[c]]
    BY <2>3
  <2>5. DefValue(k, rels, stored, DefExpr(rels, stored)) = FullValue(k, rels, Recompute(rels))
    BY <2>4, Zenon DEF DefValue, FullValue
  <2> QED
    BY <2>1, <2>5, DefUnfold, FullUnfold
<1> HIDE DEF Good
<1>2. D \subseteq Good
  BY <1>0, <1>1, TreeInduction
<1> QED
  BY <1>2, SubtreeSelf DEF Good

(* The child the delta goes down to, and its siblings, which are stored.   *)
LEMMA DeltaChild ==
  ASSUME WellFormed, NEW r \in Streams, NEW n \in Node \ Relation, ~IsStaticFor(n, r)
  PROVE  \E c \in Children(n) :
           /\ ~IsStaticFor(c, r)
           /\ \A d \in Children(n) \ {c} : IsStaticFor(d, r) /\ IsMaterialized(d)
<1>1. r \in Relation /\ r \in Subtree[n] /\ r # n
  BY SourceAssumption DEF IsStaticFor, RelationsOf
<1>2. PICK c \in Children(n) : r \in Subtree[c]
  BY <1>1, SubtreeThroughChild
<1>3. r \in RelationsOf(c)
  BY <1>1, <1>2 DEF RelationsOf
<1>4. ASSUME NEW d \in Children(n) \ {c}
      PROVE  IsStaticFor(d, r) /\ IsMaterialized(d)
  <2>1. d \in Node \ {Root} /\ c \in Node \ {Root} /\ Parent[d] = n /\ Parent[c] = n /\ c # d
    BY DEF Children
  <2>2. IsStaticFor(d, r)
    BY <1>2, <2>1, SiblingsDisjoint DEF IsStaticFor, RelationsOf
  <2>3. c \in Siblings(d)
    BY <2>1 DEF Siblings, Children
  <2>4. RelationsOf(c) \cap Streams # {}
    BY <1>3
  <2> QED
    BY <2>2, <2>3, <2>4 DEF IsMaterialized
<1> QED
  BY <1>2, <1>3, <1>4 DEF IsStaticFor

LEMMA DeltaValueType ==
  ASSUME WellFormed, NEW r \in Streams, NEW delta \in Bag(Keys[r]), NEW stored, StoredOK(stored),
         NEW expr, \A m \in Materialized : expr[m] = stored[m],
         NEW n \in Node, ~IsStaticFor(n, r),
         NEW d, \A c \in Children(n) : ~IsStaticFor(c, r) => d[c] \in Bag(View[c].free)
  PROVE  DeltaValue(n, r, delta, expr, d) \in Bag(View[n].free)
<1>1. CASE n \in Relation
  <2>1. n = r
    BY <1>1, LeafSubtree DEF IsStaticFor
  <2> QED
    BY <1>1, <2>1, ScaleType DEF DeltaValue
<1>2. CASE n \notin Relation
  <2> DEFINE val == [c \in Children(n) |-> IF IsStaticFor(c, r) THEN expr[c] ELSE d[c]]
  <2>1. PICK c \in Children(n) : /\ ~IsStaticFor(c, r)
                                 /\ \A e \in Children(n) \ {c} : IsStaticFor(e, r) /\ IsMaterialized(e)
    BY <1>2, DeltaChild
  <2>2. ASSUME NEW e \in Children(n)
        PROVE  val[e] \in Bag(View[e].free)
    <3>1. CASE e = c
      BY <2>1, <3>1
    <3>2. CASE e # c
      <4>1. IsStaticFor(e, r) /\ e \in Materialized
        BY <2>1, <3>2 DEF Materialized, Children
      <4> QED
        BY <4>1 DEF StoredOK
    <3> QED
      BY <3>1, <3>2
  <2> HIDE DEF val
  <2>3. JoinAndSum(n, val) \in Bag(View[n].free)
    BY <1>2, <2>2, JoinAndSumType DEF BagsBelow
  <2> QED
    BY <1>2, <2>3, Zenon DEF DeltaValue, val
<1> QED
  BY <1>1, <1>2

LEMMA DeltaUnfold ==
  ASSUME WellFormed, NEW r \in Streams, NEW delta \in Bag(Keys[r]), NEW rels, NEW stored, StoredOK(stored)
  PROVE  \A n \in Node : ~IsStaticFor(n, r) =>
           DeltaExpr(r, delta, rels, stored)[n]
             = DeltaValue(n, r, delta, CreateExpr(rels, stored), DeltaExpr(r, delta, rels, stored))
<1> DEFINE D == {m \in Node : ~IsStaticFor(m, r)}
           F == BagsOf(D)
           expr == CreateExpr(rels, stored)
           Step == [n \in D |-> [f \in F |-> DeltaValue(n, r, delta, expr, f)]]
           Rec(f) == [n \in D |-> DeltaValue(n, r, delta, expr, f)]
           f0 == [n \in D |-> Zero(View[n].free)]
<1>0. D \in SUBSET Node /\ \A n \in D : \A c \in Children(n) : ~IsStaticFor(c, r) => c \in D
  BY DEF Children
<1>1. f0 \in F
  BY <1>0, BagsOfUse
<1>a. \A m \in Materialized : expr[m] = stored[m]
  BY DEF CreateExpr, Materialized
<1>2. \A f \in F : [n \in D |-> Step[n][f]] \in F
  <2> SUFFICES ASSUME NEW f \in F PROVE [n \in D |-> DeltaValue(n, r, delta, expr, f)] \in F
    OBVIOUS
  <2> DEFINE g == [n \in D |-> DeltaValue(n, r, delta, expr, f)]
  <2>1. \A n \in D : f[n] \in Bag(View[n].free)
    BY <1>0, BagsOfUse
  <2>2. ASSUME NEW n \in D
        PROVE  DeltaValue(n, r, delta, expr, f) \in Bag(View[n].free)
    <3> HIDE DEF expr, F
    <3>1. n \in Node /\ ~IsStaticFor(n, r)
      OBVIOUS
    <3>2. \A c \in Children(n) : ~IsStaticFor(c, r) => f[c] \in Bag(View[c].free)
      BY <1>0, <2>1
    <3> QED
      BY <1>a, <3>1, <3>2, DeltaValueType
  <2>3. \A n \in D : g[n] \in Bag(View[n].free)
    BY <2>2
  <2>4. g = [n \in D |-> g[n]]
    OBVIOUS
  <2> HIDE DEF g, F, D
  <2>5. [n \in D |-> g[n]] \in BagsOf(D)
    BY <1>0, <2>3, BagsOfUse
  <2>6. g \in F
    BY <2>4, <2>5 DEF F
  <2> QED
    BY <2>6 DEF g
<1>3. \A f, g \in F : \A n \in D :
        (\A c \in Children(n) \cap D : f[c] = g[c]) => Step[n][f] = Step[n][g]
  <2> SUFFICES ASSUME NEW f \in F, NEW g \in F, NEW n \in D,
                      \A c \in Children(n) \cap D : f[c] = g[c]
               PROVE  DeltaValue(n, r, delta, expr, f) = DeltaValue(n, r, delta, expr, g)
    OBVIOUS
  <2> HIDE DEF expr, F
  <2>1. \A c \in Children(n) : ~IsStaticFor(c, r) => f[c] = g[c]
    BY <1>0
  <2> HIDE DEF D
  <2>2. [c \in Children(n) |-> IF IsStaticFor(c, r) THEN expr[c] ELSE f[c]]
          = [c \in Children(n) |-> IF IsStaticFor(c, r) THEN expr[c] ELSE g[c]]
    BY <2>1, Zenon
  <2> QED
    BY <2>2, Zenon DEF DeltaValue
<1>4. PICK f \in F : SolvesTree(f, D, Step)
  <2> HIDE DEF F, Step, f0, D
  <2> QED
    BY <1>0, <1>1, <1>2, <1>3, TreeRecursion
<1>5. f = Rec(f)
  <2>1. DOMAIN f = D /\ f = [n \in DOMAIN f |-> f[n]]
    BY DEF BagsOf
  <2>2. \A n \in D : f[n] = DeltaValue(n, r, delta, expr, f)
    BY <1>4 DEF SolvesTree
  <2> QED
    BY <2>1, <2>2
<1>6. DeltaExpr(r, delta, rels, stored) = Rec(DeltaExpr(r, delta, rels, stored))
  <2>1. DeltaExpr(r, delta, rels, stored) = CHOOSE g : g = Rec(g)
    BY Zenon DEF DeltaExpr, DeltaValue
  <2> QED
    BY <1>5, <2>1, Zenon
<1> QED
  BY <1>6, Zenon

(* A += statement takes its view from its value over the relations before  *)
(* the event to that after it, when the stored views it reads, none of     *)
(* which the event changes, are up to date.                                *)
THEOREM DeltaRight ==
  ASSUME WellFormed, NEW r \in Streams, NEW delta \in Bag(Keys[r]),
         NEW rels, BaseOK(rels), NEW after, BaseOK(after),
         after[r] = Plus(rels[r], delta), \A q \in Relation \ {r} : after[q] = rels[q],
         NEW stored, StoredOK(stored),
         \A m \in Materialized : IsStaticFor(m, r) => stored[m] = Recompute(rels)[m],
         NEW n \in Node, ~IsStaticFor(n, r)
  PROVE  Recompute(after)[n] = Plus(Recompute(rels)[n], DeltaExpr(r, delta, rels, stored)[n])
<1> DEFINE D == {m \in Node : ~IsStaticFor(m, r)}
           before == Recompute(rels)
           new == Recompute(after)
           d == DeltaExpr(r, delta, rels, stored)
           expr == CreateExpr(rels, stored)
           Good == {k \in Node : d[k] \in Bag(View[k].free) /\ new[k] = Plus(before[k], d[k])}
<1>0. r \in Relation
  BY SourceAssumption
<1>a. \A m \in Materialized : expr[m] = stored[m]
  BY DEF CreateExpr, Materialized
<1>1. /\ \A k \in Node : before[k] = FullValue(k, rels, before) /\ before[k] \in Bag(View[k].free)
      /\ \A k \in Node : new[k] = FullValue(k, after, new) /\ new[k] \in Bag(View[k].free)
  BY FullUnfold, FullType
<1>2. \A k \in Node : ~IsStaticFor(k, r) => d[k] = DeltaValue(k, r, delta, expr, d)
  BY DeltaUnfold
<1>3. \A k \in Node : IsStaticFor(k, r) => new[k] = before[k]
  <2> SUFFICES ASSUME NEW k \in Node, IsStaticFor(k, r) PROVE new[k] = before[k]
    OBVIOUS
  <2>1. SameBelow(k, after, rels)
    BY DEF IsStaticFor, RelationsOf, SameBelow
  <2> QED
    BY <2>1, FullLocal
<1> HIDE DEF before, new, d, expr
<1>4. ASSUME NEW k \in D, \A c \in Children(k) \cap D : c \in Good
      PROVE  k \in Good
  <2>0. k \in Node /\ ~IsStaticFor(k, r)
    OBVIOUS
  <2>1. CASE k \in Relation
    <3>1. k = r
      BY <2>0, <2>1, LeafSubtree DEF IsStaticFor
    <3>2. d[k] = ScaleByTerms(r, delta) /\ before[k] = ScaleByTerms(r, rels[r])
          /\ new[k] = ScaleByTerms(r, Plus(rels[r], delta))
      BY <1>1, <1>2, <2>0, <2>1, <3>1 DEF FullValue, DeltaValue
    <3>3. rels[r] \in Bag(Keys[r])
      BY <1>0 DEF BaseOK
    <3>4. ScaleByTerms(r, delta) \in Bag(View[r].free)
      BY <1>0, ScaleType
    <3>5. new[k] = Plus(before[k], d[k])
      BY <1>0, <3>2, <3>3, ScaleAdds
    <3> QED
      BY <2>0, <3>1, <3>2, <3>4, <3>5
  <2>2. CASE k \notin Relation
    <3> DEFINE u == [c \in Children(k) |-> before[c]]
               v == [c \in Children(k) |-> IF IsStaticFor(c, r) THEN expr[c] ELSE d[c]]
               w == [c \in Children(k) |-> new[c]]
    <3>1. PICK c \in Children(k) : /\ ~IsStaticFor(c, r)
                                   /\ \A e \in Children(k) \ {c} : IsStaticFor(e, r) /\ IsMaterialized(e)
      BY <2>0, <2>2, DeltaChild
    <3>2. \A e \in Children(k) : e \in Node
      BY DEF Children
    <3>3. d[c] \in Bag(View[c].free) /\ new[c] = Plus(before[c], d[c])
      BY <1>4, <3>1, <3>2
    <3>4. \A e \in Children(k) \ {c} : expr[e] = before[e] /\ new[e] = before[e]
      <4> SUFFICES ASSUME NEW e \in Children(k) \ {c}
                   PROVE  expr[e] = before[e] /\ new[e] = before[e]
        OBVIOUS
      <4>1. IsStaticFor(e, r) /\ e \in Materialized /\ e \in Node
        BY <3>1, <3>2 DEF Materialized
      <4> QED
        BY <1>a, <1>3, <4>1 DEF before
    <3>5. \A e \in Children(k) \ {c} : v[e] = u[e] /\ w[e] = u[e]
      BY <3>1, <3>4
    <3>6. w[c] = Plus(u[c], v[c])
      BY <3>1, <3>3
    <3>7. BagsBelow(k, u) /\ BagsBelow(k, v) /\ BagsBelow(k, w)
      <4>1. BagsBelow(k, u) /\ BagsBelow(k, w)
        BY <1>1, <3>2 DEF BagsBelow
      <4>2. ASSUME NEW e \in Children(k)
            PROVE  v[e] \in Bag(View[e].free)
        BY <1>1, <3>1, <3>2, <3>3, <3>4
      <4> QED
        BY <4>1, <4>2 DEF BagsBelow
    <3>8. before[k] = JoinAndSum(k, u) /\ new[k] = JoinAndSum(k, w) /\ d[k] = JoinAndSum(k, v)
      BY <1>1, <1>2, <2>0, <2>2, Zenon DEF FullValue, DeltaValue
    <3> HIDE DEF u, v, w
    <3>9. JoinAndSum(k, w) = Plus(JoinAndSum(k, u), JoinAndSum(k, v))
      BY <2>0, <2>2, <3>5, <3>6, <3>7, JoinAndSumAdds
    <3>10. JoinAndSum(k, v) \in Bag(View[k].free)
      BY <2>0, <2>2, <3>7, JoinAndSumType
    <3> QED
      BY <2>0, <3>8, <3>9, <3>10
  <2> QED
    BY <2>1, <2>2
<1>5. D \in SUBSET Node /\ n \in D
  OBVIOUS
<1> HIDE DEF Good, D
<1>6. D \subseteq Good
  BY <1>4, <1>5, TreeInduction
<1>7. new[n] = Plus(before[n], d[n])
  BY <1>5, <1>6 DEF Good
<1> QED
  BY <1>7 DEF new, before, d

-----------------------------------------------------------------------------
(***************************************************************************)
(* A product of sums is a sum of products: joins over rows that share only *)
(* what all can see.                                                       *)
(***************************************************************************)

(* A product of sums, one per index, over rows that may only share the     *)
(* variables of V, is the sum of the products over the rows that combine   *)
(* them.                                                                   *)
Spanned(V, K, D) == V \cup UNION {K[c] : c \in D}

Extending(V, K, D, b) == {a \in Row(Spanned(V, K, D)) : Proj(a, V) = b}

Matching(V, K, c, b) == {x \in Row(K[c]) : Proj(x, K[c] \cap V) = Proj(b, K[c] \cap V)}

SumAlone(V, K, G, b, c) == SumFunction([x \in Matching(V, K, c, b) |-> G[c][x]])

Combined(K, G, D, a) == ProductOf([c \in D |-> G[c][Proj(a, K[c])]])

SumTogether(V, K, G, D, b) == SumFunction([a \in Extending(V, K, D, b) |-> Combined(K, G, D, a)])

Weights(K, G, C) == \A c \in C : K[c] \in SUBSET Node /\ G[c] \in [Row(K[c]) -> Int]

SharedWithin(V, K, C) == \A c, d \in C : c # d => K[c] \cap K[d] \subseteq V

LEMMA SpannedType ==
  ASSUME NEW V \in SUBSET Node, NEW C, NEW K, NEW G, Weights(K, G, C), NEW D \in SUBSET C
  PROVE  Spanned(V, K, D) \in SUBSET Node
BY DEF Spanned, Weights

LEMMA ExtendingFinite ==
  ASSUME NEW V \in SUBSET Node, NEW C, NEW K, NEW G, Weights(K, G, C), NEW D \in SUBSET C, NEW b
  PROVE  IsFiniteSet(Extending(V, K, D, b))
<1>1. IsFiniteSet(Row(Spanned(V, K, D)))
  BY SpannedType, RowFinite
<1> QED
  BY <1>1, FS_Subset DEF Extending

LEMMA MatchingFinite ==
  ASSUME NEW V, NEW C, NEW K, NEW G, Weights(K, G, C), NEW c \in C, NEW b
  PROVE  IsFiniteSet(Matching(V, K, c, b)) /\ Matching(V, K, c, b) \subseteq Row(K[c])
<1>1. IsFiniteSet(Row(K[c]))
  BY RowFinite DEF Weights
<1>2. Matching(V, K, c, b) \subseteq Row(K[c])
  BY DEF Matching
<1> QED
  BY <1>1, <1>2, FS_Subset

LEMMA SumAloneType ==
  ASSUME NEW V, NEW C, NEW K, NEW G, Weights(K, G, C), NEW c \in C, NEW b
  PROVE  SumAlone(V, K, G, b, c) \in Int
<1>1. IsFiniteSet(Matching(V, K, c, b)) /\ Matching(V, K, c, b) \subseteq Row(K[c])
  BY MatchingFinite
<1>2. [x \in Matching(V, K, c, b) |-> G[c][x]] \in [Matching(V, K, c, b) -> Int]
  BY <1>1 DEF Weights
<1> QED
  BY <1>1, <1>2, SumType DEF SumAlone

LEMMA CombinedTerms ==
  ASSUME NEW V \in SUBSET Node, NEW C, NEW K, NEW G, Weights(K, G, C), NEW D \in SUBSET C,
         NEW E \in SUBSET D, NEW a \in Row(Spanned(V, K, D))
  PROVE  /\ \A c \in E : Proj(a, K[c]) \in Row(K[c])
         /\ [c \in E |-> G[c][Proj(a, K[c])]] \in [E -> Int]
<1>1. \A c \in E : K[c] \in SUBSET Spanned(V, K, D)
  BY DEF Spanned
<1>2. \A c \in E : Proj(a, K[c]) \in Row(K[c])
  BY <1>1, ProjType
<1> QED
  BY <1>2 DEF Weights

LEMMA CombinedType ==
  ASSUME NEW V \in SUBSET Node, NEW C, IsFiniteSet(C), NEW K, NEW G, Weights(K, G, C), NEW D \in SUBSET C,
         NEW E \in SUBSET D, NEW a \in Row(Spanned(V, K, D))
  PROVE  Combined(K, G, E, a) \in Int
<1>1. [c \in E |-> G[c][Proj(a, K[c])]] \in [E -> Int]
  BY CombinedTerms
<1>2. IsFiniteSet(E)
  BY FS_Subset
<1> QED
  BY <1>1, <1>2, ProductType DEF Combined

(* The rows over W that go on a row x over part of it, and those of K[e]   *)
(* that match it, correspond to each other.                                *)
LEMMA Glue ==
  ASSUME NEW V \in SUBSET Node, NEW C, NEW K, NEW G, Weights(K, G, C), SharedWithin(V, K, C),
         NEW D \in SUBSET C, NEW e \in D, NEW b \in Row(V),
         NEW x \in Extending(V, K, D \ {e}, b), NEW y \in Matching(V, K, e, b)
  PROVE  \E a \in Extending(V, K, D, b) : Proj(a, Spanned(V, K, D \ {e})) = x /\ Proj(a, K[e]) = y
<1> DEFINE W == Spanned(V, K, D \ {e})
           U == Spanned(V, K, D)
           a == [v \in U |-> IF v \in W THEN x[v] ELSE y[v]]
<1>1. U = W \cup K[e]
  BY DEF Spanned
<1>2. x \in Row(W) /\ Proj(x, V) = b /\ V \subseteq W
  BY DEF Extending, Spanned
<1>3. y \in Row(K[e]) /\ Proj(y, K[e] \cap V) = Proj(b, K[e] \cap V)
  BY DEF Matching
<1>4. a \in Row(U)
  <2>1. \A v \in W : x[v] \in Dom
    BY <1>2 DEF Row
  <2>2. \A v \in K[e] : y[v] \in Dom
    BY <1>3 DEF Row
  <2> QED
    BY <1>1, <2>1, <2>2 DEF Row
<1>5. Proj(a, W) = x
  <2>1. x = [v \in W |-> x[v]]
    BY <1>2 DEF Row
  <2>2. \A v \in W : a[v] = x[v]
    BY <1>1
  <2> QED
    BY <2>1, <2>2 DEF Proj
<1>6. Proj(a, V) = b
  <2>1. Proj(a, V) = Proj(x, V)
    BY <1>1, <1>2 DEF Proj
  <2> QED
    BY <1>2, <2>1
<1>7. ASSUME NEW v \in K[e]
      PROVE  a[v] = y[v]
  <2>1. CASE v \in W
    <3>1. v \in V
      BY <2>1 DEF Spanned, SharedWithin
    <3>2. b[v] = x[v]
      BY <1>2, <3>1 DEF Proj
    <3>3. y[v] = b[v]
      <4>1. v \in K[e] \cap V
        BY <3>1
      <4>2. Proj(y, K[e] \cap V)[v] = y[v] /\ Proj(b, K[e] \cap V)[v] = b[v]
        BY <4>1 DEF Proj
      <4> QED
        BY <1>3, <4>2
    <3> QED
      BY <1>1, <2>1, <3>2, <3>3
  <2>2. CASE v \notin W
    BY <1>1, <2>2
  <2> QED
    BY <2>1, <2>2
<1>8. Proj(a, K[e]) = y
  <2>1. y = [v \in K[e] |-> y[v]]
    BY <1>3 DEF Row
  <2> QED
    BY <1>7, <2>1 DEF Proj
<1>9. a \in Extending(V, K, D, b)
  BY <1>4, <1>6 DEF Extending
<1> HIDE DEF a
<1> QED
  BY <1>5, <1>8, <1>9

LEMMA Unglue ==
  ASSUME NEW V \in SUBSET Node, NEW K, NEW D, NEW e \in D, NEW b \in Row(V), NEW a \in Extending(V, K, D, b)
  PROVE  /\ Proj(a, Spanned(V, K, D \ {e})) \in Extending(V, K, D \ {e}, b)
         /\ Proj(a, K[e]) \in Matching(V, K, e, b)
         /\ \A c \in D \ {e} : Proj(Proj(a, Spanned(V, K, D \ {e})), K[c]) = Proj(a, K[c])
         /\ \A o \in Extending(V, K, D, b) :
              Proj(o, Spanned(V, K, D \ {e})) = Proj(a, Spanned(V, K, D \ {e})) /\ Proj(o, K[e]) = Proj(a, K[e]) => o = a
<1> DEFINE W == Spanned(V, K, D \ {e})
           U == Spanned(V, K, D)
<1>1. U = W \cup K[e] /\ V \subseteq W
  BY DEF Spanned
<1>2. a \in Row(U) /\ Proj(a, V) = b
  BY DEF Extending
<1>3. \A v \in V : b[v] = a[v]
  BY <1>2 DEF Proj
<1>4. Proj(a, W) \in Extending(V, K, D \ {e}, b)
  <2>1. Proj(a, W) \in Row(W)
    BY <1>1, <1>2, ProjType
  <2>2. Proj(Proj(a, W), V) = Proj(a, V)
    BY <1>1 DEF Proj
  <2> QED
    BY <1>2, <2>1, <2>2 DEF Extending
<1>5. Proj(a, K[e]) \in Matching(V, K, e, b)
  <2>1. Proj(a, K[e]) \in Row(K[e])
    BY <1>1, <1>2, ProjType
  <2>2. Proj(Proj(a, K[e]), K[e] \cap V) = Proj(b, K[e] \cap V)
    BY <1>3 DEF Proj
  <2> QED
    BY <2>1, <2>2 DEF Matching
<1>6. \A c \in D \ {e} : Proj(Proj(a, W), K[c]) = Proj(a, K[c])
  <2>1. \A c \in D \ {e} : K[c] \subseteq W
    BY DEF Spanned
  <2> QED
    BY <2>1 DEF Proj
<1>7. ASSUME NEW o \in Extending(V, K, D, b), Proj(o, W) = Proj(a, W), Proj(o, K[e]) = Proj(a, K[e])
      PROVE  o = a
  <2>1. o \in Row(U)
    BY DEF Extending
  <2>2. ASSUME NEW v \in U
        PROVE  o[v] = a[v]
    <3>1. CASE v \in W
      <4>1. Proj(o, W)[v] = o[v] /\ Proj(a, W)[v] = a[v]
        BY <3>1 DEF Proj
      <4> QED
        BY <1>7, <4>1
    <3>2. CASE v \in K[e]
      <4>1. Proj(o, K[e])[v] = o[v] /\ Proj(a, K[e])[v] = a[v]
        BY <3>2 DEF Proj
      <4> QED
        BY <1>7, <4>1
    <3> QED
      BY <1>1, <3>1, <3>2
  <2>3. a = [v \in U |-> a[v]] /\ o = [v \in U |-> o[v]]
    BY <1>2, <2>1 DEF Row
  <2> HIDE DEF U
  <2> QED
    BY <2>2, <2>3
<1> QED
  BY <1>4, <1>5, <1>6, <1>7

(* The rows that go on x, summed up.                                       *)
GoingOn(V, K, D, e, b, x) == {a \in Extending(V, K, D, b) : Proj(a, Spanned(V, K, D \ {e})) = x}

LEMMA SumOfFiber ==
  ASSUME NEW V \in SUBSET Node, NEW C, IsFiniteSet(C), NEW K, NEW G, Weights(K, G, C), SharedWithin(V, K, C),
         NEW D \in SUBSET C, NEW e \in D, NEW b \in Row(V), NEW x \in Extending(V, K, D \ {e}, b)
  PROVE  SumFunction([a \in GoingOn(V, K, D, e, b, x) |-> Combined(K, G, D, a)])
           = Combined(K, G, D \ {e}, x) * SumAlone(V, K, G, b, e)
<1>f. PICK F : F = GoingOn(V, K, D, e, b, x)
  OBVIOUS
<1>g. F = {a \in Extending(V, K, D, b) : Proj(a, Spanned(V, K, D \ {e})) = x}
  BY <1>f DEF GoingOn
<1> DEFINE W == Spanned(V, K, D \ {e})
           M == Matching(V, K, e, b)
           q == [a \in F |-> Proj(a, K[e])]
           one == [a \in F |-> G[e][Proj(a, K[e])]]
           all == [a \in F |-> Combined(K, G, D, a)]
           m == [y \in M |-> G[e][y]]
           k == Combined(K, G, D \ {e}, x)
<1>0. \A o \in Extending(V, K, D, b) : \A c \in D \ {e} : Proj(Proj(o, W), K[c]) = Proj(o, K[c])
  <2>1. \A c \in D \ {e} : K[c] \subseteq W
    BY DEF Spanned
  <2> QED
    BY <2>1 DEF Proj
<1>1. IsFiniteSet(F) /\ F \subseteq Extending(V, K, D, b)
  <2>1. IsFiniteSet(Extending(V, K, D, b))
    BY ExtendingFinite
  <2> QED
    BY <2>1, <1>g, FS_Subset
<1>2. IsFiniteSet(M) /\ M \subseteq Row(K[e])
  BY MatchingFinite
<1>3. m \in [M -> Int]
  BY <1>2 DEF Weights
<1>4. q \in [F -> M]
  BY <1>1, Unglue
<1>5. one \in [F -> Int] /\ \A a \in F : one[a] = m[q[a]]
  BY <1>2, <1>4 DEF Weights
<1>6. Renames(q, F, M)
  <2>1. ASSUME NEW y \in M
        PROVE  \E a \in F : q[a] = y /\ \A o \in F : q[o] = y => o = a
    <3>1. PICK a \in Extending(V, K, D, b) : Proj(a, W) = x /\ Proj(a, K[e]) = y
      BY Glue
    <3>2. a \in F /\ q[a] = y
      BY <3>1, <1>g
    <3>3. \A o \in Extending(V, K, D, b) : Proj(o, W) = Proj(a, W) /\ Proj(o, K[e]) = Proj(a, K[e]) => o = a
      BY Unglue
    <3>4. \A o \in F : Proj(o, W) = x /\ o \in Extending(V, K, D, b) /\ q[o] = Proj(o, K[e])
      BY <1>g
    <3> HIDE DEF q, W
    <3> QED
      BY <3>1, <3>2, <3>3, <3>4
  <2> QED
    BY <2>1 DEF Renames
<1>7. SumFunction(one) = SumFunction(m)
  <2> HIDE DEF one, m, q, M
  <2> QED
    BY <1>1, <1>2, <1>3, <1>4, <1>5, <1>6, SumRenamed
<1>8. k \in Int
  <2>1. x \in Row(W) /\ D \ {e} \in SUBSET C
    BY DEF Extending
  <2> QED
    BY <2>1, CombinedType
<1>9. ASSUME NEW a \in F
      PROVE  Combined(K, G, D, a) \in Int /\ Combined(K, G, D, a) = k * one[a]
  <2>1. a \in Row(Spanned(V, K, D))
    BY <1>1 DEF Extending
  <2> DEFINE f == [c \in D |-> G[c][Proj(a, K[c])]]
  <2>2. f \in [D -> Int] /\ IsFiniteSet(D)
    <3>1. [c \in D |-> G[c][Proj(a, K[c])]] \in [D -> Int]
      <4> HIDE DEF q, one, all, m, k, f
      <4> QED
        BY <2>1, CombinedTerms
    <3>2. IsFiniteSet(D)
      BY FS_Subset
    <3> QED
      BY <3>1, <3>2
  <2>3. Restrict(f, D \ {e}) = [c \in D \ {e} |-> G[c][Proj(x, K[c])]]
    <3>1. \A c \in D \ {e} : Proj(x, K[c]) = Proj(a, K[c])
      <4>1. a \in Extending(V, K, D, b) /\ Proj(a, W) = x
        BY <1>g
      <4> HIDE DEF q, one, all, m, k, f, W
      <4> QED
        BY <4>1, <1>0
    <3> QED
      BY <3>1 DEF Restrict
  <2>4. PICK s : s = Restrict(f, {e})
    OBVIOUS
  <2>5. s \in [{e} -> Int] /\ s[e] = one[a]
    BY <2>2, <2>4 DEF Restrict
  <2>6. ProductOf(s) = one[a]
    <3>1. IsFiniteSet({e}) /\ e \in {e} /\ \A y \in {e} \ {e} : s[y] = 1
      BY FS_Singleton
    <3> HIDE DEF one
    <3> QED
      BY <2>5, <3>1, ProductSingle
  <2>7. ProductOf(f) = ProductOf(Restrict(f, D \ {e})) * ProductOf(s)
    <3>1. D = (D \ {e}) \cup {e} /\ (D \ {e}) \cap {e} = {} /\ D \ {e} \in SUBSET D /\ {e} \in SUBSET D
      OBVIOUS
    <3> HIDE DEF f
    <3> QED
      BY <2>2, <2>4, <3>1, ProductSplit
  <2>8. ProductOf(f) \in Int
    <3> HIDE DEF f
    <3> QED
      BY <2>2, ProductType
  <2> QED
    BY <2>3, <2>6, <2>7, <2>8 DEF Combined
<1>10. all \in [F -> Int] /\ ScaledBy(all, k, one, F)
  BY <1>9 DEF ScaledBy
<1>11. SumFunction(all) = k * SumFunction(one)
  <2> HIDE DEF all, one, k
  <2> QED
    BY <1>1, <1>5, <1>8, <1>10, SumScales
<1> QED
  BY <1>7, <1>11, <1>f DEF SumAlone

LEMMA SumOneMore ==
  ASSUME NEW V \in SUBSET Node, NEW C, IsFiniteSet(C), NEW K, NEW G, Weights(K, G, C), SharedWithin(V, K, C),
         NEW D \in SUBSET C, NEW e \in D, NEW b \in Row(V)
  PROVE  SumTogether(V, K, G, D, b) = SumAlone(V, K, G, b, e) * SumTogether(V, K, G, D \ {e}, b)
<1> DEFINE W == Spanned(V, K, D \ {e})
           S == Extending(V, K, D, b)
           X == Extending(V, K, D \ {e}, b)
           p == [a \in S |-> Proj(a, W)]
           f == [a \in S |-> Combined(K, G, D, a)]
           k == SumAlone(V, K, G, b, e)
           h == [x \in X |-> Combined(K, G, D \ {e}, x)]
           g == [x \in X |-> k * h[x]]
<1>1. IsFiniteSet(S) /\ IsFiniteSet(X)
  BY ExtendingFinite
<1>2. p \in [S -> X]
  BY Unglue
<1>3. k \in Int
  BY SumAloneType
<1>4. f \in [S -> Int]
  <2>1. \A a \in S : a \in Row(Spanned(V, K, D))
    BY DEF Extending
  <2> QED
    BY <2>1, CombinedType
<1>5. h \in [X -> Int]
  <2>1. \A a \in X : a \in Row(W)
    BY DEF Extending
  <2>2. D \ {e} \in SUBSET C
    OBVIOUS
  <2> QED
    BY <2>1, <2>2, CombinedType
<1>6. g \in [X -> Int] /\ ScaledBy(g, k, h, X)
  <2> HIDE DEF h, k, X
  <2> QED
    BY <1>3, <1>5 DEF ScaledBy
<1>7. SumsByPart(g, f, S, p, X)
  <2>1. ASSUME NEW x \in X
        PROVE  g[x] = SumFunction(Restrict(f, Part(S, p, x)))
    <3>1. PICK F : F = GoingOn(V, K, D, e, b, x)
      OBVIOUS
    <3>2. Part(S, p, x) = F /\ F \subseteq S
      BY <3>1 DEF Part, GoingOn
    <3>3. Restrict(f, F) = [a \in F |-> Combined(K, G, D, a)]
      BY <3>2 DEF Restrict
    <3>4. SumFunction([a \in F |-> Combined(K, G, D, a)]) = Combined(K, G, D \ {e}, x) * k
      BY <3>1, SumOfFiber
    <3>5. g[x] = k * h[x] /\ h[x] = Combined(K, G, D \ {e}, x) /\ h[x] \in Int
      BY <1>5
    <3>6. k * h[x] = h[x] * k
      <4> HIDE DEF k, h
      <4> QED
        BY <1>3, <3>5
    <3> HIDE DEF g, k, h, f, p, S
    <3> QED
      BY <3>2, <3>3, <3>4, <3>5, <3>6
  <2> QED
    BY <2>1 DEF SumsByPart
<1>8. SumFunction(f) = SumFunction(g)
  <2> HIDE DEF S, X, p, f, g
  <2> QED
    BY <1>1, <1>2, <1>4, <1>6, <1>7, SumPartition
<1>9. SumFunction(g) = k * SumFunction(h)
  <2> HIDE DEF X, h, g, k
  <2> QED
    BY <1>1, <1>3, <1>5, <1>6, SumScales
<1> QED
  BY <1>8, <1>9 DEF SumTogether

LEMMA Distribution ==
  ASSUME NEW V \in SUBSET Node, NEW C, IsFiniteSet(C), NEW K, NEW G, Weights(K, G, C), SharedWithin(V, K, C),
         NEW b \in Row(V)
  PROVE  ProductOf([c \in C |-> SumAlone(V, K, G, b, c)]) = SumTogether(V, K, G, C, b)
<1> DEFINE m == [c \in C |-> SumAlone(V, K, G, b, c)]
<1>1. m \in [C -> Int]
  BY SumAloneType
<1>2. PICK h : ProductsOf(h, m, C) /\ ProductOf(m) = h[C]
  <2> HIDE DEF m
  <2> QED
    BY <1>1, ProductUnfold
<1> DEFINE Good == {D \in SUBSET C : h[D] = SumTogether(V, K, G, D, b)}
<1>3. {} \in Good
  <2>1. h[{}] = 1
    BY <1>2 DEF ProductsOf
  <2>2. Extending(V, K, {}, b) = {b}
    <3>1. Spanned(V, K, {}) = V
      BY DEF Spanned
    <3>2. \A a \in Row(V) : Proj(a, V) = a
      BY DEF Row, Proj
    <3> QED
      BY <3>1, <3>2 DEF Extending
  <2>3. Combined(K, G, {}, b) = 1
    <3> DEFINE f == [c \in {} |-> G[c][Proj(b, K[c])]]
    <3>1. f \in [{} -> Int] /\ \A c \in {} : f[c] = 1
      OBVIOUS
    <3> HIDE DEF f
    <3>2. ProductOf(f) = 1
      BY <3>1, FS_EmptySet, ProductOfOnes
    <3> QED
      BY <3>2 DEF Combined, f
  <2>4. PICK f : f = [a \in {b} |-> Combined(K, G, {}, a)]
    OBVIOUS
  <2>5. f \in [{b} -> Int] /\ f[b] = 1
    BY <2>3, <2>4
  <2>6. SumFunction(f) = 1
    <3>1. IsFiniteSet({b}) /\ b \in {b} /\ \A y \in {b} \ {b} : f[y] = 0
      BY FS_Singleton
    <3> QED
      BY <2>5, <3>1, SumSingle
  <2> QED
    BY <2>1, <2>2, <2>4, <2>6 DEF SumTogether
<1>4. ASSUME NEW D \in SUBSET C, D # {}, D \ {Chosen(D)} \in Good
      PROVE  D \in Good
  <2>1. PICK e \in D : e = Chosen(D)
    BY <1>4, ChosenIn
  <2>2. h[D] = m[e] * h[D \ {e}]
    <3> HIDE DEF m
    <3> QED
      BY <1>2, <1>4, <2>1 DEF ProductsOf
  <2>3. SumTogether(V, K, G, D, b) = SumAlone(V, K, G, b, e) * SumTogether(V, K, G, D \ {e}, b)
    BY SumOneMore
  <2>4. m[e] = SumAlone(V, K, G, b, e) /\ h[D \ {e}] = SumTogether(V, K, G, D \ {e}, b)
    BY <1>4, <2>1
  <2> QED
    BY <2>2, <2>3, <2>4
<1> HIDE DEF Good
<1>5. SUBSET C \subseteq Good
  BY <1>3, <1>4, SubsetInduction
<1> QED
  BY <1>2, <1>5 DEF Good

-----------------------------------------------------------------------------
(***************************************************************************)
(* Where attributes, free variables and conjuncts are kept and applied.    *)
(***************************************************************************)

(* Two subtrees with a common node lie one within the other.               *)
LEMMA SubtreesNest ==
  ASSUME NEW a \in Node, NEW b \in Node, NEW m, m \in Subtree[a], m \in Subtree[b]
  PROVE  a \in Subtree[b] \/ b \in Subtree[a]
<1>1. m \in Node /\ a <= m /\ b <= m /\ a \in Nat /\ b \in Nat /\ m \in Nat
  BY SubtreeAfterRoot, TreeAssumption DEF Subtree
<1>2. CASE a <= b
  BY <1>1, <1>2, SubtreeInterval
<1>3. CASE b <= a
  BY <1>1, <1>3, SubtreeInterval
<1> QED
  BY <1>1, <1>2, <1>3

(* Two nodes in each other's subtrees are the same.                        *)
LEMMA SubtreeAntisymmetric ==
  ASSUME NEW a \in Node, NEW b \in Node, a \in Subtree[b], b \in Subtree[a]
  PROVE  a = b
<1>1. a <= b /\ b <= a /\ a \in Nat /\ b \in Nat
  BY SubtreeAfterRoot, TreeAssumption
<1> QED
  BY <1>1

(* The subtree of the root is the tree.                                    *)
LEMMA RootAbove == Subtree[Root] = Node
<1>1. Root \in Node /\ Node \subseteq Nat /\ Subtree[Root] \subseteq Node
  BY TreeAssumption DEF Subtree
<1> SUFFICES ASSUME Node \ Subtree[Root] # {} PROVE FALSE
  BY <1>1
<1>2. PICK n \in Node \ Subtree[Root] : \A m \in Node \ Subtree[Root] : n <= m
  BY <1>1, LeastNumber
<1>3. n # Root
  BY SubtreeSelf, <1>1
<1>4. Parent[n] \in Node /\ Parent[n] < n
  BY <1>2, <1>3, TreeAssumption
<1>5. Parent[n] \in Subtree[Root]
  BY <1>1, <1>2, <1>4
<1> QED
  BY <1>1, <1>2, <1>3, <1>5, SubtreeClosed

(* The subtree of a node is the node and the subtrees of its children.     *)
LEMMA SubtreeParts ==
  ASSUME NEW n \in Node
  PROVE  Subtree[n] = {n} \cup UNION {Subtree[c] : c \in Children(n)}
<1>1. \A m \in Subtree[n] : m # n => \E c \in Children(n) : m \in Subtree[c]
  BY SubtreeThroughChild
<1>2. \A c \in Children(n) : Subtree[c] \subseteq Subtree[n]
  BY ChildSubtree
<1>3. n \in Subtree[n]
  BY SubtreeSelf
<1> QED
  BY <1>1, <1>2, <1>3

(* The attributes below a node are those below its children.               *)
LEMMA KeysBelow ==
  ASSUME NEW n \in Node \ Relation
  PROVE  /\ \A c \in Children(n) : c \in Node /\ RelationKeys(c) \subseteq RelationKeys(n)
         /\ \A x \in RelationKeys(n) : \E c \in Children(n) : x \in RelationKeys(c)
<1>1. ASSUME NEW c \in Children(n)
      PROVE  c \in Node /\ RelationKeys(c) \subseteq RelationKeys(n)
  BY ChildSubtree DEF RelationKeys, RelationsOf, Children
<1>2. ASSUME NEW x \in RelationKeys(n)
      PROVE  \E c \in Children(n) : x \in RelationKeys(c)
  <2>1. PICK r \in RelationsOf(n) : x \in Keys[r]
    BY DEF RelationKeys
  <2>2. r \in Subtree[n] /\ r # n /\ r \in Relation
    BY <2>1 DEF RelationsOf
  <2>3. PICK c \in Children(n) : r \in Subtree[c]
    BY <2>2, SubtreeThroughChild
  <2> QED
    BY <2>1, <2>2, <2>3 DEF RelationKeys, RelationsOf
<1> QED
  BY <1>1, <1>2

LEMMA KeysType ==
  ASSUME NEW n \in Node
  PROVE  RelationKeys(n) \in SUBSET Variable
BY TreeAssumption DEF RelationKeys, RelationsOf, Variable

LEMMA LeafKeys ==
  ASSUME WellFormed, NEW r \in Relation
  PROVE  RelationKeys(r) = Keys[r]
<1>1. RelationsOf(r) = {r}
  BY LeafSubtree
<1> QED
  BY <1>1 DEF RelationKeys

(* A view offers attributes of the relations below it only.                *)
LEMMA AvailMentioned ==
  ASSUME WellFormed
  PROVE  \A n \in Node : View[n].avail \subseteq RelationKeys(n) /\ View[n].free \subseteq RelationKeys(n)
<1> DEFINE Good == {n \in Node : View[n].avail \subseteq RelationKeys(n)}
<1>1. ASSUME NEW n \in Node, \A c \in Children(n) \cap Node : c \in Good
      PROVE  n \in Good
  <2>1. CASE n \in Relation
    BY <2>1, LeafKeys, LeafView
  <2>2. CASE n \notin Relation
    <3>1. View[n].avail = UNION {View[c].free : c \in Children(n)}
      BY <2>2, ViewFields DEF Offered
    <3>2. \A c \in Children(n) : View[c].free \subseteq RelationKeys(n)
      <4> SUFFICES ASSUME NEW c \in Children(n) PROVE View[c].free \subseteq RelationKeys(n)
        OBVIOUS
      <4>1. c \in Node /\ RelationKeys(c) \subseteq RelationKeys(n)
        BY <2>2, KeysBelow
      <4>2. View[c].free \subseteq View[c].avail
        BY <4>1, ViewFields
      <4> QED
        BY <1>1, <4>1, <4>2
    <3> QED
      BY <3>1, <3>2
  <2> QED
    BY <2>1, <2>2
<1> HIDE DEF Good
<1>2. Node \subseteq Good
  <2>1. Node \in SUBSET Node
    OBVIOUS
  <2> QED
    BY <1>1, <2>1, TreeInduction
<1>3. \A n \in Node : View[n].free \subseteq View[n].avail
  BY ViewFields
<1> QED
  BY <1>2, <1>3 DEF Good

(* An attribute two siblings have below them is kept by both.              *)
LEMMA SharedAbove ==
  ASSUME WellFormed, NEW n \in Node, NEW c \in Children(n), NEW d \in Children(n), c # d,
         NEW x \in RelationKeys(c), x \in RelationKeys(d)
  PROVE  x \in View[c].free
<1>1. PICK r \in RelationsOf(c) : x \in Keys[r]
  BY DEF RelationKeys
<1>2. PICK s \in RelationsOf(d) : x \in Keys[s]
  BY DEF RelationKeys
<1>3. c \in Node \ {Root} /\ d \in Node \ {Root} /\ Parent[c] = Parent[d]
  BY DEF Children
<1>4. r \in Relation /\ r \in Subtree[c] /\ s \in Relation /\ s \in Subtree[d]
  BY <1>1, <1>2 DEF RelationsOf
<1>5. x \in Node /\ r \in Subtree[x] /\ s \in Subtree[x]
  BY <1>1, <1>2, <1>4 DEF WellFormed, Ancestors
<1>6. x \in Variable
  BY <1>3, KeysType
<1>7. x \notin Subtree[c]
  <2> SUFFICES ASSUME x \in Subtree[c] PROVE FALSE
    OBVIOUS
  <2>1. Subtree[x] \subseteq Subtree[c]
    BY <1>3, SubtreeTransitive
  <2>2. Subtree[c] \cap Subtree[d] = {}
    BY <1>3, SiblingsDisjoint
  <2> QED
    BY <1>4, <1>5, <2>1, <2>2
<1>8. c \in Subtree[x]
  BY <1>3, <1>4, <1>5, <1>7, SubtreesNest
<1>9. c # x
  BY <1>3, <1>7, SubtreeSelf
<1> QED
  BY <1>6, <1>8, <1>9, AttributeKept

(* What a child keeps is what it can share with its parent's other         *)
(* children, and no two children share anything else.                      *)
LEMMA FreeIsShared ==
  ASSUME WellFormed, NEW n \in Node \ Relation, NEW c \in Children(n)
  PROVE  /\ RelationKeys(c) \cap View[n].avail = View[c].free
         /\ \A d \in Children(n) : d # c => RelationKeys(c) \cap RelationKeys(d) \subseteq View[n].avail
<1>1. c \in Node /\ View[c].free \subseteq View[n].avail /\ View[c].free \subseteq RelationKeys(c)
  BY ChildFree, AvailMentioned
<1>2. ASSUME NEW d \in Children(n), d # c, NEW x \in RelationKeys(c), x \in RelationKeys(d)
      PROVE  x \in View[c].free
  BY <1>2, SharedAbove
<1>3. ASSUME NEW x \in RelationKeys(c), x \in View[n].avail
      PROVE  x \in View[c].free
  <2>1. View[n].avail = UNION {View[d].free : d \in Children(n)}
    BY ViewFields DEF Offered
  <2>2. PICK d \in Children(n) : x \in View[d].free
    BY <1>3, <2>1
  <2>3. d \in Node /\ View[d].free \subseteq RelationKeys(d)
    BY AvailMentioned DEF Children
  <2> QED
    BY <1>2, <2>2, <2>3
<1> QED
  BY <1>1, <1>2, <1>3

(* Below a node whose attributes do not cover a conjunct, its variables    *)
(* are kept.                                                               *)
LEMMA ConjunctKept ==
  ASSUME WellFormed, NEW w \in WhTerm
  PROVE  \A n \in Node : ~Covered(w, RelationKeys(n)) => TermVars[w] \cap RelationKeys(n) \subseteq View[n].free
<1> DEFINE Good == {n \in Node : ~Covered(w, RelationKeys(n)) => TermVars[w] \cap RelationKeys(n) \subseteq View[n].free}
<1>1. ASSUME NEW n \in Node, \A c \in Children(n) \cap Node : c \in Good
      PROVE  n \in Good
  <2> SUFFICES ASSUME ~Covered(w, RelationKeys(n)), NEW x \in TermVars[w], x \in RelationKeys(n)
               PROVE  x \in View[n].free
    OBVIOUS
  <2>1. CASE n \in Relation
    BY <2>1, LeafKeys, LeafView
  <2>2. CASE n \notin Relation
    <3>1. \A c \in Children(n) : c \in Node /\ RelationKeys(c) \subseteq RelationKeys(n)
      BY <2>2, KeysBelow
    <3>2. \A c \in Children(n) : ~Covered(w, RelationKeys(c))
      BY <3>1 DEF Covered
    <3>3. w \in WhereAt(n)
      BY <3>2 DEF WhereAt
    <3>4. PICK c \in Children(n) : x \in RelationKeys(c)
      BY <2>2, KeysBelow
    <3>5. x \in View[c].free
      BY <1>1, <3>1, <3>2, <3>4
    <3>6. x \in View[n].avail
      BY <2>2, <3>5, ChildFree
    <3>7. ~Covered(w, View[n].avail)
      BY AvailMentioned DEF Covered
    <3>8. w \notin NodeTerms(n, View[n].avail)
      BY <3>7, TermAssumption DEF NodeTerms, SumAt
    <3>9. x \in RestVars(n, View[n].avail)
      BY <3>3, <3>8 DEF RestVars
    <3> QED
      BY <3>6, <3>9, ViewFields
  <2> QED
    BY <2>1, <2>2
<1> HIDE DEF Good
<1>2. Node \subseteq Good
  <2>1. Node \in SUBSET Node
    OBVIOUS
  <2> QED
    BY <1>1, <2>1, TreeInduction
<1> QED
  BY <1>2 DEF Good

(* A conjunct no child covers and the attributes below a node do is        *)
(* applied at the node.                                                    *)
LEMMA ConjunctApplied ==
  ASSUME WellFormed, NEW n \in Node, NEW w \in WhereAt(n), Covered(w, RelationKeys(n))
  PROVE  w \in View[n].terms /\ Covered(w, View[n].avail)
<1>1. w \in WhTerm /\ \A c \in Children(n) : ~Covered(w, RelationKeys(c))
  BY DEF WhereAt
<1>2. Covered(w, View[n].avail)
  <2>1. CASE n \in Relation
    BY <2>1, LeafKeys, LeafView
  <2>2. CASE n \notin Relation
    <3> SUFFICES ASSUME NEW x \in TermVars[w] PROVE x \in View[n].avail
      BY DEF Covered
    <3>1. x \in RelationKeys(n)
      BY DEF Covered
    <3>2. PICK c \in Children(n) : c \in Node /\ x \in RelationKeys(c)
      BY <2>2, <3>1, KeysBelow
    <3>3. x \in View[c].free
      BY <1>1, <3>2, ConjunctKept
    <3> QED
      BY <2>2, <3>3, ChildFree
  <2> QED
    BY <2>1, <2>2
<1>3. w \in NodeTerms(n, View[n].avail)
  BY <1>2 DEF NodeTerms
<1> QED
  BY <1>2, <1>3, ViewFields

(* Every conjunct is applied somewhere.                                    *)
LEMMA ConjunctPlaced ==
  ASSUME WellFormed, NEW w \in WhTerm
  PROVE  \A n \in Node : Covered(w, RelationKeys(n)) => \E m \in Subtree[n] : w \in View[m].terms
<1> DEFINE Good == {n \in Node : Covered(w, RelationKeys(n)) => \E m \in Subtree[n] : w \in View[m].terms}
<1>1. ASSUME NEW n \in Node, \A c \in Children(n) \cap Node : c \in Good
      PROVE  n \in Good
  <2> SUFFICES ASSUME Covered(w, RelationKeys(n)) PROVE \E m \in Subtree[n] : w \in View[m].terms
    OBVIOUS
  <2>1. CASE w \in WhereAt(n)
    BY <2>1, ConjunctApplied, SubtreeSelf
  <2>2. CASE w \notin WhereAt(n)
    <3>1. PICK c \in Children(n) : Covered(w, RelationKeys(c))
      BY <2>2 DEF WhereAt
    <3>2. c \in Node
      BY DEF Children
    <3>3. PICK m \in Subtree[c] : w \in View[m].terms
      BY <1>1, <3>1, <3>2
    <3>4. Subtree[c] \subseteq Subtree[n]
      BY ChildSubtree
    <3> QED
      BY <3>3, <3>4
  <2> QED
    BY <2>1, <2>2
<1> HIDE DEF Good
<1>2. Node \subseteq Good
  <2>1. Node \in SUBSET Node
    OBVIOUS
  <2> QED
    BY <1>1, <2>1, TreeInduction
<1> QED
  BY <1>2 DEF Good

(* A free variable is kept wherever it is mentioned.                       *)
LEMMA FreeKept ==
  ASSUME WellFormed, NEW x \in FreeVars
  PROVE  \A n \in Node : x \in RelationKeys(n) => x \in View[n].free
<1> DEFINE Good == {n \in Node : x \in RelationKeys(n) => x \in View[n].free}
<1>1. ASSUME NEW n \in Node, \A c \in Children(n) \cap Node : c \in Good
      PROVE  n \in Good
  <2> SUFFICES ASSUME x \in RelationKeys(n) PROVE x \in View[n].free
    OBVIOUS
  <2>1. CASE n \in Relation
    BY <2>1, LeafKeys, LeafView
  <2>2. CASE n \notin Relation
    <3>1. PICK c \in Children(n) : c \in Node /\ x \in RelationKeys(c)
      BY <2>2, KeysBelow
    <3>2. x \in View[c].free
      BY <1>1, <3>1
    <3>3. x \in View[n].avail
      BY <2>2, <3>2, ChildFree
    <3> QED
      BY <3>3, ViewFields
  <2> QED
    BY <2>1, <2>2
<1> HIDE DEF Good
<1>2. Node \subseteq Good
  <2>1. Node \in SUBSET Node
    OBVIOUS
  <2> QED
    BY <1>1, <2>1, TreeInduction
<1> QED
  BY <1>2 DEF Good

(* The root has every variable below it.                                   *)
LEMMA RootKeys ==
  ASSUME WellFormed
  PROVE  RelationKeys(Root) = Variable
<1>1. Root \in Node /\ RelationKeys(Root) \subseteq Variable
  BY KeysType, TreeAssumption
<1>2. ASSUME NEW v \in Variable PROVE v \in RelationKeys(Root)
  <2>1. v \in RelationKeys(v) /\ v \in Node
    BY DEF WellFormed, Variable
  <2>2. Subtree[v] \subseteq Subtree[Root]
    BY <1>1, <2>1, RootAbove, SubtreeTransitive
  <2> QED
    BY <2>1, <2>2 DEF RelationKeys, RelationsOf
<1> QED
  BY <1>1, <1>2

(* The root view keeps the free variables and nothing else.                *)
LEMMA RootFree ==
  ASSUME WellFormed
  PROVE  View[Root].free = FreeVars
<1>1. Root \in Node
  BY TreeAssumption
<1>2. FreeVars \subseteq View[Root].free
  BY <1>1, RootKeys, FreeKept, TermAssumption
<1>3. Keys[Root] = {}
  <2>1. Ancestors(Root) = {}
    BY <1>1, RootAbove, SubtreeAntisymmetric DEF Ancestors
  <2> QED
    BY <1>1, <2>1 DEF WellFormed, Variable
<1>4. ASSUME NEW w \in WhereAt(Root)
      PROVE  w \in NodeTerms(Root, View[Root].avail)
  <2>1. w \in WhTerm /\ w \in Term
    BY DEF WhereAt, Term
  <2>2. Covered(w, RelationKeys(Root))
    BY <2>1, RootKeys, TermAssumption DEF Covered
  <2> QED
    BY <1>1, <2>2, ConjunctApplied, ViewFields
<1>5. ASSUME NEW s \in SumAt(Root)
      PROVE  s \in NodeTerms(Root, View[Root].avail)
  <2>1. s \in SumTerm /\ s \in Term
    BY DEF SumAt, Term
  <2>2. VariablesOf(Root) = Variable
    BY RootAbove DEF VariablesOf, Variable
  <2> QED
    BY <2>1, <2>2, TermAssumption DEF NodeTerms, Covered
<1>6. RestVars(Root, View[Root].avail) = {}
  BY <1>4, <1>5 DEF RestVars
<1>7. View[Root].free \subseteq FreeVars
  BY <1>1, <1>3, <1>6, ViewFields
<1> QED
  BY <1>2, <1>7

-----------------------------------------------------------------------------
(***************************************************************************)
(* What a view means: a sum over the natural join of the relations below.  *)
(***************************************************************************)

(* What one node contributes to a row of the natural join below it: its    *)
(* terms, and for a relation its multiplicity.                             *)
NodeWeight(m, rels, a) ==
  TermProduct(m, Proj(a, View[m].avail)) * (IF m \in Relation THEN rels[m][Proj(a, Keys[m])] ELSE 1)

Weight(n, rels, a) == ProductOf([m \in Subtree[n] |-> NodeWeight(m, rels, a)])

(* The rows of the join below n that a row t of its view stands for.       *)
Below(n, t) == {a \in Row(RelationKeys(n)) : Proj(a, View[n].free) = t}

Meaning(n, rels, t) == SumFunction([a \in Below(n, t) |-> Weight(n, rels, a)])

LEMMA ProjProj ==
  ASSUME NEW a, NEW X, NEW Y \in SUBSET X
  PROVE  Proj(Proj(a, X), Y) = Proj(a, Y)
BY DEF Proj

LEMMA ProjAll ==
  ASSUME NEW X, NEW a \in Row(X)
  PROVE  Proj(a, X) = a
BY DEF Proj, Row

LEMMA SubtreeFinite ==
  ASSUME NEW n \in Node
  PROVE  IsFiniteSet(Subtree[n]) /\ Subtree[n] \in SUBSET Node
<1>1. Subtree[n] \in SUBSET Node
  BY DEF Subtree
<1> QED
  BY <1>1, TreeAssumption, FS_Subset

LEMMA KeysNest ==
  ASSUME WellFormed, NEW n \in Node, NEW m \in Subtree[n]
  PROVE  m \in Node /\ RelationKeys(m) \subseteq RelationKeys(n) /\ View[m].avail \subseteq RelationKeys(n)
<1>1. m \in Node /\ Subtree[m] \subseteq Subtree[n]
  BY SubtreeTransitive, SubtreeFinite
<1>2. RelationKeys(m) \subseteq RelationKeys(n)
  BY <1>1 DEF RelationKeys, RelationsOf
<1> QED
  BY <1>1, <1>2, AvailMentioned

LEMMA NodeWeightType ==
  ASSUME WellFormed, NEW rels, BaseOK(rels), NEW n \in Node, NEW m \in Subtree[n], NEW a \in Row(RelationKeys(n))
  PROVE  NodeWeight(m, rels, a) \in Int
<1>1. m \in Node /\ RelationKeys(m) \subseteq RelationKeys(n) /\ View[m].avail \subseteq RelationKeys(n)
  BY KeysNest
<1>2. TermProduct(m, Proj(a, View[m].avail)) \in Int
  BY <1>1, ProjType, TermProductType
<1>3. m \in Relation => rels[m][Proj(a, Keys[m])] \in Int
  <2> SUFFICES ASSUME m \in Relation PROVE rels[m][Proj(a, Keys[m])] \in Int
    OBVIOUS
  <2>1. Keys[m] \subseteq RelationKeys(n)
    BY <1>1, LeafKeys
  <2>2. Proj(a, Keys[m]) \in Row(Keys[m])
    BY <2>1, ProjType
  <2> QED
    BY <2>2 DEF BaseOK, Bag
<1> QED
  BY <1>2, <1>3 DEF NodeWeight

LEMMA WeightType ==
  ASSUME WellFormed, NEW rels, BaseOK(rels), NEW n \in Node, NEW a \in Row(RelationKeys(n))
  PROVE  Weight(n, rels, a) \in Int
<1> DEFINE f == [m \in Subtree[n] |-> NodeWeight(m, rels, a)]
<1>1. f \in [Subtree[n] -> Int]
  BY NodeWeightType
<1> HIDE DEF f
<1>2. ProductOf(f) \in Int
  BY <1>1, SubtreeFinite, ProductType
<1> QED
  BY <1>2 DEF f, Weight

(* A node below n sees the part of the row that is below n.                *)
LEMMA NodeWeightLocal ==
  ASSUME WellFormed, NEW rels, NEW n \in Node, NEW m \in Subtree[n], NEW a
  PROVE  NodeWeight(m, rels, Proj(a, RelationKeys(n))) = NodeWeight(m, rels, a)
<1>1. m \in Node /\ RelationKeys(m) \subseteq RelationKeys(n) /\ View[m].avail \subseteq RelationKeys(n)
  BY KeysNest
<1>2. Proj(Proj(a, RelationKeys(n)), View[m].avail) = Proj(a, View[m].avail)
  BY <1>1, ProjProj
<1>3. m \in Relation => Proj(Proj(a, RelationKeys(n)), Keys[m]) = Proj(a, Keys[m])
  BY <1>1, LeafKeys, ProjProj
<1> QED
  BY <1>2, <1>3 DEF NodeWeight

LEMMA WeightLeaf ==
  ASSUME WellFormed, NEW rels, BaseOK(rels), NEW r \in Relation, NEW a \in Row(Keys[r])
  PROVE  Weight(r, rels, a) = rels[r][a] * TermProduct(r, a)
<1> DEFINE f == [m \in Subtree[r] |-> NodeWeight(m, rels, a)]
<1>1. Subtree[r] = {r} /\ r \in Node /\ RelationKeys(r) = Keys[r]
  BY LeafSubtree, LeafKeys
<1>2. f \in [{r} -> Int] /\ f[r] = NodeWeight(r, rels, a)
  BY <1>1, NodeWeightType
<1>3. ProductOf(f) = f[r]
  <2>1. IsFiniteSet({r}) /\ r \in {r} /\ \A y \in {r} \ {r} : f[y] = 1
    BY FS_Singleton
  <2> HIDE DEF f
  <2> QED
    BY <1>2, <2>1, ProductSingle
<1>4. NodeWeight(r, rels, a) = TermProduct(r, a) * rels[r][a]
  <2>1. View[r].avail = Keys[r] /\ Proj(a, Keys[r]) = a
    BY LeafView, ProjAll
  <2> QED
    BY <2>1 DEF NodeWeight
<1>5. TermProduct(r, a) \in Int /\ rels[r][a] \in Int
  <2>1. View[r].avail = Keys[r]
    BY LeafView
  <2> QED
    BY <1>1, <2>1, TermProductType DEF BaseOK, Bag
<1> QED
  BY <1>2, <1>3, <1>4, <1>5 DEF Weight

(* An inner node contributes its terms, and each child what is below it.   *)
LEMMA WeightInner ==
  ASSUME WellFormed, NEW rels, BaseOK(rels), NEW n \in Node \ Relation, NEW a \in Row(RelationKeys(n))
  PROVE  Weight(n, rels, a) =
           TermProduct(n, Proj(a, View[n].avail))
             * ProductOf([c \in Children(n) |-> Weight(c, rels, Proj(a, RelationKeys(c)))])
<1> DEFINE f == [m \in Subtree[n] |-> NodeWeight(m, rels, a)]
           Y == Subtree[n] \ {n}
           C == Children(n)
           g == [c \in C |-> Weight(c, rels, Proj(a, RelationKeys(c)))]
           p == [m \in Y |-> CHOOSE c \in C : m \in Subtree[c]]
<1>0. IsFiniteSet(Subtree[n]) /\ n \in Subtree[n] /\ IsFiniteSet(Y) /\ IsFiniteSet(C)
  BY SubtreeFinite, SubtreeSelf, ChildrenFinite, FS_Subset
<1>1. f \in [Subtree[n] -> Int]
  BY NodeWeightType
<1>2. PICK s : s = Restrict(f, {n})
  OBVIOUS
<1>3. PICK y : y = Restrict(f, Y)
  OBVIOUS
<1>4. ProductOf(f) = ProductOf(s) * ProductOf(y)
  <2>1. Subtree[n] = {n} \cup Y /\ {n} \cap Y = {} /\ {n} \in SUBSET Subtree[n] /\ Y \in SUBSET Subtree[n]
    BY <1>0
  <2> HIDE DEF f, Y
  <2> QED
    BY <1>0, <1>1, <1>2, <1>3, <2>1, ProductSplit
<1>5. ProductOf(s) = TermProduct(n, Proj(a, View[n].avail))
  <2>1. s \in [{n} -> Int] /\ s[n] = NodeWeight(n, rels, a)
    BY <1>0, <1>1, <1>2 DEF Restrict
  <2>2. IsFiniteSet({n}) /\ n \in {n} /\ \A z \in {n} \ {n} : s[z] = 1
    BY FS_Singleton
  <2>3. ProductOf(s) = s[n]
    BY <2>1, <2>2, ProductSingle
  <2>4. TermProduct(n, Proj(a, View[n].avail)) \in Int
    BY KeysNest, SubtreeSelf, ProjType, TermProductType
  <2> QED
    BY <2>1, <2>3, <2>4 DEF NodeWeight
<1>6. y \in [Y -> Int] /\ \A m \in Y : y[m] = NodeWeight(m, rels, a)
  BY <1>1, <1>3 DEF Restrict
<1>7. \A c \in C : c \in Node /\ Subtree[c] \subseteq Y
  BY ChildSubtree DEF Children
<1>8. p \in [Y -> C] /\ \A m \in Y : m \in Subtree[p[m]]
  <2>1. \A m \in Y : \E c \in C : m \in Subtree[c]
    BY SubtreeThroughChild
  <2> QED
    BY <2>1
<1>9. \A c \in C : Part(Y, p, c) = Subtree[c]
  <2> SUFFICES ASSUME NEW c \in C, NEW m \in Y PROVE p[m] = c <=> m \in Subtree[c]
    BY <1>7 DEF Part
  <2>1. p[m] \in C /\ m \in Subtree[p[m]]
    BY <1>8
  <2> HIDE DEF p
  <2>2. p[m] # c => Subtree[p[m]] \cap Subtree[c] = {}
    <3>1. c \in Node \ {Root} /\ p[m] \in Node \ {Root} /\ Parent[c] = Parent[p[m]]
      BY <2>1 DEF Children
    <3> QED
      BY <3>1, SiblingsDisjoint
  <2> QED
    BY <2>1, <2>2
<1>10. ASSUME NEW c \in C
       PROVE  g[c] = ProductOf(Restrict(y, Part(Y, p, c)))
  <2>1. \A m \in Subtree[c] : NodeWeight(m, rels, Proj(a, RelationKeys(c))) = y[m]
    BY <1>6, <1>7, NodeWeightLocal
  <2>2. Restrict(y, Subtree[c]) = [m \in Subtree[c] |-> y[m]]
    BY DEF Restrict
  <2>3. [m \in Subtree[c] |-> NodeWeight(m, rels, Proj(a, RelationKeys(c)))] = [m \in Subtree[c] |-> y[m]]
    BY <2>1
  <2>4. Part(Y, p, c) = Subtree[c]
    BY <1>9
  <2>5. g[c] = Weight(c, rels, Proj(a, RelationKeys(c)))
    OBVIOUS
  <2> HIDE DEF g, p, Y
  <2> QED
    BY <2>2, <2>3, <2>4, <2>5 DEF Weight
<1>11. g \in [C -> Int]
  <2> SUFFICES ASSUME NEW c \in C PROVE Weight(c, rels, Proj(a, RelationKeys(c))) \in Int
    OBVIOUS
  <2>1. c \in Node /\ RelationKeys(c) \subseteq RelationKeys(n)
    BY KeysBelow
  <2>2. Proj(a, RelationKeys(c)) \in Row(RelationKeys(c))
    BY <2>1, ProjType
  <2> QED
    BY <2>1, <2>2, WeightType
<1>12. ProductsByPart(g, y, Y, p, C)
  BY <1>10 DEF ProductsByPart
<1>13. ProductOf(y) = ProductOf(g)
  <2> HIDE DEF g, p, Y, C
  <2> QED
    BY <1>0, <1>6, <1>8, <1>11, <1>12, ProductPartition
<1> QED
  BY <1>4, <1>5, <1>13 DEF Weight

KeysOf(n) == [c \in Children(n) |-> RelationKeys(c)]

WeightsOf(n, rels) == [c \in Children(n) |-> [x \in Row(RelationKeys(c)) |-> Weight(c, rels, x)]]

LEMMA WeightsFit ==
  ASSUME WellFormed, NEW rels, BaseOK(rels), NEW n \in Node \ Relation
  PROVE  /\ Weights(KeysOf(n), WeightsOf(n, rels), Children(n))
         /\ SharedWithin(View[n].avail, KeysOf(n), Children(n))
<1>1. ASSUME NEW c \in Children(n)
      PROVE  /\ RelationKeys(c) \in SUBSET Node
             /\ [x \in Row(RelationKeys(c)) |-> Weight(c, rels, x)] \in [Row(RelationKeys(c)) -> Int]
  <2>1. c \in Node
    BY DEF Children
  <2>2. RelationKeys(c) \in SUBSET Node
    BY <2>1, KeysType DEF Variable
  <2>3. \A x \in Row(RelationKeys(c)) : Weight(c, rels, x) \in Int
    BY <2>1, WeightType
  <2> QED
    BY <2>2, <2>3
<1>2. \A c, d \in Children(n) : c # d => RelationKeys(c) \cap RelationKeys(d) \subseteq View[n].avail
  BY FreeIsShared
<1> QED
  BY <1>1, <1>2 DEF Weights, SharedWithin, KeysOf, WeightsOf

(* What the views of the children mean, joined.                            *)
LEMMA JoinedMeaning ==
  ASSUME WellFormed, NEW rels, BaseOK(rels), NEW n \in Node \ Relation, NEW b \in Row(View[n].avail)
  PROVE  ProductOf([c \in Children(n) |-> Meaning(c, rels, Proj(b, View[c].free))])
           = SumTogether(View[n].avail, KeysOf(n), WeightsOf(n, rels), Children(n), b)
<1>1. PICK V \in SUBSET Node : V = View[n].avail
  BY ViewFields DEF Variable
<1>2. PICK C : C = Children(n) /\ IsFiniteSet(C)
  BY ChildrenFinite
<1>3. PICK K : K = KeysOf(n)
  OBVIOUS
<1>4. PICK G : G = WeightsOf(n, rels)
  OBVIOUS
<1>5. Weights(K, G, C) /\ SharedWithin(V, K, C)
  BY <1>1, <1>2, <1>3, <1>4, WeightsFit
<1>6. ProductOf([c \in C |-> SumAlone(V, K, G, b, c)]) = SumTogether(V, K, G, C, b)
  BY <1>1, <1>2, <1>5, Distribution
<1>7. ASSUME NEW c \in C
      PROVE  SumAlone(V, K, G, b, c) = Meaning(c, rels, Proj(b, View[c].free))
  <2>1. K[c] = RelationKeys(c) /\ G[c] = [x \in Row(RelationKeys(c)) |-> Weight(c, rels, x)]
    BY <1>2, <1>3, <1>4 DEF KeysOf, WeightsOf
  <2>2. RelationKeys(c) \cap V = View[c].free
    BY <1>1, <1>2, FreeIsShared
  <2>3. Matching(V, K, c, b) = Below(c, Proj(b, View[c].free))
    BY <2>1, <2>2 DEF Matching, Below
  <2>4. Below(c, Proj(b, View[c].free)) \subseteq Row(RelationKeys(c))
    BY DEF Below
  <2>5. [x \in Matching(V, K, c, b) |-> G[c][x]]
          = [x \in Below(c, Proj(b, View[c].free)) |-> Weight(c, rels, x)]
    BY <2>1, <2>3, <2>4
  <2> QED
    BY <2>5 DEF SumAlone, Meaning
<1>8. [c \in C |-> SumAlone(V, K, G, b, c)] = [c \in C |-> Meaning(c, rels, Proj(b, View[c].free))]
  BY <1>7
<1> QED
  BY <1>1, <1>2, <1>3, <1>4, <1>6, <1>8

(* The rows below n that go on a row b of the children's views.            *)
Through(n, b) == {a \in Row(RelationKeys(n)) : Proj(a, View[n].avail) = b}

LEMMA ThroughFinite ==
  ASSUME NEW n \in Node
  PROVE  /\ IsFiniteSet(Row(RelationKeys(n)))
         /\ \A b : IsFiniteSet(Through(n, b)) /\ Through(n, b) \subseteq Row(RelationKeys(n))
         /\ \A t : IsFiniteSet(Below(n, t)) /\ Below(n, t) \subseteq Row(RelationKeys(n))
<1>1. IsFiniteSet(Row(RelationKeys(n)))
  BY KeysType, RowFinite DEF Variable
<1>2. \A b : Through(n, b) \subseteq Row(RelationKeys(n))
  BY DEF Through
<1>3. \A t : Below(n, t) \subseteq Row(RelationKeys(n))
  BY DEF Below
<1> QED
  BY <1>1, <1>2, <1>3, FS_Subset

LEMMA TogetherMeaning ==
  ASSUME WellFormed, NEW rels, BaseOK(rels), NEW n \in Node \ Relation, NEW b \in Row(View[n].avail)
  PROVE  TermProduct(n, b) * SumTogether(View[n].avail, KeysOf(n), WeightsOf(n, rels), Children(n), b)
           = SumFunction([a \in Through(n, b) |-> Weight(n, rels, a)])
<1> DEFINE C == Children(n)
           T == Through(n, b)
           k == TermProduct(n, b)
           below(a) == ProductOf([c \in C |-> Weight(c, rels, Proj(a, RelationKeys(c)))])
           f == [a \in T |-> below(a)]
           g == [a \in T |-> Weight(n, rels, a)]
<1>1. IsFiniteSet(T) /\ T \subseteq Row(RelationKeys(n))
  BY ThroughFinite
<1>2. k \in Int
  BY TermProductType
<1>3. ASSUME NEW a \in T
      PROVE  below(a) \in Int /\ Weight(n, rels, a) \in Int /\ Weight(n, rels, a) = k * below(a)
  <2>1. a \in Row(RelationKeys(n)) /\ Proj(a, View[n].avail) = b
    BY DEF Through
  <2> DEFINE h == [c \in C |-> Weight(c, rels, Proj(a, RelationKeys(c)))]
  <2>2. h \in [C -> Int]
    <3> SUFFICES ASSUME NEW c \in C PROVE Weight(c, rels, Proj(a, RelationKeys(c))) \in Int
      OBVIOUS
    <3>1. c \in Node /\ RelationKeys(c) \subseteq RelationKeys(n)
      BY KeysBelow
    <3>2. Proj(a, RelationKeys(c)) \in Row(RelationKeys(c))
      BY <2>1, <3>1, ProjType
    <3> QED
      BY <3>1, <3>2, WeightType
  <2>3. ProductOf(h) \in Int
    <3> HIDE DEF h
    <3> QED
      BY <2>2, ChildrenFinite, ProductType
  <2>4. Weight(n, rels, a) = k * below(a)
    BY <2>1, WeightInner
  <2>5. Weight(n, rels, a) \in Int
    BY <2>1, WeightType
  <2> QED
    BY <2>3, <2>4, <2>5
<1>4. f \in [T -> Int] /\ g \in [T -> Int] /\ ScaledBy(g, k, f, T)
  <2> HIDE DEF below, k, T
  <2> QED
    BY <1>3 DEF ScaledBy
<1>5. SumFunction(g) = k * SumFunction(f)
  <2> HIDE DEF f, g, k, T
  <2> QED
    BY <1>1, <1>2, <1>4, SumScales
<1>6. SumFunction(f) = SumTogether(View[n].avail, KeysOf(n), WeightsOf(n, rels), C, b)
  <2>1. Spanned(View[n].avail, KeysOf(n), C) = RelationKeys(n)
    <3>1. \A c \in C : KeysOf(n)[c] = RelationKeys(c) /\ RelationKeys(c) \subseteq RelationKeys(n)
      BY KeysBelow DEF KeysOf
    <3>2. \A x \in RelationKeys(n) : \E c \in C : x \in KeysOf(n)[c]
      BY <3>1, KeysBelow
    <3>3. View[n].avail \subseteq RelationKeys(n)
      BY AvailMentioned
    <3> QED
      BY <3>1, <3>2, <3>3 DEF Spanned
  <2>2. Extending(View[n].avail, KeysOf(n), C, b) = T
    BY <2>1 DEF Extending, Through
  <2>3. ASSUME NEW a \in T
        PROVE  Combined(KeysOf(n), WeightsOf(n, rels), C, a) = below(a)
    <3>1. ASSUME NEW c \in C
          PROVE  WeightsOf(n, rels)[c][Proj(a, KeysOf(n)[c])] = Weight(c, rels, Proj(a, RelationKeys(c)))
      <4>1. RelationKeys(c) \subseteq RelationKeys(n) /\ a \in Row(RelationKeys(n))
        BY <1>1, KeysBelow
      <4>2. Proj(a, RelationKeys(c)) \in Row(RelationKeys(c))
        BY <4>1, ProjType
      <4> QED
        BY <4>2 DEF KeysOf, WeightsOf
    <3>2. [c \in C |-> WeightsOf(n, rels)[c][Proj(a, KeysOf(n)[c])]]
            = [c \in C |-> Weight(c, rels, Proj(a, RelationKeys(c)))]
      BY <3>1
    <3> QED
      BY <3>2 DEF Combined
  <2>4. [a \in T |-> Combined(KeysOf(n), WeightsOf(n, rels), C, a)] = f
    <3> HIDE DEF T, below, C
    <3> QED
      BY <2>3
  <2> QED
    BY <2>2, <2>4 DEF SumTogether
<1> QED
  BY <1>5, <1>6

(* One view, given what those of its children mean.                        *)
LEMMA MeaningLeaf ==
  ASSUME WellFormed, NEW rels, BaseOK(rels), NEW r \in Relation, NEW t \in Row(View[r].free)
  PROVE  Recompute(rels)[r][t] = Meaning(r, rels, t)
<1>1. r \in Node /\ View[r].free = Keys[r] /\ RelationKeys(r) = Keys[r]
  BY LeafView, LeafKeys
<1>2. Recompute(rels)[r][t] = rels[r][t] * TermProduct(r, t)
  <2>1. Recompute(rels)[r] = ScaleByTerms(r, rels[r])
    BY <1>1, FullUnfold DEF FullValue
  <2> QED
    BY <2>1 DEF ScaleByTerms
<1>3. Below(r, t) = {t}
  BY <1>1, ProjAll DEF Below
<1>4. PICK f : f = [a \in {t} |-> Weight(r, rels, a)]
  OBVIOUS
<1>5. f \in [{t} -> Int] /\ f[t] = rels[r][t] * TermProduct(r, t)
  BY <1>1, <1>4, WeightType, WeightLeaf
<1>6. SumFunction(f) = f[t]
  <2>1. IsFiniteSet({t}) /\ t \in {t} /\ \A y \in {t} \ {t} : f[y] = 0
    BY FS_Singleton
  <2> QED
    BY <1>5, <2>1, SumSingle
<1> QED
  BY <1>2, <1>3, <1>4, <1>5, <1>6 DEF Meaning

LEMMA MeaningInner ==
  ASSUME WellFormed, NEW rels, BaseOK(rels), NEW n \in Node \ Relation, NEW t \in Row(View[n].free),
         \A c \in Children(n) : \A u \in Row(View[c].free) : Recompute(rels)[c][u] = Meaning(c, rels, u)
  PROVE  Recompute(rels)[n][t] = Meaning(n, rels, t)
<1> DEFINE val == [c \in Children(n) |-> Recompute(rels)[c]]
           S == Below(n, t)
           X == RowsWith(n, t)
           p == [a \in S |-> Proj(a, View[n].avail)]
           f == [a \in S |-> Weight(n, rels, a)]
           g == [b \in X |-> Joined(n, val, b)]
<1>1. Recompute(rels)[n][t] = SumFunction(g)
  <2>1. Recompute(rels)[n] = JoinAndSum(n, val)
    BY FullUnfold DEF FullValue
  <2>2. JoinAndSum(n, val) = [u \in Row(View[n].free) |-> SumFunction([a \in RowsWith(n, u) |-> Joined(n, val, a)])]
    BY JoinAndSumIs
  <2> HIDE DEF val
  <2> QED
    BY <2>1, <2>2
<1>2. BagsBelow(n, val)
  BY FullType DEF BagsBelow, Children
<1>3. IsFiniteSet(X) /\ X \subseteq Row(View[n].avail)
  BY RowsWithFinite
<1>4. g \in [X -> Int]
  <2> HIDE DEF val, X
  <2> QED
    BY <1>2, <1>3, JoinedType
<1>5. IsFiniteSet(S) /\ S \subseteq Row(RelationKeys(n))
  BY ThroughFinite
<1>6. f \in [S -> Int]
  BY <1>5, WeightType
<1>7. View[n].avail \subseteq RelationKeys(n) /\ View[n].free \subseteq View[n].avail
  BY AvailMentioned, ViewFields
<1>8. p \in [S -> X]
  <2> SUFFICES ASSUME NEW a \in S PROVE Proj(a, View[n].avail) \in X
    OBVIOUS
  <2>1. a \in Row(RelationKeys(n)) /\ Proj(a, View[n].free) = t
    BY DEF Below
  <2>2. Proj(a, View[n].avail) \in Row(View[n].avail)
    BY <1>7, <2>1, ProjType
  <2>3. Proj(Proj(a, View[n].avail), View[n].free) = t
    BY <1>7, <2>1, ProjProj
  <2> QED
    BY <2>2, <2>3 DEF RowsWith
<1>9. ASSUME NEW b \in X
      PROVE  g[b] = SumFunction(Restrict(f, Part(S, p, b)))
  <2>1. b \in Row(View[n].avail) /\ Proj(b, View[n].free) = t
    BY DEF RowsWith
  <2>2. Factors(n, val, b) = [c \in Children(n) |-> Meaning(c, rels, Proj(b, View[c].free))]
    <3> SUFFICES ASSUME NEW c \in Children(n)
                 PROVE  Recompute(rels)[c][Proj(b, View[c].free)] = Meaning(c, rels, Proj(b, View[c].free))
      BY DEF Factors
    <3>1. Proj(b, View[c].free) \in Row(View[c].free)
      BY <2>1, ChildFree, ProjType
    <3> QED
      BY <3>1
  <2>3. Joined(n, val, b) = TermProduct(n, b) * ProductOf(Factors(n, val, b))
    BY ProductIsFold DEF Joined
  <2>4. Joined(n, val, b) = SumFunction([a \in Through(n, b) |-> Weight(n, rels, a)])
    <3> HIDE DEF val
    <3> QED
      BY <2>1, <2>2, <2>3, JoinedMeaning, TogetherMeaning
  <2>5. Part(S, p, b) = Through(n, b)
    <3>1. \A a \in Row(RelationKeys(n)) : Proj(a, View[n].avail) = b => Proj(a, View[n].free) = t
      BY <1>7, <2>1, ProjProj
    <3> QED
      BY <3>1 DEF Part, Through, Below
  <2>6. Through(n, b) \subseteq S
    BY <2>5 DEF Part
  <2>7. Restrict(f, Through(n, b)) = [a \in Through(n, b) |-> Weight(n, rels, a)]
    BY <2>6 DEF Restrict
  <2>8. g[b] = Joined(n, val, b)
    OBVIOUS
  <2> HIDE DEF g, f, p, S, X, val
  <2> QED
    BY <2>4, <2>5, <2>7, <2>8
<1>10. SumsByPart(g, f, S, p, X)
  BY <1>9 DEF SumsByPart
<1>11. SumFunction(f) = SumFunction(g)
  <2> HIDE DEF f, g, p, S, X
  <2> QED
    BY <1>3, <1>4, <1>5, <1>6, <1>8, <1>10, SumPartition
<1> QED
  BY <1>1, <1>11 DEF Meaning

(* What every view of the tree is: for each of its rows, the sum over the  *)
(* natural join of the relations below it of the terms applied below it,   *)
(* although the view is computed bottom-up and each node aggregates away   *)
(* the variables nothing above it needs.                                   *)
THEOREM ViewMeaning ==
  ASSUME WellFormed, NEW rels, BaseOK(rels)
  PROVE  \A n \in Node : \A t \in Row(View[n].free) : Recompute(rels)[n][t] = Meaning(n, rels, t)
<1> DEFINE Good == {n \in Node : \A t \in Row(View[n].free) : Recompute(rels)[n][t] = Meaning(n, rels, t)}
<1>1. ASSUME NEW n \in Node, \A c \in Children(n) \cap Node : c \in Good
      PROVE  n \in Good
  <2>1. CASE n \in Relation
    BY <2>1, MeaningLeaf
  <2>2. CASE n \notin Relation
    <3>1. \A c \in Children(n) : \A u \in Row(View[c].free) : Recompute(rels)[c][u] = Meaning(c, rels, u)
      BY <1>1 DEF Children
    <3> QED
      BY <2>2, <3>1, MeaningInner
  <2> QED
    BY <2>1, <2>2
<1> HIDE DEF Good
<1>2. Node \subseteq Good
  <2>1. Node \in SUBSET Node
    OBVIOUS
  <2> QED
    BY <1>1, <2>1, TreeInduction
<1> QED
  BY <1>2 DEF Good

-----------------------------------------------------------------------------
(***************************************************************************)
(* The root view and the query.                                            *)
(***************************************************************************)

TermsAt(m, T) == View[m].terms \cap T

AtNodes(v, T) == [m \in Node |-> ProductOf(Restrict(v, TermsAt(m, T)))]

LEMMA TermsAtFinite ==
  ASSUME NEW m \in Node, NEW T \in SUBSET Term
  PROVE  IsFiniteSet(TermsAt(m, T)) /\ TermsAt(m, T) \in SUBSET T /\ TermsAt(m, T) \in SUBSET Term
BY TermAssumption, FS_Subset DEF TermsAt

LEMMA AtNodesType ==
  ASSUME NEW T \in SUBSET Term, NEW v \in [Term -> Int]
  PROVE  AtNodes(v, T) \in [Node -> Int]
<1> SUFFICES ASSUME NEW m \in Node PROVE ProductOf(Restrict(v, TermsAt(m, T))) \in Int
  BY DEF AtNodes
<1>1. IsFiniteSet(TermsAt(m, T)) /\ TermsAt(m, T) \in SUBSET Term
  BY TermsAtFinite
<1>2. Restrict(v, TermsAt(m, T)) \in [TermsAt(m, T) -> Int]
  BY <1>1 DEF Restrict
<1> QED
  BY <1>1, <1>2, ProductType

(* A SUM factor is applied at exactly one node, if at any.                 *)
LEMMA FactorOnce ==
  ASSUME WellFormed, NEW s \in SumTerm
  PROVE  /\ HasPlace(s) => \E n \in Node : s \in View[n].terms
         /\ ~HasPlace(s) => \A m \in Node : s \notin View[m].terms
         /\ \A m, n \in Node : s \in View[n].terms /\ s \in View[m].terms => m = n
<1>1. \A m \in Node : s \in View[m].terms <=> m \in TermVars[s] /\ TermVars[s] \subseteq Subtree[m]
  <2> SUFFICES ASSUME NEW m \in Node
               PROVE  s \in View[m].terms <=> m \in TermVars[s] /\ TermVars[s] \subseteq Subtree[m]
    OBVIOUS
  <2>1. View[m].terms = NodeTerms(m, View[m].avail)
    BY ViewFields
  <2> QED
    BY <2>1, FactorPlacement
<1>2. TermVars[s] \subseteq Node
  BY TermAssumption DEF Term, Variable
<1>3. (\E n \in Node : s \in View[n].terms) <=> HasPlace(s)
  BY <1>1, <1>2 DEF HasPlace
<1>4. ASSUME NEW m \in Node, NEW n \in Node, s \in View[n].terms, s \in View[m].terms
      PROVE  m = n
  <2>1. m \in TermVars[s] /\ n \in TermVars[s] /\ TermVars[s] \subseteq Subtree[m] /\ TermVars[s] \subseteq Subtree[n]
    BY <1>1, <1>4
  <2> QED
    BY <2>1, SubtreeAntisymmetric
<1> QED
  BY <1>3, <1>4

LEMMA FactorsTogether ==
  ASSUME WellFormed, NEW v \in [Term -> Int], \A s \in SumTerm : HasPlace(s) \/ v[s] = 1
  PROVE  ProductOf(AtNodes(v, SumTerm)) = ProductOf(Restrict(v, SumTerm))
<1> DEFINE P == {s \in SumTerm : HasPlace(s)}
           Q == SumTerm \ P
           p == [s \in P |-> CHOOSE n \in Node : s \in View[n].terms]
           f == Restrict(v, P)
           g == AtNodes(v, SumTerm)
<1>1. /\ IsFiniteSet(SumTerm) /\ SumTerm \in SUBSET Term /\ IsFiniteSet(Node)
      /\ IsFiniteSet(P) /\ P \in SUBSET SumTerm /\ IsFiniteSet(Q) /\ Q \in SUBSET SumTerm
      /\ SumTerm = P \cup Q /\ P \cap Q = {}
  BY TermAssumption, TreeAssumption, FS_Subset DEF Term
<1>2. p \in [P -> Node] /\ \A s \in P : s \in View[p[s]].terms
  BY FactorOnce
<1>3. f \in [P -> Int]
  BY <1>1 DEF Restrict
<1>4. g \in [Node -> Int]
  BY <1>1, AtNodesType
<1>5. ASSUME NEW m \in Node
      PROVE  g[m] = ProductOf(Restrict(f, Part(P, p, m)))
  <2>1. \A s \in P : p[s] = m <=> s \in View[m].terms
    <3> HIDE DEF p
    <3> QED
      BY <1>1, <1>2, FactorOnce
  <2>2. TermsAt(m, SumTerm) \subseteq P
    BY FactorOnce DEF TermsAt
  <2>3. Part(P, p, m) = TermsAt(m, SumTerm)
    <3> HIDE DEF p, P
    <3> QED
      BY <1>1, <2>1, <2>2 DEF Part, TermsAt
  <2>4. Restrict(f, TermsAt(m, SumTerm)) = Restrict(v, TermsAt(m, SumTerm))
    <3> HIDE DEF P
    <3> QED
      BY <2>2 DEF Restrict
  <2>5. g[m] = ProductOf(Restrict(v, TermsAt(m, SumTerm)))
    BY DEF AtNodes
  <2> HIDE DEF f, g, p, P
  <2> QED
    BY <2>3, <2>4, <2>5
<1>6. ProductsByPart(g, f, P, p, Node)
  <2> HIDE DEF f, g, p, P
  <2> QED
    BY <1>5 DEF ProductsByPart
<1>7. ProductOf(f) = ProductOf(g)
  <2> HIDE DEF f, g, p, P, Q
  <2> QED
    BY <1>1, <1>2, <1>3, <1>4, <1>6, ProductPartition
<1>8. PICK o : o = Restrict(v, Q)
  OBVIOUS
<1>9. o \in [Q -> Int] /\ \A s \in Q : o[s] = 1
  BY <1>1, <1>8 DEF Restrict
<1>10. ProductOf(o) = 1
  <2> HIDE DEF Q
  <2> QED
    BY <1>1, <1>9, ProductOfOnes
<1>11. PICK w : w = Restrict(v, SumTerm)
  OBVIOUS
<1>12. w \in [SumTerm -> Int] /\ Restrict(w, P) = f /\ Restrict(w, Q) = o
  BY <1>1, <1>8, <1>11 DEF Restrict
<1> HIDE DEF f, g, p, P, Q
<1>13. ProductOf(w) = ProductOf(f) * ProductOf(o)
  <2>1. ProductOf(w) = ProductOf(Restrict(w, P)) * ProductOf(Restrict(w, Q))
    BY <1>1, <1>12, ProductSplit
  <2> QED
    BY <1>12, <2>1
<1>14. ProductOf(f) \in Int
  BY <1>1, <1>3, ProductType
<1> QED
  BY <1>7, <1>10, <1>11, <1>13, <1>14 DEF g

(* A conjunct is applied at one node or more, and counts 0 or 1.           *)
LEMMA ConjunctsTogether ==
  ASSUME WellFormed, NEW v \in [Term -> Int], \A w \in WhTerm : v[w] \in {0, 1}
  PROVE  ProductOf(AtNodes(v, WhTerm)) = ProductOf(Restrict(v, WhTerm))
<1> DEFINE f == Restrict(v, WhTerm)
           g == AtNodes(v, WhTerm)
<1>1. IsFiniteSet(WhTerm) /\ WhTerm \in SUBSET Term /\ IsFiniteSet(Node)
  BY TermAssumption, TreeAssumption, FS_Subset DEF Term
<1>2. f \in [WhTerm -> {0, 1}] /\ \A w \in WhTerm : f[w] = v[w]
  BY DEF Restrict
<1>3. ASSUME NEW m \in Node
      PROVE  g[m] = IF AllOne(v, TermsAt(m, WhTerm)) THEN 1 ELSE 0
  <2>1. IsFiniteSet(TermsAt(m, WhTerm)) /\ TermsAt(m, WhTerm) \in SUBSET WhTerm
    BY <1>1, TermsAtFinite
  <2>2. PICK h : h = Restrict(v, TermsAt(m, WhTerm))
    OBVIOUS
  <2>3. h \in [TermsAt(m, WhTerm) -> {0, 1}] /\ \A w \in TermsAt(m, WhTerm) : h[w] = v[w]
    BY <2>1, <2>2 DEF Restrict
  <2>4. ProductOf(h) = IF AllOne(h, TermsAt(m, WhTerm)) THEN 1 ELSE 0
    BY <2>1, <2>3, ProductOfBits
  <2>5. AllOne(h, TermsAt(m, WhTerm)) <=> AllOne(v, TermsAt(m, WhTerm))
    BY <2>3 DEF AllOne
  <2> QED
    BY <2>2, <2>4, <2>5 DEF AtNodes
<1>4. g \in [Node -> {0, 1}]
  <2>1. g = [m \in Node |-> g[m]]
    BY DEF AtNodes
  <2> HIDE DEF g
  <2> QED
    BY <1>3, <2>1
<1>5. AllOne(g, Node) <=> AllOne(f, WhTerm)
  <2>1. \A w \in WhTerm : \E m \in Node : w \in View[m].terms
    <3> SUFFICES ASSUME NEW w \in WhTerm PROVE \E m \in Node : w \in View[m].terms
      OBVIOUS
    <3>1. Covered(w, RelationKeys(Root)) /\ Root \in Node
      BY <1>1, RootKeys, TermAssumption, TreeAssumption DEF Covered
    <3>2. \E m \in Subtree[Root] : w \in View[m].terms
      BY <3>1, ConjunctPlaced
    <3> QED
      BY <3>2, RootAbove
  <2>2. AllOne(g, Node) <=> \A m \in Node : AllOne(v, TermsAt(m, WhTerm))
    <3> HIDE DEF g
    <3> QED
      BY <1>3 DEF AllOne
  <2>3. (\A m \in Node : AllOne(v, TermsAt(m, WhTerm))) <=> \A w \in WhTerm : v[w] = 1
    BY <2>1 DEF AllOne, TermsAt
  <2> HIDE DEF f, g
  <2> QED
    BY <1>2, <2>2, <2>3 DEF AllOne
<1> HIDE DEF f, g
<1>6. ProductOf(f) = IF AllOne(f, WhTerm) THEN 1 ELSE 0
  BY <1>1, <1>2, ProductOfBits
<1>7. ProductOf(g) = IF AllOne(g, Node) THEN 1 ELSE 0
  BY <1>1, <1>4, ProductOfBits
<1> QED
  BY <1>5, <1>6, <1>7 DEF f, g

(* What a row of the natural join counts in the query.                     *)
TermValues(a) == [s \in Term |-> TermVal[s][Proj(a, TermVars[s])]]

Multiplicities(rels, a) == [r \in Relation |-> rels[r][Proj(a, Keys[r])]]

LEMMA TermValuesType ==
  ASSUME NEW a \in Row(Variable)
  PROVE  /\ TermValues(a) \in [Term -> Int]
         /\ \A w \in WhTerm : TermValues(a)[w] \in {0, 1}
         /\ FactorsPlaced => \A s \in SumTerm : HasPlace(s) \/ TermValues(a)[s] = 1
<1>1. \A s \in Term : Proj(a, TermVars[s]) \in Row(TermVars[s])
  BY TermAssumption, ProjType
<1> QED
  BY <1>1, ValueAssumption DEF TermValues, Term, FactorsPlaced

LEMMA TermProductSplit ==
  ASSUME WellFormed, NEW m \in Node, NEW a \in Row(Variable)
  PROVE  TermProduct(m, Proj(a, View[m].avail))
           = AtNodes(TermValues(a), SumTerm)[m] * AtNodes(TermValues(a), WhTerm)[m]
<1> DEFINE T == View[m].terms
<1>1. PICK v : v = TermValues(a)
  OBVIOUS
<1>2. v \in [Term -> Int]
  BY <1>1, TermValuesType
<1>3. IsFiniteSet(T) /\ T \in SUBSET Term
  BY ViewFields, TermAssumption, FS_Subset
<1>4. PICK f : f = Restrict(v, T)
  OBVIOUS
<1>5. f \in [T -> Int]
  BY <1>2, <1>3, <1>4 DEF Restrict
<1>6. TermProduct(m, Proj(a, View[m].avail)) = ProductOf(f)
  <2>1. ASSUME NEW t \in T
        PROVE  TermVal[t][Proj(Proj(a, View[m].avail), TermVars[t])] = v[t]
    <3>1. t \in Term /\ TermVars[t] \subseteq View[m].avail
      BY TermsCovered
    <3>2. Proj(Proj(a, View[m].avail), TermVars[t]) = Proj(a, TermVars[t])
      BY <3>1, ProjProj
    <3> QED
      BY <1>1, <3>1, <3>2 DEF TermValues
  <2>2. [t \in T |-> TermVal[t][Proj(Proj(a, View[m].avail), TermVars[t])]] = f
    BY <1>4, <2>1 DEF Restrict
  <2> QED
    BY <2>2, ProductIsFold DEF TermProduct
<1>7. T = TermsAt(m, SumTerm) \cup TermsAt(m, WhTerm) /\ TermsAt(m, SumTerm) \cap TermsAt(m, WhTerm) = {}
  BY <1>3, TermAssumption DEF TermsAt, Term
<1>8. TermsAt(m, SumTerm) \in SUBSET T /\ TermsAt(m, WhTerm) \in SUBSET T
  BY DEF TermsAt
<1> HIDE DEF T
<1>9. ProductOf(f) = ProductOf(Restrict(f, TermsAt(m, SumTerm))) * ProductOf(Restrict(f, TermsAt(m, WhTerm)))
  BY <1>3, <1>5, <1>7, <1>8, ProductSplit
<1>10. Restrict(f, TermsAt(m, SumTerm)) = Restrict(v, TermsAt(m, SumTerm))
       /\ Restrict(f, TermsAt(m, WhTerm)) = Restrict(v, TermsAt(m, WhTerm))
  BY <1>4, <1>8 DEF Restrict
<1> QED
  BY <1>1, <1>6, <1>9, <1>10 DEF AtNodes

(* The leaves contribute the multiplicities of the relations.              *)
LeafFactors(rels, a) == [m \in Node |-> IF m \in Relation THEN rels[m][Proj(a, Keys[m])] ELSE 1]

LEMMA LeafFactorsProduct ==
  ASSUME NEW rels, BaseOK(rels), NEW a \in Row(Variable)
  PROVE  /\ LeafFactors(rels, a) \in [Node -> Int]
         /\ Multiplicities(rels, a) \in [Relation -> Int]
         /\ ProductOf(LeafFactors(rels, a)) = ProductOf(Multiplicities(rels, a))
<1>1. \A r \in Relation : r \in Node /\ rels[r][Proj(a, Keys[r])] \in Int
  <2> SUFFICES ASSUME NEW r \in Relation PROVE r \in Node /\ rels[r][Proj(a, Keys[r])] \in Int
    OBVIOUS
  <2>1. r \in Node /\ Keys[r] \in SUBSET Variable
    BY TreeAssumption
  <2>2. Proj(a, Keys[r]) \in Row(Keys[r])
    BY <2>1, ProjType
  <2> QED
    BY <2>1, <2>2 DEF BaseOK, Bag
<1>2. PICK f : f = LeafFactors(rels, a)
  OBVIOUS
<1>3. f \in [Node -> Int] /\ Multiplicities(rels, a) \in [Relation -> Int]
  BY <1>1, <1>2 DEF LeafFactors, Multiplicities
<1>4. Node = Relation \cup Variable /\ Relation \cap Variable = {} /\ Relation \in SUBSET Node
      /\ Variable \in SUBSET Node /\ IsFiniteSet(Node) /\ IsFiniteSet(Variable)
  BY TreeAssumption, FS_Subset DEF Variable
<1>5. ProductOf(f) = ProductOf(Restrict(f, Relation)) * ProductOf(Restrict(f, Variable))
  BY <1>3, <1>4, ProductSplit
<1>6. Restrict(f, Relation) = Multiplicities(rels, a)
  BY <1>2, <1>4 DEF Restrict, LeafFactors, Multiplicities
<1>7. PICK o : o = Restrict(f, Variable)
  OBVIOUS
<1>8. o \in [Variable -> Int] /\ \A x \in Variable : o[x] = 1
  BY <1>2, <1>4, <1>7 DEF Restrict, LeafFactors
<1>9. ProductOf(o) = 1
  BY <1>4, <1>8, ProductOfOnes
<1>10. ProductOf(Multiplicities(rels, a)) \in Int
  <2>1. IsFiniteSet(Relation)
    BY <1>4, FS_Subset
  <2> QED
    BY <1>3, <2>1, ProductType
<1> QED
  BY <1>2, <1>3, <1>5, <1>6, <1>7, <1>9, <1>10

LEMMA RootWeight ==
  ASSUME WellFormed, FactorsPlaced, NEW rels, BaseOK(rels), NEW a \in Row(Variable)
  PROVE  Weight(Root, rels, a) = ProductOf(Multiplicities(rels, a)) * ProductOf(TermValues(a))
<1>1. PICK v : v = TermValues(a)
  OBVIOUS
<1>2. /\ v \in [Term -> Int] /\ \A w \in WhTerm : v[w] \in {0, 1}
      /\ \A s \in SumTerm : HasPlace(s) \/ v[s] = 1
  BY <1>1, TermValuesType
<1>3. IsFiniteSet(Node) /\ SumTerm \in SUBSET Term /\ WhTerm \in SUBSET Term /\ IsFiniteSet(Term)
      /\ Term = SumTerm \cup WhTerm /\ SumTerm \cap WhTerm = {}
  BY TreeAssumption, TermAssumption DEF Term
<1>4. PICK sums : sums = AtNodes(v, SumTerm) /\ sums \in [Node -> Int]
  BY <1>2, <1>3, AtNodesType
<1>5. PICK wheres : wheres = AtNodes(v, WhTerm) /\ wheres \in [Node -> Int]
  BY <1>2, <1>3, AtNodesType
<1>6. PICK leaves : leaves = LeafFactors(rels, a) /\ leaves \in [Node -> Int]
                    /\ ProductOf(leaves) = ProductOf(Multiplicities(rels, a))
  BY LeafFactorsProduct
<1>7. PICK terms : terms = [m \in Node |-> sums[m] * wheres[m]]
  OBVIOUS
<1>8. PICK all : all = [m \in Node |-> terms[m] * leaves[m]]
  OBVIOUS
<1>9. terms \in [Node -> Int] /\ PointwiseProduct(terms, sums, wheres, Node)
  BY <1>4, <1>5, <1>7 DEF PointwiseProduct
<1>10. all \in [Node -> Int] /\ PointwiseProduct(all, terms, leaves, Node)
  BY <1>6, <1>8, <1>9 DEF PointwiseProduct
<1>11. ProductOf(terms) = ProductOf(sums) * ProductOf(wheres)
  BY <1>3, <1>4, <1>5, <1>9, ProductMultiplies
<1>12. ProductOf(all) = ProductOf(terms) * ProductOf(leaves)
  BY <1>3, <1>6, <1>9, <1>10, ProductMultiplies
<1>13. \A m \in Node : NodeWeight(m, rels, a) = all[m]
  <2> SUFFICES ASSUME NEW m \in Node PROVE NodeWeight(m, rels, a) = all[m]
    OBVIOUS
  <2>1. TermProduct(m, Proj(a, View[m].avail)) = terms[m]
    BY <1>1, <1>4, <1>5, <1>7, TermProductSplit
  <2>2. leaves[m] = IF m \in Relation THEN rels[m][Proj(a, Keys[m])] ELSE 1
    BY <1>6 DEF LeafFactors
  <2> QED
    BY <1>8, <2>1, <2>2 DEF NodeWeight
<1>14. Weight(Root, rels, a) = ProductOf(all)
  <2>1. [m \in Subtree[Root] |-> NodeWeight(m, rels, a)] = all
    BY <1>8, <1>13, RootAbove
  <2> QED
    BY <2>1 DEF Weight
<1>15. ProductOf(sums) = ProductOf(Restrict(v, SumTerm))
  BY <1>2, <1>4, FactorsTogether
<1>16. ProductOf(wheres) = ProductOf(Restrict(v, WhTerm))
  BY <1>2, <1>5, ConjunctsTogether
<1>17. ProductOf(v) = ProductOf(Restrict(v, SumTerm)) * ProductOf(Restrict(v, WhTerm))
  BY <1>2, <1>3, ProductSplit
<1>18. ProductOf(v) \in Int /\ ProductOf(leaves) \in Int
  BY <1>2, <1>3, <1>6, ProductType
<1> QED
  BY <1>1, <1>6, <1>11, <1>12, <1>14, <1>15, <1>16, <1>17, <1>18

(* The root view is the SQL query, for every tree, query and contents of   *)
(* the relations: the factors and conjuncts spread over the tree are each  *)
(* counted as often as the query counts them.                              *)
THEOREM RootIsQuery ==
  ASSUME WellFormed, FactorsPlaced, NEW rels, BaseOK(rels)
  PROVE  Recompute(rels)[Root] = Query(rels)
<1>1. Root \in Node /\ View[Root].free = FreeVars /\ RelationKeys(Root) = Variable
  BY RootFree, RootKeys, TreeAssumption
<1>2. Recompute(rels)[Root] \in Bag(FreeVars)
  BY <1>1, FullType
<1>3. ASSUME NEW t \in Row(FreeVars)
      PROVE  Recompute(rels)[Root][t] = Query(rels)[t]
  <2> DEFINE A == {a \in Row(Variable) : Proj(a, FreeVars) = t}
             q(a) == ProductFunction([r \in Relation |-> rels[r][Proj(a, Keys[r])]])
                       * ProductFunction([s \in Term |-> TermVal[s][Proj(a, TermVars[s])]])
  <2>1. Recompute(rels)[Root][t] = Meaning(Root, rels, t)
    BY <1>1, ViewMeaning
  <2>2. Below(Root, t) = A
    BY <1>1 DEF Below
  <2>3. ASSUME NEW a \in A
        PROVE  Weight(Root, rels, a) = q(a)
    <3>1. a \in Row(Variable)
      OBVIOUS
    <3> HIDE DEF A
    <3> QED
      BY <3>1, RootWeight, ProductIsFold DEF Multiplicities, TermValues
  <2>4. [a \in A |-> Weight(Root, rels, a)] = [a \in A |-> q(a)]
    <3> HIDE DEF A, q
    <3> QED
      BY <2>3
  <2>5. Query(rels)[t] = SumFunction([a \in A |-> q(a)])
    BY DEF Query
  <2> HIDE DEF A, q
  <2> QED
    BY <2>1, <2>2, <2>4, <2>5 DEF Meaning
<1>4. Query(rels) = [t \in Row(FreeVars) |-> Query(rels)[t]]
  BY DEF Query
<1>5. PICK x : x = Recompute(rels)[Root]
  OBVIOUS
<1>6. x = [t \in Row(FreeVars) |-> x[t]]
  BY <1>2, <1>5 DEF Bag
<1> QED
  BY <1>3, <1>4, <1>5, <1>6

-----------------------------------------------------------------------------
(***************************************************************************)
(* The triggers.                                                           *)
(***************************************************************************)

(* The statements of an update trigger can run in any order: the views the *)
(* delta of a view reads are all stored (createExpr never inlines one) and *)
(* none of them is a target of the same trigger.                           *)
THEOREM DeltaReadsStoredUntouchedViews ==
  ASSUME NEW r \in Streams, NEW n
  PROVE  /\ DeltaReads(n, r) \subseteq Materialized
         /\ DeltaReads(n, r) \cap UpdateTargets(r) = {}
<1> SUFFICES ASSUME NEW m \in DeltaPath(n, r), NEW x \in Siblings(m)
             PROVE  x \in Materialized /\ x \notin UpdateTargets(r)
  BY DEF DeltaReads
<1>1. m \in Node /\ r \in RelationsOf(m)
  BY DEF DeltaPath, IsStaticFor
<1>2. m # Root /\ x \in Node \ {Root} /\ x # m /\ Parent[x] = Parent[m]
  BY DEF Siblings, Children
<1>3. m \in Siblings(x)
  BY <1>1, <1>2 DEF Siblings, Children
<1>4. x \in Materialized
  BY <1>1, <1>2, <1>3 DEF Materialized, IsMaterialized
<1>5. r \notin RelationsOf(x)
  BY <1>1, <1>2, SiblingsDisjoint DEF RelationsOf
<1> QED
  BY <1>4, <1>5 DEF UpdateTargets, IsStaticFor

(* createDeltaExpr always finds exactly one child to descend to, in every  *)
(* tree whose leaves are its relations: its "# of delta paths not 1" error *)
(* is unreachable.                                                         *)
THEOREM DeltaPathUnique == OneDeltaPath
<1> SUFFICES ASSUME NEW r \in Streams, NEW n \in Node \ Relation, r \in RelationsOf(n)
             PROVE  Cardinality({c \in Children(n) : ~IsStaticFor(c, r)}) = 1
  BY DEF OneDeltaPath, IsStaticFor
<1>1. r \in Subtree[n] /\ r # n
  BY SourceAssumption DEF RelationsOf
<1>3. PICK c \in Children(n) : r \in Subtree[c]
  BY <1>1, SubtreeThroughChild
<1>4. \A d \in Children(n) : r \in Subtree[d] => d = c
  BY <1>3, SiblingsDisjoint DEF Children
<1>5. {d \in Children(n) : ~IsStaticFor(d, r)} = {c}
  BY <1>3, <1>4, SourceAssumption DEF IsStaticFor, RelationsOf
<1> QED
  BY <1>5, FS_Singleton

-----------------------------------------------------------------------------
EventOfStream == event = NoEvent \/ event.rel \in Streams

LEMMA EventOfStreamInvariant == Spec => []EventOfStream
<1>1. Init => EventOfStream
  BY DEF Init, EventOfStream
<1>2. EventOfStream /\ [Next]_vars => EventOfStream'
  <2> SUFFICES ASSUME EventOfStream, [Next]_vars
               PROVE  EventOfStream'
    OBVIOUS
  <2>1. ASSUME NEW r \in Streams, Deliver(r)
        PROVE  EventOfStream'
    BY <2>1 DEF Deliver, EventOfStream
  <2>2. CASE TriggerReturn
    BY <2>2 DEF TriggerReturn, EventOfStream
  <2>3. ASSUME UNCHANGED event
        PROVE  EventOfStream'
    BY <2>3 DEF EventOfStream, NoEvent
  <2> QED
    BY <2>1, <2>2, <2>3
       DEF Next, vars, LoadTuple, SystemReady, SetStatement, ReadyReturn, AddStatement
<1> QED
  BY <1>1, <1>2, PTL DEF Spec

(* The statements of a running trigger never feed each other: what each    *)
(* still has to read is stored and no statement of the trigger writes it.  *)
THEOREM StatementsStayIndependent == Spec => []StatementsIndependent
<1>1. EventOfStream => StatementsIndependent
  BY DeltaReadsStoredUntouchedViews DEF EventOfStream, StatementsIndependent
<1> QED
  BY <1>1, EventOfStreamInvariant, PTL

-----------------------------------------------------------------------------
(***************************************************************************)
(* The order of the SYSTEM READY trigger's statements.                     *)
(***************************************************************************)

LEMMA PostOrderTotal ==
  ASSUME NEW a \in Node, NEW b \in Node, a # b
  PROVE  PostOrder(a, b) \/ PostOrder(b, a)
<1>1. a \in Nat /\ b \in Nat
  BY TreeAssumption
<1> QED
  BY <1>1 DEF PostOrder

LEMMA PostOrderTransitive ==
  ASSUME NEW a \in Node, NEW b \in Node, NEW c \in Node, PostOrder(a, b), PostOrder(b, c)
  PROVE  PostOrder(a, c)
<1>1. a \in Nat /\ b \in Nat /\ c \in Nat
  BY TreeAssumption
<1>2. CASE a # b /\ a \in Subtree[b] /\ b # c /\ b \in Subtree[c]
  <2>1. a \in Subtree[c]
    BY <1>2, SubtreeTransitive
  <2>2. b <= a /\ c <= b
    BY <1>2, SubtreeAfterRoot
  <2> QED
    BY <1>1, <1>2, <2>1, <2>2 DEF PostOrder
<1>3. CASE a # b /\ a \in Subtree[b] /\ c \notin Subtree[b] /\ b < c
  <2>1. c \notin Subtree[a]
    BY <1>3, SubtreeTransitive
  <2>2. ~(c <= a)
    BY <1>1, <1>3, SubtreeInterval
  <2> QED
    BY <1>1, <2>1, <2>2 DEF PostOrder
<1>4. CASE b \notin Subtree[a] /\ a < b /\ b # c /\ b \in Subtree[c]
  <2>1. CASE a \in Subtree[c]
    <3>1. a # c
      BY <1>4
    <3> QED
      BY <2>1, <3>1 DEF PostOrder
  <2>2. CASE a \notin Subtree[c]
    <3>1. c \notin Subtree[a]
      BY <1>4, SubtreeTransitive
    <3>2. ~(c <= a)
      BY <1>1, <1>4, <2>2, SubtreeInterval
    <3> QED
      BY <1>1, <3>1, <3>2 DEF PostOrder
  <2> QED
    BY <2>1, <2>2
<1>5. CASE b \notin Subtree[a] /\ a < b /\ c \notin Subtree[b] /\ b < c
  <2>1. c \notin Subtree[a]
    BY <1>1, <1>5, SubtreeInterval
  <2> QED
    BY <1>1, <1>5, <2>1 DEF PostOrder
<1> QED
  BY <1>2, <1>3, <1>4, <1>5 DEF PostOrder

First(n, T) == n \in T /\ \A m \in T \ {n} : PostOrder(n, m)

LEMMA FirstInPostOrder ==
  ASSUME NEW S \in SUBSET Node, S # {}
  PROVE  \E n : First(n, S)
<1> DEFINE Good == {T \in SUBSET S : T # {} => \E n : First(n, T)}
<1>0. IsFiniteSet(S)
  BY TreeAssumption, FS_Subset
<1>1. {} \in Good
  OBVIOUS
<1>2. ASSUME NEW T \in SUBSET S, T # {}, T \ {Chosen(T)} \in Good
      PROVE  T \in Good
  <2> DEFINE x == Chosen(T)
             U == T \ {x}
  <2>1. x \in T
    BY <1>2, ChosenIn
  <2> HIDE DEF x
  <2>2. CASE U = {}
    <3>1. First(x, T)
      BY <2>1, <2>2 DEF First
    <3> QED
      BY <3>1
  <2>3. CASE U # {}
    <3>1. PICK y : First(y, U)
      BY <1>2, <2>3 DEF x
    <3>2. y \in U /\ y \in Node /\ x \in Node /\ y # x
      BY <2>1, <3>1 DEF First
    <3>3. CASE PostOrder(y, x)
      <4>1. First(y, T)
        BY <3>1, <3>3 DEF First
      <4> QED
        BY <4>1
    <3>4. CASE PostOrder(x, y)
      <4>1. ASSUME NEW m \in T \ {x}
            PROVE  PostOrder(x, m)
        <5>1. m = y \/ PostOrder(y, m)
          BY <3>1 DEF First
        <5> QED
          BY <3>2, <3>4, <5>1, PostOrderTransitive
      <4>2. First(x, T)
        BY <2>1, <4>1 DEF First
      <4> QED
        BY <4>2
    <3> QED
      BY <3>2, <3>3, <3>4, PostOrderTotal
  <2> QED
    BY <2>2, <2>3
<1> HIDE DEF Good
<1>3. SUBSET S \subseteq Good
  BY <1>0, <1>1, <1>2, SubsetInduction
<1> QED
  BY <1>3 DEF Good

(* The next statement of the SYSTEM READY trigger comes after those of the *)
(* views below its target.                                                 *)
LEMMA NextToSetFirst ==
  ASSUME todo \subseteq Node, todo # {}
  PROVE  /\ NextToSet \in todo
         /\ \A m \in Subtree[NextToSet] \ {NextToSet} : m \notin todo
<1>1. NextToSet \in todo /\ \A m \in todo \ {NextToSet} : PostOrder(NextToSet, m)
  <2>1. \E n \in todo : \A m \in todo \ {n} : PostOrder(n, m)
    BY FirstInPostOrder DEF First
  <2> QED
    BY <2>1, Zenon DEF NextToSet
<1>2. ASSUME NEW m \in Subtree[NextToSet] \ {NextToSet}, m \in todo
      PROVE  FALSE
  <2>1. NextToSet \in Subtree[m] /\ NextToSet \in Node /\ m \in Node
    BY <1>1, <1>2 DEF PostOrder
  <2>2. m <= NextToSet /\ NextToSet <= m /\ m \in Nat /\ NextToSet \in Nat
    BY <1>2, <2>1, SubtreeAfterRoot, TreeAssumption
  <2> QED
    BY <1>2, <2>2
<1> QED
  BY <1>1, <1>2

LEMMA NextToAddIn ==
  ASSUME todo \subseteq Node, todo # {}
  PROVE  NextToAdd \in todo
<1>1. \E n \in todo : \A m \in todo : n <= m
  BY TreeAssumption, LeastNumber
<1> QED
  BY <1>1, Zenon DEF NextToAdd

-----------------------------------------------------------------------------
(***************************************************************************)
(* The inductive invariant: what the program's state is while tables are   *)
(* loaded, between two statements of the SYSTEM READY trigger, and between *)
(* two statements of an update trigger.                                    *)
(***************************************************************************)

Types ==
  /\ phase \in {"tables", "ready", "streams"}
  /\ base = [r \in Relation |-> base[r]] /\ BaseOK(base)
  /\ views = [n \in Materialized |-> views[n]] /\ StoredOK(views)
  /\ event # NoEvent => event.rel \in Streams /\ event.delta \in Bag(Keys[event.rel])

(* Until the streams start, they are empty and so is every view of theirs. *)
StreamsEmpty ==
  phase # "streams" =>
    /\ event = NoEvent
    /\ \A r \in Streams : base[r] = Zero(Keys[r])
    /\ \A n \in Materialized \ ReadyTargets : views[n] = Zero(View[n].free)

(* The SYSTEM READY trigger: the static views set so far are right.        *)
SettingViews ==
  /\ phase = "tables" => todo = {}
  /\ phase = "ready" => /\ todo \subseteq ReadyTargets
                        /\ \A n \in ReadyTargets \ todo : views[n] = Recompute(base)[n]

(* An update trigger: the targets left are targets of its relation.        *)
AddingDeltas ==
  phase = "streams" =>
    /\ event = NoEvent => todo = {}
    /\ event # NoEvent => todo \subseteq UpdateTargets(event.rel)

IndInv == Types /\ StreamsEmpty /\ SettingViews /\ AddingDeltas /\ ViewsMatchBase

-----------------------------------------------------------------------------
(***************************************************************************)
(* The invariant holds initially and every step keeps it.                  *)
(***************************************************************************)

LEMMA ZeroBag == \A X : Zero(X) \in Bag(X)
BY DEF Zero, Bag

LEMMA PlusBag ==
  ASSUME NEW X, NEW u \in Bag(X), NEW v \in Bag(X)
  PROVE  Plus(u, v) \in Bag(X)
BY DEF Plus, Bag

LEMMA DeltaBag ==
  ASSUME NEW r \in Relation, NEW delta \in Deltas(r)
  PROVE  delta \in Bag(Keys[r])
<1>1. CASE BatchUpdates
  <2>1. PICK m \in [Rows[r] -> {-1, 0, 1}] :
          delta = [t \in Row(Keys[r]) |-> IF t \in Rows[r] THEN m[t] ELSE 0]
    BY <1>1 DEF Deltas, Batches
  <2>2. \A t \in Rows[r] : m[t] \in Int
    OBVIOUS
  <2> QED
    BY <2>1, <2>2 DEF Bag
<1>2. CASE ~BatchUpdates
  <2>1. PICK t \in Rows[r], m \in {1, -1} : delta = Single(r, t, m)
    BY <1>2 DEF Deltas, Tuples
  <2> QED
    <3>1. t \in Row(Keys[r]) /\ m \in Int
      BY InputAssumption
    <3>2. Zero(Keys[r]) \in [Row(Keys[r]) -> Int]
      BY DEF Zero
    <3>3. [Zero(Keys[r]) EXCEPT ![t] = m] \in [Row(Keys[r]) -> Int]
      BY <3>1, <3>2
    <3> QED
      BY <2>1, <3>3 DEF Single, Bag
<1> QED
  BY <1>1, <1>2

LEMMA InitInv == Init => IndInv
<1> SUFFICES ASSUME Init PROVE IndInv
  OBVIOUS
<1>1. Types
  BY ZeroBag DEF Init, Types, BaseOK, StoredOK
<1>2. StreamsEmpty
  BY SourceAssumption DEF Init, StreamsEmpty
<1>3. SettingViews /\ AddingDeltas /\ ViewsMatchBase
  BY DEF Init, SettingViews, AddingDeltas, ViewsMatchBase
<1> QED
  BY <1>1, <1>2, <1>3 DEF IndInv

LEMMA LoadTupleInv ==
  ASSUME IndInv, NEW r \in Relation \ Streams, LoadTuple(r)
  PROVE  IndInv'
<1> USE DEF IndInv
<1>1. PICK t \in Rows[r] : base' = [base EXCEPT ![r][t] = @ + 1]
  BY DEF LoadTuple
<1>2. phase = "tables" /\ UNCHANGED <<phase, views, event, todo>>
  BY DEF LoadTuple
<1>3. base' = [q \in Relation |-> base'[q]] /\ \A q \in Relation \ {r} : base'[q] = base[q]
  BY <1>1 DEF Types
<1>4. base'[r] = [base[r] EXCEPT ![t] = @ + 1]
  BY <1>1 DEF Types
<1>5. base'[r] \in Bag(Keys[r])
  BY <1>4, InputAssumption DEF Types, BaseOK, Bag
<1>6. Types'
  BY <1>2, <1>3, <1>5 DEF Types, BaseOK, StoredOK
<1>7. StreamsEmpty'
  BY <1>2, <1>3, SourceAssumption DEF StreamsEmpty
<1>8. SettingViews' /\ AddingDeltas' /\ ViewsMatchBase'
  BY <1>2 DEF SettingViews, AddingDeltas, ViewsMatchBase
<1> QED
  BY <1>6, <1>7, <1>8

LEMMA SystemReadyInv ==
  ASSUME IndInv, SystemReady
  PROVE  IndInv'
<1> USE DEF IndInv
<1>1. phase = "tables" /\ phase' = "ready" /\ todo' = ReadyTargets /\ UNCHANGED <<base, views, event>>
  BY DEF SystemReady
<1>2. Types' /\ StreamsEmpty'
  BY <1>1 DEF Types, StreamsEmpty, BaseOK, StoredOK
<1>3. SettingViews' /\ AddingDeltas' /\ ViewsMatchBase'
  BY <1>1 DEF SettingViews, AddingDeltas, ViewsMatchBase
<1> QED
  BY <1>2, <1>3

LEMMA SetStatementInv ==
  ASSUME WellFormed, IndInv, SetStatement
  PROVE  IndInv'
<1> USE DEF IndInv
<1> DEFINE n == NextToSet
<1>1. /\ phase = "ready" /\ todo # {}
      /\ views' = [views EXCEPT ![n] = DefExpr(base, views)[n]]
      /\ todo' = todo \ {n}
      /\ UNCHANGED <<phase, base, event, seen>>
  BY DEF SetStatement
<1>2. todo \subseteq ReadyTargets
  BY <1>1 DEF SettingViews
<1>3. todo \subseteq Node
  BY <1>2 DEF ReadyTargets, Materialized
<1>4. n \in todo /\ \A m \in Subtree[n] \ {n} : m \notin todo
  BY <1>1, <1>3, NextToSetFirst
<1> HIDE DEF n
<1>5. n \in Node /\ n \in Materialized /\ IsStatic(n)
  BY <1>2, <1>4 DEF ReadyTargets, Materialized
<1>6. ASSUME NEW m \in Materialized, m \in Subtree[n] /\ m # n
      PROVE  views[m] = Recompute(base)[m]
  <2>1. RelationsOf(m) \subseteq RelationsOf(n)
    BY <1>5, <1>6, SubtreeTransitive DEF RelationsOf
  <2>2. m \in ReadyTargets
    BY <1>5, <2>1 DEF ReadyTargets, IsStatic
  <2> QED
    BY <1>1, <1>4, <1>6, <2>2 DEF SettingViews
<1>7. DefExpr(base, views)[n] = Recompute(base)[n]
  BY <1>5, <1>6, DefinitionRight DEF Types
<1>8. /\ views' = [m \in Materialized |-> views'[m]]
      /\ views'[n] = Recompute(base)[n]
      /\ \A m \in Materialized \ {n} : views'[m] = views[m]
  BY <1>1, <1>5, <1>7 DEF Types
<1>9. Recompute(base)[n] \in Bag(View[n].free)
  BY <1>5, FullType DEF Types
<1>10. Types'
  BY <1>1, <1>8, <1>9 DEF Types, BaseOK, StoredOK
<1>11. StreamsEmpty'
  <2>1. n \in ReadyTargets
    BY <1>2, <1>4
  <2> QED
    BY <1>1, <1>8, <2>1 DEF StreamsEmpty
<1>12. SettingViews'
  <2>1. Recompute(base)' = Recompute(base)
    BY <1>1
  <2>2. ReadyTargets \subseteq Materialized
    BY DEF ReadyTargets
  <2>3. phase = "ready" /\ \A m \in ReadyTargets \ todo : views[m] = Recompute(base)[m]
    BY <1>1 DEF SettingViews
  <2>4. ASSUME NEW m \in ReadyTargets \ (todo \ {n})
        PROVE  views'[m] = Recompute(base)[m]
    BY <1>8, <2>2, <2>3
  <2> QED
    BY <1>1, <1>2, <2>1, <2>4 DEF SettingViews
<1>13. AddingDeltas' /\ ViewsMatchBase'
  BY <1>1 DEF AddingDeltas, ViewsMatchBase
<1> QED
  BY <1>10, <1>11, <1>12, <1>13

LEMMA ReadyReturnInv ==
  ASSUME WellFormed, IndInv, ReadyReturn
  PROVE  IndInv'
<1> USE DEF IndInv
<1>1. phase = "ready" /\ todo = {} /\ phase' = "streams" /\ UNCHANGED <<base, views, event, todo>>
  BY DEF ReadyReturn
<1>2. event = NoEvent
  BY <1>1 DEF StreamsEmpty
<1>3. ASSUME NEW n \in Materialized
      PROVE  views[n] = Recompute(base)[n]
  <2>1. CASE n \in ReadyTargets
    BY <1>1, <2>1 DEF SettingViews
  <2>2. CASE n \notin ReadyTargets
    <3>1. n \in Node
      BY DEF Materialized
    <3>2. PICK r \in RelationsOf(n) : r \in Streams
      BY <2>2 DEF ReadyTargets, IsStatic
    <3>3. r \in Relation /\ base[r] = Zero(Keys[r])
      BY <1>1, <3>2, SourceAssumption DEF StreamsEmpty
    <3>4. Recompute(base)[n] = Zero(View[n].free)
      BY <3>1, <3>2, <3>3, FullEmpty DEF Types
    <3> QED
      BY <1>1, <2>2, <3>4 DEF StreamsEmpty
  <2> QED
    BY <2>1, <2>2
<1>4. Types'
  BY <1>1 DEF Types, BaseOK, StoredOK
<1>5. StreamsEmpty' /\ SettingViews' /\ AddingDeltas'
  BY <1>1, <1>2 DEF StreamsEmpty, SettingViews, AddingDeltas
<1>6. ViewsMatchBase'
  BY <1>1, <1>2, <1>3 DEF ViewsMatchBase, Applied
<1> QED
  BY <1>4, <1>5, <1>6

LEMMA DeliverInv ==
  ASSUME IndInv, NEW r \in Streams, Deliver(r)
  PROVE  IndInv'
<1> USE DEF IndInv
<1>1. /\ phase = "streams" /\ event = NoEvent
      /\ todo' = UpdateTargets(r)
      /\ UNCHANGED <<phase, base, views>>
  BY DEF Deliver
<1>2. PICK delta \in Deltas(r) : event' = [rel |-> r, delta |-> delta]
  BY DEF Deliver
<1>3. r \in Relation /\ delta \in Bag(Keys[r])
  BY SourceAssumption, DeltaBag
<1>4. event'.rel = r /\ event'.delta = delta
  BY <1>2
<1>5. event' # NoEvent
  <2>1. r \in Nat
    BY <1>3, TreeAssumption
  <2>2. event'.rel # -1
    BY <1>4, <2>1
  <2> QED
    BY <2>2 DEF NoEvent
<1>6. Types'
  BY <1>1, <1>3, <1>4 DEF Types, BaseOK, StoredOK
<1>7. StreamsEmpty' /\ SettingViews' /\ AddingDeltas'
  BY <1>1, <1>4, <1>5 DEF StreamsEmpty, SettingViews, AddingDeltas
<1>8. ViewsMatchBase'
  <2>1. \A n \in Materialized : ~Applied(n)'
    BY <1>1, <1>4 DEF Applied
  <2>2. \A n \in Materialized : views[n] = Recompute(base)[n]
    BY <1>1 DEF ViewsMatchBase, Applied
  <2>3. Recompute(base)' = Recompute(base)
    BY <1>1
  <2> QED
    BY <1>1, <2>1, <2>2, <2>3 DEF ViewsMatchBase
<1> QED
  BY <1>6, <1>7, <1>8

(* What the running event makes of the relations.                          *)
LEMMA AfterEventIs ==
  ASSUME Types, event # NoEvent
  PROVE  /\ event.rel \in Streams /\ event.rel \in Relation /\ event.delta \in Bag(Keys[event.rel])
         /\ AfterEvent = [base EXCEPT ![event.rel] = Plus(@, event.delta)]
         /\ AfterEvent = [q \in Relation |-> AfterEvent[q]]
         /\ BaseOK(AfterEvent)
         /\ AfterEvent[event.rel] = Plus(base[event.rel], event.delta)
         /\ \A q \in Relation \ {event.rel} : AfterEvent[q] = base[q]
<1> DEFINE r == event.rel
<1>1. r \in Streams /\ r \in Relation /\ event.delta \in Bag(Keys[r])
  BY SourceAssumption DEF Types
<1>2. AfterEvent = [base EXCEPT ![r] = Plus(@, event.delta)]
  BY DEF AfterEvent
<1>3. /\ AfterEvent = [q \in Relation |-> AfterEvent[q]]
      /\ AfterEvent[r] = Plus(base[r], event.delta)
      /\ \A q \in Relation \ {r} : AfterEvent[q] = base[q]
  BY <1>1, <1>2 DEF Types
<1>4. BaseOK(AfterEvent)
  BY <1>1, <1>3, PlusBag DEF Types, BaseOK
<1> QED
  BY <1>1, <1>2, <1>3, <1>4

LEMMA AddStatementInv ==
  ASSUME WellFormed, IndInv, AddStatement
  PROVE  IndInv'
<1> USE DEF IndInv
<1> DEFINE n == NextToAdd
           r == event.rel
           d == DeltaExpr(r, event.delta, base, views)
<1>1. /\ event # NoEvent /\ todo # {}
      /\ views' = [views EXCEPT ![n] = Plus(@, d[n])]
      /\ todo' = todo \ {n}
      /\ UNCHANGED <<phase, base, event>>
  BY DEF AddStatement
<1>2. phase = "streams"
  BY <1>1 DEF StreamsEmpty
<1>3. todo \subseteq UpdateTargets(r)
  BY <1>1, <1>2 DEF AddingDeltas
<1>4. todo \subseteq Node
  BY <1>3 DEF UpdateTargets, Materialized
<1>5. n \in todo
  BY <1>1, <1>4, NextToAddIn
<1>6. n \in Node /\ n \in Materialized /\ ~IsStaticFor(n, r) /\ n \in UpdateTargets(r)
  BY <1>3, <1>5 DEF UpdateTargets, Materialized
<1>7. views[n] = Recompute(base)[n]
  BY <1>2, <1>5, <1>6 DEF ViewsMatchBase, Applied
<1>8. \A m \in Materialized : IsStaticFor(m, r) => views[m] = Recompute(base)[m]
  BY <1>2 DEF ViewsMatchBase, Applied, UpdateTargets
<1>9. /\ r \in Streams /\ r \in Relation /\ event.delta \in Bag(Keys[r])
      /\ BaseOK(AfterEvent)
      /\ AfterEvent[r] = Plus(base[r], event.delta)
      /\ \A q \in Relation \ {r} : AfterEvent[q] = base[q]
  BY <1>1, AfterEventIs
<1>10. Recompute(AfterEvent)[n] = Plus(views[n], d[n])
  <2> HIDE DEF n, r
  <2> QED
    BY <1>6, <1>7, <1>8, <1>9, DeltaRight DEF Types
<1> HIDE DEF n, d
<1>11. /\ views' = [m \in Materialized |-> views'[m]]
       /\ views'[n] = Recompute(AfterEvent)[n]
       /\ \A m \in Materialized \ {n} : views'[m] = views[m]
  BY <1>1, <1>6, <1>10 DEF Types
<1>12. Types'
  <2>1. Recompute(AfterEvent)[n] \in Bag(View[n].free)
    BY <1>6, <1>9, FullType
  <2> QED
    BY <1>1, <1>11, <2>1 DEF Types, BaseOK, StoredOK
<1>13. StreamsEmpty' /\ SettingViews' /\ AddingDeltas'
  BY <1>1, <1>2, <1>3 DEF StreamsEmpty, SettingViews, AddingDeltas
<1>14. ViewsMatchBase'
  <2>1. AfterEvent' = AfterEvent /\ Recompute(base)' = Recompute(base)
        /\ Recompute(AfterEvent)' = Recompute(AfterEvent)
    BY <1>1 DEF AfterEvent
  <2>2. ASSUME NEW m \in Materialized
        PROVE  views'[m] = IF Applied(m)' THEN Recompute(AfterEvent)[m] ELSE Recompute(base)[m]
    <3>1. views[m] = IF Applied(m) THEN Recompute(AfterEvent)[m] ELSE Recompute(base)[m]
      BY <1>2 DEF ViewsMatchBase
    <3>2. CASE m = n
      BY <1>1, <1>6, <1>11, <3>2 DEF Applied
    <3>3. CASE m # n
      BY <1>1, <1>11, <3>1, <3>3 DEF Applied
    <3> QED
      BY <3>2, <3>3
  <2> QED
    BY <2>1, <2>2 DEF ViewsMatchBase
<1> QED
  BY <1>12, <1>13, <1>14

LEMMA TriggerReturnInv ==
  ASSUME WellFormed, IndInv, TriggerReturn
  PROVE  IndInv'
<1> USE DEF IndInv
<1> DEFINE r == event.rel
<1>1. /\ event # NoEvent /\ todo = {}
      /\ base' = [base EXCEPT ![r] = Plus(@, event.delta)]
      /\ event' = NoEvent
      /\ UNCHANGED <<phase, views, todo>>
  BY DEF TriggerReturn
<1>2. phase = "streams"
  BY <1>1 DEF StreamsEmpty
<1>3. /\ AfterEvent = [base EXCEPT ![r] = Plus(@, event.delta)]
      /\ AfterEvent = [q \in Relation |-> AfterEvent[q]]
      /\ BaseOK(AfterEvent)
      /\ \A q \in Relation \ {r} : AfterEvent[q] = base[q]
  BY <1>1, AfterEventIs
<1>4. base' = AfterEvent
  BY <1>1, <1>3
<1>5. ASSUME NEW n \in Materialized
      PROVE  views[n] = Recompute(AfterEvent)[n]
  <2>1. /\ Applied(n) => views[n] = Recompute(AfterEvent)[n]
        /\ ~Applied(n) => views[n] = Recompute(base)[n]
    BY <1>2 DEF ViewsMatchBase
  <2>2. CASE Applied(n)
    BY <2>1, <2>2
  <2>3. CASE ~Applied(n)
    <3>1. r \notin RelationsOf(n) /\ n \in Node
      BY <1>1, <2>3 DEF Applied, UpdateTargets, IsStaticFor, Materialized
    <3>2. SameBelow(n, AfterEvent, base)
      BY <1>3, <3>1 DEF RelationsOf, SameBelow
    <3>3. Recompute(AfterEvent)[n] = Recompute(base)[n]
      BY <1>3, <3>1, <3>2, FullLocal DEF Types
    <3> QED
      BY <2>1, <2>3, <3>3
  <2> QED
    BY <2>2, <2>3
<1>6. Types'
  BY <1>1, <1>3, <1>4 DEF Types, BaseOK, StoredOK
<1>7. StreamsEmpty' /\ SettingViews' /\ AddingDeltas'
  BY <1>1, <1>2 DEF StreamsEmpty, SettingViews, AddingDeltas
<1>8. ViewsMatchBase'
  <2>1. Recompute(base)' = Recompute(AfterEvent)
    BY <1>4
  <2>2. \A n \in Materialized : ~Applied(n)'
    BY <1>1 DEF Applied
  <2> QED
    BY <1>1, <1>5, <2>1, <2>2 DEF ViewsMatchBase
<1> QED
  BY <1>6, <1>7, <1>8

LEMMA StutterInv ==
  ASSUME IndInv, UNCHANGED vars
  PROVE  IndInv'
<1>1. UNCHANGED <<phase, base, views, event, todo>>
  BY DEF vars
<1>2. Types' /\ StreamsEmpty' /\ SettingViews' /\ AddingDeltas'
  BY <1>1 DEF IndInv, Types, BaseOK, StoredOK, StreamsEmpty, SettingViews, AddingDeltas
<1>3. ViewsMatchBase'
  BY <1>1 DEF IndInv, ViewsMatchBase, Applied, AfterEvent
<1> QED
  BY <1>2, <1>3 DEF IndInv

LEMMA InductiveInvariant ==
  ASSUME WellFormed
  PROVE  Spec => []IndInv
<1>1. Init => IndInv
  BY InitInv
<1>2. ASSUME IndInv, [Next]_vars
      PROVE  IndInv'
  <2>1. ASSUME NEW r \in Relation \ Streams, LoadTuple(r)
        PROVE  IndInv'
    BY <1>2, <2>1, LoadTupleInv
  <2>2. CASE SystemReady
    BY <1>2, <2>2, SystemReadyInv
  <2>3. CASE SetStatement
    BY <1>2, <2>3, SetStatementInv
  <2>4. CASE ReadyReturn
    BY <1>2, <2>4, ReadyReturnInv
  <2>5. ASSUME NEW r \in Streams, Deliver(r)
        PROVE  IndInv'
    BY <1>2, <2>5, DeliverInv
  <2>6. CASE AddStatement
    BY <1>2, <2>6, AddStatementInv
  <2>7. CASE TriggerReturn
    BY <1>2, <2>7, TriggerReturnInv
  <2>8. CASE UNCHANGED vars
    BY <1>2, <2>8, StutterInv
  <2> QED
    BY <1>2, <2>1, <2>2, <2>3, <2>4, <2>5, <2>6, <2>7, <2>8 DEF Next
<1> QED
  BY <1>1, <1>2, PTL DEF Spec

(* Incremental maintenance is right, for every tree, query, domain and     *)
(* sequence of events: at every point of a run, between the statements of  *)
(* a trigger too, every stored view is its definition over the relations   *)
(* before the event or, once its statement has run, over those after it.   *)
THEOREM StoredViewsStayRight ==
  ASSUME WellFormed
  PROVE  Spec => []ViewsMatchBase
<1>1. IndInv => ViewsMatchBase
  BY DEF IndInv
<1> QED
  BY <1>1, InductiveInvariant, PTL

-----------------------------------------------------------------------------
(***************************************************************************)
(* The program implements incremental view maintenance (IVM).              *)
(***************************************************************************)

(* What a reader of the program sees: the relations with the running event *)
(* once the root's statement has run, and the root view.                   *)
Db == IF Applied(Root) THEN AfterEvent ELSE base

Result == IF phase = "streams" THEN views[Root] ELSE Zero(FreeVars)

Serving == phase = "streams"

LEMMA RootTarget ==
  /\ Root \in Node /\ Root \in Materialized
  /\ \A r \in Streams : Root \in UpdateTargets(r)
<1>1. Root \in Node
  BY TreeAssumption
<1>2. Root \in Materialized
  BY <1>1 DEF Materialized, IsMaterialized
<1>3. RelationsOf(Root) = Relation
  BY RootAbove, TreeAssumption DEF RelationsOf
<1> QED
  BY <1>1, <1>2, <1>3, SourceAssumption DEF UpdateTargets, IsStaticFor

LEMMA ResultIs ==
  ASSUME WellFormed, FactorsPlaced, IndInv, phase = "streams"
  PROVE  BaseOK(Db) /\ views[Root] = Query(Db)
<1>1. views[Root] = IF Applied(Root) THEN Recompute(AfterEvent)[Root] ELSE Recompute(base)[Root]
  BY RootTarget DEF IndInv, ViewsMatchBase
<1>2. CASE Applied(Root)
  <2>1. BaseOK(AfterEvent)
    BY <1>2, AfterEventIs DEF IndInv, Applied
  <2> QED
    BY <1>1, <1>2, <2>1, RootIsQuery DEF Db
<1>3. CASE ~Applied(Root)
  <2>1. BaseOK(base)
    BY DEF IndInv, Types
  <2> QED
    BY <1>1, <1>3, <2>1, RootIsQuery DEF Db
<1> QED
  BY <1>2, <1>3

(* Whenever no trigger runs the root view is the answer to the SQL query,  *)
(* if every SUM factor has a place (see FactorPlacement for those without).*)
THEOREM RootStaysTheAnswer ==
  ASSUME WellFormed, FactorsPlaced
  PROVE  Spec => []RootAnswersQuery
<1>1. IndInv => RootAnswersQuery
  BY ResultIs DEF RootAnswersQuery, Db, Applied
<1> QED
  BY <1>1, InductiveInvariant, PTL

(* The instance of IVM computes with operators of its own; they are ours.  *)
LEMMA PromiseSum ==
  ASSUME NEW f
  PROVE  Promise!SumFunction(f) = SumFunction(f)
BY Zenon DEF Promise!SumFunction, SumFunction, Promise!SumFunctionOnSet, SumFunctionOnSet,
             Promise!FoldFunctionOnSet, FoldFunctionOnSet, Promise!MapThenFoldSet, MapThenFoldSet

LEMMA PromiseProduct ==
  ASSUME NEW f
  PROVE  Promise!ProductFunction(f) = ProductFunction(f)
BY Zenon DEF Promise!ProductFunction, ProductFunction, Promise!FoldFunction, FoldFunction,
             Promise!FoldFunctionOnSet, FoldFunctionOnSet, Promise!MapThenFoldSet, MapThenFoldSet

LEMMA PromiseQuery ==
  ASSUME NEW b
  PROVE  Promise!Query(b) = Query(b)
<1> DEFINE W(a) == ProductFunction([r \in Relation |-> b[r][Proj(a, Keys[r])]])
                     * ProductFunction([s \in Term |-> TermVal[s][Proj(a, TermVars[s])]])
           V(t) == SumFunction([a \in {a \in Row(Variable) : Proj(a, FreeVars) = t} |-> W(a)])
           PW(a) == Promise!ProductFunction([r \in Relation |-> b[r][Promise!Proj(a, Keys[r])]])
                      * Promise!ProductFunction([s \in Term |-> TermVal[s][Promise!Proj(a, TermVars[s])]])
           PV(t) == Promise!SumFunction(
                      [a \in {a \in Promise!Row(Variable) : Promise!Proj(a, FreeVars) = t} |-> PW(a)])
<1>1. \A a : \A X : Promise!Proj(a, X) = Proj(a, X)
  BY DEF Promise!Proj, Proj
<1>2. /\ \A X : Promise!Row(X) = Row(X)
      /\ Promise!Variable = Variable /\ Promise!Term = Term
  BY DEF Promise!Row, Row, Promise!Variable, Variable, Promise!Term, Term
<1>3. Query(b) = [t \in Row(FreeVars) |-> V(t)]
  BY DEF Query
<1>4. Promise!Query(b) = [t \in Row(FreeVars) |-> PV(t)]
  BY <1>2 DEF Promise!Query
<1>5. \A a : W(a) = PW(a)
  BY <1>1, PromiseProduct
<1>6. ASSUME NEW t
      PROVE  V(t) = PV(t)
  <2> HIDE DEF W, PW
  <2>1. [a \in {a \in Row(Variable) : Proj(a, FreeVars) = t} |-> W(a)]
          = [a \in {a \in Promise!Row(Variable) : Promise!Proj(a, FreeVars) = t} |-> PW(a)]
    BY <1>1, <1>2, <1>5
  <2> QED
    BY <2>1, PromiseSum
<1> HIDE DEF V, PV
<1> QED
  BY <1>3, <1>4, <1>6

(* Its steps in our terms.                                                 *)
LEMMA PromiseInit ==
  ASSUME ~Serving, Db = [r \in Relation |-> Zero(Keys[r])], Result = Zero(FreeVars)
  PROVE  Promise!Init
BY DEF Promise!Init, Promise!Zero, Promise!Row, Zero, Row, Db, Result, Serving

LEMMA PromiseLoad ==
  ASSUME ~Serving, ~Serving', Result' = Result, NEW r \in Relation \ Streams, NEW t \in Row(Keys[r]),
         Db' = [Db EXCEPT ![r][t] = @ + 1]
  PROVE  Promise!Next
<1>1. Promise!Load
  BY DEF Promise!Load, Promise!Row, Row, Db, Result, Serving
<1> QED
  BY <1>1 DEF Promise!Next

LEMMA PromiseStart ==
  ASSUME ~Serving, Serving', Result' = Query(Db), Db' = Db
  PROVE  Promise!Next
<1>1. Promise!Query(Db) = Query(Db)
  BY PromiseQuery
<1>2. Promise!Start
  BY <1>1 DEF Promise!Start, Db, Result, Serving
<1> QED
  BY <1>2 DEF Promise!Next

LEMMA PromiseUpdate ==
  ASSUME Serving, Serving', NEW r \in Streams, Db'[r] \in Bag(Keys[r]), Db' = [Db EXCEPT ![r] = Db'[r]],
         Result' = Query(Db)'
  PROVE  Promise!Next
<1>1. PICK b : b = Db'
  OBVIOUS
<1>2. Promise!Query(b) = Query(b)
  BY PromiseQuery
<1>3. Promise!Update
  BY <1>1, <1>2 DEF Promise!Update, Promise!Bag, Bag, Promise!Row, Row, Db, Result, Serving
<1> QED
  BY <1>3 DEF Promise!Next

LEMMA NotRunning ==
  ASSUME WellFormed, IndInv, phase # "streams"
  PROVE  event = NoEvent /\ ~Applied(Root) /\ Db = base /\ Result = Zero(FreeVars) /\ ~Serving
BY DEF IndInv, StreamsEmpty, Applied, Db, Result, Serving

(* What the reader sees is the query over the relations he sees.           *)
ResultRight == phase = "streams" => BaseOK(Db) /\ views[Root] = Query(Db)

LEMMA RootFirst ==
  ASSUME todo \subseteq Node, Root \in todo
  PROVE  NextToAdd = Root
<1>1. Root \in Node /\ Node \subseteq Nat
  BY TreeAssumption
<1>2. \A m \in todo : Root <= m
  BY <1>1, RootAbove, SubtreeAfterRoot
<1>3. \A n \in todo : (\A m \in todo : n <= m) => n = Root
  BY <1>1, <1>2
<1>4. \E n \in todo : \A m \in todo : n <= m
  BY <1>2
<1>5. NextToAdd \in todo /\ \A m \in todo : NextToAdd <= m
  BY <1>4, Zenon DEF NextToAdd
<1> QED
  BY <1>3, <1>5

StaysTheSame == Db' = Db /\ Result' = Result /\ Serving' = Serving

LEMMA LoadTuplePromised ==
  ASSUME WellFormed, IndInv, IndInv', NEW r \in Relation \ Streams, LoadTuple(r)
  PROVE  Promise!Next
<1>1. phase = "tables" /\ phase' = "tables"
  BY DEF LoadTuple
<1>2. Db = base /\ Result = Zero(FreeVars) /\ ~Serving
  BY <1>1, NotRunning
<1>3. Db' = base' /\ Result' = Zero(FreeVars) /\ ~Serving'
  <2>1. event' = NoEvent
    BY <1>1 DEF IndInv, StreamsEmpty
  <2>2. ~Applied(Root)'
    BY <2>1 DEF Applied
  <2> QED
    BY <1>1, <2>2 DEF Db, Result, Serving
<1>4. PICK t \in Rows[r] : base' = [base EXCEPT ![r][t] = @ + 1]
  BY DEF LoadTuple
<1>5. t \in Row(Keys[r])
  BY <1>4, InputAssumption
<1>6. Db' = [Db EXCEPT ![r][t] = @ + 1]
  BY <1>2, <1>3, <1>4
<1> QED
  BY <1>2, <1>3, <1>5, <1>6, PromiseLoad

LEMMA QuietStep ==
  ASSUME WellFormed, IndInv, IndInv', phase # "streams", phase' # "streams", base' = base
  PROVE  StaysTheSame
<1>1. Db = base /\ Result = Zero(FreeVars) /\ ~Serving
  BY NotRunning
<1>2. event' = NoEvent
  BY DEF IndInv, StreamsEmpty
<1>3. ~Applied(Root)'
  BY <1>2 DEF Applied
<1> QED
  BY <1>1, <1>3 DEF StaysTheSame, Db, Result, Serving

LEMMA ReadyReturnPromised ==
  ASSUME WellFormed, IndInv, ResultRight', ReadyReturn
  PROVE  Promise!Next
<1>1. phase = "ready" /\ phase' = "streams" /\ UNCHANGED <<base, views, event, todo>>
  BY DEF ReadyReturn
<1>2. event = NoEvent /\ Db = base /\ ~Serving
  BY <1>1, NotRunning
<1>3. ~Applied(Root)'
  BY <1>1, <1>2 DEF Applied
<1>4. Db' = Db
  BY <1>1, <1>2, <1>3 DEF Db
<1>5. views'[Root] = Query(Db)'
  BY <1>1 DEF ResultRight
<1>6. Result' = Query(Db)
  BY <1>1, <1>4, <1>5 DEF Result
<1> QED
  BY <1>1, <1>2, <1>4, <1>6, PromiseStart DEF Serving

LEMMA DeliverPromised ==
  ASSUME IndInv, NEW r \in Streams, Deliver(r)
  PROVE  StaysTheSame
<1>1. phase = "streams" /\ event = NoEvent /\ todo' = UpdateTargets(r) /\ UNCHANGED <<phase, base, views>>
  BY DEF Deliver
<1>2. PICK delta \in Deltas(r) : event' = [rel |-> r, delta |-> delta]
  BY DEF Deliver
<1>3. event'.rel = r
  BY <1>2
<1>4. ~Applied(Root) /\ ~Applied(Root)'
  BY <1>1, <1>3 DEF Applied
<1> QED
  BY <1>1, <1>4 DEF StaysTheSame, Db, Result, Serving

LEMMA AddStatementPromised ==
  ASSUME WellFormed, IndInv, ResultRight', AddStatement
  PROVE  Promise!Next \/ StaysTheSame
<1>1. /\ event # NoEvent /\ todo # {}
      /\ todo' = todo \ {NextToAdd}
      /\ UNCHANGED <<phase, base, event>>
  BY DEF AddStatement
<1>2. phase = "streams"
  BY <1>1 DEF IndInv, StreamsEmpty
<1>3. todo \subseteq UpdateTargets(event.rel) /\ todo \subseteq Node
  BY <1>1, <1>2 DEF IndInv, AddingDeltas, UpdateTargets, Materialized
<1>4. /\ event.rel \in Streams /\ event.rel \in Relation
      /\ AfterEvent = [base EXCEPT ![event.rel] = Plus(@, event.delta)]
      /\ BaseOK(AfterEvent)
  BY <1>1, AfterEventIs DEF IndInv
<1>5. AfterEvent' = AfterEvent
  BY <1>1 DEF AfterEvent
<1>6. Root \in UpdateTargets(event.rel)
  BY <1>4, RootTarget
<1>7. CASE Root \in todo
  <2>1. NextToAdd = Root
    BY <1>3, <1>7, RootFirst
  <2>2. ~Applied(Root) /\ Applied(Root)'
    BY <1>1, <1>6, <1>7, <2>1 DEF Applied
  <2>3. Db = base /\ Db' = AfterEvent
    BY <1>5, <2>2 DEF Db
  <2>4. views'[Root] = Query(Db)'
    BY <1>1, <1>2 DEF ResultRight
  <2>5. Result' = Query(Db)'
    BY <1>1, <1>2, <2>4 DEF Result
  <2>6. Db'[event.rel] \in Bag(Keys[event.rel])
    BY <1>4, <2>3 DEF BaseOK
  <2>7. Db' = [Db EXCEPT ![event.rel] = Db'[event.rel]]
    <3>1. base = [q \in Relation |-> base[q]]
      BY DEF IndInv, Types
    <3> QED
      BY <1>4, <2>3, <3>1
  <2> QED
    BY <1>1, <1>2, <1>4, <2>5, <2>6, <2>7, PromiseUpdate DEF Serving
<1>8. CASE Root \notin todo
  <2>1. Applied(Root) /\ Applied(Root)'
    BY <1>1, <1>6, <1>8 DEF Applied
  <2>2. views'[Root] = views[Root]
    <3>1. NextToAdd # Root
      BY <1>1, <1>3, <1>8, NextToAddIn
    <3>2. views = [n \in Materialized |-> views[n]]
      BY DEF IndInv, Types
    <3>3. views' = [views EXCEPT ![NextToAdd] =
                      Plus(@, DeltaExpr(event.rel, event.delta, base, views)[NextToAdd])]
      BY DEF AddStatement
    <3> QED
      BY <3>1, <3>2, <3>3, RootTarget
  <2> QED
    BY <1>1, <1>5, <2>1, <2>2 DEF StaysTheSame, Db, Result, Serving
<1> QED
  BY <1>7, <1>8

LEMMA TriggerReturnPromised ==
  ASSUME WellFormed, IndInv, TriggerReturn
  PROVE  StaysTheSame
<1>1. /\ event # NoEvent /\ todo = {}
      /\ base' = [base EXCEPT ![event.rel] = Plus(@, event.delta)]
      /\ event' = NoEvent
      /\ UNCHANGED <<phase, views, todo>>
  BY DEF TriggerReturn
<1>2. event.rel \in Streams /\ AfterEvent = base'
  BY <1>1, AfterEventIs DEF IndInv
<1>3. Applied(Root) /\ ~Applied(Root)'
  BY <1>1, <1>2, RootTarget DEF Applied
<1> QED
  BY <1>1, <1>2, <1>3 DEF StaysTheSame, Db, Result, Serving

LEMMA StutterPromised ==
  ASSUME UNCHANGED vars
  PROVE  StaysTheSame
BY DEF vars, StaysTheSame, Db, Result, Serving, Applied, AfterEvent

LEMMA InitPromised == Init => Promise!Init
<1> SUFFICES ASSUME Init PROVE Promise!Init
  OBVIOUS
<1>1. ~Serving /\ Result = Zero(FreeVars)
  BY DEF Init, Serving, Result
<1>2. Db = [r \in Relation |-> Zero(Keys[r])]
  BY DEF Init, Db, Applied
<1> QED
  BY <1>1, <1>2, PromiseInit

(* The program implements incremental view maintenance, for every tree,    *)
(* query, domain and sequence of events whose SUM factors have a place:    *)
(* a reader sees each event take effect in one step, that of the root's    *)
(* statement, and the result is the SQL query over the relations at every  *)
(* point of a run.                                                         *)
THEOREM ProgramImplementsIVM ==
  ASSUME WellFormed, FactorsPlaced
  PROVE  Spec => ImplementsIVM
<1>0. IndInv => ResultRight
  BY ResultIs DEF ResultRight
<1>1. ASSUME IndInv, IndInv', ResultRight', [Next]_vars
      PROVE  Promise!Next \/ StaysTheSame
  <2>1. ASSUME NEW r \in Relation \ Streams, LoadTuple(r)
        PROVE  Promise!Next
    BY <1>1, <2>1, LoadTuplePromised
  <2>2. CASE SystemReady
    <3>1. phase # "streams" /\ phase' # "streams" /\ base' = base
      BY <2>2 DEF SystemReady
    <3> QED
      BY <1>1, <3>1, QuietStep
  <2>3. CASE SetStatement
    <3>1. phase # "streams" /\ phase' # "streams" /\ base' = base
      BY <2>3 DEF SetStatement
    <3> QED
      BY <1>1, <3>1, QuietStep
  <2>4. CASE ReadyReturn
    BY <1>1, <2>4, ReadyReturnPromised
  <2>5. ASSUME NEW r \in Streams, Deliver(r)
        PROVE  StaysTheSame
    BY <1>1, <2>5, DeliverPromised
  <2>6. CASE AddStatement
    BY <1>1, <2>6, AddStatementPromised
  <2>7. CASE TriggerReturn
    BY <1>1, <2>7, TriggerReturnPromised
  <2>8. CASE UNCHANGED vars
    BY <2>8, StutterPromised
  <2> QED
    BY <1>1, <2>1, <2>2, <2>3, <2>4, <2>5, <2>6, <2>7, <2>8 DEF Next
<1>2. ASSUME IndInv, IndInv', ResultRight', [Next]_vars
      PROVE  [Promise!Next]_<<IF Applied(Root) THEN AfterEvent ELSE base,
                              IF phase = "streams" THEN views[Root] ELSE Zero(FreeVars),
                              phase = "streams">>
  BY <1>1, <1>2 DEF StaysTheSame, Db, Result, Serving
<1> QED
  BY <1>0, <1>2, InitPromised, InductiveInvariant, PTL DEF Spec, ImplementsIVM, Promise!Spec
=============================================================================
