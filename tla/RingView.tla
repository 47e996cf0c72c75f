------------------------------ MODULE RingView ------------------------------
(***************************************************************************)
(* The maintenance program of a query over relations that join on one      *)
(* variable, for any payload type: what examples/src/ring promises to the  *)
(* generated triggers.  A payload type is a set of operators, which the MC *)
(* module takes from the module of its header; a behaviour is one of one   *)
(* query.  Relation r holds rows with a value of the join variable and one *)
(* more value; its view maps the former to the sum of the lifted latter.   *)
(* Key 0 stands for the join variable itself.                              *)
(***************************************************************************)
EXTENDS Integers, Sequences, FiniteSets, Functions

CONSTANTS
  Query,      \* the queries
  Program,    \* [Query -> [rows, lifted, mults, copies]]
  RZero(_, _),   \* the default payload of an index
  RStart(_),     \* the payloads that the root may hold at first
  RLift(_, _, _), RPlus(_, _, _), RAssign(_, _, _), RTimes(_, _, _), RScale(_, _, _),
  RIsZero(_, _),
  RMeans(_, _, _, _)  \* payload p is the sum over the bag m of tuples over X

VARIABLE query  \* the query that was compiled; it never changes

(* The rows a relation may have, by relation in the order of the d-tree.   *)
Rows == Program[query].rows
NumRel == Len(Rows)
Rel == 1..NumRel

(* The relations, and 0, whose values the query lifts.                     *)
Lifted == Program[query].lifted

(* A program: the multiplicities its updates have, and the bound on the    *)
(* copies of a row.                                                        *)
InsertsAndDeletes(rows, lifted, copies) ==
  [rows |-> rows, lifted |-> lifted, mults |-> {1, -1}, copies |-> copies]
Inserts(rows, lifted, copies) ==
  [rows |-> rows, lifted |-> lifted, mults |-> {1}, copies |-> copies]

ASSUME RingViewAssumption ==
  \A q \in Query :
    LET rows == Program[q].rows
        n == Len(rows)
    IN  /\ n \in Nat \ {0}
        /\ \A r \in 1..n : /\ IsFiniteSet(rows[r])
                           /\ \A t \in rows[r] : t = [key |-> t.key, val |-> t.val]
        /\ Program[q].lifted \subseteq 0..n /\ Program[q].lifted # {}
        /\ Program[q].mults \subseteq Int \ {0}
        /\ Program[q].copies \in Nat

Keys == UNION {{t.key : t \in Rows[r]} : r \in Rel}

VARIABLES
  base,   \* [Rel -> [rows -> copies]], the history of the streams
  view,   \* [Rel -> [keys that are stored -> payload]]
  root,   \* the payload of the result
  event   \* the update whose trigger is running

vars == <<query, base, view, root, event>>

Idle == [rel |-> 0]

(* A view over a relation without lifted values holds plain counts.        *)
Long(n) == [lifted |-> FALSE, val |-> n]
Payload(p) == [lifted |-> TRUE, val |-> p]

(* operator* of M3: of two longs, of a long and a payload, of two payloads *)
Mul(p, q) ==
  CASE p.lifted /\ q.lifted -> Payload(RTimes(query, p.val, q.val))
    [] p.lifted /\ ~q.lifted -> Payload(RScale(query, q.val, p.val))
    [] ~p.lifted /\ q.lifted -> Payload(RScale(query, p.val, q.val))
    [] OTHER -> Long(p.val * q.val)

Zero(p) == IF p.lifted THEN RIsZero(query, p.val) ELSE p.val = 0

(* The lifted part of a row: the SUM factors over the relation's variables *)
Factor(r, v) == IF r \in Lifted THEN Payload(RLift(query, r, v)) ELSE Long(1)

Default(r) == IF r \in Lifted THEN Payload(RZero(query, r)) ELSE Long(0)

(* getValueOrDefault *)
Lookup(r, g) == IF g \in DOMAIN view[r] THEN view[r][g] ELSE Default(r)

(* The delta of the relation's own view.                                   *)
Delta(e) == Mul(Long(e.mult), Factor(e.rel, e.row.val))

(* The delta of the root: the updated child, its right siblings, its left  *)
(* siblings from right to left, and the terms of the node.                 *)
Operands(e) ==
  LET g == e.row.key
  IN  <<Delta(e)>>
      \o [i \in 1..(NumRel - e.rel) |-> Lookup(e.rel + i, g)]
      \o [i \in 1..(e.rel - 1) |-> Lookup(e.rel - i, g)]
      \o (IF 0 \in Lifted THEN <<Payload(RLift(query, 0, g))>> ELSE <<>>)

RootDelta(e) ==
  LET ops == Operands(e)
      product[i \in 1..Len(ops)] == IF i = 1 THEN ops[1] ELSE Mul(product[i - 1], ops[i])
  IN  product[Len(ops)]

Sum(p, q) == IF p.lifted THEN Payload(RPlus(query, p.val, q.val)) ELSE Long(p.val + q.val)

(* operator= of the entry's value                                          *)
Assigned(r, p) == IF p.lifted THEN Payload(RAssign(query, r, p.val)) ELSE p

Init ==
  /\ query \in Query
  /\ base = [r \in Rel |-> [t \in Rows[r] |-> 0]]
  /\ view = [r \in Rel |-> [g \in {} |-> Default(r)]]
  /\ \E p \in RStart(query) : root = Payload(p)
  /\ event = Idle

(* The next element of a stream, alone: a batch whose rows are summed       *)
(* before the trigger uses them is not modelled.  A row is deleted only if *)
(* it is there.                                                            *)
Deliver(r, t, m) ==
  /\ event = Idle
  /\ base[r][t] + m \in 0..Program[query].copies
  /\ base' = [base EXCEPT ![r][t] = @ + m]
  /\ event' = [rel |-> r, row |-> t, mult |-> m, rooted |-> FALSE]
  /\ UNCHANGED <<query, view, root>>

(* The root statement of the trigger: operator+= on the root payload.      *)
AddToRoot ==
  /\ event # Idle /\ ~event.rooted
  /\ root' = Sum(root, RootDelta(event))
  /\ event' = [event EXCEPT !.rooted = TRUE]
  /\ UNCHANGED <<query, base, view>>

(* incrementOrAssignNonZero: the entry becomes zero and is erased, grows,  *)
(* or is new and assigned.                                                 *)
Store(v, r, g, d) ==
  IF Zero(d) THEN v
  ELSE IF g \in DOMAIN v
  THEN IF Zero(Sum(v[g], d)) THEN Restrict(v, DOMAIN v \ {g})
       ELSE [v EXCEPT ![g] = Sum(@, d)]
  ELSE [h \in DOMAIN v \cup {g} |-> IF h = g THEN Assigned(r, d) ELSE v[h]]

(* The statement of the relation's own view, the last of the trigger.      *)
AddToView ==
  /\ event # Idle /\ event.rooted
  /\ view' = [view EXCEPT ![event.rel] = Store(@, event.rel, event.row.key, Delta(event))]
  /\ event' = Idle
  /\ UNCHANGED <<query, base, root>>

Next ==
  \/ \E r \in Rel : \E t \in Rows[r], m \in Program[query].mults : Deliver(r, t, m)
  \/ AddToRoot
  \/ AddToView

Spec == Init /\ [][Next]_vars

-----------------------------------------------------------------------------

(* The tuples of the rows of relation r with key g, with their copies.     *)
GroupBag(r, g) ==
  LET rows == {t \in Rows[r] : t.key = g /\ base[r][t] # 0}
      tuple(t) == [i \in {r} |-> t.val]
  IN  [a \in {tuple(t) : t \in rows} |-> base[r][[key |-> g, val |-> a[r]]]]

(* The tuples of the natural join, the join variable at 0.                 *)
JoinBag ==
  LET tuples[i \in 0..NumRel] ==
        IF i = 0 THEN {[j \in {0} |-> g] : g \in Keys}
        ELSE UNION {{[j \in 0..i |-> IF j = i THEN t.val ELSE a[j]] :
                       t \in {t \in Rows[i] : t.key = a[0] /\ base[i][t] # 0}} :
                      a \in tuples[i - 1]}
      copies(a) ==
        LET n[i \in 0..NumRel] ==
              IF i = 0 THEN 1 ELSE n[i - 1] * base[i][[key |-> a[0], val |-> a[i]]]
        IN  n[NumRel]
  IN  [a \in tuples[NumRel] |-> copies(a)]

(* The counts are within their bound and a stored entry is of its view's   *)
(* kind.                                                                   *)
TypeOK ==
  /\ \A r \in Rel : \A t \in Rows[r] : base[r][t] \in 0..Program[query].copies
  /\ \A r \in Rel : \A g \in DOMAIN view[r] :
       g \in Keys /\ view[r][g].lifted = (r \in Lifted)

(* A group is stored exactly while it has rows that count in some query:   *)
(* isZero() of a payload and the rows it stands for agree, so no group is  *)
(* lost and none stays for good after its rows are gone.                   *)
StoredWhileNonEmpty ==
  event = Idle =>
    \A r \in Rel, g \in Keys :
      (g \in DOMAIN view[r]) <=>
        \E t \in Rows[r] : t.key = g /\ base[r][t] # 0 /\ ~Zero(Factor(r, t.val))

(* Between triggers every stored payload is the sum over the rows of its   *)
(* group, whatever came and went in whatever order, one row at a time, and *)
(* only groups that have rows are stored.                                  *)
ViewsMean ==
  /\ StoredWhileNonEmpty
  /\ event = Idle =>
    \A r \in Lifted \cap Rel, g \in Keys :
      RMeans(query, Lookup(r, g).val, {r}, GroupBag(r, g))

(* And the root is the sum over the natural join.  What a payload means    *)
(* says openly where the code falls short of it: the sums of a categorical *)
(* or general root are added to what its memory held at first              *)
(* (RingCategorical, RingGeneral), and when triggers multiply in different *)
(* orders the pairs of a payload of degree two are right only in total     *)
(* (RingCofactor).                                                         *)
RootMeans == event = Idle => RMeans(query, root.val, 0..NumRel, JoinBag)
=============================================================================
