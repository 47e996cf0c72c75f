--------------------------------- MODULE M3 ---------------------------------
(***************************************************************************)
(* Expressions of the M3 language: their types, their schemas, structural  *)
(* traversal, and comparison up to renaming of variables.  A node is one   *)
(* record whatever its class: name is that of a variable, map, relation,   *)
(* function or comparison; keys are the key variables of a map or of an    *)
(* aggregate, or the template arguments of a function; value is that of a  *)
(* constant.  Key types follow from the names and are left out, and so is  *)
(* locality, which is local throughout what the front end generates.       *)
(***************************************************************************)
EXTENDS Integers, Sequences, SequencesExt, FiniteSets, TLC

-----------------------------------------------------------------------------
(***************************************************************************)
(* The types of the front end and their resolution: the type of a product  *)
(* or a sum of two expressions.  A basic type is its name.  A custom type  *)
(* (a ring) has parameters, and the schema of its definition says how each *)
(* parameter of a product comes from those of the factors.                 *)
(***************************************************************************)

Basic(name) == [name |-> name, custom |-> FALSE, distributed |-> FALSE,
                schema |-> <<>>, params |-> <<>>]

\* A custom type: a type definition with one parameter per entry of its schema.
Custom(def, params) == [name |-> def.name, custom |-> TRUE, distributed |-> def.distributed,
                        schema |-> def.schema, params |-> params]

\* Parameters: a number, the name of a type, or a list with a priority.
ConstParameter(n) == [kind |-> "const", n |-> n, list |-> <<>>]
TypeParameter(t) == [kind |-> "type", n |-> 0, list |-> <<t>>]
ListParameter(priority, list) == [kind |-> "list", n |-> priority, list |-> list]

\* What a failed resolution throws, and the type of what is read back untyped.
Mismatch == Basic("mismatch")
NoParameter == ConstParameter(-1)

-----------------------------------------------------------------------------
Widths == [byte |-> 1, short |-> 2, int |-> 3, long |-> 4, float |-> 5, double |-> 6]

IsNumerical(t) == ~t.custom /\ t.name \in DOMAIN Widths

\* a.resolve(b) of the basic types.
ResolveBasic(a, b) ==
  CASE b.custom -> Mismatch
    [] IsNumerical(a) /\ IsNumerical(b) -> IF Widths[a.name] < Widths[b.name] THEN b ELSE a
    [] a.name \in {"int", "long"} /\ b.name = "date" -> a
    [] a.name = "date" /\ b.name \in {"int", "long"} -> b
    [] a = b /\ a.name \in {"date", "char", "string"} -> a
    [] OTHER -> Mismatch

ResolveParam(kind, a, b) ==
  CASE kind = "static" /\ a = b -> a
    [] kind = "dynamic_sum" /\ a.kind = "const" /\ b.kind = "const" -> ConstParameter(a.n + b.n)
    [] kind = "dynamic_concat" /\ a.kind = "list" /\ b.kind = "list" /\ a.n < b.n ->
         ListParameter(a.n, a.list \o b.list)
    [] kind = "dynamic_min" /\ a.kind = b.kind /\ a.kind # "type" /\ a.n < b.n -> a
    [] OTHER -> NoParameter

\* a.resolve(b) of a custom type.
ResolveCustom(a, b) ==
  LET params == [i \in DOMAIN a.params |-> ResolveParam(a.schema[i], a.params[i], b.params[i])]
  IN  CASE IsNumerical(b) -> a
        [] b.custom /\ a.name = b.name /\ (\A i \in DOMAIN a.params : params[i] # NoParameter) ->
             [a EXCEPT !.params = params]
        [] OTHER -> Mismatch

ResolveOnce(a, b) == IF a.custom THEN ResolveCustom(a, b) ELSE ResolveBasic(a, b)

\* Seeded bug: one order only, so a relation never multiplies a payload.
ResolveInOrder(a, b) == ResolveOnce(a, b)

\* Type.resolve: the factors are tried in either order.
Resolve(a, b) == LET r == ResolveOnce(a, b) IN IF r = Mismatch THEN ResolveOnce(b, a) ELSE r

\* The first index and the number of the variables a payload sums over; none
\* if its type does not say.
Layout(t) ==
  LET Params(kind) == SelectSeq([i \in DOMAIN t.params |-> i], LAMBDA i : t.schema[i] = kind)
      numbers == Params("dynamic_sum")
      first == Params("dynamic_min")
  IN  IF numbers = <<>> \/ first = <<>> THEN <<>>
      ELSE <<t.params[first[1]].n, FoldLeft(LAMBDA n, i : n + t.params[i].n, 0, numbers)>>

\* operator* of a ring: one factor ends where the other begins.
Adjacent(t, u) ==
  Layout(t) # <<>> /\ Layout(u) # <<>> =>
    Layout(t)[1] + Layout(t)[2] = Layout(u)[1] \/ Layout(u)[1] + Layout(u)[2] = Layout(t)[1]

-----------------------------------------------------------------------------
TypeLong == Basic("long")
TypeInt == Basic("int")

Expr(op, tp, name, keys, args) ==
  [op |-> op, tp |-> tp, name |-> name, keys |-> keys, args |-> args, value |-> 0]

Const(tp, v) == [Expr("const", tp, "", <<>>, <<>>) EXCEPT !.value = v]
\* The constants of the generated triggers are spelled with a suffix, 1L and -1L.
LongLiteral(v) == [Const(TypeLong, v) EXCEPT !.name = "L"]
Ref(name, tp) == Expr("ref", tp, name, <<>>, <<>>)
MapRef(name, tp, keys) == Expr("map", tp, name, keys, <<>>)
MapRefConst(name, keys) == Expr("base", TypeLong, name, keys, <<>>)
DeltaMapRefConst(name, keys) == Expr("delta", TypeLong, name, keys, <<>>)
AggSum(keys, e) == Expr("agg", e.tp, "", keys, <<e>>)
Mul(l, r) == Expr("mul", Resolve(l.tp, r.tp), "", <<>>, <<l, r>>)
Add(l, r) == Expr("add", Resolve(l.tp, r.tp), "", <<>>, <<l, r>>)
Apply(f, tp, args, targs) == Expr("apply", tp, f, targs, args)
Cmp(l, r, op) == Expr("cmp", TypeInt, op, <<>>, <<l, r>>)
CmpOrList(l, list) == Expr("in", TypeInt, "", <<>>, <<l>> \o list)

\* f of every element.  TLC evaluates a function literal again wherever it is
\* applied, a concatenation once.
Each(f(_), s) == <<>> \o [i \in DOMAIN s |-> f(s[i])]

\* An exception thrown while the expression was built.
Broken == Expr("broken", Mismatch, "", <<>>, <<>>)

\* reduceLeft(Mul) and its inverse up to association.
Product(es) == FoldLeft(Mul, Head(es), Tail(es))

RECURSIVE ProdList(_)
ProdList(e) == IF e.op = "mul" THEN ProdList(e.args[1]) \o ProdList(e.args[2]) ELSE <<e>>

\* The node e over new arguments: the types of products, sums and aggregates
\* are resolved again.
Rebuild(e, args) ==
  CASE e.op = "mul" -> Mul(args[1], args[2])
    [] e.op = "add" -> Add(args[1], args[2])
    [] e.op = "agg" -> AggSum(e.keys, args[1])
    [] OTHER -> [e EXCEPT !.args = args]

\* replace: f on every argument of a node it does not apply to itself.
MapArgs(f(_), e) == Rebuild(e, Each(f, e.args))

\* collect: the nodes of e, in pre-order.
RECURSIVE Nodes(_)
Nodes(e) == <<e>> \o FlattenSeq(Each(Nodes, e.args))

Collect(e, op) == SelectSeq(Nodes(e), LAMBDA n : n.op = op)

RECURSIVE Throws(_)
Throws(e) == e.tp = Mismatch \/ \E i \in DOMAIN e.args : Throws(e.args[i])

-----------------------------------------------------------------------------
(* The schema: input variables, which must have values, and output         *)
(* variables, which the expression ranges over.                            *)

RECURSIVE Schema(_)
Schema(e) ==
  LET s == Each(Schema, e.args)
      in == UNION {s[i].in : i \in DOMAIN s}
      out == UNION {s[i].out : i \in DOMAIN s}
  IN  CASE e.op = "ref" -> [in |-> {e.name}, out |-> {}]
        [] e.op \in {"map", "base", "delta"} -> [in |-> {}, out |-> ToSet(e.keys)]
        [] e.op = "cmp" -> [in |-> in, out |-> {}]
        [] e.op = "in" -> [in |-> s[1].in, out |-> {}]
        [] e.op = "mul" -> [in |-> (s[2].in \ s[1].out) \cup s[1].in, out |-> out \ s[1].in]
        [] e.op = "add" ->
             LET out0 == s[1].out \cup s[2].in
                 unbound == out0 \ (s[1].out \cap s[2].out)
             IN  [in |-> in \cup unbound, out |-> out0 \ unbound]
        [] e.op = "agg" -> [in |-> in, out |-> ToSet(e.keys)]
        [] OTHER -> [in |-> in, out |-> out]

Variables(e) == Schema(e).in \cup Schema(e).out

-----------------------------------------------------------------------------
(* cmp: the renaming of variables that turns one expression into another.  *)

Same(mapping) == [found |-> TRUE, thrown |-> FALSE, map |-> mapping]
Different == [found |-> FALSE, thrown |-> FALSE, map |-> <<>>]
\* mapping.apply of a variable the mapping does not have.
NoSuchElement == [found |-> FALSE, thrown |-> TRUE, map |-> <<>>]

\* merge(a, b); b is evaluated only when a is a mapping.
Merge(a, b) ==
  IF ~a.found \/ ~b.found THEN (IF a.found THEN b ELSE a)
  ELSE IF \E k \in DOMAIN a.map \cap DOMAIN b.map : a.map[k] # b.map[k] THEN Different
  ELSE Same(b.map @@ a.map)

ZipKeys(ks, ls) ==
  FoldLeft(LAMBDA m, i : Merge(m, Same(ks[i] :> ls[i])), Same(<<>>), [i \in DOMAIN ks |-> i])

\* The renaming m of what two aggregates sum, as a renaming of the aggregates.
OfAggregates(a, b, m) ==
  LET kept == Schema(a.args[1]).in \cup ToSet(a.keys)
  IN  IF ~m.found THEN m
      ELSE IF ~(ToSet(a.keys) \subseteq DOMAIN m.map) THEN NoSuchElement
      ELSE IF {m.map[k] : k \in ToSet(a.keys)} # ToSet(b.keys) THEN Different
      ELSE IF kept \subseteq DOMAIN m.map THEN Same(Restrict(m.map, kept)) ELSE NoSuchElement

RECURSIVE Compare(_, _)
Compare(a, b) ==
  LET Args == FoldLeft(LAMBDA m, i : IF m.found THEN Merge(m, Compare(a.args[i], b.args[i])) ELSE m,
                       Same(<<>>), [i \in DOMAIN a.args |-> i])
      ListArgs(e) == {e.args[i] : i \in 2 .. Len(e.args)}
  IN  IF a.op # b.op \/ a.tp # b.tp THEN Different
      ELSE CASE a.op = "const" -> IF a.value = b.value /\ a.name = b.name THEN Same(<<>>) ELSE Different
             [] a.op = "ref" -> Same(a.name :> b.name)
             [] a.op \in {"map", "base", "delta"} ->
                  IF a.name # b.name \/ Len(a.keys) # Len(b.keys) THEN Different
                  ELSE ZipKeys(a.keys, b.keys)
             [] a.op = "apply" ->
                  IF a.name # b.name \/ Len(a.args) # Len(b.args) \/ a.keys # b.keys THEN Different
                  ELSE Args
             [] a.op = "cmp" -> IF a.name = b.name THEN Args ELSE Different
             [] a.op = "in" -> IF ListArgs(a) = ListArgs(b) THEN Compare(a.args[1], b.args[1]) ELSE Different
             [] a.op = "agg" ->
                  IF Len(a.keys) # Len(b.keys) THEN Different ELSE OfAggregates(a, b, Args)
             [] OTHER -> Args

-----------------------------------------------------------------------------
(***************************************************************************)
(* The optimizer of M3 programs: constant folding, rewriting of nested     *)
(* aggregates, and the elimination of aggregates that occur more than once *)
(* in the statements of one trigger.                                       *)
(***************************************************************************)

Foldable == {"char", "short", "int", "long", "float", "double"}

\* Const * Const and Const + Const; the type decides whether they can be
\* computed, and toLong and BigDecimal read no suffix.
FoldConst(l, r, v) ==
  LET tp == Resolve(l.tp, r.tp)
  IN  IF tp.name \in Foldable /\ "L" \notin {l.name, r.name} THEN Const(tp, v) ELSE Broken

One == Const(Basic("char"), 1)
Zero == Const(Basic("char"), 0)

\* Equality is that of the constants, types included; >= compares its right
\* operand with itself, and only fails on a type that has no order.
FoldCmp(l, r, op) ==
  LET Comparable(c, d) == Resolve(c.tp, d.tp).name \in Foldable \cup {"date", "string"}
      Truth(b) == IF b THEN One ELSE Zero
  IN  CASE op = "eq" -> Truth(l = r)
        [] op = "ne" -> Truth(l # r)
        [] op = "gt" -> IF Comparable(l, r) THEN Truth(l.value > r.value) ELSE Broken
        [] op = "ge" -> IF Comparable(r, r) THEN One ELSE Broken

\* The operation e on folded operands.
Fold(e, l, r) ==
  LET constants == l.op = "const" /\ r.op = "const"
  IN  CASE e.op = "mul" /\ constants -> FoldConst(l, r, l.value * r.value)
        [] e.op = "add" /\ constants -> FoldConst(l, r, l.value + r.value)
        [] e.op = "cmp" /\ constants -> FoldCmp(l, r, e.name)
        [] OTHER -> Rebuild(e, <<l, r>>)

RECURSIVE Eval(_)
Eval(e) ==
  IF e.op \in {"mul", "add", "cmp"} THEN Fold(e, Eval(e.args[1]), Eval(e.args[2]))
  ELSE MapArgs(Eval, e)

-----------------------------------------------------------------------------
FindMaps(e) == Collect(e, "map")

\* Seeded bug: factors that read maps or range over other variables move too.
MovesIntoAny(t, keys) == Variables(t) \cap ToSet(keys) # {}

\* A factor that can move into an aggregate over keys: it has no other
\* variables and reads no map with keys.
MovesInto(t, keys) ==
  /\ Variables(t) \subseteq ToSet(keys)
  /\ \A i \in DOMAIN FindMaps(t) : FindMaps(t)[i].keys = <<>>

RECURSIVE Rewrite(_)
RewriteProduct(l, r) ==
  LET factors == ProdList(r)
      covered == SelectSeq(factors, LAMBDA t : MovesInto(t, l.keys))
      rest == SelectSeq(factors, LAMBDA t : ~MovesInto(t, l.keys))
  IN  IF l.op # "agg" \/ covered = <<>> THEN Mul(l, r)
      ELSE Rewrite(Product(<<AggSum(l.keys, Product(ProdList(l.args[1]) \o covered))>> \o rest))

Rewrite(e) ==
  CASE e.op = "agg" ->
         LET inner == Rewrite(e.args[1])
         IN  IF inner.op = "agg" THEN Rewrite(AggSum(e.keys, inner.args[1])) ELSE AggSum(e.keys, inner)
    [] e.op = "mul" -> RewriteProduct(Rewrite(e.args[1]), Rewrite(e.args[2]))
    [] OTHER -> MapArgs(Rewrite, e)

OptimizeExpr(e) == Rewrite(Eval(e))

-----------------------------------------------------------------------------
(* Common aggregates.  A statement is a target, an operation and an        *)
(* expression.                                                             *)

Statement(target, op, e) == [target |-> target, op |-> op, expr |-> e]

AggregatesOf(stmts) == FlattenSeq(Each(LAMBDA s : Collect(s.expr, "agg"), stmts))

\* The aggregates that occur most often, and more than n times.
MostFrequent(stmts, n) ==
  LET all == AggregatesOf(stmts)
      Occurrences(a) == Cardinality({i \in DOMAIN all : all[i] = a})
      most == Max({Occurrences(all[i]) : i \in DOMAIN all} \cup {0})
  IN  {a \in ToSet(all) : most > n /\ Occurrences(a) = most}

\* Which candidate is first after sorting by occurrences depends on hashing.
Candidates(stmts) == MostFrequent(stmts, 1)

\* An aggregate that equals src up to renaming becomes a reference to dst.
RECURSIVE ReplaceIn(_, _, _)
ReplaceIn(e, src, dst) ==
  LET Replaced(c) ==
        CASE c.thrown -> Broken
          [] c.found -> MapRef(dst.name, dst.tp, [i \in DOMAIN dst.keys |-> c.map[dst.keys[i]]])
          [] OTHER -> MapArgs(LAMBDA x : ReplaceIn(x, src, dst), e)
  IN  Replaced(Compare(src, e))

ReplacedIn(stmts, a, tmp) ==
  Each(LAMBDA s : [s EXCEPT !.expr = ReplaceIn(@, a, tmp)], stmts)

References(s, m) == \E i \in DOMAIN FindMaps(s.expr) : FindMaps(s.expr)[i] = m

\* Where the first statement that refers to tmp under its own keys is.
FirstUse(stmts, tmp) == Max({1, SelectInSeq(stmts, LAMBDA s : References(s, tmp))})

\* optCSE: the aggregate is computed into tmp just before its first use.
EliminateCommon(stmts, a, tmp) ==
  LET WithTemp(replaced) == InsertAt(replaced, FirstUse(replaced, tmp), Statement(tmp, ":=", a))
  IN  WithTemp(ReplacedIn(stmts, a, tmp))
=============================================================================
