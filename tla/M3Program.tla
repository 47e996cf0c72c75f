----------------------------- MODULE M3Program -----------------------------
(***************************************************************************)
(* From the query and the d-tree to the M3 program.                        *)
(*                                                                         *)
(* The SQL compiler takes a query to the factors of its aggregate, the     *)
(* conjuncts of its condition and its grouping variables.  Queries arrive  *)
(* as the nodes the grammar recognizes, one record per node whatever its   *)
(* class; Accepted is what the actions of the parser turn them into.       *)
(* Tables and options are sequences, an absent option is the empty one.    *)
(*                                                                         *)
(* The d-tree file, the typed view tree over it, and the program the code  *)
(* generator emits are as they are: ordered lists of children, of keys and *)
(* of factors.  ViewTree and CodeGenerator hold the same decisions as      *)
(* sets, for every tree; here every product has its order and its type.    *)
(* A d-tree is a sequence of nodes in the order of the file; parent is the *)
(* index of the parent, 0 for the root.                                    *)
(***************************************************************************)
EXTENDS M3

Sql(op, name, tp, args) == [op |-> op, name |-> name, tp |-> tp, args |-> args, targs |-> <<>>, value |-> 0]

NoType == Basic("null")

Arithmetic == {"add", "sub", "mul", "div", "mod"}
Comparisons == {"eq", "ne", "gt", "ge"}

-----------------------------------------------------------------------------
(* The parser.  Nodes for < and <= and for BETWEEN do not exist in the     *)
(* tree: they become comparisons the other way round.                      *)

\* Seeded bug: x < y read as x > y.
RECURSIVE AcceptedForward(_)
AcceptedForward(s) ==
  LET a == Each(AcceptedForward, s.args)
  IN  CASE s.op = "lt" -> Sql("gt", "", NoType, a)
        [] s.op = "field" -> [s EXCEPT !.tp = NoType]
        [] OTHER -> [s EXCEPT !.args = a]

RECURSIVE Accepted(_)
Accepted(s) ==
  LET a == Each(Accepted, s.args)
      Compared(op, l, r) == Sql(op, "", NoType, <<l, r>>)
  IN  CASE s.op = "lt" -> Compared("gt", a[2], a[1])
        [] s.op = "le" -> Compared("ge", a[2], a[1])
        [] s.op = "between" -> Sql("and", "", NoType, <<Compared("ge", a[1], a[2]), Compared("ge", a[3], a[1])>>)
        [] s.op = "field" -> [s EXCEPT !.tp = NoType]
        [] OTHER -> [s EXCEPT !.args = a]

AcceptedQuery(q) ==
  [q EXCEPT !.columns = Each(Accepted, @),
            !.where = Each(Accepted, @)]

-----------------------------------------------------------------------------
(* Driver.resolveTypes: a field has the type of the column of its name.    *)

Columns(sources) == FlattenSeq(Each(LAMBDA s : s.fields, sources))

Declared(sources) == {Columns(sources)[i].name : i \in DOMAIN Columns(sources)}

\* The last column of the name counts, as in a map built from a list.
TypeOfColumn(sources, name) ==
  LET cs == Columns(sources)
      last == CHOOSE i \in DOMAIN cs : cs[i].name = name /\ \A j \in i + 1 .. Len(cs) : cs[j].name # name
  IN  Basic(cs[last].tp)

RECURSIVE Typed(_, _)
Typed(s, sources) ==
  IF s.op = "field"
  THEN [s EXCEPT !.tp = IF s.name \in Declared(sources) THEN TypeOfColumn(sources, s.name) ELSE Mismatch]
  ELSE [s EXCEPT !.args = Each(LAMBDA x : Typed(x, sources), @)]

TypedQuery(q, sources) ==
  [q EXCEPT !.columns = Each(LAMBDA x : Typed(x, sources), @),
            !.where = Each(LAMBDA x : Typed(x, sources), @)]

-----------------------------------------------------------------------------
(* The compiler: anything it does not support throws.                      *)

RECURSIVE TypeOf(_)
TypeOf(s) ==
  CASE s.op \in {"field", "const", "apply"} -> s.tp
    [] s.op \in Arithmetic -> Resolve(TypeOf(s.args[1]), TypeOf(s.args[2]))
    [] OTHER -> Mismatch

RECURSIVE Compile(_)
Compile(s) ==
  LET a == Each(Compile, s.args)
  IN  CASE s.op = "field" /\ s.name # "*" -> Ref(s.name, s.tp)
        [] s.op = "const" -> Const(s.tp, s.value)
        [] s.op = "apply" -> Apply(s.name, s.tp, a, s.targs)
        [] s.op = "add" -> Add(a[1], a[2])
        [] s.op = "sub" -> Add(a[1], Mul(Const(TypeInt, -1), a[2]))
        [] s.op = "mul" -> Mul(a[1], a[2])
        [] s.op = "div" -> Apply("div", TypeOf(s), a, <<>>)
        [] s.op = "mod" -> Apply("mod", TypeOf(s), a, <<>>)
        [] s.op = "and" -> Mul(a[1], a[2])
        [] s.op \in Comparisons -> Cmp(a[1], a[2], s.op)
        [] s.op = "inlist" -> CmpOrList(a[1], Tail(a))
        [] OTHER -> Broken

\* extractSumAggFn: the arguments of the sums among the columns; the other
\* columns are compiled only to see that they are supported.
SumArguments(q) ==
  LET sums == SelectSeq(q.columns, LAMBDA s : s.op = "sum")
  IN  Each(LAMBDA s : Compile(s.args[1]), sums)

ColumnsSupported(q) ==
  \A i \in DOMAIN q.columns : q.columns[i].op = "sum" \/ ~Throws(Compile(q.columns[i]))

\* extractTableNames: one list of natural joins.
NaturalJoins(q) ==
  Len(q.tables) = 1 /\ \A i \in DOMAIN q.tables[1] : q.tables[1][i].form = "named" /\ q.tables[1][i].join = "natural"

Supported(q) ==
  /\ ~q.distinct /\ q.orderBy = <<>> /\ q.having = <<>>
  /\ ColumnsSupported(q)
  /\ Len(SumArguments(q)) = 1
  /\ ~Throws(SumArguments(q)[1])
  /\ NaturalJoins(q)
  /\ q.where = <<>> \/ ~Throws(Compile(q.where[1]))

\* compile(sys): the terms of the product, of the condition, and the grouping
\* variables; only for a supported query.
Compiled(q) ==
  [sum |-> ProdList(SumArguments(q)[1]),
   where |-> IF q.where = <<>> THEN <<>> ELSE ProdList(Compile(q.where[1])),
   groupBy |-> q.groupBy]

-----------------------------------------------------------------------------
Distinct(s) == FoldLeft(LAMBDA d, x : IF x \in ToSet(d) THEN d ELSE Append(d, x), <<>>, s)

-----------------------------------------------------------------------------
(* DTreeParser: variables refer to earlier ones by number, relations to    *)
(* their parent by number and to their columns by name.                    *)

NoTree == <<>>

DTreeTypes == {"byte", "short", "int", "long", "float", "double", "date", "char", "string"}

\* variableMap(id) while line k is read: the last line before it with that id.
LineOf(file, k, id) ==
  LET before == {j \in 1 .. k - 1 : file.variables[j].id = id}
  IN  IF before = {} THEN 0 ELSE CHOOSE j \in before : \A i \in before : i <= j

ParsedVariable(file, k) ==
  LET v == file.variables[k]
  IN  [name |-> v.name, tp |-> Basic(v.tp), relation |-> FALSE, parent |-> LineOf(file, k, v.parent),
       keys |-> [i \in DOMAIN v.keys |->
                   LET j == LineOf(file, k, v.keys[i]) IN IF j = 0 THEN "" ELSE file.variables[j].name]]

ParsedRelation(file, r) ==
  LET names == {file.variables[j].name : j \in DOMAIN file.variables}
  IN  [name |-> r.name, tp |-> TypeLong, relation |-> TRUE, parent |-> LineOf(file, Len(file.variables) + 1, r.parent),
       keys |-> [i \in DOMAIN r.keys |-> IF r.keys[i] \in names THEN r.keys[i] ELSE ""]]

\* The tree of a file; none if a type is unknown, a key is not declared or the
\* root is not unique.
ParseDTree(file) ==
  LET nodes == [k \in DOMAIN file.variables |-> ParsedVariable(file, k)]
               \o Each(LAMBDA r : ParsedRelation(file, r), file.relations)
      roots == {i \in DOMAIN nodes : nodes[i].parent = 0}
      valid == /\ Cardinality(roots) = 1
               /\ \A i \in DOMAIN nodes : nodes[i].tp.name \in DTreeTypes /\ "" \notin ToSet(nodes[i].keys)
  IN  IF valid THEN nodes ELSE NoTree

-----------------------------------------------------------------------------
(* Trees.                                                                  *)

RootOf(t) == CHOOSE i \in DOMAIN t : t[i].parent = 0

Children(t, i) == SelectSeq([j \in DOMAIN t |-> j], LAMBDA j : t[j].parent = i)

RightSiblings(t, i) == IF t[i].parent = 0 THEN <<>> ELSE SelectSeq(Children(t, t[i].parent), LAMBDA j : j > i)
LeftSiblings(t, i) == IF t[i].parent = 0 THEN <<>> ELSE SelectSeq(Children(t, t[i].parent), LAMBDA j : j < i)

RECURSIVE PreOrder(_, _)
PreOrder(t, i) == <<i>> \o FlattenSeq(Each(LAMBDA c : PreOrder(t, c), Children(t, i)))

RECURSIVE PostOrder(_, _)
PostOrder(t, i) == FlattenSeq(Each(LAMBDA c : PostOrder(t, c), Children(t, i))) \o <<i>>

RelationsBelow(t, i) == {t[j].name : j \in {k \in ToSet(PreOrder(t, i)) : t[k].relation}}
VariablesBelow(t, i) == {t[j].name : j \in {k \in ToSet(PreOrder(t, i)) : ~t[k].relation}}
KeysBelow(t, i) == UNION {ToSet(t[j].keys) : j \in {k \in ToSet(PreOrder(t, i)) : t[k].relation}}

-----------------------------------------------------------------------------
(* ViewTree.apply at one node: views holds the views of its children.      *)

Covered(e, vars) == Variables(e) \subseteq vars

\* The columns of the relation, or the free variables of the children.
Available(t, i, views) ==
  IF t[i].relation THEN t[i].keys
  ELSE Distinct(FlattenSeq(Each(LAMBDA c : views[c].free, Children(t, i))))

\* The conjuncts and the factors that no child has taken.
WhereLeft(t, i, where) ==
  SelectSeq(where, LAMBDA w : \A c \in ToSet(Children(t, i)) : ~Covered(w, KeysBelow(t, c)))
SumLeft(t, i, sum) ==
  SelectSeq(sum, LAMBDA f : ~Covered(f, UNION {VariablesBelow(t, c) : c \in ToSet(Children(t, i))}))

ViewOver(t, i, views, groupBy, available, where, sum) ==
  LET WhereHere(w) == Covered(w, ToSet(available))
      SumHere(f) == Covered(f, VariablesBelow(t, i))
      terms == SelectSeq(where, WhereHere) \o SelectSeq(sum, SumHere)
      rest == SelectSeq(where, LAMBDA w : ~WhereHere(w)) \o SelectSeq(sum, LAMBDA f : ~SumHere(f))
      wanted == ToSet(groupBy) \cup UNION {Variables(rest[k]) : k \in DOMAIN rest}
      types == Each(LAMBDA c : views[c].tp, Children(t, i)) \o Each(LAMBDA e : e.tp, terms)
  IN  [name |-> "V_" \o t[i].name,
       tp |-> IF t[i].relation THEN TypeLong ELSE FoldLeft(Resolve, Head(types), Tail(types)),
       free |-> SelectSeq(available, LAMBDA v : v \in ToSet(t[i].keys) \cup wanted),
       terms |-> terms]

ViewAt(t, i, views, query) ==
  ViewOver(t, i, views, query.groupBy, Available(t, i, views), WhereLeft(t, i, query.where), SumLeft(t, i, query.sum))

\* The views of a tree, children first: a parent has a smaller index.
Views(t, query) ==
  FoldRight(LAMBDA i, views : (i :> ViewAt(t, i, views, query)) @@ views, [i \in DOMAIN t |-> i], <<>>)

-----------------------------------------------------------------------------
(* The code generator.  A generator is a tree, its views and the streams.  *)

Event(kind, relation, params) == [kind |-> kind, relation |-> relation, params |-> params]
Ready == Event("ready", "", <<>>)

FieldNames(source) == [i \in DOMAIN source.fields |-> source.fields[i].name]

Events(sources, batchUpdates) ==
  LET streams == SelectSeq(sources, LAMBDA s : s.stream)
  IN  FlattenSeq([i \in DOMAIN streams |->
        LET s == streams[i]
        IN  IF batchUpdates THEN <<Event("batch", s.name, <<>>)>>
            ELSE <<Event("insert", s.name, FieldNames(s)), Event("delete", s.name, FieldNames(s))>>])
      \o <<Ready>>

Generator(t, views, sources) ==
  [tree |-> t, views |-> views, streams |-> {sources[i].name : i \in {j \in DOMAIN sources : sources[j].stream}}]

IsStatic(g, i, streams) == RelationsBelow(g.tree, i) \cap streams = {}

IsMaterialized(g, i) ==
  \/ g.tree[i].parent = 0
  \/ g.views[i].tp.distributed
  \/ \E c \in ToSet(Children(g.tree, g.tree[i].parent)) \ {i} : ~IsStatic(g, c, g.streams)

MapRefOf(g, i) == MapRef(g.views[i].name, g.views[i].tp, g.views[i].free)

\* AggSum over the free variables if the children have others, those of the
\* event excepted.
Marginalized(g, i, childJoin, scope) ==
  LET cs == Children(g.tree, i)
      bound == UNION {ToSet(g.views[c].free) : c \in ToSet(cs)} \ (ToSet(g.views[i].free) \cup scope)
  IN  IF bound = {} THEN childJoin ELSE AggSum(g.views[i].free, childJoin)

RECURSIVE CreateDefExpr(_, _)
CreateExpr(g, i) == IF IsMaterialized(g, i) THEN MapRefOf(g, i) ELSE CreateDefExpr(g, i)

CreateDefExpr(g, i) ==
  LET cs == Children(g.tree, i)
      terms == g.views[i].terms
      factors == IF g.tree[i].relation THEN <<MapRefConst(g.tree[i].name, g.tree[i].keys)>>
                 ELSE Each(LAMBDA c : CreateExpr(g, c), cs)
  IN  Marginalized(g, i, Product(factors \o terms), {})

\* Seeded bug: the siblings in the order of the tree.
SiblingsAsTheyAre(t, i) == LeftSiblings(t, i) \o RightSiblings(t, i)

\* The order in which the siblings are multiplied.
SiblingOrder(t, i) == RightSiblings(t, i) \o Reverse(LeftSiblings(t, i))

RECURSIVE CreateDeltaExpr(_, _, _)
CreateDeltaExpr(g, i, event) ==
  LET path == SelectSeq(Children(g.tree, i), LAMBDA c : ~IsStatic(g, c, {event.relation}))
      order == SiblingOrder(g.tree, path[1])
      keys == g.tree[i].keys
      factors ==
        CASE ~g.tree[i].relation ->
               <<CreateDeltaExpr(g, path[1], event)>> \o Each(LAMBDA c : CreateExpr(g, c), order)
          [] event.kind = "batch" -> <<DeltaMapRefConst(g.tree[i].name, keys)>>
          [] event.kind = "insert" -> <<LongLiteral(1)>>
          [] event.kind = "delete" -> <<LongLiteral(-1)>>
  IN  IF ~g.tree[i].relation /\ Len(path) # 1 THEN Broken
      ELSE Marginalized(g, i, Product(factors \o g.views[i].terms), ToSet(event.params))

GenerateMaps(g) ==
  LET stored == SelectSeq(PreOrder(g.tree, RootOf(g.tree)), LAMBDA i : IsMaterialized(g, i))
  IN  Each(LAMBDA i : [ref |-> MapRefOf(g, i), expr |-> OptimizeExpr(CreateDefExpr(g, i))], stored)

GenerateQueries(g) ==
  LET asked == SelectSeq(PreOrder(g.tree, RootOf(g.tree)),
                         LAMBDA i : g.tree[i].parent = 0 \/ g.views[i].tp.distributed)
  IN  Each(LAMBDA i : MapRefOf(g, i), asked)

ReadyTargets(g) ==
  SelectSeq(PostOrder(g.tree, RootOf(g.tree)), LAMBDA i : IsStatic(g, i, g.streams) /\ IsMaterialized(g, i))

DeltaTargets(g, event) ==
  SelectSeq(PreOrder(g.tree, RootOf(g.tree)), LAMBDA i : ~IsStatic(g, i, {event.relation}) /\ IsMaterialized(g, i))

GenerateTrigger(g, event) ==
  [event |-> event, statements |->
     IF event = Ready THEN Each(LAMBDA i : Statement(MapRefOf(g, i), ":=", CreateDefExpr(g, i)), ReadyTargets(g))
     ELSE Each(LAMBDA i : Statement(MapRefOf(g, i), "+=", CreateDeltaExpr(g, i, event)), DeltaTargets(g, event))]

GenerateM3(g, events) ==
  [maps |-> GenerateMaps(g), queries |-> GenerateQueries(g),
   triggers |-> Each(LAMBDA event : GenerateTrigger(g, event), events)]

Statements(p) == FlattenSeq(Each(LAMBDA t : t.statements, p.triggers))

ProgramThrows(p) ==
  \/ \E i \in DOMAIN p.maps : Throws(p.maps[i].expr)
  \/ \E s \in ToSet(Statements(p)) : Throws(s.expr)

-----------------------------------------------------------------------------
(* M3Parser on the printed program.  A variable is read without a type,    *)
(* and so is a product or a sum of it; an integer is read as an int unless *)
(* its suffix is printed, and a character as a string.                     *)

Untyped == Basic("null")

ReadBack(tp) ==
  CASE tp.name \in {"byte", "short", "int", "long"} -> TypeInt
    [] tp.name \in {"char", "string"} -> Basic("string")
    [] OTHER -> Basic("double")

RECURSIVE RereadExpr(_)
RereadExpr(e) ==
  LET args == Each(RereadExpr, e.args)
  IN  CASE e.op = "ref" -> [e EXCEPT !.tp = Untyped]
        [] e.op = "const" -> IF e.name = "L" THEN Const(TypeLong, e.value) ELSE Const(ReadBack(e.tp), e.value)
        [] e.op \in {"mul", "add"} /\ (\E i \in 1 .. 2 : args[i].tp = Untyped) ->
             [e EXCEPT !.args = args, !.tp = Untyped]
        [] OTHER -> Rebuild(e, args)

Reread(p) ==
  LET Trigger(t) ==
        [t EXCEPT !.statements = Each(LAMBDA s : [s EXCEPT !.expr = RereadExpr(@)], @)]
  IN  [p EXCEPT !.maps = Each(LAMBDA m : [m EXCEPT !.expr = RereadExpr(@)], @),
                !.triggers = Each(Trigger, @)]
=============================================================================
