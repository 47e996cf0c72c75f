----------------------------- MODULE Toolchain ------------------------------
(***************************************************************************)
(* The way from a query to a maintenance program: a script writes the      *)
(* d-tree file from an order of the join variables, or the file is given;  *)
(* the driver parses it, checks it against the declared sources, compiles  *)
(* the query, builds the view tree, generates the triggers, optimizes them *)
(* one by one, prints the program and reads it again.  An exception        *)
(* anywhere ends the compilation.  The program that comes out is built     *)
(* into an experiment application, which registers its relations.          *)
(*                                                                         *)
(* MaxTemps bounds the temporary maps of one compilation; no input of the  *)
(* runs needs as many.                                                     *)
(***************************************************************************)
EXTENDS M3Program, VariableOrder, InputRelations

-----------------------------------------------------------------------------
(***************************************************************************)
(* What queries and programs mean, over integers: the reference the front  *)
(* end is checked against.  A database gives every relation, batch and map *)
(* an integer per row over a small Domain of values.                       *)
(***************************************************************************)

-----------------------------------------------------------------------------
(* What an expression computes.  scope holds the parameters of the event,  *)
(* env these and the variables in scope, with values in Domain;            *)
(* db[name][row] is the content of a map at the values of its keys.        *)

SumOver(S, f(_)) == FoldSet(LAMBDA x, y : f(x) + y, 0, S)

\* Where the batch of a relation is kept.
Delta(name) == "DELTA " \o name

Content(db, e) == IF e.op = "delta" THEN db[Delta(e.name)] ELSE db[e.name]

\* An operation on the values of its arguments.
Computed(e, arg) ==
  LET Truth(b) == IF b THEN 1 ELSE 0
  IN  CASE e.op = "mul" -> arg[1] * arg[2]
        [] e.op = "add" -> arg[1] + arg[2]
        [] e.op = "cmp" -> Truth(CASE e.name = "eq" -> arg[1] = arg[2]
                                   [] e.name = "ne" -> arg[1] # arg[2]
                                   [] e.name = "gt" -> arg[1] > arg[2]
                                   [] e.name = "ge" -> arg[1] >= arg[2])
        [] e.op = "in" -> Truth(\E i \in 2 .. Len(arg) : arg[i] = arg[1])
        [] e.op = "apply" -> FoldLeft(LAMBDA x, y : 2 * x + y, Len(e.keys) + 1, arg)

RECURSIVE Value(_, _, _, _, _)
Value(e, env, scope, db, Domain) ==
  CASE e.op = "const" -> e.value
    [] e.op = "ref" -> env[e.name]
    [] e.op \in {"map", "base", "delta"} -> Content(db, e)[[i \in DOMAIN e.keys |-> env[e.keys[i]]]]
    [] e.op = "agg" ->
         LET inner == e.args[1]
             seen == DOMAIN env \cap (DOMAIN scope \cup ToSet(e.keys) \cup Schema(inner).in)
         IN  SumOver([Schema(inner).out \ seen -> Domain],
                     LAMBDA row : Value(inner, row @@ Restrict(env, seen), scope, db, Domain))
    [] OTHER -> Computed(e, Each(LAMBDA x : Value(x, env, scope, db, Domain), e.args))

-----------------------------------------------------------------------------
(* Statements and triggers, in order.                                      *)

RowsOver(keys, Domain) == [DOMAIN keys -> Domain]

EnvOf(keys, row) == [v \in ToSet(keys) |-> row[CHOOSE i \in DOMAIN keys : keys[i] = v]]

\* The rows a statement touches are those of its event.
Agrees(keys, row, scope) == \A i \in DOMAIN keys : keys[i] \in DOMAIN scope => row[i] = scope[keys[i]]

Execute(s, scope, db, Domain) ==
  LET keys == s.target.keys
      Before(row) == IF s.op = "+=" THEN db[s.target.name][row] ELSE 0
      Change(row) == IF Agrees(keys, row, scope)
                     THEN Value(s.expr, EnvOf(keys, row) @@ scope, scope, db, Domain) ELSE 0
  IN  [db EXCEPT ![s.target.name] = [row \in RowsOver(keys, Domain) |-> Before(row) + Change(row)]]

RunTrigger(statements, scope, db, Domain) ==
  FoldLeft(LAMBDA d, s : Execute(s, scope, d, Domain), db, statements)

\* The maps of a program from their definitions, those of the leaves first.
Materialize(maps, db, Domain) ==
  FoldRight(LAMBDA m, d : Execute(Statement(m.ref, ":=", m.expr), <<>>, d, Domain), maps, db)

-----------------------------------------------------------------------------
(* SQL.                                                                    *)

RECURSIVE SqlValue(_, _)
SqlValue(s, env) ==
  LET a == Each(LAMBDA x : SqlValue(x, env), s.args)
      Truth(b) == IF b THEN 1 ELSE 0
  IN  CASE s.op = "field" -> env[s.name]
        [] s.op = "const" -> s.value
        [] s.op = "add" -> a[1] + a[2]
        [] s.op = "sub" -> a[1] - a[2]
        [] s.op = "mul" -> a[1] * a[2]
        [] s.op = "and" -> a[1] * a[2]
        [] s.op = "eq" -> Truth(a[1] = a[2])
        [] s.op = "ne" -> Truth(a[1] # a[2])
        [] s.op = "gt" -> Truth(a[1] > a[2])
        [] s.op = "ge" -> Truth(a[1] >= a[2])
        [] s.op = "lt" -> Truth(a[1] < a[2])
        [] s.op = "le" -> Truth(a[1] <= a[2])
        [] s.op = "between" -> Truth(a[2] <= a[1] /\ a[1] <= a[3])
        [] s.op = "inlist" -> Truth(\E i \in 2 .. Len(a) : a[i] = a[1])
        [] s.op \in {"apply", "div", "mod"} -> FoldLeft(LAMBDA x, y : 2 * x + y, Len(s.targs) + 1, a)

\* The sum of a query over the join of its sources in one group, an assignment
\* to the grouping variables.
Answer(q, sources, group, db, Domain) ==
  LET sum == SelectSeq(q.columns, LAMBDA c : c.op = "sum")[1]
      Joined(row) == FoldLeft(LAMBDA n, s : n * db[s.name][[i \in DOMAIN s.fields |-> row[s.fields[i].name]]], 1, sources)
      Kept(row) == IF q.where = <<>> THEN 1 ELSE SqlValue(q.where[1], row)
  IN  SumOver([Declared(sources) \ DOMAIN group -> Domain],
              LAMBDA rest : LET row == group @@ rest
                            IN  IF Joined(row) = 0 THEN 0 ELSE Joined(row) * Kept(row) * SqlValue(sum.args[1], row))

-----------------------------------------------------------------------------
CONSTANTS Inputs, MaxTemps

VARIABLES input, batchUpdates, stage, order, last, file, tree, query, views,
          generated, program, trigger, optimized, temps, registered

vars == <<input, batchUpdates, stage, order, last, file, tree, query, views,
          generated, program, trigger, optimized, temps, registered>>

NoProgram == [maps |-> <<>>, queries |-> <<>>, triggers |-> <<>>]
NoQuery == [sum |-> <<>>, where |-> <<>>, groupBy |-> <<>>]

Relations == input.script.relations
FromScript == Relations # <<>>

Init ==
  /\ input \in Inputs
  /\ batchUpdates \in BOOLEAN
  /\ stage = IF FromScript THEN "order" ELSE "parse"
  /\ order = input.script.root
  /\ last = <<>>
  /\ file = input.file
  /\ tree = NoTree
  /\ query = NoQuery
  /\ views = <<>>
  /\ generated = NoProgram
  /\ program = NoProgram
  /\ trigger = 1
  /\ optimized = FALSE
  /\ temps = 0
  /\ registered = <<>>

\* The stage is over; it throws unless ok.
EndStage(ok, next) == stage' = IF ok THEN next ELSE "rejected"

-----------------------------------------------------------------------------
(* The script.                                                             *)

PlaceRelation ==
  /\ stage = "order" /\ Len(last) < Len(Relations)
  /\ LET r == Relations[Len(last) + 1]
         i == LastReached(order, 1, r)
     IN  \E names \in Visits(ToAdd(order, i, r), input.script.free) :
           /\ order' = Chain(order, i, names, r)
           /\ last' = Append(last, LastVariable(order, i, names))
  /\ UNCHANGED <<input, batchUpdates, stage, file, tree, query, views, generated, program, trigger, optimized, temps, registered>>

WriteFile ==
  /\ stage = "order" /\ Len(last) = Len(Relations)
  /\ file' = GenerateTxt(order, Relations, last)
  /\ stage' = "parse"
  /\ UNCHANGED <<input, batchUpdates, order, last, tree, query, views, generated, program, trigger, optimized, temps, registered>>

-----------------------------------------------------------------------------
(* The driver.                                                             *)

Sources == input.sources

Parse ==
  /\ stage = "parse"
  /\ tree' = ParseDTree(file)
  /\ EndStage(tree' # NoTree, "check")
  /\ UNCHANGED <<input, batchUpdates, order, last, file, query, views, generated, program, trigger, optimized, temps, registered>>

TreeRelation(name) == {i \in DOMAIN tree : tree[i].relation /\ tree[i].name = name}

\* The columns of a relation of the tree with the types of its variables.
TreeFields(i) ==
  LET Variable(name) == CHOOSE j \in DOMAIN tree : ~tree[j].relation /\ tree[j].name = name
  IN  {<<k, tree[Variable(k)].tp.name>> : k \in ToSet(tree[i].keys)}

SourceFields(s) == {<<s.fields[c].name, s.fields[c].tp>> : c \in DOMAIN s.fields}

CheckSchemas ==
  /\ stage = "check"
  /\ EndStage(\A s \in ToSet(Sources) :
                TreeRelation(s.name) # {} /\ \A i \in TreeRelation(s.name) : TreeFields(i) = SourceFields(s), "sql")
  /\ UNCHANGED <<input, batchUpdates, order, last, file, tree, query, views, generated, program, trigger, optimized, temps, registered>>

CompileQuery ==
  /\ stage = "sql"
  /\ LET q == TypedQuery(AcceptedQuery(input.query), Sources)
     IN  IF Supported(q) THEN query' = Compiled(q) /\ stage' = "views"
         ELSE query' = query /\ stage' = "rejected"
  /\ UNCHANGED <<input, batchUpdates, order, last, file, tree, views, generated, program, trigger, optimized, temps, registered>>

VariablesAreInner == \A i \in DOMAIN tree : tree[i].relation \/ Children(tree, i) # <<>>

BuildViews ==
  /\ stage = "views"
  /\ IF /\ ToSet(query.groupBy) \subseteq VariablesBelow(tree, RootOf(tree))
        /\ VariablesAreInner
     THEN /\ views' = Views(tree, query)
          /\ EndStage(\A i \in DOMAIN tree : views'[i].tp # Mismatch, "generate")
     ELSE views' = views /\ stage' = "rejected"
  /\ UNCHANGED <<input, batchUpdates, order, last, file, tree, query, generated, program, trigger, optimized, temps, registered>>

Generate ==
  /\ stage = "generate"
  /\ generated' = GenerateM3(Generator(tree, views, Sources), Events(Sources, batchUpdates))
  /\ program' = generated'
  /\ EndStage(~ProgramThrows(generated'), "optimize")
  /\ UNCHANGED <<input, batchUpdates, order, last, file, tree, query, views, trigger, optimized, temps, registered>>

-----------------------------------------------------------------------------
(* The optimizer, trigger by trigger.                                      *)

Optimizing == stage = "optimize" /\ trigger <= Len(program.triggers)
Current == program.triggers[trigger].statements

OptimizeStatements ==
  /\ Optimizing /\ ~optimized
  /\ LET stmts == Each(LAMBDA s : [s EXCEPT !.expr = OptimizeExpr(@)], Current)
     IN  /\ program' = [program EXCEPT !.triggers[trigger].statements = stmts]
         /\ EndStage(\A k \in DOMAIN stmts : ~Throws(stmts[k].expr), "optimize")
  /\ optimized' = TRUE
  /\ UNCHANGED <<input, batchUpdates, order, last, file, tree, query, views, generated, trigger, temps, registered>>

EliminateAggregate ==
  /\ Optimizing /\ optimized /\ temps < MaxTemps
  /\ \E a \in Candidates(Current) :
       LET tmp == MapRef("TMP_SUM" \o ToString(temps + 1), a.tp, a.keys)
           stmts == EliminateCommon(Current, a, tmp)
       IN  /\ program' = [program EXCEPT !.triggers[trigger].statements = stmts,
                                         !.maps = Append(@, [ref |-> tmp, expr |-> OptimizeExpr(a)])]
           /\ EndStage(\A k \in DOMAIN stmts : ~Throws(stmts[k].expr), "optimize")
  /\ temps' = temps + 1
  /\ UNCHANGED <<input, batchUpdates, order, last, file, tree, query, views, generated, trigger, optimized, registered>>

NextTrigger ==
  /\ Optimizing /\ optimized /\ Candidates(Current) = {}
  /\ trigger' = trigger + 1
  /\ optimized' = FALSE
  /\ UNCHANGED <<input, batchUpdates, stage, order, last, file, tree, query, views, generated, program, temps, registered>>

-----------------------------------------------------------------------------
(* The program leaves the front end.                                       *)

\* The optimized program is printed and read again.
Emit ==
  /\ stage = "optimize" /\ ~Optimizing
  /\ program' = Reread(program)
  /\ EndStage(~ProgramThrows(program'), "emitted")
  /\ UNCHANGED <<input, batchUpdates, order, last, file, tree, query, views, generated, trigger, optimized, temps, registered>>

SourceNames(kind) == {Sources[i].name : i \in {j \in DOMAIN Sources : Sources[j].stream = kind}}

\* The generated program runs in an experiment application, built with
\* BATCH_SIZE for a program of batch triggers.
RegisterRelations ==
  /\ stage = "emitted"
  /\ registered' = InitRelations(input.app, SourceNames(FALSE), SourceNames(TRUE), batchUpdates)
  /\ stage' = "done"
  /\ UNCHANGED <<input, batchUpdates, order, last, file, tree, query, views, generated, program, trigger, optimized, temps>>

Ended == stage \in {"done", "rejected"} /\ UNCHANGED vars

Next ==
  \/ PlaceRelation \/ WriteFile
  \/ Parse \/ CheckSchemas \/ CompileQuery \/ BuildViews \/ Generate
  \/ OptimizeStatements \/ EliminateAggregate \/ NextTrigger \/ Emit
  \/ RegisterRelations \/ Ended

Spec == Init /\ [][Next]_vars

-----------------------------------------------------------------------------
(* Properties.                                                             *)

\* The order a script produces is a variable order of the query: the variables
\* of every relation lie on one path from the root, its last variable at the
\* end of it, and no variable occurs twice (generate_txt and set_id of
\* variable_order.py).
RelationsOnOnePath ==
  /\ \A k \in DOMAIN last : ColumnNames(Relations[k]) \subseteq VariablesOnPath(order, last[k])
  /\ \A i, j \in DOMAIN order : order[i].name = order[j].name => i = j

\* In every trigger the payloads that are multiplied have adjacent indices, as
\* the static assertions of the rings demand, and a map only takes values of
\* its own type: what ViewTree assigned a view is what createDeltaExpr
\* computes for it, in the order it multiplies the children.
PayloadsFit ==
  stage \in {"optimize", "emitted", "done"} =>
    \A k \in DOMAIN Statements(generated) :
      LET s == Statements(generated)[k]
          muls == Collect(s.expr, "mul")
      IN  /\ s.expr.tp = s.target.tp
          /\ \A i \in DOMAIN muls : Adjacent(muls[i].args[1].tp, muls[i].args[2].tp)

\* What the repository ships compiles, in both modes or in the one its scripts
\* ask for, and what the compiler does not support never comes out as a program.
OutcomeAsDocumented ==
  /\ input.kind = "shipped" \/ (input.kind = "batch" /\ batchUpdates) => stage # "rejected"
  /\ input.kind = "unsupported" => stage # "done"

\* Every table of the query has one loader in the application, and every
\* stream the one dispatcher that calls the handler its trigger compiles to:
\* a batch, or single insertions.
EveryTriggerFed ==
  stage = "done" =>
    LET Dispatchers(static, handler, name) ==
          {i \in DOMAIN registered : registered[i].static = static /\ registered[i].call = Call(handler, name)}
        fed == {t \in ToSet(program.triggers) : t.event.kind \in {"batch", "insert"}}
    IN  /\ \A t \in fed : Cardinality(Dispatchers(FALSE, t.event.kind, t.event.relation)) = 1
        /\ \A name \in SourceNames(FALSE) : Cardinality(Dispatchers(TRUE, "insert", name)) = 1
        /\ Len(registered) = Cardinality(fed) + Cardinality(SourceNames(FALSE))

-----------------------------------------------------------------------------
(* Meaning, over small databases of two values.                            *)

Domain == {0, 1}

Weight(row) == FoldLeft(LAMBDA n, v : 2 * n + v, 1, row)

\* Databases: contents that differ from row to row and relation to relation.
SomeRows(seed, row) == ((seed * Weight(row) + seed) % 4) - 1

Database(p) ==
  LET Arity(m) == [1 .. m -> Domain]
      base == [n \in {Sources[i].name : i \in DOMAIN Sources} |->
                 LET s == CHOOSE i \in DOMAIN Sources : Sources[i].name = n
                 IN  [row \in Arity(Len(Sources[s].fields)) |-> SomeRows(s, row)]]
      delta == [n \in {Delta(Sources[i].name) : i \in DOMAIN Sources} |->
                 LET s == CHOOSE i \in DOMAIN Sources : Delta(Sources[i].name) = n
                 IN  [row \in Arity(Len(Sources[s].fields)) |-> SomeRows(s + 2, row)]]
      maps == [n \in {p.maps[i].ref.name : i \in DOMAIN p.maps} |->
                 LET m == CHOOSE i \in DOMAIN p.maps : p.maps[i].ref.name = n
                 IN  [row \in Arity(Len(p.maps[m].ref.keys)) |-> 7]]
  IN  base @@ delta @@ maps

ViewMaps == SubSeq(program.maps, 1, Len(generated.maps))

\* The database with its views computed from their definitions.
Consistent(db) == Materialize(ViewMaps, db, Domain)

SameViews(db, other) == \A i \in DOMAIN ViewMaps : db[ViewMaps[i].ref.name] = other[ViewMaps[i].ref.name]

\* A relation after the batch, or after one tuple comes or goes.
Updated(db, event, tuple) ==
  LET n == event.relation
      Change(row) == CASE event.kind = "batch" -> db[Delta(n)][row]
                       [] event.kind = "insert" -> IF row = tuple THEN 1 ELSE 0
                       [] event.kind = "delete" -> IF row = tuple THEN -1 ELSE 0
  IN  [db EXCEPT ![n] = [row \in DOMAIN @ |-> @[row] + Change(row)]]

\* Run on views that are what their definitions say, an update trigger leaves
\* them what they say after the update.
UpdatesMaintain ==
  LET db == Consistent(Database(program))
      Maintained(t, tuple) ==
        LET scope == EnvOf(t.event.params, tuple)
        IN  SameViews(RunTrigger(t.statements, scope, db, Domain), Consistent(Updated(db, t.event, tuple)))
  IN  \A t \in ToSet(program.triggers) : t.event # Ready =>
        \A tuple \in RowsOver(t.event.params, Domain) : Maintained(t, tuple)

\* Once the tables are loaded, and nothing has come from the streams, the
\* trigger that runs when the system is ready makes the views of tables what
\* their definitions say.
ReadyFillsStaticViews ==
  LET full == Database(program)
      empty == [n \in DOMAIN full |-> IF n \in SourceNames(FALSE) THEN full[n] ELSE [row \in DOMAIN full[n] |-> 0]]
      ready == CHOOSE t \in ToSet(program.triggers) : t.event = Ready
  IN  SameViews(RunTrigger(ready.statements, <<>>, empty, Domain), Consistent(empty))

\* An emitted program keeps its views equal to their definitions from the
\* moment the system is ready on: the statements of a trigger in their order,
\* optimized, the temporary maps computed before they are read and whatever
\* they held, and no variable read that nothing binds.
TriggersMaintain ==
  stage = "done" /\ input.evaluate => ReadyFillsStaticViews /\ UpdatesMaintain

\* The root view is the query: over any group, the definitions of the views
\* give what the SQL text asks for, conditions and all.
QueryAnswered ==
  stage = "done" /\ input.evaluate =>
    LET db == Consistent(Database(program))
        root == program.queries[1]
    IN  /\ ToSet(root.keys) = ToSet(input.query.groupBy)
        /\ \A row \in RowsOver(root.keys, Domain) :
              db[root.name][row] = Answer(input.query, Sources, EnvOf(root.keys, row), db, Domain)
=============================================================================
