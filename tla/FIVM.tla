-------------------------------- MODULE FIVM --------------------------------
(***************************************************************************)
(* The maintenance program CodeGenerator.scala generates, running: tables  *)
(* are loaded, the SYSTEM READY trigger computes the stored static views,  *)
(* then every stream event runs the statements of its trigger one by one,  *)
(* each adding the delta of one stored view.  The order of the three parts *)
(* is that of Application::run.                                            *)
(***************************************************************************)
EXTENDS CodeGenerator

CONSTANTS
  BatchUpdates,  \* Config.batchUpdates: batch or single-tuple triggers
  Rows,          \* [Relation -> SUBSET rows]: the tuples that arrive
  MaxTable,      \* bound on the tuples loaded into tables
  MaxEvents      \* bound on the stream events

ASSUME InputAssumption ==
  /\ \A r \in Relation : Rows[r] \subseteq Row(Keys[r])
  /\ MaxTable \in Nat /\ MaxEvents \in Nat

VARIABLES
  phase,   \* "tables", "ready" or "streams"
  base,    \* the base relations.  Of a stream only the history: it is not stored
  views,   \* the stored views
  event,   \* the event whose trigger is running
  todo,    \* the targets of the trigger's remaining statements
  seen     \* the number of tuples loaded and events delivered

vars == <<phase, base, views, event, todo, seen>>

NoEvent == [rel |-> -1, delta |-> <<>>]

Single(r, t, m) == [Zero(Keys[r]) EXCEPT ![t] = m]

(* EventBatchUpdate: a delta relation over the arriving tuples.            *)
Batches(r) ==
  {[t \in Row(Keys[r]) |-> IF t \in Rows[r] THEN m[t] ELSE 0] :
     m \in [Rows[r] -> {-1, 0, 1}]}

(* EventInsert and EventDelete.                                            *)
Tuples(r) == {Single(r, t, m) : t \in Rows[r], m \in {1, -1}}

Deltas(r) == IF BatchUpdates THEN Batches(r) ELSE Tuples(r)

(* Tree.post_order_traversal and Tree.iterator (pre-order).                *)
PostOrder(m, n) ==
  \/ m # n /\ m \in Subtree[n]
  \/ n \notin Subtree[m] /\ m < n

(* The target of the next statement: those of the SYSTEM READY trigger are *)
(* in post-order, those of an update trigger in pre-order.                 *)
NextToSet == CHOOSE n \in todo : \A m \in todo \ {n} : PostOrder(n, m)

NextToAdd == CHOOSE n \in todo : \A m \in todo : n <= m

Init ==
  /\ phase = "tables"
  /\ base = [r \in Relation |-> Zero(Keys[r])]
  /\ views = [n \in Materialized |-> Zero(View[n].free)]
  /\ event = NoEvent
  /\ todo = {}
  /\ seen = 0

(* process_tables: one tuple of a static table.                            *)
LoadTuple(r) ==
  /\ phase = "tables"
  /\ seen < MaxTable
  /\ \E t \in Rows[r] : base' = [base EXCEPT ![r][t] = @ + 1]
  /\ seen' = seen + 1
  /\ UNCHANGED <<phase, views, event, todo>>

(* process_on_system_ready enters the SYSTEM READY trigger.                *)
SystemReady ==
  /\ phase = "tables"
  /\ phase' = "ready"
  /\ todo' = ReadyTargets
  /\ seen' = 0
  /\ UNCHANGED <<base, views, event>>

(* A statement V := createDefExpr.                                         *)
SetStatement ==
  /\ phase = "ready"
  /\ todo # {}
  /\ views' = [views EXCEPT ![NextToSet] = DefExpr(base, views)[NextToSet]]
  /\ todo' = todo \ {NextToSet}
  /\ UNCHANGED <<phase, base, event, seen>>

ReadyReturn ==
  /\ phase = "ready"
  /\ todo = {}
  /\ phase' = "streams"
  /\ UNCHANGED <<base, views, event, todo, seen>>

(* process_streams delivers a batch or a tuple of a stream to its trigger. *)
Deliver(r) ==
  /\ phase = "streams"
  /\ event = NoEvent
  /\ seen < MaxEvents
  /\ \E delta \in Deltas(r) : event' = [rel |-> r, delta |-> delta]
  /\ todo' = UpdateTargets(r)
  /\ seen' = seen + 1
  /\ UNCHANGED <<phase, base, views>>

(* A statement V += createDeltaExpr(event).                                *)
AddStatement ==
  /\ event # NoEvent
  /\ todo # {}
  /\ views' = [views EXCEPT ![NextToAdd] =
                 Plus(@, DeltaExpr(event.rel, event.delta, base, views)[NextToAdd])]
  /\ todo' = todo \ {NextToAdd}
  /\ UNCHANGED <<phase, base, event, seen>>

TriggerReturn ==
  /\ event # NoEvent
  /\ todo = {}
  /\ base' = [base EXCEPT ![event.rel] = Plus(@, event.delta)]
  /\ event' = NoEvent
  /\ UNCHANGED <<phase, views, todo, seen>>

Next ==
  \/ \E r \in Relation \ Streams : LoadTuple(r)
  \/ SystemReady
  \/ SetStatement
  \/ ReadyReturn
  \/ \E r \in Streams : Deliver(r)
  \/ AddStatement
  \/ TriggerReturn

Spec == Init /\ [][Next]_vars

-----------------------------------------------------------------------------

(* Types of the program's state.                                           *)
TypeOK ==
  /\ phase \in {"tables", "ready", "streams"}
  /\ \A r \in Relation : base[r] \in Bag(Keys[r])
  /\ DOMAIN views = Materialized
  /\ \A n \in Materialized : views[n] \in Bag(View[n].free)
  /\ \/ event = NoEvent
     \/ event.rel \in Streams /\ event.delta \in Bag(Keys[event.rel])
  /\ todo \subseteq Materialized
  /\ seen \in 0..(MaxTable + MaxEvents)

(* A stored view reflects the running event once its statement has run.    *)
Applied(n) == event # NoEvent /\ n \notin todo /\ n \in UpdateTargets(event.rel)

AfterEvent == IF event = NoEvent THEN base ELSE [base EXCEPT ![event.rel] = Plus(@, event.delta)]

(* Every stored view, inner ones included, is at every point of a trigger  *)
(* either its definition over the relations before the event or, once its  *)
(* statement has run, over those after it: a delta never misses or counts  *)
(* twice a change made by another statement of the same trigger.           *)
ViewsMatchBase ==
  phase = "streams" =>
    LET before == Recompute(base)
        after  == Recompute(AfterEvent)
    IN  \A n \in Materialized : views[n] = IF Applied(n) THEN after[n] ELSE before[n]

(* The statements of one trigger do not feed each other: what the delta of *)
(* a view reads is stored, and no statement of the trigger writes it.      *)
StatementsIndependent ==
  event # NoEvent =>
    \A n \in todo :
      /\ DeltaReads(n, event.rel) \subseteq Materialized
      /\ DeltaReads(n, event.rel) \cap UpdateTargets(event.rel) = {}

(* The root view is the answer to the SQL query whenever no trigger runs.  *)
RootAnswersQuery ==
  phase = "streams" /\ event = NoEvent => views[Root] = Query(base)

(* The program implements incremental view maintenance: a reader of the    *)
(* root view sees each event take effect at once, in the step of the root  *)
(* statement, which is the first of its trigger.                           *)
Promise ==
  INSTANCE IVM WITH
    db <- IF Applied(Root) THEN AfterEvent ELSE base,
    result <- IF phase = "streams" THEN views[Root] ELSE Zero(FreeVars),
    serving <- phase = "streams"

ImplementsIVM == Promise!Spec
=============================================================================
