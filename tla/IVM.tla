-------------------------------- MODULE IVM --------------------------------
(***************************************************************************)
(* What incremental view maintenance promises: once the tables are loaded, *)
(* the result is the query over the current base relations, and one update *)
(* of a stream moves it in one step to the query over the updated ones.    *)
(***************************************************************************)
EXTENDS CodeGenerator

VARIABLES
  db,       \* the base relations
  result,   \* the query result a reader sees
  serving   \* the system is ready

Init ==
  /\ db = [r \in Relation |-> Zero(Keys[r])]
  /\ result = Zero(FreeVars)
  /\ serving = FALSE

Load ==
  /\ ~serving
  /\ \E r \in Relation \ Streams : \E t \in Row(Keys[r]) :
       db' = [db EXCEPT ![r][t] = @ + 1]
  /\ UNCHANGED <<result, serving>>

Start ==
  /\ ~serving
  /\ serving' = TRUE
  /\ result' = Query(db)
  /\ UNCHANGED db

Update ==
  /\ serving
  /\ \E r \in Streams : /\ db'[r] \in Bag(Keys[r])
                        /\ db' = [db EXCEPT ![r] = db'[r]]
  /\ result' = Query(db')
  /\ UNCHANGED serving

Next == Load \/ Start \/ Update

Spec == Init /\ [][Next]_<<db, result, serving>>
=============================================================================
