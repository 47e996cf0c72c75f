--------------------------- MODULE MCMultiHashMap ---------------------------
(***************************************************************************)
(* One of two tables: the map of backend/lib/mmap.hpp, or either version   *)
(* of that of mmap1.hpp.  Of four keys three are in one slice, two have    *)
(* equal hashes, a third falls into their bucket in small tables, and the  *)
(* slices have equal hashes.  The table of mmap1.hpp, whose free lists     *)
(* remember every order of removal, has three of the keys.                 *)
(***************************************************************************)
EXTENDS MultiHashMap

VARIABLES
  subject,  \* which table there is: "mmap" or "mmap1"
  useOldMap, destroyed, severed, pool, elements, first, main, slices, tableCall

MCKey == {"a1", "a2", "a3", "b1"}
MCSlice == [a1 |-> "a", a2 |-> "a", a3 |-> "a", b1 |-> "b"]
MCHash == [a1 |-> 0, a2 |-> 2, a3 |-> 1, b1 |-> 0]
MCSliceHash == [a |-> 1, b |-> 1]

MCOperand == {-1, 0, 1}

Table == INSTANCE PooledTable WITH Key <- MCKey \ {"a3"}, entries <- elements,
           head <- first, call <- tableCall

tableVars == <<useOldMap, destroyed, severed, pool, elements, first, main, slices, tableCall>>

MCInit == subject \in {"mmap", "mmap1"} /\ Init /\ Table!Init

MCNext ==
  \/ subject = "mmap" /\ Next /\ UNCHANGED <<subject, tableVars>>
  \/ subject = "mmap1" /\ Table!Next /\ UNCHANGED <<subject, vars>>

MCSpec == MCInit /\ [][MCNext]_<<subject, vars, tableVars>>

(* The last calls are history: they tell no two states apart.              *)
MCView ==
  <<subject, entries, head, primary, secondary,
    useOldMap, destroyed, severed, pool, elements, first, main, slices>>

(* Values decide only whether an entry stays: in a full enough table there *)
(* are no others than 1, with the operand that brings a value back to 0.   *)
MostlyOne ==
  \A contents \in {entries, elements} :
    LET others == {o \in DOMAIN contents : contents[o].val # 1}
    IN  Cardinality(others) <= (IF Cardinality(DOMAIN contents) <= 2 THEN 1 ELSE 0)

(* The properties of the table of mmap1.hpp, in both versions.  What the   *)
(* list and the indexes hold is the entries, and every element of the      *)
(* pools is free or held by just one of them.                              *)
TableIntact == Table!ListAndIndexesAgree /\ Table!ElementsAccounted

TableImplementsKeyedStore == Table!ImplementsKeyedStore
=============================================================================
