---------------------------- MODULE MCMemoryPool ----------------------------
(***************************************************************************)
(* Memory that is used again.  Either three containers that come and go    *)
(* and a pool of small chunks: of 1, 3 and, capped, 3 usable slots.  Or    *)
(* three strings of one of the types, with texts shorter than, as long as  *)
(* and longer than a fixed one, and counters from chunks of 1 and 2.       *)
(***************************************************************************)
EXTENDS MemoryPool, SharedStrings, TLC

CONSTANTS c1, c2, c3

VARIABLE subject  \* "pool" or "strings"

MCContainer == {c1, c2, c3}

Symmetric == Permutations(MCContainer)

MCString == {"x", "y", "z"}

MCText == {<<>>, <<1>>, <<1, 2>>}

MCInit == subject \in {"pool", "strings"} /\ Init /\ StringInit

MCNext ==
  \/ subject = "pool" /\ Next /\ UNCHANGED <<subject, stringVars>>
  \/ subject = "strings" /\ StringNext /\ UNCHANGED <<subject, vars>>

MCSpec == MCInit /\ [][MCNext]_<<subject, vars, stringVars>>
=============================================================================
