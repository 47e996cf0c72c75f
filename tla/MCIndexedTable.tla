--------------------------- MODULE MCIndexedTable ---------------------------
(***************************************************************************)
(* Four keys in one slice or three in two, colliding hashes of keys and of *)
(* slices, and updates that move a row past its neighbours in the order.   *)
(* Two or three keys, in slices whose hashes collide or differ, under two  *)
(* secondary indexes of different kinds.                                   *)
(***************************************************************************)
EXTENDS IndexedTable

MCKeyHash == <<0, 2, 1, 0>>
MCGrpHash == [a |-> 1, b |-> 1, c |-> 2]

Row(k, g, v) == [key |-> k, grp |-> g, ord |-> v]

\* In a slice no two rows have equal ord.
Sliced == {Row(k, g, k) : k \in 1..3, g \in {"a", "b"}}
Sorted == {Row(k, "a", 2 * k) : k \in 1..4} \cup {Row(1, "a", 7)}
Moving == {Row(1, g, v) : g \in {"a", "c"}, v \in {3, 7}} \cup {Row(2, "a", 4), Row(2, "b", 4)}

Table(indexes, slicedBy, rows, linksCopied) ==
  [indexes |-> indexes, slicedBy |-> slicedBy, rows |-> rows, linksCopied |-> linksCopied]

MCTables ==
  {Table(<<kind>>, {1}, Sliced, FALSE) : kind \in {"slices", "list"}}
    \cup {Table(<<kind>>, {}, Sorted, FALSE) : kind \in Ordered}
    \cup {Table(<<>>, {0}, Sliced, FALSE), Table(<<"array">>, {}, Sliced, FALSE)}
    \cup {Table(<<first, second>>, {}, Moving, copied) :
             first \in {"slices"} \cup Ordered, second \in {"slices", "list", "array"},
             copied \in BOOLEAN}
    \cup {Table(<<"slices", kind>>, {1}, Moving, FALSE) : kind \in Ordered}
=============================================================================
