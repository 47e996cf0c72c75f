--------------------------- MODULE MCFactorizedJoin ---------------------------
(***************************************************************************)
(* Small databases for the queries of FactorizedQueries.                   *)
(***************************************************************************)
EXTENDS FactorizedJoin

P(n) == [postcode |-> n]

HousingRows == [
  House |-> {RowOf("House", P(1), "h1"), RowOf("House", P(1), "h2")},
  Shop |-> {RowOf("Shop", P(1), "s1"), RowOf("Shop", P(2), "s1")},
  Institution |-> {RowOf("Institution", P(1), "i1")},
  Restaurant |-> {RowOf("Restaurant", P(1), "r1")},
  Demographics |-> {RowOf("Demographics", P(1), "d1")},
  Transport |-> {RowOf("Transport", P(1), "t1")}]

RetailerRows == [
  Inventory |-> {RowOf("Inventory", [locn |-> 1, dateid |-> 1, ksn |-> k], "u1") : k \in 1..2},
  Item |-> {RowOf("Item", [ksn |-> k], "i1") : k \in 1..2},
  Weather |-> {RowOf("Weather", [locn |-> 1, dateid |-> 1], "w1")},
  Location |-> {RowOf("Location", [locn |-> 1, zip |-> 1], "l1")},
  Census |-> {RowOf("Census", [zip |-> 1], c) : c \in {"c1", "c2"}}]

L(o, p, s) == [orderkey |-> o, partkey |-> p, suppkey |-> s]

FQ1Rows == [
  Lineitem |-> {RowOf("Lineitem", L(1, 1, 1), "l1"), RowOf("Lineitem", L(2, 1, 2), "l1")},
  Partsupp |-> {RowOf("Partsupp", [partkey |-> 1, suppkey |-> s], "ps1") : s \in 1..2},
  Part |-> {RowOf("Part", [partkey |-> 1], "p1")},
  Orders |-> {RowOf("Orders", [orderkey |-> 1], "o1")}]

FQ2Rows == [
  Lineitem |-> {RowOf("Lineitem", [orderkey |-> 1, partkey |-> p], "l1") : p \in 1..2},
  Part |-> {RowOf("Part", [partkey |-> 1], "p1")},
  Customer |-> {RowOf("Customer", [custkey |-> 1, nationkey |-> n], "c1") : n \in 1..2},
  Nation |-> {RowOf("Nation", [nationkey |-> 1], "n1")},
  Orders |-> {RowOf("Orders", [orderkey |-> 1, custkey |-> 1], "o1")}]

FQ3Rows == [
  Lineitem |-> {RowOf("Lineitem", L(1, 1, 1), "l1"), RowOf("Lineitem", L(1, 1, 2), "l1")},
  Partsupp |-> {RowOf("Partsupp", [partkey |-> 1, suppkey |-> 1], "ps1")},
  Supplier |-> {RowOf("Supplier", [suppkey |-> 1], "s1")},
  Customer |-> {RowOf("Customer", [custkey |-> 3], "c1")},
  Orders |-> {RowOf("Orders", [orderkey |-> 1, custkey |-> c], "o1") : c \in 3..4}]

FQ4Rows == [
  Lineitem |-> {RowOf("Lineitem", [partkey |-> 1, suppkey |-> 1], l) : l \in {"l1", "l2"}},
  Partsupp |-> {RowOf("Partsupp", [partkey |-> p, suppkey |-> 1], "ps1") : p \in 1..2},
  Supplier |-> {RowOf("Supplier", [suppkey |-> 1], "s1")}]

AllQueries == {"housing", "retailer", "FQ1", "FQ2", "FQ3", "FQ4"}

Pick(q, housing, retailer, fq1, fq2, fq3, fq4) ==
  CASE q = "housing" -> housing [] q = "retailer" -> retailer [] q = "FQ1" -> fq1
    [] q = "FQ2" -> fq2 [] q = "FQ3" -> fq3 [] OTHER -> fq4

Trees == [q \in AllQueries |->
  Pick(q, HousingTree, RetailerTree, FQ1Tree, FQ2Tree, FQ3Tree, FQ4Tree)]
Plans == [q \in AllQueries |->
  Pick(q, HousingPlan, RetailerPlan, FQ1Plan, FQ2Plan, FQ3Plan, FQ4Plan)]
Databases == [q \in AllQueries |->
  Pick(q, HousingRows, RetailerRows, FQ1Rows, FQ2Rows, FQ3Rows, FQ4Rows)]

(* Two copies where the multiplicities of two relations meet.  The items   *)
(* of the retailer have a key: one row for a ksn.                          *)
Twice == {"House", "Shop", "Inventory", "Location", "Lineitem", "Orders", "Customer"}
Bounds == [q \in AllQueries |->
  [r \in DOMAIN Databases[q] |-> IF r \in Twice THEN 2 ELSE 1]]
=============================================================================
