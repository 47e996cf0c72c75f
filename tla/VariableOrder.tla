--------------------------- MODULE VariableOrder ----------------------------
(***************************************************************************)
(* The scripts that write the d-tree file of a query.  A query gives the   *)
(* order of its join variables as a tree; every relation in turn hangs its *)
(* other variables below the last join variable it reaches, the free ones  *)
(* first.  A tree is a sequence of nodes in the order of their creation;   *)
(* parent is an index, 0 for the root, which comes first.                  *)
(***************************************************************************)
EXTENDS Integers, Sequences, FiniteSets, SequencesExt, TLC

OrderNode(name, type, parent) == [name |-> name, type |-> type, parent |-> parent]
Column(name, type) == [name |-> name, type |-> type]
ScriptRelation(name, columns) == [name |-> name, columns |-> columns]

\* A tree of join variables from a function of child names to parent names,
\* the root (whose parent is "") first.
JoinVariables(links) ==
  LET Index(name) == IF name = "" THEN 0 ELSE CHOOSE i \in DOMAIN links : links[i][1] = name
  IN  [i \in DOMAIN links |-> OrderNode(links[i][1], "int", Index(links[i][2]))]

ColumnNames(r) == {r.columns[i].name : i \in DOMAIN r.columns}
ColumnType(r, name) == r.columns[CHOOSE i \in DOMAIN r.columns : r.columns[i].name = name].type

-----------------------------------------------------------------------------
OrderChildren(t, i) == SelectSeq([j \in DOMAIN t |-> j], LAMBDA j : t[j].parent = i)

RECURSIVE ChildVariables(_, _)
ChildVariables(t, i) ==
  UNION {{t[c].name} \cup ChildVariables(t, c) : c \in ToSet(OrderChildren(t, i))}

RECURSIVE Path(_, _)
Path(t, i) == IF i = 0 THEN <<>> ELSE Append(Path(t, t[i].parent), i)

VariablesOnPath(t, i) == {t[k].name : k \in ToSet(Path(t, i))}

\* The walk of generate_txt: down the first child that leads to variables of r.
RECURSIVE LastReached(_, _, _)
LastReached(t, i, r) ==
  LET cs == OrderChildren(t, i)
      Leads(c) == (ChildVariables(t, c) \cup {t[c].name}) \cap ColumnNames(r) # {}
  IN  IF ChildVariables(t, i) \cap ColumnNames(r) = {} THEN i
      ELSE LastReached(t, cs[SelectInSeq(cs, Leads)], r)

\* Seeded bug: variables that are already above are added again.
ToAddAgain(t, i, r) == ColumnNames(r) \ {t[i].name}

ToAdd(t, i, r) == ColumnNames(r) \ VariablesOnPath(t, i)

RECURSIVE Orderings(_)
Orderings(S) == IF S = {} THEN {<<>>} ELSE UNION {{<<x>> \o o : o \in Orderings(S \ {x})} : x \in S}

\* The orders in which the set of variables to add may be visited, the free
\* variables before the others.
Visits(names, free) == {f \o b : f \in Orderings(names \cap free), b \in Orderings(names \ free)}

\* A chain of new nodes below node i.
Chain(t, i, names, r) ==
  t \o [k \in DOMAIN names |->
          OrderNode(names[k], ColumnType(r, names[k]), IF k = 1 THEN i ELSE Len(t) + k - 1)]

\* Seeded bug: one node too far.
LastVariableAfter(t, i, names) == Len(t) + Len(names) + 1

LastVariable(t, i, names) == IF names = <<>> THEN i ELSE Len(t) + Len(names)

-----------------------------------------------------------------------------
(* set_id and generate_config: the file.                                   *)

RECURSIVE InPreOrder(_, _)
InPreOrder(t, i) ==
  LET cs == OrderChildren(t, i)
  IN  <<i>> \o FlattenSeq([c \in DOMAIN cs |-> InPreOrder(t, cs[c])])

\* set_id: nodes are numbered in pre-order; the root has no parent.
IdOf(numbered, i) == IF i = 0 THEN -1 ELSE SelectInSeq(numbered, LAMBDA j : j = i) - 1

MapDataType(type) ==
  CASE type \in {"INT", "int"} -> "int"
    [] type \in {"VARCHAR", "CHAR"} -> "string"
    [] type \in {"FLOAT", "DECIMAL"} -> "double"
    [] OTHER -> "None"

\* The keys of a variable are all variables above it.
GenerateConfig(t) ==
  LET numbered == InPreOrder(t, 1)
  IN  [k \in DOMAIN t |->
         LET node == t[numbered[k]]
             above == Path(t, node.parent)
         IN  [id |-> k - 1, name |-> node.name, tp |-> MapDataType(node.type), parent |-> IdOf(numbered, node.parent),
              keys |-> [a \in DOMAIN above |-> IdOf(numbered, above[a])]]]

GenerateTxt(t, relations, last) ==
  [variables |-> GenerateConfig(t),
   relations |-> [k \in DOMAIN relations |->
     [name |-> relations[k].name, parent |-> IdOf(InPreOrder(t, 1), last[k]),
      keys |-> [c \in DOMAIN relations[k].columns |-> relations[k].columns[c].name]]]]

\* The declarations of generate_relation_sql_text, as the SQL parser reads them.
SqlType(type) ==
  CASE type \in {"INT", "int"} -> "int"
    [] type \in {"VARCHAR", "CHAR", "string"} -> "string"
    [] type \in {"DECIMAL", "double"} -> "double"
    [] type = "FLOAT" -> "float"
    [] OTHER -> type

GenerateRelation(r) ==
  [name |-> r.name, stream |-> TRUE,
   fields |-> [c \in DOMAIN r.columns |-> [name |-> r.columns[c].name, tp |-> SqlType(r.columns[c].type)]]]

\* The relations of the application header that goes with a query.
GenerateApplication(relations) == [k \in DOMAIN relations |-> relations[k].name]

-----------------------------------------------------------------------------
(***************************************************************************)
(* The orders the scripts of the experiments are run with: for each query  *)
(* the tree of its join variables, its relations and its free variables.   *)
(* Of the columns of a relation that neither are join variables nor free   *)
(* in any query, the first stands for all.                                 *)
(***************************************************************************)

Order(links, relations, free) == [root |-> JoinVariables(links), relations |-> relations, free |-> free]

SchemaType(column) ==
  CASE column \in {"price", "ps_supplycost", "l_quantity", "o_totalprice"} -> "double"
    [] column = "o_orderstatus" -> "char"
    [] column \in {"c_address", "c_name", "n_comment", "n_name",
                   "o_orderdate", "p_mfgr", "p_name", "ps_comment", "r_comment", "r_name", "s_address", "s_name"} -> "string"
    [] OTHER -> "int"

Listed(name, columns) == ScriptRelation(name, [i \in DOMAIN columns |-> Column(columns[i], SchemaType(columns[i]))])

-----------------------------------------------------------------------------
(* The retailer and TPC-H queries of generate_vo_files_backup.py.          *)

Inventory == Listed("INVENTORY", <<"locn", "dateid", "ksn", "inventoryunits">>)
Location == Listed("LOCATION", <<"locn", "zip", "rgn_cd">>)
Census == Listed("CENSUS", <<"zip", "population">>)
Item == Listed("ITEM", <<"ksn", "category", "subcategory">>)
Weather == Listed("WEATHER", <<"locn", "dateid", "rain", "snow", "maxtemp">>)
Retailer1Q2 == Listed("Q2", <<"ksn", "locn", "dateid", "zip", "rain", "maxtemp">>)
Retailer3Q2 == Listed("R3Q2", <<"ksn", "locn", "dateid", "price", "category">>)
Supplier == Listed("SUPPLIER", <<"suppkey", "s_name", "s_address", "s_nationkey">>)
PartSupp == Listed("PARTSUPP", <<"partkey", "suppkey", "ps_availqty", "ps_supplycost", "ps_comment">>)
Lineitem == Listed("LINEITEM", <<"orderkey", "partkey", "suppkey", "l_quantity", "l_linenumber">>)
Part == Listed("PART", <<"partkey", "p_name", "p_mfgr">>)
Orders == Listed("ORDERS", <<"orderkey", "custkey", "o_orderstatus", "o_totalprice", "o_orderdate">>)
TPCH1Q2 == Listed("Q2", <<"orderkey", "partkey", "suppkey", "l_quantity", "o_totalprice">>)
Customer == Listed("CUSTOMER", <<"custkey", "c_name", "nationkey", "c_address">>)
Nation == Listed("NATION", <<"nationkey", "n_name", "regionkey", "n_comment">>)
Region == Listed("REGION", <<"regionkey", "r_name", "r_comment">>)

RetailerAll ==
  Order(<< <<"locn", "">>, <<"dateid", "locn">>, <<"ksn", "dateid">>, <<"zip", "locn">> >>,
        <<Inventory, Location, Census, Item, Weather>>, {"category", "dateid", "ksn", "locn", "snow", "zip"})
Retailer3 ==
  Order(<< <<"ksn", "">> >>,
        <<Item, Inventory>>, {"category", "dateid", "ksn", "locn", "price"})
Retailer4Q1a ==
  Order(<< <<"ksn", "">>, <<"locn", "ksn">> >>,
        <<Item, Inventory, Location>>, {"category", "ksn", "locn", "zip"})
Retailer4Q1b ==
  Order(<< <<"locn", "">>, <<"ksn", "locn">> >>,
        <<Item, Inventory, Location>>, {"category", "ksn", "locn", "zip"})
Retailer4Q2 ==
  Order(<< <<"ksn", "">> >>,
        <<Item, Inventory>>, {"category", "ksn", "locn", "price"})
Retailer1Q1b ==
  Order(<< <<"ksn", "">>, <<"locn", "ksn">>, <<"dateid", "locn">> >>,
        <<Item, Inventory, Location, Weather>>, {"category", "ksn", "locn", "price"})
Retailer1Q1c ==
  Order(<< <<"ksn", "">> >>,
        <<Item, Retailer1Q2>>, {"category", "dateid", "ksn", "locn", "rain", "zip"})
Retailer3Q1c ==
  Order(<< <<"locn", "">>, <<"dateid", "locn">> >>,
        <<Retailer3Q2, Weather, Location>>, {"category", "dateid", "ksn", "locn", "rain", "zip"})
TPCH3Q2 ==
  Order(<< <<"suppkey", "">>, <<"partkey", "suppkey">> >>,
        <<Supplier, PartSupp, Lineitem>>,
        {"l_quantity", "partkey", "ps_availqty", "ps_supplycost", "s_name", "suppkey"})
TPCH1Q1b ==
  Order(<< <<"partkey", "">>, <<"suppkey", "partkey">>, <<"orderkey", "suppkey">> >>,
        <<Part, PartSupp, Lineitem, Orders>>,
        {"l_quantity", "o_totalprice", "orderkey", "p_name", "partkey", "ps_availqty", "suppkey"})
TPCH1Q1c ==
  Order(<< <<"partkey", "">>, <<"suppkey", "partkey">> >>,
        <<Part, PartSupp, TPCH1Q2>>,
        {"l_quantity", "o_totalprice", "orderkey", "p_name", "partkey", "ps_availqty", "suppkey"})
TPCH4Q3 ==
  Order(<< <<"custkey", "">> >>,
        <<Customer, Orders>>, {"custkey", "nationkey", "orderkey"})
TPCH5Q1 ==
  Order(<< <<"suppkey", "">>, <<"partkey", "suppkey">>, <<"nationkey", "suppkey">> >>,
        <<Nation, Supplier, Customer, Part, PartSupp>>,
        {"n_name", "nationkey", "p_name", "partkey", "ps_availqty", "s_name", "suppkey"})
TPCH5Q2 ==
  Order(<< <<"nationkey", "">> >>,
        <<Nation, Supplier, Customer>>, {"custkey", "n_name", "nationkey", "s_address", "s_name", "suppkey"})
TPCH5Q3 ==
  Order(<< <<"partkey", "">> >>,
        <<Part, PartSupp>>, {"p_name", "partkey", "ps_availqty", "suppkey"})
RetailerAggrQ1 ==
  Order(<< <<"ksn", "">> >>,
        <<Inventory>>, {"ksn"})
TPCH3Q3 ==
  Order(<< <<"suppkey", "">> >>,
        <<Supplier, PartSupp>>, {"ps_availqty", "ps_supplycost", "s_name", "suppkey"})
TPCH7Q1 ==
  Order(<< <<"regionkey", "">> >>,
        <<Nation, Region>>, {"n_comment", "n_name", "nationkey", "r_comment", "r_name", "regionkey"})
TPCH7Q2 ==
  Order(<< <<"nationkey", "">>, <<"regionkey", "nationkey">> >>,
        <<Nation, Region, Customer>>,
        {"c_name", "custkey", "n_comment", "n_name", "nationkey", "r_comment", "r_name", "regionkey"})
TPCH7Q3 ==
  Order(<< <<"custkey", "">>, <<"nationkey", "custkey">>, <<"regionkey", "nationkey">> >>,
        <<Nation, Region, Customer, Orders>>,
        {"c_name", "custkey", "n_comment", "n_name", "nationkey", "o_orderstatus", "orderkey", "r_comment", "r_name",
         "regionkey"})
TPCH7Q4 ==
  Order(<< <<"orderkey", "">>, <<"custkey", "orderkey">>, <<"nationkey", "custkey">>, <<"regionkey", "nationkey">> >>,
        <<Nation, Region, Customer, Orders, Lineitem>>,
        {"c_name", "custkey", "l_quantity", "n_comment", "n_name", "nationkey", "o_orderstatus", "orderkey",
         "partkey", "r_comment", "r_name", "regionkey", "suppkey"})
TPCH7Q5 ==
  Order(<< <<"orderkey", "">>, <<"partkey", "orderkey">>, <<"custkey", "orderkey">>,
           <<"nationkey", "custkey">>, <<"regionkey", "nationkey">> >>,
        <<Nation, Region, Customer, Orders, Lineitem, PartSupp, Part>>,
        {"c_name", "custkey", "l_quantity", "n_comment", "n_name", "nationkey", "o_orderstatus", "orderkey",
         "p_name", "partkey", "ps_avalqty", "r_comment", "r_name", "regionkey", "suppkey"})
TPCH7Q6 ==
  Order(<< <<"orderkey", "">>, <<"partkey", "orderkey">>, <<"custkey", "orderkey">>,
           <<"nationkey", "custkey">>, <<"regionkey", "nationkey">> >>,
        <<Nation, Region, Customer, Orders, Lineitem, PartSupp, Part>>,
        {"c_name", "custkey", "l_quantity", "n_comment", "n_name", "nationkey", "o_orderstatus", "orderkey",
         "p_name", "partkey", "ps_avalqty", "r_comment", "r_name", "regionkey", "suppkey"})
TPCH7Q7 ==
  Order(<< <<"orderkey", "">>, <<"partkey", "orderkey">>, <<"suppkey", "partkey">>, <<"custkey", "orderkey">>,
           <<"nationkey", "custkey">>, <<"regionkey", "nationkey">> >>,
        <<Nation, Region, Customer, Orders, Lineitem, PartSupp, Part, Supplier>>,
        {"c_name", "custkey", "l_quantity", "n_comment", "n_name", "nationkey", "o_orderstatus", "orderkey",
         "p_name", "partkey", "ps_avalqty", "r_comment", "r_name", "regionkey", "s_name", "suppkey"})
TPCH8Q1 ==
  Order(<< <<"suppkey", "">>, <<"partkey", "suppkey">> >>,
        <<PartSupp, Lineitem>>, {"l_quantity", "orderkey", "partkey", "ps_avalqty", "suppkey"})
TPCH8Q2 ==
  Order(<< <<"custkey", "">> >>,
        <<Orders, Customer>>, {"c_name", "custkey", "o_orderstatus", "orderkey"})
TPCH8Q3 ==
  Order(<< <<"orderkey", "">>, <<"partkey", "orderkey">>, <<"suppkey", "partkey">> >>,
        <<PartSupp, Lineitem, Orders>>,
        {"custkey", "l_quantity", "o_orderstatus", "orderkey", "partkey", "ps_avalqty", "suppkey"})
TPCH8Q4 ==
  Order(<< <<"suppkey", "">>, <<"partkey", "suppkey">> >>,
        <<PartSupp, Lineitem, Part>>, {"l_quantity", "orderkey", "p_name", "partkey", "ps_avalqty", "suppkey"})
TPCH8Q5 ==
  Order(<< <<"orderkey", "">>, <<"partkey", "orderkey">>, <<"suppkey", "partkey">>, <<"custkey", "orderkey">> >>,
        <<PartSupp, Lineitem, Orders, Customer>>,
        {"c_name", "custkey", "l_quantity", "o_orderstatus", "orderkey", "partkey", "ps_avalqty", "suppkey"})
TPCH8Q6 ==
  Order(<< <<"orderkey", "">>, <<"partkey", "orderkey">>, <<"suppkey", "partkey">>, <<"custkey", "orderkey">> >>,
        <<PartSupp, Lineitem, Orders, Customer, Part>>,
        {"c_name", "custkey", "l_quantity", "o_orderstatus", "orderkey", "p_name", "partkey", "ps_avalqty",
         "suppkey"})
TPCH8Q7 ==
  Order(<< <<"orderkey", "">>, <<"partkey", "orderkey">>, <<"suppkey", "partkey">>, <<"custkey", "orderkey">> >>,
        <<PartSupp, Lineitem, Orders, Customer, Part, Supplier>>,
        {"c_name", "custkey", "l_quantity", "o_orderstatus", "orderkey", "p_name", "partkey", "ps_avalqty", "s_name",
         "suppkey"})

-----------------------------------------------------------------------------
(* The Join Order Benchmark.                                               *)

Title == ScriptRelation("TITLE", << Column("movie_id", "INT"), Column("t_title", "VARCHAR"), Column("t_production_year", "INT") >>)
CompanyType == ScriptRelation("COMPANY_TYPE", << Column("company_type_id", "INT"), Column("ct_kind", "VARCHAR") >>)
InfoType == ScriptRelation("INFO_TYPE", << Column("info_type_id", "INT"), Column("it_info", "VARCHAR") >>)
MovieCompanies == ScriptRelation("MOVIE_COMPANIES",
  << Column("movie_id", "INT"), Column("company_id", "INT"), Column("company_type_id", "INT"), Column("mc_note", "VARCHAR") >>)
MovieInfoIdx == ScriptRelation("MOVIE_INFO_IDX",
  << Column("movie_id", "INT"), Column("info_type_id", "INT"), Column("mii_info", "VARCHAR") >>)

JobsQuery0 == Order(<< <<"movie_id", "">>, <<"company_id", "movie_id">> >>, <<Title, MovieCompanies>>, {})
JobsQuery1 ==
  Order(<< <<"movie_id", "">>, <<"company_id", "movie_id">>, <<"company_type_id", "company_id">>, <<"info_type_id", "movie_id">> >>,
        <<Title, CompanyType, InfoType, MovieCompanies, MovieInfoIdx>>, {})

-----------------------------------------------------------------------------
(* Paths of n relations over A1 .. An+1.                                   *)

Attribute(i) == "A" \o ToString(i)

RECURSIVE ConstructBalanced(_, _, _)
ConstructBalanced(first, end, parent) ==
  LET m == first + (end + 1 - first) \div 2
  IN  IF end < first THEN <<>>
      ELSE << <<Attribute(m), parent>> >> \o ConstructBalanced(first, m - 1, Attribute(m))
           \o ConstructBalanced(m + 1, end, Attribute(m))

ConstructLeftDeep(n) == [i \in 1 .. n |-> <<Attribute(i), IF i = 1 THEN "" ELSE Attribute(i - 1)>>]

PathRelation(i) ==
  ScriptRelation("R" \o ToString(i), <<Column(Attribute(i), "int"), Column(Attribute(i + 1), "int")>>)

PathOrder(n, links) == Order(links, [i \in 1 .. n |-> PathRelation(i)], {Attribute(i) : i \in 1 .. n})
PathBalanced(n) == PathOrder(n, ConstructBalanced(1, n + 1, ""))
PathLeftDeep(n) == PathOrder(n, ConstructLeftDeep(n + 1))
=============================================================================
