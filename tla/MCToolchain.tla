---------------------------- MODULE MCToolchain ----------------------------
(***************************************************************************)
(* Instances of Toolchain: the queries the repository ships, in both       *)
(* modes, queries and trees the front end has to refuse, and small ones of *)
(* the supported format that exercise the optimizer.  Where a shipped      *)
(* d-tree has a chain of attributes of one relation that no expression     *)
(* tells apart, the instance keeps the first of them; dates and other      *)
(* literals are small numbers.                                             *)
(***************************************************************************)
EXTENDS Toolchain

Source(name, stream, columns) ==
  [name |-> name, stream |-> stream,
   fields |-> [i \in DOMAIN columns |-> [name |-> columns[i][1], tp |-> columns[i][2]]]]
Stream(name, columns) == Source(name, TRUE, columns)
Table(name, columns) == Source(name, FALSE, columns)

\* Variables are <<name, type, parent id, key ids>>, their own ids counted from 0.
DTreeFile(variables, relations) ==
  [variables |-> [i \in DOMAIN variables |->
     [id |-> i - 1, name |-> variables[i][1], tp |-> variables[i][2], parent |-> variables[i][3], keys |-> variables[i][4]]],
   relations |-> [i \in DOMAIN relations |->
     [name |-> relations[i][1], parent |-> relations[i][2], keys |-> relations[i][3]]]]

Field(name) == Sql("field", name, NoType, <<>>)
Literal(type, v) == [Sql("const", "", Basic(type), <<>>) EXCEPT !.value = v]
Binary(op, l, r) == Sql(op, "", NoType, <<l, r>>)
Times(es) == FoldLeft(LAMBDA l, r : Binary("mul", l, r), Head(es), Tail(es))
All(es) == FoldLeft(LAMBDA l, r : Binary("and", l, r), Head(es), Tail(es))
Date(v) == Sql("apply", "date", Basic("date"), <<Literal("string", v)>>)
Lifted(f, targs, tp, names) ==
  [Sql("apply", f, tp, [i \in DOMAIN names |-> Field(names[i])]) EXCEPT !.targs = targs]

Named == [form |-> "named", join |-> "natural"]

Select(sum, where, groupBy, sources) ==
  [distinct |-> FALSE, tables |-> <<[i \in DOMAIN sources |-> Named]>>,
   columns |-> [i \in DOMAIN groupBy |-> Field(groupBy[i])] \o <<Sql("sum", "", NoType, <<sum>>)>>,
   where |-> where, groupBy |-> groupBy, having |-> <<>>, orderBy |-> <<>>]

NoScript == [root |-> <<>>, relations |-> <<>>, free |-> {}]
NoFile == [variables |-> <<>>, relations |-> <<>>]

FromFile(kind, evaluate, app, f, sources, q) ==
  [kind |-> kind, evaluate |-> evaluate, app |-> app, script |-> NoScript, file |-> f, sources |-> sources, query |-> q]

-----------------------------------------------------------------------------
(* queries/simple.                                                         *)

RstFile == DTreeFile(
  << <<"A", "int", -1, <<>> >>, <<"B", "float", 0, <<0>> >>, <<"C", "int", 0, <<0>> >>,
     <<"D", "float", 2, <<2>> >>, <<"E", "float", 2, <<0, 2>> >>, <<"extra", "int", 4, <<0, 2, 4>> >> >>,
  << <<"R", 1, <<"A", "B">> >>, <<"T", 3, <<"C", "D">> >>, <<"S", 5, <<"A", "C", "E", "extra">> >> >>)
RstSources == << Stream("R", << <<"A", "int">>, <<"B", "float">> >>),
                 Table("S", << <<"A", "int">>, <<"C", "int">>, <<"E", "float">>, <<"extra", "int">> >>),
                 Stream("T", << <<"C", "int">>, <<"D", "float">> >>) >>
Rst(sum) == FromFile("shipped", TRUE, Simple, RstFile, RstSources, Select(sum, <<>>, <<>>, RstSources))
RstSum == Rst(Times(<<Field("A"), Field("B"), Field("C"), Field("D")>>))
RstComplex == Rst(Times(<<Binary("add", Field("A"), Times(<<Field("B"), Field("extra")>>)), Field("B"), Field("D")>>))

-----------------------------------------------------------------------------
(* queries/retailer and queries/favorita.                                  *)

RetailerFile == DTreeFile(
  << <<"locn", "int", -1, <<>> >>, <<"dateid", "int", 0, <<0>> >>, <<"ksn", "int", 1, <<0, 1>> >>,
     <<"inventoryunits", "int", 2, <<0, 1, 2>> >>, <<"zip", "int", 0, <<0>> >>,
     <<"rgn_cd", "int", 4, <<0, 4>> >>, <<"population", "int", 4, <<4>> >>,
     <<"subcategory", "byte", 2, <<2>> >>, <<"prize", "double", 7, <<2, 7>> >>,
     <<"rain", "byte", 1, <<0, 1>> >>, <<"maxtemp", "int", 9, <<0, 1, 9>> >> >>,
  << <<"INVENTORY", 3, <<"locn", "dateid", "ksn", "inventoryunits">> >>,
     <<"LOCATION", 5, <<"locn", "zip", "rgn_cd">> >>, <<"CENSUS", 6, <<"zip", "population">> >>,
     <<"ITEM", 8, <<"ksn", "subcategory", "prize">> >>, <<"WEATHER", 10, <<"locn", "dateid", "rain", "maxtemp">> >> >>)
RetailerSources ==
  << Stream("INVENTORY", << <<"locn", "int">>, <<"dateid", "int">>, <<"ksn", "int">>, <<"inventoryunits", "int">> >>),
     Stream("LOCATION", << <<"locn", "int">>, <<"zip", "int">>, <<"rgn_cd", "int">> >>),
     Stream("CENSUS", << <<"zip", "int">>, <<"population", "int">> >>),
     Stream("ITEM", << <<"ksn", "int">>, <<"subcategory", "byte">>, <<"prize", "double">> >>),
     Stream("WEATHER", << <<"locn", "int">>, <<"dateid", "int">>, <<"rain", "byte">>, <<"maxtemp", "int">> >>) >>
RetailerQuery(sum) ==
  FromFile("shipped", FALSE, Retailer, RetailerFile, RetailerSources, Select(Times(sum), <<>>, <<>>, RetailerSources))

Cofactor == [name |-> "RingCofactor", distributed |-> FALSE, schema |-> <<"dynamic_min", "static", "dynamic_sum">>]
Deg1(i, n) == Custom(Cofactor, <<ConstParameter(i), TypeParameter("double"), ConstParameter(n)>>)
RetailerRegression == RetailerQuery(
  << Lifted("lift", <<"0">>, Deg1(0, 1), <<"inventoryunits">>), Lifted("lift", <<"1">>, Deg1(1, 4), <<"subcategory", "prize">>),
     Lifted("lift", <<"5">>, Deg1(5, 6), <<"rain", "maxtemp">>), Lifted("lift", <<"11">>, Deg1(11, 13), <<"rgn_cd">>),
     Lifted("lift", <<"24">>, Deg1(24, 15), <<"population">>) >>)

Mixed == [name |-> "RingCofactorMixed", distributed |-> FALSE, schema |-> <<"dynamic_min", "dynamic_sum", "dynamic_sum">>]
Cont(i, n) == Custom(Mixed, <<ConstParameter(i), ConstParameter(n), ConstParameter(0)>>)
Cat(i, n) == Custom(Mixed, <<ConstParameter(i), ConstParameter(0), ConstParameter(n)>>)
RetailerCategorical == RetailerQuery(
  << Lifted("liftCont", <<"0">>, Cont(0, 1), <<"inventoryunits">>), Lifted("liftCont", <<"1">>, Cont(1, 1), <<"prize">>),
     Lifted("liftCat", <<"2">>, Cat(2, 3), <<"subcategory">>), Lifted("liftCont", <<"5">>, Cont(5, 3), <<"maxtemp">>),
     Lifted("liftCat", <<"8">>, Cat(8, 3), <<"rain">>), Lifted("liftCont", <<"11">>, Cont(11, 13), <<"rgn_cd">>),
     Lifted("liftCont", <<"24">>, Cont(24, 15), <<"population">>) >>)

\* The eight lifts of the listing and of the factorized join, in their order.
JoinOf(def) ==
  LET Lift(i, names, types) == Lifted("lift", <<ToString(i)>>, Custom(def, <<ListParameter(i, types)>>), names)
  IN  RetailerQuery(
        << Lift(0, <<"locn">>, <<"int">>), Lift(1, <<"dateid">>, <<"int">>),
           Lift(2, <<"ksn", "inventoryunits">>, <<"int", "int">>), Lift(14, <<"zip">>, <<"int">>),
           Lift(15, <<"rgn_cd">>, <<"int">>), Lift(28, <<"population">>, <<"int">>),
           Lift(4, <<"subcategory", "prize">>, <<"byte", "double">>), Lift(8, <<"rain", "maxtemp">>, <<"byte", "int">>) >>)
RetailerListing == JoinOf([name |-> "RingRelation", distributed |-> FALSE, schema |-> <<"dynamic_concat">>])
RetailerFactorized == JoinOf([name |-> "RingFactorizedRelation", distributed |-> TRUE, schema |-> <<"dynamic_min">>])

FavoritaFile == DTreeFile(
  << <<"date", "int", -1, <<>> >>, <<"store", "int", 0, <<0>> >>, <<"item", "int", 1, <<0, 1>> >>,
     <<"unit_sales", "double", 2, <<0, 1, 2>> >>, <<"oilprize", "double", 0, <<0>> >>, <<"holiday_type", "int", 0, <<0>> >>,
     <<"transactions", "int", 1, <<0, 1>> >>, <<"city", "int", 1, <<1>> >>, <<"family", "int", 2, <<2>> >> >>,
  << <<"SALES", 3, <<"date", "store", "item", "unit_sales">> >>, <<"OIL", 4, <<"date", "oilprize">> >>,
     <<"HOLIDAY", 5, <<"date", "holiday_type">> >>, <<"TRANSACTIONS", 6, <<"date", "store", "transactions">> >>,
     <<"STORES", 7, <<"store", "city">> >>, <<"ITEMS", 8, <<"item", "family">> >> >>)
FavoritaSources ==
  << Stream("SALES", << <<"date", "int">>, <<"store", "int">>, <<"item", "int">>, <<"unit_sales", "double">> >>),
     Stream("OIL", << <<"date", "int">>, <<"oilprize", "double">> >>),
     Stream("HOLIDAY", << <<"date", "int">>, <<"holiday_type", "int">> >>),
     Stream("TRANSACTIONS", << <<"date", "int">>, <<"store", "int">>, <<"transactions", "int">> >>),
     Stream("STORES", << <<"store", "int">>, <<"city", "int">> >>),
     Stream("ITEMS", << <<"item", "int">>, <<"family", "int">> >>) >>
FavoritaRegression ==
  LET lifts == << Lifted("lift", <<"0">>, Deg1(0, 2), <<"unit_sales">>), Lifted("lift", <<"2">>, Deg1(2, 3), <<"family">>),
                  Lifted("lift", <<"5">>, Deg1(5, 1), <<"transactions">>), Lifted("lift", <<"6">>, Deg1(6, 4), <<"city">>),
                  Lifted("lift", <<"10">>, Deg1(10, 1), <<"oilprize">>), Lifted("lift", <<"11">>, Deg1(11, 4), <<"holiday_type">>) >>
  IN  FromFile("shipped", FALSE, Favorita, FavoritaFile, FavoritaSources, Select(Times(lifts), <<>>, <<>>, FavoritaSources))

-----------------------------------------------------------------------------
(* queries/tpch and queries/housing.                                       *)

Payload(name) == Custom([name |-> name, distributed |-> FALSE, schema |-> <<>>], <<>>)

TpchQuery03 ==
  LET sources ==
        << Stream("LINEITEM", << <<"orderkey", "int">>, <<"l_extendedprice", "double">>, <<"l_discount", "double">>, <<"l_shipdate", "date">> >>),
           Stream("ORDERS", << <<"orderkey", "int">>, <<"custkey", "int">>, <<"o_orderdate", "date">> >>),
           Stream("CUSTOMER", << <<"custkey", "int">>, <<"c_mktsegment", "string">> >>) >>
      shape == DTreeFile(
        << <<"orderkey", "int", -1, <<>> >>, <<"l_extendedprice", "double", 0, <<0>> >>,
           <<"l_discount", "double", 1, <<0, 1>> >>, <<"l_shipdate", "date", 2, <<0, 1, 2>> >>,
           <<"o_orderdate", "date", 0, <<0>> >>, <<"custkey", "int", 4, <<0, 4>> >>, <<"c_mktsegment", "string", 5, <<5>> >> >>,
        << <<"LINEITEM", 3, <<"orderkey", "l_extendedprice", "l_discount", "l_shipdate">> >>,
           <<"ORDERS", 5, <<"orderkey", "custkey", "o_orderdate">> >>, <<"CUSTOMER", 6, <<"custkey", "c_mktsegment">> >> >>)
  IN  FromFile("shipped", TRUE, Tpch, shape, sources,
        Select(Times(<<Field("l_extendedprice"), Binary("sub", Literal("int", 1), Field("l_discount"))>>),
               <<All(<<Binary("eq", Field("c_mktsegment"), Literal("string", 1)),
                       Binary("lt", Field("o_orderdate"), Date(1)), Binary("gt", Field("l_shipdate"), Date(0))>>)>>,
               <<"orderkey", "o_orderdate">>, sources))

TpchQuery06 ==
  LET sources == << Stream("LINEITEM", << <<"l_orderkey", "int">>, <<"l_quantity", "double">>, <<"l_extendedprice", "double">>,
                                          <<"l_discount", "double">>, <<"l_shipdate", "date">> >>) >>
      shape == DTreeFile(
        << <<"l_orderkey", "int", -1, <<>> >>, <<"l_quantity", "double", 0, <<0>> >>, <<"l_extendedprice", "double", 1, <<0, 1>> >>,
           <<"l_discount", "double", 2, <<0, 1, 2>> >>, <<"l_shipdate", "date", 3, <<0, 1, 2, 3>> >> >>,
        << <<"LINEITEM", 4, <<"l_orderkey", "l_quantity", "l_extendedprice", "l_discount", "l_shipdate">> >> >>)
      D(v) == Literal("double", v)
  IN  FromFile("shipped", TRUE, Tpch, shape, sources,
        Select(Times(<<Field("l_extendedprice"), Field("l_discount")>>),
               <<All(<<Binary("ge", Field("l_shipdate"), Date(0)), Binary("lt", Field("l_shipdate"), Date(1)),
                       Sql("between", "", NoType, <<Field("l_discount"), Binary("sub", D(1), D(0)), Binary("add", D(1), D(0))>>),
                       Binary("lt", Field("l_quantity"), Literal("int", 1))>>)>>,
               <<>>, sources))

TpchQuery12 ==
  LET sources ==
        << Stream("LINEITEM", << <<"orderkey", "int">>, <<"l_shipdate", "date">>, <<"l_commitdate", "date">>,
                                 <<"l_receiptdate", "date">>, <<"l_shipmode", "string">> >>),
           Stream("ORDERS", << <<"orderkey", "int">>, <<"o_orderpriority", "string">> >>) >>
      shape == DTreeFile(
        << <<"orderkey", "int", -1, <<>> >>, <<"l_shipdate", "date", 0, <<0>> >>, <<"l_commitdate", "date", 1, <<0, 1>> >>,
           <<"l_receiptdate", "date", 2, <<0, 1, 2>> >>, <<"l_shipmode", "string", 3, <<0, 1, 2, 3>> >>,
           <<"o_orderpriority", "string", 0, <<0>> >> >>,
        << <<"LINEITEM", 4, <<"orderkey", "l_shipdate", "l_commitdate", "l_receiptdate", "l_shipmode">> >>,
           <<"ORDERS", 5, <<"orderkey", "o_orderpriority">> >> >>)
  IN  FromFile("shipped", FALSE, Tpch, shape, sources,
        Select(Lifted("lift", <<>>, Payload("TPCH12Payload"), <<"o_orderpriority">>),
               <<All(<<Sql("inlist", "", NoType, <<Field("l_shipmode"), Literal("string", 1), Literal("string", 2)>>),
                       Binary("lt", Field("l_commitdate"), Field("l_receiptdate")), Binary("lt", Field("l_shipdate"), Field("l_commitdate")),
                       Binary("ge", Field("l_receiptdate"), Date(0)), Binary("lt", Field("l_receiptdate"), Date(1))>>)>>,
               <<"l_shipmode">>, sources))

TpchQuery14 ==
  LET sources ==
        << Stream("LINEITEM", << <<"l_orderkey", "int">>, <<"partkey", "int">>, <<"l_extendedprice", "double">>,
                                 <<"l_discount", "double">>, <<"l_shipdate", "date">> >>),
           Stream("PART", << <<"partkey", "int">>, <<"p_type", "string">> >>) >>
      shape == DTreeFile(
        << <<"partkey", "int", -1, <<>> >>, <<"l_orderkey", "int", 0, <<0>> >>, <<"l_extendedprice", "double", 1, <<0, 1>> >>,
           <<"l_discount", "double", 2, <<0, 1, 2>> >>, <<"l_shipdate", "date", 3, <<0, 1, 2, 3>> >>, <<"p_type", "string", 0, <<0>> >> >>,
        << <<"LINEITEM", 4, <<"l_orderkey", "partkey", "l_extendedprice", "l_discount", "l_shipdate">> >>,
           <<"PART", 5, <<"partkey", "p_type">> >> >>)
      price == Binary("mul", Field("l_extendedprice"), Binary("sub", Literal("int", 1), Field("l_discount")))
  IN  FromFile("shipped", TRUE, Tpch, shape, sources,
        Select(Times(<<Lifted("liftpart", <<>>, Payload("TPCH14Payload"), <<"p_type">>),
                       [Lifted("liftlineitem", <<>>, Payload("TPCH14Payload"), <<>>) EXCEPT !.args = <<price>>]>>),
               <<All(<<Binary("ge", Field("l_shipdate"), Date(0)), Binary("lt", Field("l_shipdate"), Date(1))>>)>>,
               <<>>, sources))

\* The one query with a table at the bottom of its tree.
TpchQuery10 ==
  LET sources ==
        << Stream("LINEITEM", << <<"orderkey", "int">>, <<"l_extendedprice", "double">>, <<"l_returnflag", "char">> >>),
           Stream("ORDERS", << <<"orderkey", "int">>, <<"custkey", "int">> >>),
           Stream("CUSTOMER", << <<"custkey", "int">>, <<"nationkey", "int">> >>),
           Table("NATION", << <<"nationkey", "int">>, <<"n_name", "string">> >>) >>
      shape == DTreeFile(
        << <<"orderkey", "int", -1, <<>> >>, <<"l_extendedprice", "double", 0, <<0>> >>, <<"l_returnflag", "char", 1, <<0, 1>> >>,
           <<"custkey", "int", 0, <<0>> >>, <<"nationkey", "int", 3, <<3>> >>, <<"n_name", "string", 4, <<4>> >> >>,
        << <<"LINEITEM", 2, <<"orderkey", "l_extendedprice", "l_returnflag">> >>, <<"ORDERS", 3, <<"orderkey", "custkey">> >>,
           <<"CUSTOMER", 4, <<"custkey", "nationkey">> >>, <<"NATION", 5, <<"nationkey", "n_name">> >> >>)
  IN  FromFile("shipped", TRUE, Tpch, shape, sources,
        Select(Field("l_extendedprice"), <<Binary("eq", Field("l_returnflag"), Literal("string", 1))>>,
               <<"custkey", "n_name">>, sources))

HousingTable(name, column) == Stream(name, << <<"postcode", "double">>, <<column, "double">> >>)
HousingSources == << HousingTable("HOUSE", "house"), HousingTable("SHOP", "sainsburys"), HousingTable("TRANSPORT", "nbbuslines") >>
HousingFile == DTreeFile(
  << <<"postcode", "double", -1, <<>> >>, <<"house", "double", 0, <<0>> >>,
     <<"sainsburys", "double", 0, <<0>> >>, <<"nbbuslines", "double", 0, <<0>> >> >>,
  << <<"HOUSE", 1, <<"postcode", "house">> >>, <<"SHOP", 2, <<"postcode", "sainsburys">> >>,
     <<"TRANSPORT", 3, <<"postcode", "nbbuslines">> >> >>)
Squared == Binary("mul", Field("postcode"), Field("postcode"))
HousingQuery(sum) == FromFile("shipped", TRUE, Housing, HousingFile, HousingSources, Select(sum, <<>>, <<>>, HousingSources))
HousingSum == HousingQuery(Squared)
HousingAvg == HousingQuery([Lifted("lift", <<>>, Payload("RingAvg"), <<>>) EXCEPT !.args = <<Squared>>])

-----------------------------------------------------------------------------
(* Queries whose d-tree a script writes.                                   *)

Scripted(kind, evaluate, app, o, sum, groupBy) ==
  LET sources == [i \in DOMAIN o.relations |-> GenerateRelation(o.relations[i])]
  IN  [kind |-> kind, evaluate |-> evaluate, app |-> app,
       script |-> o, file |-> NoFile, sources |-> sources, query |-> Select(sum, <<>>, groupBy, sources)]

JobsLift(f, name) == Lifted(f, <<>>, Payload("RingJobs1"), <<name>>)
Jobs0 == Scripted("shipped", TRUE, JobsQ0, JobsQuery0,
           Times(<<JobsLift("liftmoviecompanies", "mc_note"), JobsLift("lifttitles", "t_production_year")>>), <<>>)
Jobs1 == Scripted("shipped", FALSE, JobsQ1, JobsQuery1,
           Times(<<JobsLift("liftmoviecompanies", "mc_note"), JobsLift("lifttitles", "t_production_year"),
                   JobsLift("liftcompanytype", "ct_kind"), JobsLift("liftinfotype", "it_info")>>), <<>>)

PathApp(n) ==
  CASE n = 5 -> PathQ5 [] n = 10 -> PathQ10 [] n = 15 -> PathQ15 [] n = 20 -> PathQ20 [] OTHER -> PathRelations(n)

\* The scripts compile the longer paths for batches only.
PathQuery(n, o) ==
  Scripted(IF n < 5 THEN "shipped" ELSE "batch", n <= 5, PathApp(n), o, Literal("int", 1),
           <<Attribute(1), Attribute(n + 1)>>)

\* The types of the backup script are not those the files can have.
Backup(o) == Scripted("order", FALSE, GenerateApplication(o.relations), o, Literal("int", 1), <<>>)
BackupOrders ==
  {RetailerAll, Retailer3, Retailer4Q1a, Retailer4Q1b, Retailer4Q2, Retailer1Q1b, Retailer1Q1c, Retailer3Q1c, RetailerAggrQ1,
   TPCH3Q2, TPCH1Q1b, TPCH1Q1c, TPCH4Q3, TPCH5Q1, TPCH5Q2, TPCH5Q3, TPCH3Q3, TPCH7Q1, TPCH7Q2, TPCH7Q3, TPCH7Q4,
   TPCH7Q5, TPCH7Q6, TPCH7Q7, TPCH8Q1, TPCH8Q2, TPCH8Q3, TPCH8Q4, TPCH8Q5, TPCH8Q6, TPCH8Q7}

-----------------------------------------------------------------------------
(* What has to be refused, each one step away from a query that compiles.  *)

Refused(q) == [RstSum EXCEPT !.kind = "unsupported", !.query = q]
RstQuery == RstSum.query
Where(c) == [RstQuery EXCEPT !.where = <<c>>]
UnsupportedQueries ==
  {Refused([RstQuery EXCEPT !.distinct = TRUE]),
   Refused([RstQuery EXCEPT !.orderBy = <<"A">>]),
   Refused([RstQuery EXCEPT !.groupBy = <<"A">>, !.having = <<Literal("int", 1)>>]),
   Refused([RstQuery EXCEPT !.columns = <<Field("A")>>]),
   Refused([RstQuery EXCEPT !.columns = @ \o @]),
   Refused([RstQuery EXCEPT !.columns = <<Sql("avg", "", NoType, <<Field("A")>>)>>]),
   Refused([RstQuery EXCEPT !.columns = <<Sql("sum", "", NoType, <<Field("*")>>)>>]),
   Refused([RstQuery EXCEPT !.tables = <<<<Named>>, <<Named>>>>]),
   Refused([RstQuery EXCEPT !.tables = <<<<Named, [form |-> "named", join |-> "on"]>>>>]),
   Refused([RstQuery EXCEPT !.groupBy = <<"Z">>]),
   Refused(Where(Binary("eq", Field("Z"), Literal("int", 1)))),
   Refused(Where(Binary("or", Binary("eq", Field("A"), Field("C")), Binary("lt", Field("A"), Field("C"))))),
   Refused(Where(Binary("eq", Literal("int", 1), Literal("int", 1)))),
   Refused([RstQuery EXCEPT !.columns = <<Sql("sum", "", NoType, <<Times(<<Field("A"), Literal("string", 1)>>)>>)>>])}

WithFile(f) == [RstSum EXCEPT !.kind = "unsupported", !.file = f]
UnsupportedFiles ==
  {WithFile([RstFile EXCEPT !.variables[2].tp = "int"]),      \* not the type in the SQL file
   WithFile([RstFile EXCEPT !.variables[2].tp = "None"]),
   WithFile([RstFile EXCEPT !.variables[2].parent = -1]),     \* two roots
   WithFile([RstFile EXCEPT !.relations[1].keys = <<"A", "Z">>]),
   WithFile([RstFile EXCEPT !.relations = SubSeq(@, 1, 2)]),  \* no S
   WithFile([RstFile EXCEPT !.relations[2].parent = 5])}      \* D without a relation

\* Payloads whose indices run against the tree cannot be multiplied.
Unordered ==
  LET swapped == [RetailerFactorized.query EXCEPT
                    !.columns[1].args[1].args[2] = Lifted("lift", <<"0">>, Custom([name |-> "RingFactorizedRelation",
                       distributed |-> TRUE, schema |-> <<"dynamic_min">>], <<ListParameter(0, <<"byte", "int">>)>>), <<"rain", "maxtemp">>)]
  IN  [RetailerFactorized EXCEPT !.kind = "unsupported", !.query = swapped]

-----------------------------------------------------------------------------
(* The supported format, where the optimizer has something to do.          *)

ABC(sum, where, tables) ==
  LET sources == << Source("R", "R" \notin tables, << <<"A", "int">>, <<"C", "int">> >>),
                    Source("S", "S" \notin tables, << <<"B", "int">>, <<"C", "int">> >>),
                    Source("T", "T" \notin tables, << <<"A", "int">> >>) >>
  IN  FromFile("other", TRUE, Simple,
        DTreeFile(<< <<"A", "int", -1, <<>> >>, <<"B", "int", 0, <<0>> >>, <<"C", "int", 1, <<0, 1>> >> >>,
                  << <<"R", 2, <<"A", "C">> >>, <<"S", 2, <<"B", "C">> >>, <<"T", 0, <<"A">> >> >>),
        sources, Select(sum, where, <<>>, sources))

Small ==
  {ABC(Times(<<Field("A"), Field("B"), Binary("sub", Literal("int", 1), Field("C"))>>),
       <<All(<<Binary("le", Field("B"), Field("C")), Binary("ne", Field("A"), Field("B"))>>)>>, {"R", "S"}),
   ABC(Times(<<Field("A"), Field("C"), Sql("mod", "", NoType, <<Field("B"), Literal("int", 2)>>)>>),
       <<Binary("lt", Field("B"), Field("C"))>>, {"R"})}

Queries ==
  {RstSum, RstComplex, RetailerRegression, RetailerCategorical, RetailerListing, RetailerFactorized, FavoritaRegression,
   TpchQuery03, TpchQuery06, TpchQuery12, TpchQuery14, TpchQuery10, HousingSum, HousingAvg, Jobs0, Jobs1}
  \cup {PathQuery(n, PathBalanced(n)) : n \in {2, 3, 5, 10, 15, 20}} \cup {PathQuery(n, PathLeftDeep(n)) : n \in {3, 5}}
  \cup {Backup(o) : o \in BackupOrders}
  \cup UnsupportedQueries \cup UnsupportedFiles \cup {Unordered} \cup Small
=============================================================================
