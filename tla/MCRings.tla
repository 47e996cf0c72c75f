------------------------------- MODULE MCRings -------------------------------
(***************************************************************************)
(* RingView with the payload type of every header of examples/src/ring:    *)
(* one small query for each, with the relations, the order of the factors  *)
(* and the kinds of variables of the queries that use it.                  *)
(***************************************************************************)
EXTENDS RingView, FiniteSetsExt, TLC

Row(g, v) == [key |-> g, val |-> v]

(* The value of variable i in a tuple whose parts are functions.           *)
ValueOf(a, i) == IF i = 0 THEN a[0] ELSE LET r == CHOOSE r \in DOMAIN a \ {0} : i \in DOMAIN a[r]
                                         IN  a[r][i]

(* The variables of relation r, of all indices, and of a payload.          *)
SizeOf(q) == Len(Program[q].rows)
RootIndex(q) == SizeOf(q) + 1
VarsAt(q, r) == IF r = 0 THEN {0} ELSE DOMAIN (CHOOSE t \in Program[q].rows[r] : TRUE).val
VarsByIndex(q) == [r \in 0..SizeOf(q) |-> VarsAt(q, r)]
VarsOfIndex(q, r) == IF r = RootIndex(q) THEN UNION Range(VarsByIndex(q)) ELSE VarsAt(q, r)

T == INSTANCE RingQueries
C == INSTANCE RingCofactor
K == INSTANCE RingCategorical
G == INSTANCE RingGeneral
R == INSTANCE RingRelational

-----------------------------------------------------------------------------
(* The queries                                                             *)

(* housing_avg.sql: the values of one relation are averaged.               *)
AvgRows == <<{Row(1, "a"), Row(2, "a")}, {Row(1, 3), Row(1, -3), Row(2, 5)}, {Row(1, "c")}>>

Item(q, p, c, d) ==
  [f \in T!Sums01 |-> CASE f = "qty" -> q [] f = "base_price" -> p [] f = "disc_price" -> p - d
                        [] f = "charge" -> c [] OTHER -> d]
Rows01 == <<{Row(1, Item(1, 4, 3, 1)), Row(1, Item(2, 1, 5, 0)), Row(1, Item(-1, 0, 2, 2)),
             Row(2, Item(7, 2, 2, 1))}>>
Rows12 == <<{Row(1, "1-URGENT"), Row(1, "3-MEDIUM"), Row(2, "2-HIGH")}, {Row(1, "x"), Row(2, "x")}>>
Rows14 == <<{Row(1, TRUE), Row(1, FALSE), Row(2, FALSE)}, {Row(1, 3), Row(1, 5), Row(2, -5)}>>

(* Titles of one movie, one without a year; companies and their notes.     *)
RowsJobs ==
  <<{Row(1, 2006), Row(1, -1), Row(1, 2012)},
    {Row(1, "co-production"), Row(1, "metro"), Row(1, "other"), Row(2, "presents")},
    {Row(1, "production companies"), Row(1, "distributors")},
    {Row(1, "top 250 rank"), Row(1, "bottom 10 rank")}>>

(* housing_regression.sql: all variables are continuous.                   *)
RowsCofactor ==
  <<{Row(1, (1 :> 1) @@ (2 :> 2)), Row(1, (1 :> 2) @@ (2 :> 0)), Row(2, (1 :> 1) @@ (2 :> 1))},
    {Row(1, 3 :> 1), Row(1, 3 :> 3), Row(2, 3 :> 2)}>>

(* favorita_regression_categorical.sql: the join variable 0 is             *)
(* categorical; 1, 2 and 4 are continuous, 3, 5 and 6 categorical.         *)
RowsCat ==
  <<{Row(1, (1 :> 2) @@ (2 :> -1)), Row(1, (1 :> 3) @@ (2 :> 1)), Row(2, (1 :> 1) @@ (2 :> 1))},
    {Row(1, (3 :> 7) @@ (4 :> 2)), Row(1, (3 :> 7) @@ (4 :> 5))},
    {Row(1, (5 :> 1) @@ (6 :> 1)), Row(1, (5 :> 2) @@ (6 :> 1)), Row(2, (5 :> 1) @@ (6 :> 2))}>>

(* favorita_regression_categorical_general.sql: continuous values in       *)
(* halves, whole ones.                                                     *)
WholeRows ==
  <<{Row(1, (1 :> 4) @@ (2 :> -2)), Row(1, (1 :> 6) @@ (2 :> 0)), Row(2, (1 :> 2) @@ (2 :> 2))},
    {Row(1, (3 :> 7) @@ (4 :> 1)), Row(1, (3 :> 7) @@ (4 :> 2)), Row(2, (3 :> 8) @@ (4 :> 1))}>>

(* A relation with two variables and one with one; and three relations,    *)
(* for which the triggers multiply in different orders; inserts only, as a *)
(* row deleted by another trigger leaves its elements behind.              *)
DegRows ==
  <<{Row(1, (1 :> 2) @@ (2 :> -1)), Row(1, (1 :> -1) @@ (2 :> 3)), Row(2, (1 :> 3) @@ (2 :> 1))},
    {Row(1, 3 :> 1), Row(1, 3 :> -2), Row(2, 3 :> 2)}>>
DegRowsThree ==
  <<{Row(1, 1 :> 2), Row(1, 1 :> -1)}, {Row(1, 2 :> 1), Row(1, 2 :> -2)}, {Row(1, 3 :> 3)}>>

(* The listings join three relations: a product is made from the middle,   *)
(* the left and the right.                                                 *)
ListRows == <<{Row(1, "a1"), Row(1, "a2")}, {Row(1, "b1"), Row(1, "b2"), Row(2, "b1")},
             {Row(1, "c1")}>>

AllQueries == {"avg", "tpch01", "tpch12", "tpch14", "jobs", "cofactor", "categorical", "general",
               "degree2", "degree2 of three", "relational", "listing"}

AllPrograms ==
  [q \in AllQueries |->
    CASE q = "avg" -> InsertsAndDeletes(AvgRows, {2}, 2)
      [] q = "tpch01" -> InsertsAndDeletes(Rows01, {1}, 2)
      [] q = "tpch12" -> InsertsAndDeletes(Rows12, {1}, 2)
      [] q = "tpch14" -> InsertsAndDeletes(Rows14, {1, 2}, 2)
      [] q = "jobs" -> Inserts(RowsJobs, {1, 2, 3, 4}, 1)
      [] q = "cofactor" -> InsertsAndDeletes(RowsCofactor, {0, 1, 2}, 2)
      [] q = "categorical" -> InsertsAndDeletes(RowsCat, {0, 1, 2, 3}, 1)
      [] q = "general" -> InsertsAndDeletes(WholeRows, {0, 1, 2}, 1)
      [] q = "degree2" -> InsertsAndDeletes(DegRows, {0, 1, 2}, 2)
      [] q = "degree2 of three" -> Inserts(DegRowsThree, {0, 1, 2, 3}, 1)
      [] OTHER -> InsertsAndDeletes(ListRows, {0, 1, 2, 3}, 2)]

-----------------------------------------------------------------------------
(* The payload type of a query                                             *)

IsDegree2(q) == q \in {"degree2", "degree2 of three"}

CatVars == {0, 3, 5, 6}
DictVars == {0, 3, 4}

LiftOf(q, r, v) ==
  LET a == IF r = 0 THEN 0 :> v ELSE v
  IN  CASE q = "avg" -> T!LiftAvg(r, v)
        [] q = "tpch01" -> T!Lift01(r, v)
        [] q = "tpch12" -> T!Lift12(r, v)
        [] q = "tpch14" -> T!Lift14(r, v)
        [] q = "jobs" -> T!LiftJobs(r, v)
        [] q = "cofactor" -> C!LiftAt(r, v)
        [] q = "categorical" ->
             LET cont == Restrict(a, DOMAIN a \ CatVars)
                 cat == Restrict(a, DOMAIN a \cap CatVars)
             IN  IF DOMAIN cat = {} THEN K!Uliftcont(cont)
                 ELSE IF DOMAIN cont = {} THEN K!Uliftcat(cat)
                 ELSE K!TimesCat(K!Uliftcat(cat), K!Uliftcont(cont))
        [] q = "general" -> IF r = 1 THEN G!Uliftcont(a) ELSE G!Uliftcat(a)
        [] IsDegree2(q) -> C!LiftOf(a)
        [] q = "relational" -> R!LiftRel(r, v)
        [] OTHER -> R!LiftList(r, v)

ZeroAt(q, r) ==
  CASE q = "avg" -> T!ZeroAvg(r)
    [] q = "tpch01" -> T!Zero01(r)
    [] q = "tpch12" -> T!Zero12(r)
    [] q = "tpch14" -> T!Zero14(r)
    [] q = "jobs" -> T!ZeroJobs(r)
    [] q = "cofactor" -> C!ZeroOf(VarsOfIndex(q, r))
    [] q = "categorical" -> K!ZeroOver(VarsOfIndex(q, r) \ CatVars, VarsOfIndex(q, r) \cap CatVars)
    [] q = "general" -> G!ZeroOver(VarsOfIndex(q, r) \ DictVars, VarsOfIndex(q, r) \cap DictVars)
    [] IsDegree2(q) -> C!ZeroOver(Min(VarsOfIndex(q, r)), Cardinality(VarsOfIndex(q, r)))
    [] q = "relational" -> R!ZeroRel(r)
    [] OTHER -> R!ZeroList(r)

(* What the root may be at first.                                          *)
StartsOf(q) ==
  LET X == VarsOfIndex(q, RootIndex(q))
  IN  CASE q = "categorical" -> {K!DefaultIn(x, X \ CatVars, X \cap CatVars) : x \in {0, K!Unset}}
        [] q = "general" -> {G!DefaultIn(x, X \ DictVars, X \cap DictVars) : x \in {0, G!Unset}}
        [] OTHER -> {ZeroAt(q, RootIndex(q))}

PlusOf(q, c, d) ==
  CASE q = "avg" -> T!PlusAvg(c, d)
    [] q = "tpch01" -> T!Plus01(c, d)
    [] q = "tpch12" -> T!Plus12(c, d)
    [] q = "tpch14" -> T!Plus14(c, d)
    [] q = "jobs" -> T!PlusJobs(c, d)
    [] q = "cofactor" -> C!Plus(c, d)
    [] q = "categorical" -> K!PlusCat(c, d)
    [] q = "general" -> G!PlusGen(c, d)
    [] IsDegree2(q) -> C!PlusDeg(c, d)
    [] q = "relational" -> R!PlusRel(c, d)
    [] OTHER -> R!PlusList(c, d)

AssignOf(q, r, d) ==
  CASE q = "relational" -> R!AssignRel(r, d)
    [] q = "listing" -> R!AssignList(r, d)
    [] OTHER -> d

TimesOf(q, c, d) ==
  CASE q = "avg" -> T!TimesAvg(c, d)
    [] q = "tpch01" -> T!Times01(c, d)
    [] q = "tpch12" -> T!Times12(c, d)
    [] q = "tpch14" -> T!Times14(c, d)
    [] q = "jobs" -> T!TimesJobs(c, d)
    [] q = "cofactor" -> C!Times(c, d)
    [] q = "categorical" -> K!TimesCat(c, d)
    [] q = "general" -> G!TimesGen(c, d)
    [] IsDegree2(q) -> C!TimesDeg(c, d)
    [] q = "relational" -> R!TimesRel(c, d)
    [] OTHER -> R!TimesList(c, d)

ScaleOf(q, n, c) ==
  CASE q = "avg" -> T!ScaleAvg(n, c)
    [] q = "tpch01" -> T!Scale01(n, c)
    [] q = "tpch12" -> T!Scale12(n, c)
    [] q = "tpch14" -> T!Scale14(n, c)
    [] q = "jobs" -> T!ScaleJobs(n, c)
    [] q = "cofactor" -> C!Scale(n, c)
    [] q = "categorical" -> K!ScaleCat(n, c)
    [] q = "general" -> G!ScaleGen(n, c)
    [] IsDegree2(q) -> C!ScaleDeg(n, c)
    [] q = "relational" -> R!ScaleRel(n, c)
    [] OTHER -> R!ScaleList(n, c)

IsZeroOf(q, c) ==
  CASE q = "avg" -> T!IsZeroAvg(c)
    [] q = "tpch01" -> T!IsZero01(c)
    [] q = "tpch12" -> T!IsZero12(c)
    [] q = "tpch14" -> T!IsZero14(c)
    [] q = "jobs" -> T!IsZeroJobs(c)
    [] q = "cofactor" -> C!IsZero(c)
    [] q = "categorical" -> K!IsZeroCat(c)
    [] q = "general" -> G!IsZeroGen(c)
    [] IsDegree2(q) -> C!IsZeroDeg(c)
    [] q = "relational" -> R!IsZeroRel(c)
    [] OTHER -> R!IsZeroList(c)

(* Only the root and the default for an absent entry hold sums that were   *)
(* not written.                                                            *)
StartsUnset(q, c, X) == X = 0..SizeOf(q) \/ IsZeroOf(q, c)

MeansOf(q, c, X, m) ==
  CASE q = "avg" -> T!MeansAvg(Program[q].lifted, c, X, m)
    [] q = "tpch01" -> T!Means01(c, X, m)
    [] q = "tpch12" -> T!Means12(c, X, m)
    [] q = "tpch14" -> T!Means14(c, X, m)
    [] q = "jobs" -> T!MeansJobs(Program[q].lifted, c, X, m)
    [] q = "cofactor" -> C!MeansCofactor(VarsByIndex(q), c, X, m)
    [] q = "categorical" ->
         K!CofactorOf(c, m, ValueOf) /\ (c.unset = 0 \/ StartsUnset(q, c, X))
    [] q = "general" -> G!CofactorOf(c, m, ValueOf) /\ (c.unset = 0 \/ StartsUnset(q, c, X))
    [] IsDegree2(q) -> C!PowersOf(c, m, ValueOf) /\ (c.mixed => SizeOf(q) > 2)
    [] q = "relational" -> R!MeansRel(c, X, m)
    [] OTHER -> R!MeansList(c, X, m)
=============================================================================
