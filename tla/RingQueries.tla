---------------------------- MODULE RingQueries -----------------------------
(***************************************************************************)
(* Payloads made for one query each: those of the movie queries and of     *)
(* TPC-H (examples/src/ring), over integers.                               *)
(***************************************************************************)
EXTENDS Integers, FiniteSetsExt

-----------------------------------------------------------------------------
(***************************************************************************)
(* The payload of the movie queries 1a to 1d, ring/ring_jobs_query0.hpp    *)
(* and ring_jobs_query1.hpp: per query the number of titles, the least     *)
(* year and the number of notes.  A size_t that goes below zero wraps and  *)
(* comes back, so the counts are integers here.                            *)
(***************************************************************************)

Queries == {"1a", "1b", "1c", "1d"}

MinZero == -1
MinOne == 9999 \* std::numeric_limits<int>::max()

JobsPayload(t, y, n) ==
  [count_movie_title |-> t, min_movie_year |-> y, count_production_note |-> n]

ZeroJobs(r) ==
  JobsPayload([q \in Queries |-> 0], [q \in Queries |-> MinZero], [q \in Queries |-> 0])

IsZeroJobs(c) == c = ZeroJobs(1)

(* Mutant: the zero of the semiring is a year like any other.              *)
LeastOfBoth(x, y) == IF x < y THEN x ELSE y

(* The sum of the min semiring.                                            *)
Least(x, y) ==
  CASE x = MinZero -> y
    [] y = MinZero -> x
    [] OTHER -> Min({x, y})

PlusJobs(c, d) ==
  JobsPayload([q \in Queries |-> c.count_movie_title[q] + d.count_movie_title[q]],
              [q \in Queries |-> Least(c.min_movie_year[q], d.min_movie_year[q])],
              [q \in Queries |-> c.count_production_note[q] + d.count_production_note[q]])

(* Its product: a year with the one of the other factor.                   *)
BothYears(x, y) == IF MinZero \in {x, y} THEN MinZero ELSE Min({x, y})

TimesJobs(c, d) ==
  JobsPayload([q \in Queries |-> c.count_movie_title[q] * d.count_movie_title[q]],
              [q \in Queries |-> BothYears(c.min_movie_year[q], d.min_movie_year[q])],
              [q \in Queries |-> c.count_production_note[q] * d.count_production_note[q]])

(* "the multiplicity doesn't matter here": the year is kept.               *)
ScaleJobs(alpha, c) ==
  JobsPayload([q \in Queries |-> alpha * c.count_movie_title[q]], c.min_movie_year,
              [q \in Queries |-> alpha * c.count_production_note[q]])

(* The payload of a value that meets the conditions of the queries in Q,   *)
(* y being its year or the one of the semiring.                            *)
Selected(Q, y) ==
  LET bit == [q \in Queries |-> IF q \in Q THEN 1 ELSE 0]
  IN  JobsPayload(bit, [q \in Queries |-> IF q \in Q THEN y ELSE MinZero], bit)

(* cond_1a to cond_1d of Ulifttitles                                       *)
TitleQueries(year) ==
  {"1a"} \cup {q \in {"1b"} : year \in 2005..2010}
         \cup {q \in {"1c"} : year > 2010} \cup {q \in {"1d"} : year > 2000}

Ulifttitles(year) == Selected(TitleQueries(year), year)

(* A production note: which of the phrases it contains; NULL is "-1".      *)
NoteQueries(note) ==
  IF note \in {"-1", "metro"} THEN {}
  ELSE {"1b", "1d"} \cup {q \in {"1a"} : note \in {"co-production", "presents"}}
                    \cup {q \in {"1c"} : note = "co-production"}

Uliftmoviecompanies(note) == Selected(NoteQueries(note), MinOne)

KindQueries(kind) == IF kind = "production companies" THEN Queries ELSE {}

Uliftcompanytype(kind) == Selected(KindQueries(kind), MinOne)

InfoQueries(info) ==
  CASE info = "top 250 rank" -> {"1a", "1c"}
    [] info = "bottom 10 rank" -> {"1b", "1d"}
    [] OTHER -> {}

Uliftinfotype(info) == Selected(InfoQueries(info), MinOne)

(* The relations in the order title, movie_companies, company_type and     *)
(* info_type.                                                              *)
LiftJobs(r, v) ==
  CASE r = 1 -> Ulifttitles(v)
    [] r = 2 -> Uliftmoviecompanies(v)
    [] r = 3 -> Uliftcompanytype(v)
    [] OTHER -> Uliftinfotype(v)

QueriesOf(r, v) ==
  CASE r = 1 -> TitleQueries(v)
    [] r = 2 -> NoteQueries(v)
    [] r = 3 -> KindQueries(v)
    [] OTHER -> InfoQueries(v)

(* For each query the tuples all of whose values meet its conditions are   *)
(* counted, and the least of their known years found.                      *)
MeansJobs(lifted, c, X, m) ==
  \A q \in Queries :
    LET chosen == {a \in DOMAIN m : \A i \in X \cap lifted : q \in QueriesOf(i, a[i])}
        size == MapThenSumSet(LAMBDA a : m[a], chosen)
        years == IF 1 \in X THEN {a[1] : a \in chosen} \ {MinZero}
                 ELSE IF chosen = {} THEN {} ELSE {MinOne}
    IN  /\ c.count_movie_title[q] = size
        /\ c.count_production_note[q] = size
        /\ c.min_movie_year[q] = IF years = {} THEN MinZero ELSE Min(years)

-----------------------------------------------------------------------------
(***************************************************************************)
(* The payloads of the fixed aggregate queries, ring/ring_avg.hpp and      *)
(* ring/ring_tpch_query01, 12, 14.hpp; a quotient is a pair of numerator   *)
(* and denominator.                                                        *)
(***************************************************************************)

Quotient(n, d) == IF d # 0 THEN <<n, d>> ELSE <<0, 1>>
SameQuotient(p, q) == p[1] * q[2] = q[1] * p[2]

(* The sum over the bag m of tuples of f.                                  *)
Total(m, f(_)) == SumFunction([a \in DOMAIN m |-> m[a] * f(a)])

-----------------------------------------------------------------------------
(* RingAvg *)

ZeroAvg(r) == [count |-> 0, sum |-> 0]
LiftAvg(r, a) == [count |-> 1, sum |-> a]
IsZeroAvg(c) == c.count = 0
PlusAvg(c, d) == [count |-> c.count + d.count, sum |-> c.sum + d.sum]

TimesAvg(c, d) == [count |-> c.count * d.count, sum |-> c.sum * d.count + d.sum * c.count]

ScaleAvg(alpha, c) == [count |-> alpha * c.count, sum |-> alpha * c.sum]
(* The number of tuples and the sum of all lifted values.                  *)
MeansAvg(lifted, c, X, m) ==
  /\ c.count = Total(m, LAMBDA a : 1)
  /\ c.sum = Total(m, LAMBDA a : SumFunction([i \in X \cap lifted |-> a[i]]))

-----------------------------------------------------------------------------
(* TPCH1Payload: a value is the function of the five lifted expressions.   *)

Sums01 == {"qty", "base_price", "disc_price", "charge", "discount"}
Averaged01 == {"qty", "base_price", "discount"}

Averages01(n, s) == [f \in Averaged01 |-> Quotient(s[f], n)]

Payload01(n, s) == [count_order |-> n, sum |-> s, avg |-> Averages01(n, s)]
Zero01(r) == Payload01(0, [f \in Sums01 |-> 0])
Lift01(r, v) == Payload01(1, v)
IsZero01(c) == c.count_order = 0

Plus01(c, d) ==
  IF IsZero01(d) THEN c
  ELSE Payload01(c.count_order + d.count_order, [f \in Sums01 |-> c.sum[f] + d.sum[f]])

Times01(c, d) ==
  IF IsZero01(c) \/ IsZero01(d) THEN Zero01(1)
  ELSE Payload01(c.count_order * d.count_order,
                 [f \in Sums01 |-> c.count_order * d.sum[f] + d.count_order * c.sum[f]])

Scale01(alpha, c) ==
  IF alpha = 1 THEN c
  ELSE Payload01(alpha * c.count_order, [f \in Sums01 |-> alpha * c.sum[f]])

(* TPCH query 1: counts, sums, and averages that agree with both.          *)
Means01(c, X, m) ==
  /\ c.count_order = Total(m, LAMBDA a : 1)
  /\ \A f \in Sums01 : c.sum[f] = Total(m, LAMBDA a : SumFunction([i \in X \ {0} |-> a[i][f]]))
  /\ \A f \in Averaged01 : SameQuotient(c.avg[f], Quotient(c.sum[f], c.count_order))

-----------------------------------------------------------------------------
(* TPCH12Payload: the orders with a high and with a low priority.          *)

High == {"1-URGENT", "2-HIGH"}

Payload12(n, h, l) == [count |-> n, high_line_count |-> h, low_line_count |-> l]
Zero12(r) == Payload12(0, 0, 0)
Lift12(r, p) == Payload12(1, IF p \in High THEN 1 ELSE 0, IF p \in High THEN 0 ELSE 1)
IsZero12(c) == c.count = 0

Plus12(c, d) ==
  IF IsZero12(d) THEN c
  ELSE Payload12(c.count + d.count, c.high_line_count + d.high_line_count,
                 c.low_line_count + d.low_line_count)

Times12(c, d) ==
  IF IsZero12(c) \/ IsZero12(d) THEN Zero12(1)
  ELSE Payload12(c.count * d.count,
                 c.count * d.high_line_count + d.count * c.high_line_count,
                 c.count * d.low_line_count + d.count * c.low_line_count)

Scale12(alpha, c) ==
  IF alpha = 1 THEN c
  ELSE Payload12(alpha * c.count, alpha * c.high_line_count, alpha * c.low_line_count)

(* The relations of the query other than orders are counted, so a tuple's  *)
(* priority is that of its order, relation 1.                              *)
Means12(c, X, m) ==
  /\ c.count = Total(m, LAMBDA a : 1)
  /\ c.high_line_count = Total(m, LAMBDA a : IF a[1] \in High THEN 1 ELSE 0)
  /\ c.low_line_count = Total(m, LAMBDA a : IF a[1] \in High THEN 0 ELSE 1)

-----------------------------------------------------------------------------
(* TPCH14Payload: relation 1 is part, whose value says whether the type    *)
(* matches ^PROMO, and relation 2 lineitem, whose value is the revenue.    *)

Percent(p, t) == Quotient(100 * p, t)
Payload14(n, p, t) ==
  [count |-> n, promo_revenue |-> p, total_revenue |-> t, percent_revenue |-> Percent(p, t)]
Zero14(r) == Payload14(0, 0, 0)
Lift14(r, v) == IF r = 1 THEN Payload14(1, IF v THEN 1 ELSE 0, 1) ELSE Payload14(1, v, v)
IsZero14(c) == c.count = 0

Plus14(c, d) ==
  IF IsZero14(d) THEN c
  ELSE Payload14(c.count + d.count, c.promo_revenue + d.promo_revenue,
                 c.total_revenue + d.total_revenue)

Times14(c, d) ==
  IF IsZero14(c) \/ IsZero14(d) THEN Zero14(1)
  ELSE Payload14(c.count * d.count, c.promo_revenue * d.promo_revenue,
                 c.total_revenue * d.total_revenue)

(* multiply(alpha) copies the percentage.                                  *)
Scale14(alpha, c) ==
  IF alpha = 1 THEN c
  ELSE [count |-> alpha * c.count, promo_revenue |-> alpha * c.promo_revenue,
        total_revenue |-> alpha * c.total_revenue, percent_revenue |-> c.percent_revenue]

(* TPCH query 14: the revenue, that of promoted parts, and their ratio.    *)
Means14(c, X, m) ==
  LET promo(a) == IF 1 \in X THEN a[1] ELSE TRUE
      revenue(a) == IF 2 \in X THEN a[2] ELSE 1
  IN  /\ c.count = Total(m, LAMBDA a : 1)
      /\ c.promo_revenue = Total(m, LAMBDA a : IF promo(a) THEN revenue(a) ELSE 0)
      /\ c.total_revenue = Total(m, LAMBDA a : revenue(a))
      /\ SameQuotient(c.percent_revenue, Percent(c.promo_revenue, c.total_revenue))
=============================================================================
