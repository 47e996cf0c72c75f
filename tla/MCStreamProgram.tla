-------------------------- MODULE MCStreamProgram --------------------------
(* Programs for TLC: every short order-book file, CSV files that are batched *)
(* and mixed, and runs a client interrupts.                                  *)
EXTENDS StreamProgram

\* A program has triggers for batches, or else for insertions and deletions.
TriggerTypes(batch) == IF batch > 1 THEN {"batch"} ELSE {"insert", "delete"}

Program(relations, sources, batch, parallel, nCalls) ==
  [relations |-> relations,
   triggers |-> {relations[i][1] : i \in DOMAIN relations} \X TriggerTypes(batch),
   sources |-> sources, batch |-> batch, parallel |-> parallel, calls |-> nCalls]

Source(adaptor, lines) == [adaptor |-> adaptor, lines |-> lines, table |-> FALSE]
Table(adaptor, lines) == [adaptor |-> adaptor, lines |-> lines, table |-> TRUE]

-----------------------------------------------------------------------------
(* Order books: the bids and the asks of one file, of up to MaxMessages.     *)

CONSTANTS MaxMessages, MaxTime

Message(t, id, action, volume) ==
  [t |-> t, id |-> id, action |-> action, volume |-> volume, price |-> 1]

Messages ==
  {Message(t, id, a[1], a[2]) : t \in 0..MaxTime, id \in 1..2,
     a \in {<<"B", 2>>, <<"S", 2>>, <<"E", 1>>, <<"E", 3>>, <<"D", 0>>, <<"X", 0>>}}

\* A file is sorted by time and uses an id for one order; it starts with one.
WellFormed(lines) ==
  /\ lines[1].action \in {"B", "S"} /\ lines[1].id = 1
  /\ \A i, j \in DOMAIN lines : i < j =>
       /\ lines[i].t <= lines[j].t
       /\ lines[j].action \in {"B", "S"} => lines[i].id # lines[j].id

MessageFiles == {lines \in [1..MaxMessages -> Messages] : WellFormed(lines)}

BookRelations == << <<"BIDS", FALSE, -1>>, <<"ASKS", FALSE, -1>> >>

\* A file of orders is read by one adaptor, or by one for the bids and one for
\* the asks.
OneAdaptor(lines, insertOnly) ==
  <<Source(BookAdaptor(0, 1, "both", insertOnly, FALSE, 2), lines)>>
TwoAdaptors(lines) ==
  <<Source(BookAdaptor(0, 1, "bids", FALSE, TRUE, 2), lines),
    Source(BookAdaptor(0, 1, "asks", FALSE, TRUE, 2), lines)>>

AtOnce == {lines \in MessageFiles : lines[1].t = lines[MaxMessages].t /\ lines[1].t = 1}

BookPrograms ==
  {Program(BookRelations, OneAdaptor(lines, FALSE), 0, 0, 0) : lines \in MessageFiles}
    \cup {Program(BookRelations, TwoAdaptors(lines), batch, MixInputTuples, 0) :
            lines \in AtOnce, batch \in {0, 2}}
    \cup {Program(BookRelations, OneAdaptor(lines, insertOnly), 2, 0, 0) :
            lines \in AtOnce, insertOnly \in BOOLEAN}

-----------------------------------------------------------------------------
(* CSV: two streams and a table; the first stream has deletions in some runs. *)

Plain(rel) == CsvAdaptor(rel, "insert", FALSE, <<"long">>)
WithDeletions(rel) == CsvAdaptor(rel, "insert", TRUE, <<"long", "date">>)

\* A name and an id that are taken are refused.
CsvRelations3 ==
  << <<"R", FALSE, -1>>, <<"S", FALSE, -1>>, <<"T", TRUE, 2>>, <<"R", FALSE, 3>>, <<"U", FALSE, 1>> >>

PlainFiles == {[k \in 1..n |-> <<v[k]>>] : n \in 1..3, v \in [1..3 -> {5, 6}]}

Day == <<2020, 5, 6>>
NoDay == <<2020, 13, 6>>
HalfADay == <<2020, 5>>

\* Lines of order, event, value and date, the last of them short.
DatedLines ==
  {<<o, e, 5, Day>> : o \in {0, 1, 2}, e \in {0, 1}}
    \cup {<<1, 1, 6, NoDay>>, <<0, 1, 6, HalfADay>>, <<2, 1>>}

CsvSources ==
  {<<Source(Plain(0), r), Source(Plain(1), s)>> : r \in PlainFiles, s \in PlainFiles}
    \cup {<<Source(WithDeletions(0), <<a, b>>), Source(Plain(1), s),
            Table(CsvAdaptor(2, "delete", FALSE, <<"char">>), << <<"c">>, <<"c">>, <<"d">> >>)>> :
            a \in DatedLines, b \in DatedLines, s \in PlainFiles}

CsvPrograms ==
  {Program(CsvRelations3, s, batch, parallel, 0) :
     s \in CsvSources, batch \in {1, 2}, parallel \in {0, MixInputTuples}}

\* An adaptor with a column it does not know reads nothing.
BrokenPrograms ==
  {Program(CsvRelations3, <<Source(CsvAdaptor(0, "insert", FALSE, <<"long", "time">>), << <<5, 6>> >>)>>,
           1, MixInputTuples, 1)}

-----------------------------------------------------------------------------
(* A client that interrupts the run. *)

ClientPrograms ==
  {Program(CsvRelations3, <<Source(Plain(0), << <<5>>, <<6>>, <<5>> >>), Source(Plain(1), << <<6>>, <<6>> >>)>>,
           batch, MixInputTuples, 3) : batch \in {1, 2}}

MCPrograms == BookPrograms \cup CsvPrograms \cup BrokenPrograms \cup ClientPrograms
=============================================================================
