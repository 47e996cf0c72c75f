---------------------------- MODULE EventSources ----------------------------
(* How a DBToaster program turns its input files into one sequence of        *)
(* events: the CSV and order-book adaptors (standard_adaptors.cpp) read the  *)
(* frames of a file into an unordered list and an ordered queue, and the     *)
(* multiplexer (streams.cpp) batches, mixes and sorts what they read.        *)
(*                                                                           *)
(* Files are sequences of lines, lines sequences of fields, and a field is   *)
(* the value its column type reads it as; the splitting of text into lines   *)
(* and fields is left out. Event orders are unsigned numbers: OrderWidth is  *)
(* the modulus they wrap at, 2^32 in the code.                               *)
EXTENDS Integers, Sequences, FiniteSets, SequencesExt

CONSTANT OrderWidth

ASSUME OrderWidthAssumption == OrderWidth \in Nat \ {0}

MixInputTuples == 2

Event(type, id, order, data) ==
  [type |-> type, id |-> id, order |-> order % OrderWidth, data |-> data]

-----------------------------------------------------------------------------
(* CSV files. *)

\* The column types of a schema, and those that are a column of the tuple.
DataKinds == {"int", "long", "float", "double", "date", "hash", "char", "string"}
SchemaKinds == DataKinds \cup {"event", "order"}

\* An unknown type empties the whole schema.
ParseSchema(kinds) ==
  IF \A i \in DOMAIN kinds : kinds[i] \in SchemaKinds THEN kinds ELSE <<>>

SchemaSize(schema) == Cardinality({i \in DOMAIN schema : schema[i] \in DataKinds})

\* An adaptor as its parameters make it: "deletions" puts the order and the
\* event type in front of the columns, "eventtype" is the default type.
CsvAdaptor(rel, eventtype, deletions, columns) ==
  [kind |-> "csv", rel |-> rel,
   type |-> IF eventtype = "insert" THEN "insert" ELSE "delete",
   schema |-> ParseSchema((IF deletions THEN <<"order", "event">> ELSE <<>>) \o columns)]

\* A date is the three numbers between its dashes; fewer make the line
\* invalid, and one that is out of range leaves no column behind.
DateInRange(f) == f[2] \in 1..12 /\ f[3] \in 1..31

Column(kind, f) ==
  IF kind = "date" THEN f[1] * 10000 + f[2] * 100 + f[3] ELSE f

Unset == "unset"

\* A valid line has a field for every schema entry, and dates of three parts.
IsValid(a, line) ==
  /\ Len(line) >= Len(a.schema)
  /\ \A i \in DOMAIN a.schema : a.schema[i] = "date" => Len(line[i]) >= 3

\* What interpret_event makes of it: the last event and order fields count, the
\* columns that were read fill the tuple from the left and the rest of it stays
\* unset.
Interpret(a, line) ==
  LET Places(kind) == {i \in DOMAIN a.schema : a.schema[i] = kind}
      LastOf(S)    == CHOOSE i \in S : \A j \in S : j <= i
      IsRead(i)    == /\ a.schema[i] \in DataKinds
                      /\ a.schema[i] = "date" => DateInRange(line[i])
      read         == SelectSeq([i \in DOMAIN a.schema |-> i], IsRead)
  IN [insert |-> IF Places("event") = {} THEN a.type = "insert"
                 ELSE line[LastOf(Places("event"))] # 0,
      order  |-> IF Places("order") = {} THEN 0 ELSE line[LastOf(Places("order"))],
      tuple  |-> [k \in 1..SchemaSize(a.schema) |->
                    IF k <= Len(read) THEN Column(a.schema[read[k]], line[read[k]])
                    ELSE Unset]]

\* The events one line of a CSV file adds to the list and to the queue: order
\* zero means the list.
CsvEvents(a, line) ==
  LET e  == Interpret(a, line)
      ev == Event(IF e.insert THEN "insert" ELSE "delete", a.rel, e.order, e.tuple)
  IN IF a.schema = <<>> \/ ~ IsValid(a, line) THEN [list |-> <<>>, que |-> <<>>]
     ELSE IF ev.order = 0 THEN [list |-> <<ev>>, que |-> <<>>]
     ELSE [list |-> <<>>, que |-> <<ev>>]

-----------------------------------------------------------------------------
(* Order books: messages add an order (B, S), execute a part of it (E) or    *)
(* remove it (D, F); X, C and T are ignored.                                 *)

BookAdaptor(bidsRel, asksRel, type, insertOnly, deterministic, brokers) ==
  [kind |-> "book", bids |-> bidsRel, asks |-> asksRel, type |-> type,
   insertOnly |-> insertOnly, deterministic |-> deterministic, brokers |-> brokers]

EmptyBooks == [bids |-> <<>>, asks |-> <<>>]

\* The brokers an order may be given to: by its id, or at random.
BrokersOf(a, m) ==
  IF a.deterministic THEN {m.id % a.brokers} ELSE 0..(a.brokers - 1)

BookTuple(m, broker) ==
  [t |-> m.t, id |-> m.id, broker |-> broker, volume |-> m.volume, price |-> m.price]

\* Times are whole here; the code truncates twice a double to an unsigned int.
MessageOrder(m) == 2 * m.t

With(book, id, r) ==
  [i \in DOMAIN book \cup {id} |-> IF i = id THEN r ELSE book[i]]
Without(book, id) == [i \in DOMAIN book \ {id} |-> book[i]]

\* A message that changes nothing and sends nothing.
Ignored(books) == [books |-> books, events |-> <<>>]

\* B and S: the order enters its book and the relation.
Added(a, books, m, broker, side) ==
  LET r == BookTuple(m, broker)
  IN IF a.type \notin {side, "both"} THEN Ignored(books)
     ELSE [books  |-> [books EXCEPT ![side] = With(books[side], m.id, r)],
           events |-> <<Event("insert", a[side], MessageOrder(m), r)>>]

\* Seeded bug: the old tuple is deleted after what is left of it is inserted.
ExecutedDeletedLate(a, books, m, side) ==
  LET x    == books[side][m.id]
      r    == [x EXCEPT !.volume = x.volume - m.volume]
      left == r.volume > 0
  IN [books  |-> [books EXCEPT ![side] = IF left THEN With(books[side], m.id, r)
                                                 ELSE Without(books[side], m.id)],
      events |-> (IF left THEN <<Event("insert", a[side], MessageOrder(m), r)>>
                  ELSE <<>>)
              \o (IF a.insertOnly THEN <<>>
                  ELSE <<Event("delete", a[side], MessageOrder(m) + 1, x)>>)]

\* E: the executed volume leaves the order. The old tuple is deleted just
\* before the time of the message, what is left of it inserted at that time.
Executed(a, books, m, side) ==
  LET x    == books[side][m.id]
      r    == [x EXCEPT !.volume = x.volume - m.volume]
      left == r.volume > 0
  IN [books  |-> [books EXCEPT ![side] = IF left THEN With(books[side], m.id, r)
                                                 ELSE Without(books[side], m.id)],
      events |-> (IF a.insertOnly THEN <<>>
                  ELSE <<Event("delete", a[side], MessageOrder(m) - 1, x)>>)
              \o (IF left THEN <<Event("insert", a[side], MessageOrder(m), r)>>
                  ELSE <<>>)]

\* D and F: the order leaves its book; an insert-only adaptor does not say so.
Removed(a, books, m, side) ==
  [books  |-> [books EXCEPT ![side] = Without(books[side], m.id)],
   events |-> IF a.insertOnly THEN <<>>
              ELSE <<Event("delete", a[side], MessageOrder(m), books[side][m.id])>>]

\* One message: an order is looked up among the bids first.
ProcessMessage(a, books, m, broker) ==
  LET side == IF m.id \in DOMAIN books.bids THEN "bids" ELSE "asks"
      known == m.id \in DOMAIN books.bids \cup DOMAIN books.asks
  IN CASE m.action = "B" -> Added(a, books, m, broker, "bids")
       [] m.action = "S" -> Added(a, books, m, broker, "asks")
       [] m.action = "E" /\ known -> Executed(a, books, m, side)
       [] m.action \in {"D", "F"} /\ known -> Removed(a, books, m, side)
       [] OTHER -> Ignored(books)

-----------------------------------------------------------------------------
(* The multiplexer. *)

\* The values of f at the places of key, by ascending keys: pairs of numbers.
IsBefore(a, b) == a[1] < b[1] \/ (a[1] = b[1] /\ a[2] < b[2])

Arranged(f, key) ==
  [k \in 1..Cardinality(DOMAIN key) |->
     f[CHOOSE i \in DOMAIN key :
         Cardinality({j \in DOMAIN key : IsBefore(key[j], key[i])}) = k - 1]]

\* A stable sort by event order.
SortedByOrder(s) == Arranged(s, [i \in DOMAIN s |-> <<s[i].order, i>>])

\* One batch event: every tuple carries its sign and its relation, the event
\* the relation and the order of the last.
Batch(evs) ==
  Event("batch", Last(evs).id, Last(evs).order,
        [i \in DOMAIN evs |-> [tuple |-> evs[i].data,
                               sign  |-> IF evs[i].type = "insert" THEN 1 ELSE -1,
                               rel   |-> evs[i].id]])

\* Seeded bug: a batch is sent only when it is full.
BatchesFullOnly(evs, n) ==
  [k \in 1..(Len(evs) \div n) |-> Batch(SubSeq(evs, (k - 1) * n + 1, k * n))]

\* A sequence of events cut into batches of n, the last one as long as is left.
Batches(evs, n) ==
  [k \in 1..((Len(evs) + n - 1) \div n) |->
     Batch(SubSeq(evs, (k - 1) * n + 1,
                  IF k * n <= Len(evs) THEN k * n ELSE Len(evs)))]

\* The queue is cut in the order of time, whatever the relations.
QueueBatches(que, n) == Batches(SortedByOrder(que), n)

\* The list is cut relation by relation, from the last tuple to the first.
Backwards(list, id) ==
  Arranged(list, [i \in {i \in DOMAIN list : list[i].id = id} |-> <<-i, 0>>])

ListBatches(list, n) ==
  LET ids == {list[i].id : i \in DOMAIN list}
      cut == [id \in ids |-> Batches(Backwards(list, id), n)]
      places == UNION {{id} \X DOMAIN cut[id] : id \in ids}
  IN Arranged([p \in places |-> cut[p[1]][p[2]]], [p \in places |-> p])

\* Batches of an empty queue stay in the list, all others go to the queue.
Batched(list, que, n) ==
  LET all == QueueBatches(que, n) \o ListBatches(list, n)
  IN IF que = <<>> THEN [list |-> all, que |-> <<>>]
     ELSE [list |-> <<>>, que |-> all]

\* One event of each relation in turn. The code keeps an array of as many
\* relations as there are sources: ids must be smaller than inputs.
Mixed(list, inputs) ==
  LET Round(i) == Cardinality({j \in 1..i - 1 : list[j].id = list[i].id})
  IN Arranged(list, [i \in {i \in DOMAIN list : list[i].id \in 0..inputs - 1} |->
                       <<Round(i), list[i].id>>])

\* init_source, once the files are read.
Multiplexed(list, que, batchSize, parallel, inputs, isTable) ==
  LET b == IF batchSize > 1 THEN Batched(list, que, batchSize)
           ELSE [list |-> list, que |-> que]
      mix == ~ isTable /\ b.list # <<>> /\ parallel = MixInputTuples /\ inputs > 1
  IN [list |-> IF mix THEN Mixed(b.list, inputs) ELSE b.list,
      que  |-> SortedByOrder(b.que)]
=============================================================================
