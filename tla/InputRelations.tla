--------------------------- MODULE InputRelations ---------------------------
(***************************************************************************)
(* Where the tuples of an experiment application come from: how a relation *)
(* reads its file (lib/csvreader.hpp), which relations the applications    *)
(* register, and what the dispatcher of each calls.  The generated program *)
(* defines, for a table, RELATION_X_STATIC and on_insert_X, and for a      *)
(* stream RELATION_X_DYNAMIC and the handler of its trigger; BATCH_SIZE is *)
(* a flag of the compiler.  A text is a sequence of characters.            *)
(***************************************************************************)
EXTENDS Integers, Sequences, SequencesExt, TLC

Newline == "newline"
Missing == <<"-", "1">>  \* what an empty cell is read as

(* std::getline until it fails: it takes the characters up to the next     *)
(* separator or the end, and fails only if there is none of either left.   *)
TakeOne(s, c, separator) ==
  IF c = separator THEN [all |-> Append(s.all, s.next), next |-> <<>>]
  ELSE [all |-> s.all, next |-> Append(s.next, c)]

Pieces(text, separator) ==
  LET taken == FoldLeft(LAMBDA s, c : TakeOne(s, c, separator), [all |-> <<>>, next |-> <<>>], text)
  IN  IF taken.next = <<>> THEN taken.all ELSE Append(taken.all, taken.next)

\* Seeded bug: the empty cell at the end of a line is not handled.
ReadNextRowUnended(line, delimiter) ==
  LET cells == Pieces(line, delimiter)
  IN  [i \in DOMAIN cells |-> IF cells[i] = <<>> THEN Missing ELSE cells[i]]

(* readNextRow.  line.back() of a blank line is undefined; whatever it is, *)
(* no tuple can be made of its cells, so the texts have no blank lines.    *)
ReadNextRow(line, delimiter) ==
  LET cells == Pieces(line, delimiter)
  IN  [i \in DOMAIN cells |-> IF cells[i] = <<>> THEN Missing ELSE cells[i]]
      \o (IF line # <<>> /\ Last(line) = delimiter THEN <<Missing>> ELSE <<>>)

(* readFromFile: a file is the sequence with its text, or empty if it does *)
(* not exist.  The read that fails at the end of the file also makes a row *)
(* and looks at the last character of an empty line, which is undefined;   *)
(* the loop ends without that row, and the model without that read.        *)
ReadFromFile(file, delimiter) ==
  IF file = <<>> THEN <<>>
  ELSE LET lines == Pieces(file[1], Newline)
       IN  [i \in DOMAIN lines |-> ReadNextRow(lines[i], delimiter)]

-----------------------------------------------------------------------------
(* The relations of the applications.                                      *)

Simple == <<"R", "S", "T">>
Housing == <<"HOUSE", "SHOP", "INSTITUTION", "RESTAURANT", "DEMOGRAPHICS", "TRANSPORT">>
Favorita == <<"SALES", "OIL", "HOLIDAY", "TRANSACTIONS", "STORES", "ITEMS">>
Retailer == <<"INVENTORY", "LOCATION", "CENSUS", "ITEM", "WEATHER">>
TpchOrders == <<"LINEITEM", "ORDERS", "CUSTOMER">>
TpchParts == <<"PART", "PARTSUPP", "SUPPLIER">>
TpchPlaces == <<"NATION", "REGION">>
Tpch == TpchOrders \o TpchParts \o TpchPlaces
JobsQ0 == <<"TITLE", "MOVIE_COMPANIES">>
JobsQ1 == <<"TITLE", "COMPANY_TYPE", "INFO_TYPE", "MOVIE_COMPANIES", "MOVIE_INFO_IDX">>

PathRelations(n) == [i \in 1 .. n |-> "R" \o ToString(i)]
PathQ5 == PathRelations(5)
PathQ10 == PathRelations(10)
PathQ15 == PathRelations(15)
PathQ20 == PathRelations(20)

Call(handler, relation) == [handler |-> handler, relation |-> relation]

\* Seeded bug: without BATCH_SIZE a stream has no dispatcher.
RegisterBatchOnly(relation, tables, streams, batchSize) ==
  CASE relation \in tables -> <<[static |-> TRUE, call |-> Call("insert", relation)]>>
    [] relation \in streams -> <<[static |-> FALSE, call |-> Call("batch", relation)]>>
    [] OTHER -> <<>>

\* What init_relations registers for one relation; defined macros stand for
\* the tables and streams of the program.
Register(relation, tables, streams, batchSize) ==
  CASE relation \in tables -> <<[static |-> TRUE, call |-> Call("insert", relation)]>>
    [] relation \in streams /\ batchSize -> <<[static |-> FALSE, call |-> Call("batch", relation)]>>
    [] relation \in streams /\ ~batchSize -> <<[static |-> FALSE, call |-> Call("insert", relation)]>>
    [] OTHER -> <<>>

InitRelations(app, tables, streams, batchSize) ==
  FlattenSeq([i \in DOMAIN app |-> Register(app[i], tables, streams, batchSize)])
=============================================================================
