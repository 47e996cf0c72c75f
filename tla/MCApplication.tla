--------------------------- MODULE MCApplication ---------------------------
(***************************************************************************)
(* Four relations, one of them a table read tuple by tuple and the streams *)
(* in batches of different sizes, replayed twice, by a program compiled    *)
(* with or without SNAPSHOT_INTERVAL.  The file of the table is every text *)
(* of up to four characters, of the streams only the size is given.        *)
(***************************************************************************)
EXTENDS Application, InputRelations

MCRelation == {"T", "A", "B", "C"}
MCStatic == {"T"}
MCOrder == <<"A", "T", "B", "C">>
MCBatch == ("T" :> 1) @@ ("A" :> 1) @@ ("B" :> 2) @@ ("C" :> 2)

VARIABLE text  \* the file of T: its text in a sequence, empty when it is missing

mcVars == <<appVars, text>>

NoBlankLines(t) == \A i \in DOMAIN t : t[i] = Newline => i > 1 /\ t[i - 1] # Newline

(* Files without blank lines.                                              *)
Files == {<<>>} \cup {<<t>> : t \in {t \in SeqOf({"a", "|", Newline}, 4) : NoBlankLines(t)}}

MCInit ==
  /\ AppInit
  /\ text \in Files
  /\ file["T"] = Len(ReadFromFile(text, "|"))

MCNext == AppNext /\ UNCHANGED text

MCSpec == MCInit /\ [][MCNext]_mcVars /\ WF_mcVars(MCNext)

-----------------------------------------------------------------------------
(* What a reader of a file sees: the lines are what newlines separate, the *)
(* last one ended or not, and the cells what delimiters separate.  A piece *)
(* lies between two ends: a separator, or where the text begins or stops.  *)
Ends(t, separator) == {0, Len(t) + 1} \cup {i \in DOMAIN t : t[i] = separator}

EndAt(ends, k) == CHOOSE i \in ends : Cardinality({j \in ends : j < i}) = k - 1

Between(t, separator) ==
  LET ends == Ends(t, separator)
  IN  [k \in 1 .. Cardinality(ends) - 1 |->
         SubSeq(t, EndAt(ends, k) + 1, EndAt(ends, k + 1) - 1)]

Lines(t) ==
  IF t = <<>> THEN <<>>
  ELSE Between(IF Last(t) = Newline THEN Front(t) ELSE t, Newline)

RowsIn(t, delimiter) ==
  LET lines == Lines(t)
      cells == [i \in DOMAIN lines |-> Between(lines[i], delimiter)]
  IN  [i \in DOMAIN lines |->
         [k \in DOMAIN cells[i] |-> IF cells[i][k] = <<>> THEN Missing ELSE cells[i][k]]]

(* Every line becomes one row with every cell at its place, "-1" where it  *)
(* is empty, wherever the empty cells are and however the file ends: a     *)
(* cell lost shifts the columns behind it (readNextRow, readFromFile).     *)
RowsKeepCells ==
  stage = "load" /\ text # <<>> => ReadFromFile(text, "|") = RowsIn(text[1], "|")
=============================================================================
