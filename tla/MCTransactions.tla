--------------------------- MODULE MCTransactions ---------------------------
(***************************************************************************)
(* Two threads on a table of two keys in one slice, one of them loaded.    *)
(***************************************************************************)
EXTENDS Transactions

MCSliceOf == [k \in Key |-> "s"]
=============================================================================
