----------------------------- MODULE KeyedStore -----------------------------
(***************************************************************************)
(* What a MultiHashMap promises its caller: a value per key, or none, and  *)
(* what each operation does to it.  The NonZero operations never leave a   *)
(* zero where they wrote.  A step names the call it is, so that a table    *)
(* that implements the store does by each call what that call promises.    *)
(***************************************************************************)
EXTENDS Integers

CONSTANTS
  Key,
  Operand,  \* the values operations are called with
  MaxValue  \* bound on the absolute value of a stored value

Value == -MaxValue..MaxValue

Absent == 2 * MaxValue + 1  \* no sum of two values

VARIABLES
  store,
  call  \* history: the last call, and a turn that tells it from the one before

NonZero(v) == IF v = 0 THEN Absent ELSE v

Sum(s, k, v) == IF s[k] = Absent THEN v ELSE s[k] + v

\* What a call leaves of the store s.
InsertOrAssign(s, k, v) == [s EXCEPT ![k] = v]

InsertOrAssignNonZero(s, k, v) == [s EXCEPT ![k] = NonZero(v)]

IncrementOrAssign(s, k, v) == [s EXCEPT ![k] = Sum(s, k, v)]

IncrementOrAssignNonZero(s, k, v) ==
  IF v = 0 THEN s ELSE [s EXCEPT ![k] = NonZero(Sum(s, k, v))]

Remove(s, k) == [s EXCEPT ![k] = Absent]

Empty == [k \in Key |-> Absent]

Called(c) == call' = [op |-> c, turn |-> ~call.turn]

Init == store = Empty /\ call = [op |-> <<>>, turn |-> FALSE]

Next ==
  \/ \E k \in Key, v \in Operand :
       \/ Called(<<"insertOrAssign", k, v>>) /\ store' = InsertOrAssign(store, k, v)
       \/ Called(<<"insertOrAssignNonZero", k, v>>) /\ store' = InsertOrAssignNonZero(store, k, v)
       \/ Called(<<"incrementOrAssign", k, v>>) /\ store' = IncrementOrAssign(store, k, v)
       \/ Called(<<"incrementOrAssignNonZero", k, v>>)
          /\ store' = IncrementOrAssignNonZero(store, k, v)
  \/ \E k \in Key : Called(<<"remove", k>>) /\ store' = Remove(store, k)
  \/ Called(<<"copy">>) /\ store' = store
  \/ Called(<<"clear">>) /\ store' = Empty

Spec == Init /\ [][Next]_<<store, call>>
=============================================================================
