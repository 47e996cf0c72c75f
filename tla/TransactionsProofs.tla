------------------------- MODULE TransactionsProofs -------------------------
(***************************************************************************)
(* The concurrency control of the multi-version tables, for any number of  *)
(* threads, keys and transactions: of two concurrent writers of a row the  *)
(* second fails, the list of committed transactions is in commit order,    *)
(* and a transaction that commits depends on nothing that was written by a *)
(* transaction that committed while it ran.                                *)
(***************************************************************************)
EXTENDS Transactions, FiniteSums, SequenceTheorems

(* Recursion along an interval.                                            *)
SolvesInterval(f, n, base, Step) ==
  \A i \in 0..n : f[i] = IF i = 0 THEN base ELSE Step[i][f[i - 1]]

LEMMA IntervalRecursion ==
  ASSUME NEW n \in Nat, NEW V, NEW base \in V, NEW Step \in [1..n -> [V -> V]]
  PROVE  \E f \in [0..n -> V] : SolvesInterval(f, n, base, Step)
<1> DEFINE E(f, i) == IF i = 0 THEN base ELSE Step[i][f[i - 1]]
           N == {k \in Nat : \E f \in [0..n -> V] : \A i \in 0..n : i <= k => f[i] = E(f, i)}
<1>1. \A f \in [0..n -> V] : \A i \in 0..n : E(f, i) \in V
  <2> SUFFICES ASSUME NEW f \in [0..n -> V], NEW i \in 0..n, i # 0
               PROVE  Step[i][f[i - 1]] \in V
    OBVIOUS
  <2>1. i \in 1..n /\ i - 1 \in 0..n
    OBVIOUS
  <2> QED
    BY <2>1
<1>2. 0 \in N
  <2>1. [i \in 0..n |-> base] \in [0..n -> V]
    OBVIOUS
  <2>2. \A i \in 0..n : i <= 0 => i = 0
    OBVIOUS
  <2> QED
    BY <2>1, <2>2
<1>3. ASSUME NEW k \in N
      PROVE  k + 1 \in N
  <2>0. k \in Nat
    OBVIOUS
  <2>1. PICK f \in [0..n -> V] : \A i \in 0..n : i <= k => f[i] = E(f, i)
    OBVIOUS
  <2> DEFINE g == [i \in 0..n |-> E(f, i)]
  <2>2. g \in [0..n -> V]
    BY <1>1
  <2>3. ASSUME NEW i \in 0..n, i <= k + 1
        PROVE  g[i] = E(g, i)
    <3>1. CASE i = 0
      BY <3>1
    <3>2. CASE i # 0
      <4>1. i - 1 \in 0..n /\ i - 1 <= k
        BY <2>0, <2>3, <3>2
      <4>2. g[i - 1] = f[i - 1]
        BY <2>1, <4>1
      <4> QED
        BY <3>2, <4>2
    <3> QED
      BY <3>1, <3>2
  <2> HIDE DEF g
  <2>4. k + 1 \in Nat
    BY <2>0
  <2> QED
    BY <2>2, <2>3, <2>4
<1> HIDE DEF N
<1>4. N = Nat
  <2>1. N \in SUBSET Nat
    BY DEF N
  <2> QED
    BY <1>2, <1>3, <2>1, NumberInduction
<1>5. PICK f \in [0..n -> V] : \A i \in 0..n : i <= n => f[i] = E(f, i)
  BY <1>4 DEF N
<1>6. \A i \in 0..n : f[i] = E(f, i)
  BY <1>5
<1> QED
  BY <1>6 DEF SolvesInterval

(* Induction along an interval.                                            *)
LEMMA IntervalInduction ==
  ASSUME NEW n \in Nat, NEW Good, 0 \in Good,
         \A i \in 1..n : i - 1 \in Good => i \in Good
  PROVE  0..n \subseteq Good
<1> DEFINE N == {k \in Nat : k <= n => k \in Good}
<1>1. 0 \in N
  OBVIOUS
<1>2. ASSUME NEW k \in N
      PROVE  k + 1 \in N
  <2>1. k \in Nat
    OBVIOUS
  <2>2. ASSUME k + 1 <= n PROVE k + 1 \in Good
    <3>1. k + 1 \in 1..n /\ (k + 1) - 1 = k /\ k <= n
      BY <2>1, <2>2
    <3> QED
      BY <3>1
  <2> QED
    BY <2>1, <2>2
<1>3. N = Nat
  <2>1. N \in SUBSET Nat
    OBVIOUS
  <2> HIDE DEF N
  <2> QED
    BY <1>1, <1>2, <2>1, NumberInduction
<1> QED
  BY <1>3

(* Keep filters a sequence.                                                *)
LEMMA KeepType ==
  ASSUME NEW T, NEW s \in Seq(T), NEW S
  PROVE  Keep(s, S) \in Seq(T)
<1> DEFINE n == Len(s)
           Rec(f) == [i \in 0..n |-> IF i = 0 THEN <<>> ELSE IF s[i] \in S THEN Append(f[i - 1], s[i]) ELSE f[i - 1]]
           Step == [i \in 1..n |-> [q \in Seq(T) |-> IF s[i] \in S THEN Append(q, s[i]) ELSE q]]
           kept == CHOOSE f : f = Rec(f)
<1>1. n \in Nat /\ \A i \in 1..n : s[i] \in T
  OBVIOUS
<1>2. Step \in [1..n -> [Seq(T) -> Seq(T)]] /\ <<>> \in Seq(T)
  BY <1>1
<1>3. PICK f \in [0..n -> Seq(T)] : SolvesInterval(f, n, <<>>, Step)
  <2> HIDE DEF Step, n
  <2> QED
    BY <1>1, <1>2, IntervalRecursion
<1>4. \A i \in 0..n : i # 0 => i \in 1..n /\ i - 1 \in 0..n
  BY <1>1
<1>5. \A i \in 0..n : f[i] = Rec(f)[i]
  BY <1>3, <1>4 DEF SolvesInterval
<1>6. f = Rec(f)
  BY <1>5
<1> HIDE DEF n, Step
<1>7. kept = Rec(kept)
  BY <1>6, Zenon
<1> HIDE DEF kept
<1>8. \A i \in 0..n : kept[i] = IF i = 0 THEN <<>> ELSE IF s[i] \in S THEN Append(kept[i - 1], s[i]) ELSE kept[i - 1]
  BY <1>7, Zenon
<1> DEFINE Good == {i \in 0..n : kept[i] \in Seq(T)}
<1>9. 0..n \subseteq Good
  <2>1. 0 \in Good
    <3>1. 0 \in 0..n
      BY <1>1
    <3> QED
      BY <1>2, <1>8, <3>1
  <2>2. ASSUME NEW i \in 1..n, i - 1 \in Good PROVE i \in Good
    <3>1. i \in 0..n /\ i # 0 /\ kept[i - 1] \in Seq(T) /\ s[i] \in T
      BY <1>1, <2>2
    <3>2. kept[i] = IF s[i] \in S THEN Append(kept[i - 1], s[i]) ELSE kept[i - 1]
      BY <1>8, <3>1
    <3>3. kept[i] \in Seq(T)
      BY <3>1, <3>2
    <3> QED
      BY <3>1, <3>3
  <2> HIDE DEF Good
  <2> QED
    BY <1>1, <2>1, <2>2, IntervalInduction
<1>10. Keep(s, S) = kept[n]
  BY Zenon DEF Keep, kept, n
<1> QED
  BY <1>1, <1>9, <1>10

(* Concat of sequences over T is one.                                      *)
LEMMA ConcatType ==
  ASSUME NEW T, NEW ss \in Seq(Seq(T))
  PROVE  Concat(ss) \in Seq(T)
<1> DEFINE n == Len(ss)
           Rec(f) == [i \in 0..n |-> IF i = 0 THEN <<>> ELSE f[i - 1] \o ss[i]]
           Step == [i \in 1..n |-> [q \in Seq(T) |-> q \o ss[i]]]
           all == CHOOSE f : f = Rec(f)
<1>1. n \in Nat /\ \A i \in 1..n : ss[i] \in Seq(T)
  OBVIOUS
<1>2. Step \in [1..n -> [Seq(T) -> Seq(T)]] /\ <<>> \in Seq(T)
  BY <1>1
<1>3. PICK f \in [0..n -> Seq(T)] : SolvesInterval(f, n, <<>>, Step)
  <2> HIDE DEF Step, n
  <2> QED
    BY <1>1, <1>2, IntervalRecursion
<1>4. \A i \in 0..n : i # 0 => i \in 1..n /\ i - 1 \in 0..n
  BY <1>1
<1>5. \A i \in 0..n : f[i] = Rec(f)[i]
  BY <1>3, <1>4 DEF SolvesInterval
<1>6. f = Rec(f)
  BY <1>5
<1> HIDE DEF n, Step
<1>7. all = Rec(all)
  BY <1>6, Zenon
<1> HIDE DEF all
<1>8. \A i \in 0..n : all[i] = IF i = 0 THEN <<>> ELSE all[i - 1] \o ss[i]
  BY <1>7, Zenon
<1> DEFINE Good == {i \in 0..n : all[i] \in Seq(T)}
<1>9. 0..n \subseteq Good
  <2>1. 0 \in Good
    <3>1. 0 \in 0..n
      BY <1>1
    <3> QED
      BY <1>2, <1>8, <3>1
  <2>2. ASSUME NEW i \in 1..n, i - 1 \in Good PROVE i \in Good
    <3>1. i \in 0..n /\ i # 0 /\ all[i - 1] \in Seq(T) /\ ss[i] \in Seq(T)
      BY <1>1, <2>2
    <3>2. all[i] = all[i - 1] \o ss[i]
      BY <1>8, <3>1
    <3>3. all[i] \in Seq(T)
      BY <3>1, <3>2
    <3> QED
      BY <3>1, <3>3
  <2> HIDE DEF Good
  <2> QED
    BY <1>1, <2>1, <2>2, IntervalInduction
<1>10. Concat(ss) = all[n]
  BY Zenon DEF Concat, all, n
<1> QED
  BY <1>1, <1>9, <1>10

-----------------------------------------------------------------------------
(* The inductive invariant.                                                *)

(* The versions of a transaction are numbered as they are made.            *)
Numbered ==
  \A x \in Xact \ {Loader} : \E n \in Nat : Versions(x) = {<<x, i>> : i \in 1..n}

(* Every transaction but the loader runs on one thread, once.              *)
RunsOne(t) ==
  /\ th[t].pc = "idle" <=> th[t].x = NoXact
  /\ th[t].x # NoXact => th[t].x # Loader /\ Begun(th[t].x)
  /\ th[t].pc \in Uncommitted => ~Committed(th[t].x)
  /\ th[t].pc \in {"stamp", "clear"} => Committed(th[t].x)

OnOneThread == \A t, u \in Thread : th[t].x = th[u].x /\ th[t].x # NoXact => t = u

OneThreadEach == OnOneThread /\ \A t \in Thread : RunsOne(t)

Storing(x) == \E t \in Thread : th[t].x = x /\ th[t].pc = "store"
Drawn == {x \in Xact \ {Loader} : Committed(x) \/ Storing(x)}
Started == {x \in Xact \ {Loader} : Begun(x)}

(* The counter is ahead of every timestamp drawn, at most two of each      *)
(* transaction.                                                            *)
DrawnLast(t) ==
  th[t].pc = "store" =>
    /\ th[t].drawn < timestampGen
    /\ \A y \in Xact : /\ Begun(y) => xact[y].startTS < th[t].drawn
                       /\ Committed(y) => xact[y].commitTS < th[t].drawn

Counted == timestampGen <= 2 + Cardinality(Started) + Cardinality(Drawn)

Past ==
  /\ \A x \in Xact : /\ Begun(x) => xact[x].startTS < timestampGen
                     /\ Committed(x) => Begun(x) /\ xact[x].commitTS < timestampGen
  /\ Begun(Loader) /\ Committed(Loader)

Clock == Counted /\ Past /\ \A t \in Thread : DrawnLast(t)

Holds(t) == /\ th[t].pc \in Holding => commitLock
            /\ th[t].pc = "store" => counterLock

OneHolder == \A t, u \in Thread : th[t].pc \in Holding /\ th[u].pc \in Holding => t = u

Locks == OneHolder /\ \A t \in Thread : Holds(t)

(* Transactions on the list of committed ones, or once cut off it.         *)
Pushing(x) == \E t \in Thread : th[t].x = x /\ th[t].pc \in {"draw", "store"}
Listed(x) == x = Loader \/ (Committed(x) /\ xact[x].undo # <<>>) \/ Pushing(x)

Older(y, z) == xact[y].commitTS < xact[z].commitTS

(* Nothing a running transaction must be validated against.                *)
Settled(y) == \A x \in Xact \ overlooked : Running(x) => xact[y].commitTS <= xact[x].startTS

(* The list is in commit order, and what was cut off it is settled.        *)
Chained ==
  /\ committedXactsTail # NoXact =>
       Listed(committedXactsTail) /\ \A w \in Xact : Listed(w) => ~Older(committedXactsTail, w)
  /\ committedXactsTail = NoXact => \A w \in Xact : Listed(w) => Settled(w)
  /\ \A y \in Xact : Listed(y) =>
       \A w \in Xact : Listed(w) /\ Older(w, y) =>
         IF xact[y].prev = NoXact THEN Settled(w) ELSE ~Older(xact[y].prev, w)
  /\ \A y \in Xact : xact[y].prev # NoXact => Listed(xact[y].prev) /\ Older(xact[y].prev, y)
  /\ \A y, z \in Xact : Listed(y) /\ Listed(z) /\ xact[y].commitTS = xact[z].commitTS => y = z
  /\ \A y \in Xact : ~Begun(y) => xact[y].prev = NoXact

(* Where the threads are in the list.                                      *)
AtList(t) ==
  /\ th[t].pc \in {"draw", "store"} => committedXactsTail = th[t].x
  /\ th[t].pc \in Working \cup {"publish"} => xact[th[t].x].prev = NoXact
  /\ th[t].pc = "push" => xact[th[t].x].prev = th[t].start
  /\ th[t].pc \in {"validate", "push"} =>
       \A y \in {th[t].start, th[t].cur, th[t].end} : y = NoXact \/ Listed(y)
  /\ th[t].pc = "scan" => th[t].oldest < Never

Unmatched(x, y) == \A p \in xact[x].preds : ~MatchesAny(p, y)

(* What is left to check of the rounds of a validation.                    *)
Ahead(t, y) == th[t].start = NoXact \/ Older(th[t].start, y)
ToCheck(t, y) ==
  /\ th[t].cur # NoXact /\ ~Older(th[t].cur, y)
  /\ th[t].end = NoXact \/ Older(th[t].end, y)

Validated(t) ==
  th[t].x \in Xact \ overlooked =>
    \A y \in Xact : Listed(y) /\ xact[th[t].x].startTS < xact[y].commitTS =>
      /\ th[t].pc = "validate" => Unmatched(th[t].x, y) \/ Ahead(t, y) \/ ToCheck(t, y)
      /\ th[t].pc \in Holding \cup {"stamp", "clear"} /\ Older(y, th[t].x) => Unmatched(th[t].x, y)

(* x may write over v.                                                     *)
MayFollow(x, v) == Writer(v) = x \/ xact[Writer(v)].commitTS < xact[x].startTS

Stamps ==
  \A v \in DOMAIN version :
    /\ version[v].xactid \in {Never, xact[Writer(v)].commitTS}
    /\ Begun(Writer(v))
    /\ version[v].oldV # Null => MayFollow(Writer(v), version[v].oldV)

UndoOwn == \A x \in Xact : \A i \in DOMAIN xact[x].undo : Writer(xact[x].undo[i]) = x

(* What an operation under way has found.                                  *)
Writes(t) ==
  /\ th[t].pc = "supersede" => th[t].found \in DOMAIN version /\ MayFollow(th[t].x, th[t].found)
  /\ th[t].pc \in Holding \cup {"validate"} => xact[th[t].x].undo # <<>>
  /\ th[t].pc = "slice" => th[t].todo \in Seq(DOMAIN entry)

IInv ==
  /\ StoreTypes /\ ManagerTypes /\ Numbered /\ OneThreadEach /\ Clock /\ Locks
  /\ Chained /\ Stamps /\ UndoOwn
  /\ \A t \in Thread : AtList(t) /\ Validated(t) /\ Writes(t)
-----------------------------------------------------------------------------
(* The list of committed transactions.                                     *)

PrevOlder == \A y \in Xact : xact[y].prev # NoXact => xact[y].prev \in Xact /\ Older(xact[y].prev, y)

Linked(list, x) ==
  /\ list \in Seq(Xact)
  /\ IF x = NoXact THEN list = <<>> ELSE list # <<>> /\ list[1] = x
  /\ \A i \in 1..(Len(list) - 1) : xact[list[i]].prev = list[i + 1]

LEMMA XactFacts ==
  /\ Xact \in SUBSET Nat /\ NoXact \notin Xact /\ NoneOr(Xact) = 0..MaxXacts
  /\ Loader \in Xact /\ IsFiniteSet(Xact) /\ Cardinality(Xact) = MaxXacts
<1>1. MaxXacts \in Nat /\ MaxXacts >= 1
  BY TransactionAssumption
<1>2. IsFiniteSet(1..MaxXacts) /\ Cardinality(1..MaxXacts) = MaxXacts
  <2>1. IsFiniteSet(1..MaxXacts) /\ Cardinality(1..MaxXacts) = IF 1 > MaxXacts THEN 0 ELSE MaxXacts - 1 + 1
    BY <1>1, FS_Interval
  <2> QED
    BY <1>1, <2>1
<1> QED
  BY <1>1, <1>2 DEF Xact, NoXact, NoneOr, Loader

LEMMA Linking ==
  ASSUME NEW x \in Xact, NEW m, Linked(m, xact[x].prev)
  PROVE  Linked(<<x>> \o m, x)
<1> DEFINE l == <<x>> \o m
<1>1. m \in Seq(Xact) /\ Len(m) \in Nat
  BY DEF Linked
<1>2. l \in Seq(Xact) /\ l # <<>> /\ l[1] = x /\ Len(l) = Len(m) + 1
  BY <1>1
<1>3. \A i \in 1..Len(m) : l[i + 1] = m[i]
  BY <1>1
<1>4. ASSUME NEW i \in 1..(Len(l) - 1)
      PROVE  xact[l[i]].prev = l[i + 1]
  <2>1. i \in Nat /\ i <= Len(m) /\ i >= 1
    BY <1>1, <1>2
  <2>2. CASE i = 1
    <3>1. m # <<>>
      BY <2>1, <2>2
    <3>2. xact[x].prev # NoXact /\ m[1] = xact[x].prev
      BY <3>1 DEF Linked
    <3>3. l[2] = m[1]
      BY <1>3, <2>1, <2>2
    <3> QED
      BY <1>2, <2>2, <3>2, <3>3
  <2>3. CASE i # 1
    <3>1. i - 1 \in 1..(Len(m) - 1) /\ i \in 1..Len(m) /\ i - 1 \in 1..Len(m) /\ (i - 1) + 1 = i
      BY <1>1, <2>1, <2>3
    <3>2. xact[m[i - 1]].prev = m[i]
      BY <3>1 DEF Linked
    <3>3. l[i] = m[i - 1] /\ l[i + 1] = m[i]
      BY <1>3, <3>1
    <3> QED
      BY <3>2, <3>3
  <2> QED
    BY <2>2, <2>3
<1> HIDE DEF l
<1>5. x # NoXact
  BY XactFacts
<1>6. Linked(l, x)
  BY <1>2, <1>4, <1>5 DEF Linked
<1> QED
  BY <1>6 DEF l

LEMMA CommittedFromLinked ==
  ASSUME \A y \in Xact : xact[y].commitTS \in 0..Never /\ xact[y].prev \in NoneOr(Xact),
         PrevOlder, NEW x \in NoneOr(Xact)
  PROVE  Linked(CommittedFrom(x), x)
<1> DEFINE S == 0..MaxXacts
           E(f, y) == IF y = NoXact THEN <<>> ELSE <<y>> \o f[xact[y].prev]
           Rec(f) == [y \in S |-> E(f, y)]
           list == CHOOSE f : f = Rec(f)
           Below(y, k) == y = NoXact \/ xact[y].commitTS < k
           N == {k \in Nat : \E f : \A y \in S : Below(y, k) => f[y] = E(f, y)}
<1>0. S = NoneOr(Xact) /\ Never \in Nat /\ NoXact \in S /\ NoXact \notin Xact
  BY XactFacts, TransactionAssumption DEF NoneOr
<1>1. \A y \in S : y # NoXact => y \in Xact /\ xact[y].prev \in S
  BY <1>0 DEF NoneOr
<1>2. \A k \in Nat : \A y \in S : y # NoXact /\ Below(y, k + 1) => Below(xact[y].prev, k)
  BY <1>1 DEF PrevOlder, Older
<1> HIDE DEF S
<1>3. 0 \in N
  <2> DEFINE f == [y \in S |-> <<>>]
  <2>1. \A y \in S : Below(y, 0) => y = NoXact
    BY <1>1
  <2>2. \A y \in S : Below(y, 0) => f[y] = E(f, y)
    BY <2>1
  <2> HIDE DEF f
  <2> QED
    BY <2>2, 0 \in Nat
<1>4. ASSUME NEW k \in N
      PROVE  k + 1 \in N
  <2>0. k \in Nat /\ k + 1 \in Nat
    OBVIOUS
  <2>1. PICK f : \A y \in S : Below(y, k) => f[y] = E(f, y)
    OBVIOUS
  <2> DEFINE g == [y \in S |-> E(f, y)]
  <2>2. ASSUME NEW y \in S, Below(y, k + 1)
        PROVE  g[y] = E(g, y)
    <3>1. CASE y = NoXact
      BY <3>1
    <3>2. CASE y # NoXact
      <4>1. xact[y].prev \in S /\ Below(xact[y].prev, k)
        BY <1>1, <1>2, <2>0, <2>2, <3>2
      <4>2. g[xact[y].prev] = f[xact[y].prev]
        BY <2>1, <4>1
      <4> QED
        BY <3>2, <4>2
    <3> QED
      BY <3>1, <3>2
  <2> HIDE DEF g
  <2> QED
    BY <2>0, <2>2
<1> HIDE DEF N
<1>5. N = Nat
  <2>1. N \in SUBSET Nat
    BY DEF N
  <2> QED
    BY <1>3, <1>4, <2>1, NumberInduction
<1>6. PICK f : \A y \in S : Below(y, Never + 1) => f[y] = E(f, y)
  <2>1. Never + 1 \in N
    BY <1>0, <1>5
  <2> HIDE DEF E, Below
  <2> QED
    BY <2>1, Zenon DEF N
<1>7. \A y \in S : Below(y, Never + 1)
  BY <1>0, <1>1
<1> DEFINE g == [y \in S |-> f[y]]
<1>8. g = Rec(g)
  <2>1. \A y \in S : g[y] = E(g, y)
    BY <1>1, <1>6, <1>7
  <2>2. \A y \in S : g[y] = Rec(g)[y]
    BY <2>1
  <2>3. g = [y \in S |-> g[y]]
    OBVIOUS
  <2> QED
    BY <2>2, <2>3
<1> HIDE DEF g
<1>9. list = Rec(list)
  BY <1>8, Zenon
<1> HIDE DEF list
<1>10. \A y \in S : list[y] = E(list, y)
  BY <1>9, Zenon
<1> DEFINE M == {k \in Nat : \A y \in S : Below(y, k) => Linked(list[y], y)}
<1>11. ASSUME NEW y \in S, y = NoXact PROVE Linked(list[y], y)
  <2>1. list[y] = <<>>
    BY <1>10, <1>11
  <2> QED
    BY <1>11, <2>1 DEF Linked
<1>12. 0 \in M
  <2>1. \A y \in S : Below(y, 0) => y = NoXact
    BY <1>1
  <2> QED
    BY <1>11, <2>1, 0 \in Nat
<1>13. ASSUME NEW k \in M
       PROVE  k + 1 \in M
  <2>0. k \in Nat /\ k + 1 \in Nat
    OBVIOUS
  <2>1. ASSUME NEW y \in S, Below(y, k + 1), y # NoXact
        PROVE  Linked(list[y], y)
    <3>1. y \in Xact /\ xact[y].prev \in S /\ Below(xact[y].prev, k)
      BY <1>1, <1>2, <2>0, <2>1
    <3>2. Linked(list[xact[y].prev], xact[y].prev)
      BY <3>1
    <3>3. Linked(<<y>> \o list[xact[y].prev], y)
      BY <3>1, <3>2, Linking
    <3>4. list[y] = <<y>> \o list[xact[y].prev]
      BY <1>10, <2>1
    <3> QED
      BY <3>3, <3>4
  <2> QED
    BY <1>11, <2>0, <2>1
<1> HIDE DEF M
<1>14. M = Nat
  <2>1. M \in SUBSET Nat
    BY DEF M
  <2> QED
    BY <1>12, <1>13, <2>1, NumberInduction
<1>15. x \in S /\ Below(x, Never + 1) /\ Never + 1 \in M
  BY <1>0, <1>7, <1>14
<1>16. Linked(list[x], x)
  BY <1>15 DEF M
<1>17. CommittedFrom(x) = list[x]
  BY Zenon DEF CommittedFrom, list, S
<1> QED
  BY <1>16, <1>17

-----------------------------------------------------------------------------
(* Facts of a single state.                                                *)

LEMMA ThreadFacts ==
  ASSUME IInv, NEW t \in Thread
  PROVE  /\ th[t] \in ThreadType
         /\ th[t].pc # "idle" => /\ th[t].x \in Xact \ {Loader} /\ Begun(th[t].x)
                                 /\ xact[th[t].x] \in XactType
         /\ th[t].pc \in Uncommitted => th[t].pc # "idle" /\ ~Committed(th[t].x)
<1>1. th[t] \in ThreadType /\ th[t].x \in NoneOr(Xact) /\ xact \in [Xact -> XactType]
  BY DEF IInv, ManagerTypes, ThreadType
<1>2. th[t].pc # "idle" => th[t].x # NoXact /\ th[t].x # Loader /\ Begun(th[t].x)
  BY DEF IInv, OneThreadEach, RunsOne
<1>3. "idle" \notin Uncommitted
  BY DEF Uncommitted, Working
<1>4. th[t].pc \in Uncommitted => ~Committed(th[t].x)
  BY DEF IInv, OneThreadEach, RunsOne
<1> QED
  BY <1>1, <1>2, <1>3, <1>4 DEF NoneOr

LEMMA XactTypes ==
  ASSUME IInv, NEW x \in Xact
  PROVE  /\ xact[x] \in XactType
         /\ xact[x].startTS \in Nat /\ xact[x].commitTS \in Nat
         /\ xact[x].undo \in Seq(DOMAIN version) /\ xact[x].prev \in NoneOr(Xact)
BY DEF IInv, ManagerTypes, XactType

(* The counter is below Never.                                             *)
LEMMA ClockBound ==
  ASSUME IInv
  PROVE  /\ timestampGen \in Nat /\ Never \in Nat /\ timestampGen < Never
         /\ \A x \in Xact : xact[x].startTS <= Never /\ xact[x].commitTS <= Never
<1>1. MaxXacts \in Nat /\ Never \in Nat /\ 2 * MaxXacts < Never /\ MaxXacts >= 1
  BY TransactionAssumption
<1> DEFINE S == Xact \ {Loader}
<1>2. IsFiniteSet(S) /\ Cardinality(S) = MaxXacts - 1
  BY XactFacts, FS_RemoveElement
<1>3. Started \in SUBSET S /\ Drawn \in SUBSET S
  BY DEF Started, Drawn
<1>4. /\ Cardinality(Started) \in Nat /\ Cardinality(Started) <= MaxXacts - 1
      /\ Cardinality(Drawn) \in Nat /\ Cardinality(Drawn) <= MaxXacts - 1
  BY <1>2, <1>3, FS_Subset, FS_CardinalityType
<1>5. timestampGen \in Nat /\ timestampGen <= 2 + Cardinality(Started) + Cardinality(Drawn)
  BY DEF IInv, ManagerTypes, Clock, Counted
<1>6. timestampGen < Never
  BY <1>1, <1>4, <1>5
<1>7. \A x \in Xact : xact[x].startTS <= Never /\ xact[x].commitTS <= Never
  <2> SUFFICES ASSUME NEW x \in Xact
               PROVE  xact[x].startTS <= Never /\ xact[x].commitTS <= Never
    OBVIOUS
  <2>1. xact[x].startTS \in Nat /\ xact[x].commitTS \in Nat
    BY XactTypes
  <2>2. /\ xact[x].startTS # Never => xact[x].startTS < timestampGen
        /\ xact[x].commitTS # Never => xact[x].commitTS < timestampGen
    BY DEF IInv, Clock, Past, Begun, Committed
  <2> QED
    BY <1>1, <1>5, <1>6, <2>1, <2>2
<1> QED
  BY <1>1, <1>5, <1>6, <1>7

(* Who may be written over has committed.                                  *)
LEMMA FollowedCommitted ==
  ASSUME IInv, NEW x \in Xact, NEW v \in DOMAIN version, MayFollow(x, v)
  PROVE  /\ Writer(v) \in Xact
         /\ Writer(v) = x \/ (Committed(Writer(v)) /\ xact[Writer(v)].commitTS < xact[x].startTS)
<1>1. Writer(v) \in Xact
  BY DEF IInv, StoreTypes
<1>2. ASSUME xact[Writer(v)].commitTS < xact[x].startTS
      PROVE  Committed(Writer(v))
  <2>1. xact[x].startTS \in Nat /\ xact[x].startTS <= Never /\ Never \in Nat
    BY ClockBound, XactTypes
  <2> QED
    BY <1>2, <2>1 DEF Committed
<1> QED
  BY <1>1, <1>2 DEF MayFollow

-----------------------------------------------------------------------------
(* What a version says of its row stays, but for those of x.               *)

ContentKept(x) ==
  /\ \A v \in DOMAIN version : Writer(v) # x =>
       /\ v \in DOMAIN version'
       /\ version'[v].entry = version[v].entry
       /\ version'[v].oldV = version[v].oldV
       /\ version'[v].valid = version[v].valid
  /\ \A e \in DOMAIN entry : e \in DOMAIN entry' /\ entry'[e].key = entry[e].key

LEMMA UnmatchedKept ==
  ASSUME IInv, NEW z, z \in Xact => ~Committed(z), ContentKept(z),
         NEW y \in Xact, y # z, xact'[y].undo = xact[y].undo,
         NEW x \in Xact, xact'[x].preds = xact[x].preds
  PROVE  Unmatched(x, y)' <=> Unmatched(x, y)
<1> DEFINE undo == xact[y].undo
<1>1. \A i \in DOMAIN undo : undo[i] \in DOMAIN version /\ Writer(undo[i]) = y
  BY XactTypes DEF IInv, UndoOwn
<1>2. \A v \in DOMAIN version : /\ version[v].entry \in DOMAIN entry
                                /\ version[v].oldV \in DOMAIN version \cup {Null}
  BY DEF IInv, StoreTypes, VersionType
<1>3. \A v \in DOMAIN version : Writer(v) # z => KeyOf(v)' = KeyOf(v) /\ version'[v].valid = version[v].valid
  BY <1>2 DEF ContentKept, KeyOf
<1>4. ASSUME NEW v \in DOMAIN version, Writer(v) = y, version[v].oldV # Null
      PROVE  Writer(version[v].oldV) # z
  <2>1. version[v].oldV \in DOMAIN version /\ MayFollow(y, version[v].oldV)
    BY <1>2, <1>4 DEF IInv, Stamps
  <2> QED
    BY <2>1, FollowedCommitted
<1>5. ASSUME NEW p, NEW v \in DOMAIN version, Writer(v) = y
      PROVE  Matches(p, v)' <=> Matches(p, v)
  <2>1. PICK u : u = version[v].oldV
    OBVIOUS
  <2>2. version'[v].oldV = u /\ version'[v].valid = version[v].valid /\ version'[v].entry = version[v].entry
    BY <1>5, <2>1 DEF ContentKept
  <2>3. entry'[version'[v].entry].key = entry[version[v].entry].key
    BY <1>3, <1>5 DEF KeyOf
  <2>4. u # Null => /\ version'[u].valid = version[u].valid
                    /\ entry'[version'[u].entry].key = entry[version[u].entry].key
    <3>1. u # Null => u \in DOMAIN version /\ Writer(u) # z
      BY <1>2, <1>4, <1>5, <2>1
    <3> QED
      BY <1>3, <3>1 DEF KeyOf
  <2> QED
    BY <2>1, <2>2, <2>3, <2>4 DEF Matches, InSlice, KeyOf
<1>6. \A p : MatchesAny(p, y)' <=> MatchesAny(p, y)
  <2> SUFFICES ASSUME NEW p PROVE MatchesAny(p, y)' <=> MatchesAny(p, y)
    OBVIOUS
  <2>1. PICK s : s = xact[y].undo
    OBVIOUS
  <2>2. \A i \in DOMAIN s : s[i] \in DOMAIN version /\ Writer(s[i]) = y
    BY <1>1, <2>1
  <2>3. \A i \in DOMAIN s : Matches(p, s[i])' <=> Matches(p, s[i])
    BY <1>5, <2>2
  <2>4. MatchesAny(p, y) <=> \E i \in DOMAIN s : Matches(p, s[i])
    BY <2>1 DEF MatchesAny
  <2>5. MatchesAny(p, y)' <=> \E i \in DOMAIN s : Matches(p, s[i])'
    BY <2>1 DEF MatchesAny
  <2> QED
    BY <2>3, <2>4, <2>5
<1> QED
  BY <1>6 DEF Unmatched

-----------------------------------------------------------------------------
(* A step of t that leaves the list of committed transactions, and what is *)
(* on it, as it was.                                                       *)

Owner(t) == IF th[t].pc \in Working THEN th[t].x ELSE NoXact

Quiet(t) ==
  /\ \A u \in Thread \ {t} : th'[u] = th[u]
  /\ th[t].pc \notin {"draw", "store"} /\ th'[t].pc \notin {"draw", "store"}
  /\ th'[t].x \in {th[t].x, NoXact}
  /\ \A y \in Xact : /\ xact'[y].startTS = xact[y].startTS
                     /\ xact'[y].commitTS = xact[y].commitTS
                     /\ xact'[y].prev = xact[y].prev
  /\ \A y \in Xact \ {th[t].x} : xact'[y] = xact[y]
  /\ th[t].x \in Xact /\ th[t].pc \notin Uncommitted => xact'[th[t].x].undo = xact[th[t].x].undo
  /\ ContentKept(Owner(t))
  /\ UNCHANGED <<timestampGen, committedXactsTail, overlooked>>

LEMMA QuietListed ==
  ASSUME IInv, NEW t \in Thread, Quiet(t)
  PROVE  \A y \in Xact : /\ Begun(y)' <=> Begun(y)
                         /\ Committed(y)' <=> Committed(y)
                         /\ Storing(y)' <=> Storing(y)
                         /\ Listed(y)' <=> Listed(y)
                         /\ Running(y)' => Running(y)
                         /\ Settled(y) => Settled(y)'
<1>1. \A y \in Xact : (Begun(y)' <=> Begun(y)) /\ (Committed(y)' <=> Committed(y))
  BY DEF Quiet, Begun, Committed
<1>2. \A y \in Xact : (Pushing(y)' <=> Pushing(y)) /\ (Storing(y)' <=> Storing(y))
  BY DEF Quiet, Pushing, Storing
<1>3. ASSUME NEW y \in Xact, Committed(y)
      PROVE  xact'[y].undo = xact[y].undo
  <2>1. CASE y # th[t].x
    BY <2>1 DEF Quiet
  <2>2. CASE y = th[t].x
    BY <1>3, <2>2, ThreadFacts DEF Quiet
  <2> QED
    BY <2>1, <2>2
<1>4. \A y \in Xact : Listed(y)' <=> Listed(y)
  BY <1>1, <1>2, <1>3 DEF Listed
<1>5. \A y \in Xact : Running(y)' => Running(y)
  <2> SUFFICES ASSUME NEW y \in Xact, Running(y)' PROVE Running(y)
    OBVIOUS
  <2>1. PICK u \in Thread : th'[u].x = y
    BY DEF Running
  <2>2. th[u].x = y
    <3>1. CASE u = t
      BY <2>1, <3>1, XactFacts DEF Quiet
    <3>2. CASE u # t
      BY <2>1, <3>2 DEF Quiet
    <3> QED
      BY <3>1, <3>2
  <2>3. Begun(y) /\ ~Committed(y)
    BY <1>1 DEF Running, Committed
  <2> QED
    BY <2>2, <2>3 DEF Running, Committed
<1>6. \A y \in Xact : Settled(y) => Settled(y)'
  BY <1>5 DEF Settled, Quiet
<1> QED
  BY <1>1, <1>2, <1>4, <1>5, <1>6

LEMMA QuietUnmatched ==
  ASSUME IInv, NEW t \in Thread, Quiet(t),
         NEW y \in Xact, Listed(y), NEW x \in Xact, xact'[x].preds = xact[x].preds
  PROVE  Unmatched(x, y)' <=> Unmatched(x, y)
<1> DEFINE z == IF th[t].pc \in Working THEN th[t].x ELSE NoXact
<1>1. ContentKept(z)
  BY DEF Quiet, Owner
<1>2. z \in Xact => th[t].pc \in Working /\ z = th[t].x /\ ~Committed(z)
  BY XactFacts, ThreadFacts DEF Uncommitted
<1>3. z = th[t].x => ~Listed(z) \/ z = NoXact
  <2> SUFFICES ASSUME z = th[t].x, th[t].pc \in Working, z \in Xact PROVE ~Listed(z)
    BY ThreadFacts, XactFacts DEF Uncommitted
  <2>1. ~Committed(z) /\ z # Loader
    BY <1>2, ThreadFacts DEF Uncommitted
  <2>2. ~Pushing(z)
    <3> SUFFICES ASSUME NEW u \in Thread, th[u].x = z, th[u].pc \in {"draw", "store"} PROVE FALSE
      BY DEF Pushing
    <3>1. u = t
      BY XactFacts DEF IInv, OneThreadEach, OnOneThread
    <3> QED
      BY <3>1 DEF Working
  <2> QED
    BY <2>1, <2>2 DEF Listed
<1>4. y # z
  BY <1>3, XactFacts
<1>5. xact'[y].undo = xact[y].undo
  <2>1. CASE y # th[t].x
    BY <2>1 DEF Quiet
  <2>2. CASE y = th[t].x
    <3>1. th[t].pc \notin Uncommitted
      <4> SUFFICES ASSUME th[t].pc \in Uncommitted PROVE FALSE
        OBVIOUS
      <4>1. ~Committed(y) /\ y # Loader
        BY <2>2, ThreadFacts
      <4>2. PICK u \in Thread : th[u].x = y /\ th[u].pc \in {"draw", "store"}
        BY <4>1 DEF Listed, Pushing
      <4>3. u = t
        BY <2>2, <4>2, XactFacts DEF IInv, OneThreadEach, OnOneThread
      <4> QED
        BY <4>2, <4>3 DEF Quiet
    <3> QED
      BY <2>2, <3>1 DEF Quiet
  <2> QED
    BY <2>1, <2>2
<1> HIDE DEF z
<1> QED
  BY <1>1, <1>2, <1>4, <1>5, UnmatchedKept

(* What holds of all transactions, and of the other threads, stays.        *)
LEMMA QuietKeeps ==
  ASSUME IInv, NEW t \in Thread, Quiet(t)
  PROVE  /\ Chained' /\ Counted' /\ Past' /\ OnOneThread'
         /\ \A u \in Thread \ {t} : RunsOne(u)' /\ DrawnLast(u)' /\ AtList(u)' /\ Validated(u)'
<1>1. \A y \in Xact : /\ Begun(y)' <=> Begun(y)
                      /\ Committed(y)' <=> Committed(y)
                      /\ Storing(y)' <=> Storing(y)
                      /\ Listed(y)' <=> Listed(y)
                      /\ Settled(y) => Settled(y)'
  BY QuietListed
<1>2. \A y, z \in Xact : Older(y, z)' <=> Older(y, z)
  BY DEF Older, Quiet
<1>3. Chained'
  <2> DEFINE tail == committedXactsTail
  <2>1. Chained /\ tail \in NoneOr(Xact) /\ \A y \in Xact : xact[y].prev \in NoneOr(Xact)
    BY XactTypes DEF IInv, ManagerTypes
  <2>2. tail' = tail /\ \A y \in Xact : xact'[y].prev = xact[y].prev
    BY DEF Quiet
  <2>3. \A y, z \in Xact : xact'[y].commitTS = xact'[z].commitTS <=> xact[y].commitTS = xact[z].commitTS
    BY DEF Quiet
  <2>4. tail' # NoXact => Listed(tail)' /\ \A w \in Xact : Listed(w)' => ~Older(tail, w)'
    BY <1>1, <1>2, <2>1, <2>2 DEF Chained, NoneOr
  <2>5. tail' = NoXact => \A w \in Xact : Listed(w)' => Settled(w)'
    BY <1>1, <2>1, <2>2 DEF Chained
  <2>6. ASSUME NEW y \in Xact, Listed(y)', NEW w \in Xact, Listed(w)', Older(w, y)'
        PROVE  IF xact'[y].prev = NoXact THEN Settled(w)' ELSE ~Older(xact[y].prev, w)'
    <3>1. IF xact[y].prev = NoXact THEN Settled(w) ELSE ~Older(xact[y].prev, w)
      BY <1>1, <1>2, <2>1, <2>6 DEF Chained
    <3> QED
      BY <1>1, <1>2, <2>1, <2>2, <3>1 DEF NoneOr
  <2>7. \A y \in Xact : xact'[y].prev # NoXact => Listed(xact[y].prev)' /\ Older(xact[y].prev, y)'
    BY <1>1, <1>2, <2>1, <2>2 DEF Chained, NoneOr
  <2>8. \A y, z \in Xact : Listed(y)' /\ Listed(z)' /\ xact'[y].commitTS = xact'[z].commitTS => y = z
    BY <1>1, <2>1, <2>3 DEF Chained
  <2>9. \A y \in Xact : ~Begun(y)' => xact'[y].prev = NoXact
    BY <1>1, <2>1, <2>2 DEF Chained
  <2> QED
    BY <2>2, <2>4, <2>5, <2>6, <2>7, <2>8, <2>9 DEF Chained
<1>4. Started' = Started /\ Drawn' = Drawn
  BY <1>1 DEF Started, Drawn
<1>5. timestampGen' = timestampGen /\ \A y \in Xact : xact'[y].startTS = xact[y].startTS /\ xact'[y].commitTS = xact[y].commitTS
  BY DEF Quiet
<1>6. \A u \in Thread : th'[u].x \in {th[u].x, NoXact}
  BY DEF Quiet
<1>7. ASSUME NEW u \in Thread \ {t}
      PROVE  RunsOne(u)' /\ DrawnLast(u)' /\ AtList(u)' /\ Validated(u)'
  <2>1. th'[u] = th[u] /\ th[u] \in ThreadType
    BY ThreadFacts DEF Quiet
  <2>2. th[u].x \in NoneOr(Xact) /\ {th[u].start, th[u].cur, th[u].end} \subseteq NoneOr(Xact)
    BY <2>1 DEF ThreadType
  <2>3. RunsOne(u)'
    <3>1. RunsOne(u)
      BY DEF IInv, OneThreadEach, OnOneThread
    <3>2. th[u].x \in Xact => (Begun(th[u].x)' <=> Begun(th[u].x)) /\ (Committed(th[u].x)' <=> Committed(th[u].x))
      BY <2>1 DEF Quiet, Begun, Committed
    <3>3. th[u].pc \in Uncommitted \cup {"stamp", "clear"} => th[u].x \in Xact
      BY ThreadFacts DEF Uncommitted, Working
    <3> QED
      BY <2>1, <2>2, <3>1, <3>2, <3>3 DEF RunsOne, NoneOr
  <2>4. DrawnLast(u)'
    <3>1. DrawnLast(u)
      BY DEF IInv, Clock
    <3> QED
      BY <1>1, <1>5, <2>1, <3>1 DEF DrawnLast
  <2>5. AtList(u)'
    <3>1. AtList(u)
      BY DEF IInv
    <3>2. th[u].pc \in Working \cup {"publish", "push"} => th[u].x \in Xact
      BY ThreadFacts DEF Working
    <3> QED
      BY <1>1, <2>1, <2>2, <3>1, <3>2 DEF AtList, Quiet, NoneOr
  <2>6. Validated(u)'
    <3> SUFFICES ASSUME th[u].x \in Xact \ overlooked,
                        NEW y \in Xact, Listed(y), xact[th[u].x].startTS < xact[y].commitTS
                 PROVE  /\ th[u].pc = "validate" => Unmatched(th[u].x, y)' \/ Ahead(u, y)' \/ ToCheck(u, y)'
                        /\ th[u].pc \in Holding \cup {"stamp", "clear"} /\ Older(y, th[u].x) => Unmatched(th[u].x, y)'
      BY <1>1, <1>2, <2>1 DEF Validated, Quiet
    <3>1. /\ th[u].pc = "validate" => Unmatched(th[u].x, y) \/ Ahead(u, y) \/ ToCheck(u, y)
          /\ th[u].pc \in Holding \cup {"stamp", "clear"} /\ Older(y, th[u].x) => Unmatched(th[u].x, y)
      BY DEF IInv, Validated
    <3>2. th[u].x # th[t].x
      BY XactFacts DEF IInv, OneThreadEach, OnOneThread
    <3>3. Unmatched(th[u].x, y)' <=> Unmatched(th[u].x, y)
      <4>1. PICK x \in Xact : x = th[u].x
        OBVIOUS
      <4>2. xact'[x].preds = xact[x].preds /\ th'[u].x = x
        BY <2>1, <3>2, <4>1 DEF Quiet
      <4>3. Unmatched(x, y)' <=> Unmatched(x, y)
        BY <4>2, QuietUnmatched
      <4>4. Unmatched(th[u].x, y) <=> Unmatched(x, y)
        BY <4>1
      <4>5. Unmatched(th[u].x, y)' <=> Unmatched(x, y)'
        BY <4>2 DEF Unmatched
      <4> QED
        BY <4>3, <4>4, <4>5
    <3>4. (Ahead(u, y)' <=> Ahead(u, y)) /\ (ToCheck(u, y)' <=> ToCheck(u, y))
      BY <1>2, <2>1, <2>2 DEF Ahead, ToCheck, NoneOr
    <3> QED
      BY <3>1, <3>3, <3>4
  <2> QED
    BY <2>3, <2>4, <2>5, <2>6
<1>8. Counted'
  BY <1>4, <1>5 DEF IInv, Clock, Counted
<1>9. Past'
  BY <1>1, <1>5, XactFacts DEF IInv, Clock, Past
<1>10. OnOneThread'
  BY <1>6 DEF IInv, OneThreadEach, OnOneThread
<1> QED
  BY <1>3, <1>7, <1>8, <1>9, <1>10

-----------------------------------------------------------------------------
(* Changes of the table.                                                   *)

(* The numbers of the versions of a transaction are those used so far.     *)
LEMMA Fresh ==
  ASSUME IInv, NEW x \in Xact \ {Loader}
  PROVE  /\ NewVersion(x) \notin DOMAIN version
         /\ Writer(NewVersion(x)) = x
         /\ \E n \in Nat : /\ Versions(x) = {<<x, i>> : i \in 1..n}
                           /\ NewVersion(x) = <<x, n + 1>>
<1>1. PICK n \in Nat : Versions(x) = {<<x, i>> : i \in 1..n}
  BY DEF IInv, Numbered
<1> DEFINE f == [i \in 1..n |-> <<x, i>>]
           S == {<<x, i>> : i \in 1..n}
<1>2. f \in Bijection(1..n, S)
  BY DEF Bijection, Injection, Surjection, IsInjective
<1>3. ExistsBijection(1..n, S)
  <2> HIDE DEF f, S
  <2> QED
    BY <1>2 DEF ExistsBijection
<1>4. Cardinality(S) = n
  <2> HIDE DEF f, S
  <2> QED
    BY <1>3, FS_CountingElements
<1>5. NewVersion(x) = <<x, n + 1>>
  BY <1>1, <1>4 DEF NewVersion
<1>6. Writer(NewVersion(x)) = x
  BY <1>5 DEF Writer
<1>7. <<x, n + 1>> \notin S
  BY <1>1
<1>8. NewVersion(x) \notin DOMAIN version
  BY <1>1, <1>5, <1>6, <1>7 DEF Versions
<1> QED
  BY <1>1, <1>5, <1>6, <1>8

(* A version is added.                                                     *)
Adds(x, r) ==
  LET n == NewVersion(x)
  IN  /\ version' = With(version, n, r)
      /\ r.xactid = Never /\ r.entry \in DOMAIN entry'
      /\ r.oldV \in DOMAIN version \cup {Null} /\ r.valid \in BOOLEAN
      /\ r = [entry |-> r.entry, oldV |-> r.oldV, xactid |-> r.xactid, valid |-> r.valid]
      /\ \A e \in DOMAIN entry : e \in DOMAIN entry' /\ entry'[e].key = entry[e].key

LEMMA Adding ==
  ASSUME IInv, NEW x \in Xact \ {Loader}, NEW r, Adds(x, r)
  PROVE  /\ DOMAIN version' = DOMAIN version \cup {NewVersion(x)}
         /\ \A v \in DOMAIN version : version'[v] = version[v]
         /\ version'[NewVersion(x)] = r
         /\ version' \in [DOMAIN version' -> VersionType']
         /\ \A v \in DOMAIN version' : Writer(v) \in Xact
         /\ Numbered'
         /\ ContentKept(NoXact) /\ ContentKept(x)
<1> DEFINE n == NewVersion(x)
<1>1. n \notin DOMAIN version /\ Writer(n) = x
  BY Fresh
<1>2. DOMAIN version' = DOMAIN version \cup {n} /\ version'[n] = r
  BY DEF Adds, With
<1>3. \A v \in DOMAIN version : version'[v] = version[v]
  BY <1>1 DEF Adds, With
<1>4. version' = [v \in DOMAIN version' |-> version'[v]]
  BY DEF Adds, With
<1>5. r \in VersionType'
  BY <1>2, TransactionAssumption DEF Adds, VersionType
<1>6. \A v \in DOMAIN version : version[v] \in VersionType'
  <2>1. \A v \in DOMAIN version : version[v] \in VersionType
    BY DEF IInv, StoreTypes
  <2>2. DOMAIN entry \subseteq DOMAIN entry'
    BY DEF Adds
  <2> QED
    BY <1>2, <2>1, <2>2 DEF VersionType
<1>7. version' \in [DOMAIN version' -> VersionType']
  BY <1>2, <1>3, <1>4, <1>5, <1>6
<1>8. \A v \in DOMAIN version' : Writer(v) \in Xact
  BY <1>1, <1>2 DEF IInv, StoreTypes
<1>9. Numbered'
  <2> SUFFICES ASSUME NEW y \in Xact \ {Loader}
               PROVE  \E m \in Nat : Versions(y)' = {<<y, i>> : i \in 1..m}
    BY DEF Numbered
  <2>1. CASE y = x
    <3>1. PICK m \in Nat : Versions(x) = {<<x, i>> : i \in 1..m} /\ n = <<x, m + 1>>
      BY Fresh
    <3>2. Versions(x)' = Versions(x) \cup {n}
      BY <1>1, <1>2 DEF Versions
    <3>3. {<<x, i>> : i \in 1..(m + 1)} = {<<x, i>> : i \in 1..m} \cup {<<x, m + 1>>}
      <4>1. 1..(m + 1) = 1..m \cup {m + 1}
        OBVIOUS
      <4> QED
        BY <4>1
    <3>4. m + 1 \in Nat
      OBVIOUS
    <3> QED
      BY <2>1, <3>1, <3>2, <3>3, <3>4
  <2>2. CASE y # x
    <3>1. Versions(y)' = Versions(y)
      BY <1>1, <1>2, <2>2 DEF Versions
    <3> QED
      BY <3>1 DEF IInv, Numbered
  <2> QED
    BY <2>1, <2>2
<1>10. ContentKept(NoXact) /\ ContentKept(x)
  BY <1>2, <1>3 DEF ContentKept, Adds
<1> QED
  BY <1>2, <1>3, <1>7, <1>8, <1>9, <1>10

LEMMA Superseding ==
  ASSUME IInv, NEW x \in Xact \ {Loader}, NEW v \in DOMAIN version, Supersede(x, v)
  PROVE  \E r : Adds(x, r) /\ r.oldV = v /\ StoreTypes' /\ DOMAIN entry' = DOMAIN entry
<1> DEFINE r == [version[v] EXCEPT !.oldV = v, !.xactid = Never]
           n == NewVersion(x)
<1>1. version[v] \in VersionType
  BY DEF IInv, StoreTypes
<1>2. /\ r.xactid = Never /\ r.entry = version[v].entry /\ r.oldV = v /\ r.valid = version[v].valid
      /\ r = [entry |-> r.entry, oldV |-> r.oldV, xactid |-> r.xactid, valid |-> r.valid]
      /\ r.entry \in DOMAIN entry /\ r.valid \in BOOLEAN
  <2>1. PICK w \in [entry : DOMAIN entry, oldV : DOMAIN version \cup {Null}, xactid : Nat, valid : BOOLEAN] : w = version[v]
    BY <1>1 DEF VersionType
  <2>2. r = [w EXCEPT !.oldV = v, !.xactid = Never]
    BY <2>1
  <2> HIDE DEF r
  <2>3. r \in [entry : DOMAIN entry, oldV : {v}, xactid : {Never}, valid : BOOLEAN]
    BY <2>2
  <2>4. r.entry = w.entry /\ r.valid = w.valid
    BY <2>2
  <2> QED
    BY <2>1, <2>3, <2>4
<1>3. /\ version' = With(version, n, r)
      /\ entry' = [entry EXCEPT ![r.entry].head = n]
      /\ UNCHANGED <<index, rows, removed, slice>>
  BY <1>2 DEF Supersede
<1> HIDE DEF r
<1>4. entry \in [DOMAIN entry -> [key : Key, head : DOMAIN version]]
  BY DEF IInv, StoreTypes
<1>5. DOMAIN entry' = DOMAIN entry /\ \A e \in DOMAIN entry : entry'[e].key = entry[e].key
  BY <1>3, <1>4
<1>6. Adds(x, r)
  BY <1>2, <1>3, <1>5 DEF Adds
<1>7. DOMAIN version' = DOMAIN version \cup {n}
  BY <1>6, Adding
<1>8. entry' \in [DOMAIN entry -> [key : Key, head : DOMAIN version']]
  BY <1>3, <1>4, <1>7
<1>9. StoreTypes'
  <2>1. StoreTypes
    BY DEF IInv
  <2>2. version' \in [DOMAIN version' -> VersionType'] /\ \A u \in DOMAIN version' : Writer(u) \in Xact
    BY <1>6, Adding
  <2> QED
    BY <1>3, <1>5, <1>7, <1>8, <2>1, <2>2 DEF StoreTypes
<1> QED
  BY <1>2, <1>5, <1>6, <1>9

LEMMA Inserting ==
  ASSUME IInv, NEW x \in Xact \ {Loader}, NEW k \in Key, InsertEntry(x, k)
  PROVE  \E r : Adds(x, r) /\ r.oldV = Null /\ StoreTypes' /\ DOMAIN entry \subseteq DOMAIN entry'
<1> DEFINE n == NewVersion(x)
           r == [entry |-> n, oldV |-> Null, xactid |-> Never, valid |-> TRUE]
<1>1. /\ version' = With(version, n, r)
      /\ entry' = With(entry, n, [key |-> k, head |-> n])
      /\ index' = [index EXCEPT ![k] = n]
      /\ rows' = <<n>> \o rows
      /\ AddToSlice(SliceOf[k], n)
      /\ UNCHANGED removed
  BY DEF InsertEntry
<1>2. StoreTypes
  BY DEF IInv
<1>3. n \notin DOMAIN version /\ n \notin DOMAIN entry
  BY <1>2, Fresh DEF StoreTypes
<1>4. /\ DOMAIN entry' = DOMAIN entry \cup {n}
      /\ entry'[n] = [key |-> k, head |-> n]
      /\ \A e \in DOMAIN entry : entry'[e] = entry[e]
      /\ entry' = [e \in DOMAIN entry' |-> entry'[e]]
  BY <1>1, <1>3 DEF With
<1>5. Adds(x, r)
  BY <1>1, <1>4 DEF Adds
<1>6. DOMAIN version' = DOMAIN version \cup {n}
  BY <1>5, Adding
<1>7. entry' \in [DOMAIN entry' -> [key : Key, head : DOMAIN version']]
  <2>1. \A e \in DOMAIN entry : entry[e] \in [key : Key, head : DOMAIN version']
    BY <1>2, <1>6 DEF StoreTypes
  <2>2. \A e \in DOMAIN entry' : entry'[e] \in [key : Key, head : DOMAIN version']
    BY <1>4, <1>6, <2>1
  <2> QED
    BY <1>4, <2>2
<1>8. index' \in [Key -> DOMAIN entry' \cup {Null}]
  BY <1>1, <1>2, <1>4 DEF StoreTypes
<1>9. rows' \in Seq(DOMAIN entry')
  <2>1. rows \in Seq(DOMAIN entry') /\ <<n>> \in Seq(DOMAIN entry')
    BY <1>2, <1>4 DEF StoreTypes
  <2> QED
    BY <1>1, <2>1
<1>10. slice' \in [DOMAIN slice' -> Seq(DOMAIN entry')]
  <2> DEFINE s == SliceOf[k]
             q == IF s \in DOMAIN slice THEN slice[s] ELSE <<>>
  <2>1. \A z \in DOMAIN slice : slice[z] \in Seq(DOMAIN entry')
    BY <1>2, <1>4 DEF StoreTypes
  <2>2. q \in Seq(DOMAIN entry') /\ <<n>> \in Seq(DOMAIN entry')
    BY <1>4, <2>1
  <2>3. <<n>> \o q \in Seq(DOMAIN entry')
    BY <2>2
  <2>4. slice' = With(slice, s, <<n>> \o q)
    BY <1>1 DEF AddToSlice
  <2> HIDE DEF q
  <2> QED
    BY <2>1, <2>3, <2>4 DEF With
<1>11. StoreTypes'
  <2>1. version' \in [DOMAIN version' -> VersionType'] /\ \A u \in DOMAIN version' : Writer(u) \in Xact
    BY <1>5, Adding
  <2>2. DOMAIN entry' \subseteq DOMAIN version'
    BY <1>2, <1>4, <1>6 DEF StoreTypes
  <2> QED
    BY <1>7, <1>8, <1>9, <1>10, <2>1, <2>2 DEF StoreTypes
<1> QED
  BY <1>4, <1>5, <1>11

-----------------------------------------------------------------------------
(* Steps that leave the list of committed transactions as it was.          *)

Grows ==
  /\ DOMAIN version \subseteq DOMAIN version' /\ DOMAIN entry \subseteq DOMAIN entry'
  /\ \A v \in DOMAIN version :
       /\ version'[v].oldV = version[v].oldV
       /\ version'[v].xactid \in {version[v].xactid, xact[Writer(v)].commitTS}

(* The versions x adds, and what it keeps in its undo buffer.              *)
Writing(x) ==
  /\ \A v \in DOMAIN version' \ DOMAIN version :
       /\ Writer(v) = x /\ version'[v].xactid = Never
       /\ version'[v].oldV # Null => MayFollow(x, version'[v].oldV)
  /\ x \in Xact => \A i \in DOMAIN xact'[x].undo : Writer(xact'[x].undo[i]) = x

LEMMA TypesGrow ==
  ASSUME IInv, DOMAIN version \subseteq DOMAIN version'
  PROVE  /\ \A y \in Xact : xact[y] \in XactType'
         /\ \A u \in Thread : th[u] \in ThreadType'
<1>1. Seq(DOMAIN version) \subseteq Seq(DOMAIN version')
  OBVIOUS
<1>2. \A y \in Xact : xact[y] \in XactType
  BY DEF IInv, ManagerTypes
<1>3. \A u \in Thread : th[u] \in ThreadType
  BY DEF IInv, ManagerTypes
<1>4. \A y \in Xact : xact[y] \in XactType'
  BY <1>1, <1>2 DEF XactType
<1>5. \A u \in Thread : th[u] \in ThreadType'
  BY <1>1, <1>3 DEF ThreadType
<1> QED
  BY <1>4, <1>5

LEMMA QuietStep ==
  ASSUME IInv, NEW t \in Thread, Quiet(t), Grows, Writing(th[t].x),
         StoreTypes', ManagerTypes', Numbered',
         UNCHANGED <<counterLock, commitLock>>, th'[t].pc \notin Holding,
         RunsOne(t)', AtList(t)', Validated(t)', Writes(t)'
  PROVE  IInv'
<1>1. \A y \in Xact : xact'[y].startTS = xact[y].startTS /\ xact'[y].commitTS = xact[y].commitTS
  BY DEF Quiet
<1>2. \A u \in Thread \ {t} : th'[u] = th[u]
  BY DEF Quiet
<1>3. Locks'
  <2>1. "store" \in Holding
    BY DEF Holding
  <2>2. OneHolder'
    BY <1>2 DEF IInv, Locks, OneHolder
  <2>3. ASSUME NEW u \in Thread PROVE Holds(u)'
    <3>1. CASE u = t
      BY <2>1, <3>1 DEF Holds
    <3>2. CASE u # t
      BY <1>2, <3>2 DEF IInv, Locks, Holds
    <3> QED
      BY <3>1, <3>2
  <2> QED
    BY <2>2, <2>3 DEF Locks
<1>4. DrawnLast(t)'
  BY DEF DrawnLast, Holding
<1>5. Stamps'
  <2> SUFFICES ASSUME NEW v \in DOMAIN version'
               PROVE  /\ version'[v].xactid \in {Never, xact'[Writer(v)].commitTS}
                      /\ xact'[Writer(v)].startTS # Never
                      /\ version'[v].oldV # Null => MayFollow(Writer(v), version[v].oldV)'
    BY DEF Stamps, Begun
  <2>1. Writer(v) \in Xact
    BY DEF StoreTypes
  <2>2. CASE v \in DOMAIN version
    <3>1. /\ version[v].xactid \in {Never, xact[Writer(v)].commitTS}
          /\ Begun(Writer(v))
          /\ version[v].oldV # Null => MayFollow(Writer(v), version[v].oldV)
      BY <2>2 DEF IInv, Stamps
    <3>2. version[v].oldV # Null => Writer(version[v].oldV) \in Xact
      BY <2>2 DEF IInv, StoreTypes, VersionType
    <3> QED
      BY <1>1, <2>1, <2>2, <3>1, <3>2 DEF Grows, MayFollow, Begun
  <2>3. CASE v \notin DOMAIN version
    <3>1. /\ Writer(v) = th[t].x /\ version'[v].xactid = Never
          /\ version'[v].oldV # Null => MayFollow(th[t].x, version'[v].oldV)
      BY <2>3 DEF Writing
    <3>2. version'[v].oldV # Null => Writer(version'[v].oldV) \in Xact
      BY DEF StoreTypes, VersionType
    <3>3. th[t].pc # "idle"
      BY <2>1, <3>1, XactFacts DEF IInv, OneThreadEach, RunsOne
    <3>4. Begun(th[t].x)
      BY <3>3, ThreadFacts
    <3> QED
      BY <1>1, <2>1, <3>1, <3>2, <3>4 DEF MayFollow, Begun
  <2> QED
    BY <2>2, <2>3
<1>6. UndoOwn'
  <2> SUFFICES ASSUME NEW x \in Xact, NEW i \in DOMAIN xact'[x].undo
               PROVE  Writer(xact'[x].undo[i]) = x
    BY DEF UndoOwn
  <2>1. CASE x = th[t].x
    BY <2>1 DEF Writing
  <2>2. CASE x # th[t].x
    BY <2>2 DEF Quiet, IInv, UndoOwn
  <2> QED
    BY <2>1, <2>2
<1>7. ASSUME NEW u \in Thread \ {t} PROVE Writes(u)'
  <2>1. th'[u] = th[u] /\ Writes(u)
    BY <1>2 DEF IInv
  <2>2. th[u].pc = "supersede" => (MayFollow(th[u].x, th[u].found) => MayFollow(th[u].x, th[u].found)')
    <3> SUFFICES ASSUME th[u].pc = "supersede", MayFollow(th[u].x, th[u].found)
                 PROVE  MayFollow(th[u].x, th[u].found)'
      OBVIOUS
    <3>1. th[u].x \in Xact
      BY ThreadFacts
    <3>2. th[u].found \in DOMAIN version
      BY <2>1 DEF Writes
    <3>3. Writer(th[u].found) \in Xact
      BY <3>2 DEF IInv, StoreTypes
    <3> QED
      BY <1>1, <2>1, <3>1, <3>3 DEF MayFollow
  <2>3. th[u].pc \in Holding \cup {"validate"} => xact'[th[u].x].undo = xact[th[u].x].undo
    <3> SUFFICES ASSUME th[u].pc \in Holding \cup {"validate"} PROVE xact'[th[u].x].undo = xact[th[u].x].undo
      OBVIOUS
    <3>1. th[u].x \in Xact
      BY ThreadFacts DEF Holding
    <3>2. th[u].x # th[t].x
      BY <3>1, XactFacts DEF IInv, OneThreadEach, OnOneThread
    <3> QED
      BY <3>1, <3>2 DEF Quiet
  <2>4. Seq(DOMAIN entry) \subseteq Seq(DOMAIN entry')
    BY DEF Grows
  <2> QED
    BY <2>1, <2>2, <2>3, <2>4 DEF Writes, Grows
<1> QED
  <2>1. /\ Chained' /\ Counted' /\ Past' /\ OnOneThread'
        /\ \A u \in Thread \ {t} : RunsOne(u)' /\ DrawnLast(u)' /\ AtList(u)' /\ Validated(u)'
    BY QuietKeeps
  <2>2. OneThreadEach'
    BY <2>1 DEF OneThreadEach
  <2>3. Clock'
    BY <1>4, <2>1 DEF Clock
  <2>4. \A u \in Thread : AtList(u)' /\ Validated(u)' /\ Writes(u)'
    BY <1>7, <2>1
  <2> QED
    BY <1>3, <1>5, <1>6, <2>1, <2>2, <2>3, <2>4 DEF IInv

(* A step within an operation, or from its end to a rollback.              *)
WorkStep(t) ==
  LET x == th[t].x
  IN  /\ th[t].pc \in Working \cup {"publish", "rollback", "unchain"}
      /\ th'[t].pc \in Working \cup {"rollback", "unchain"}
      /\ th'[t].pc \in Working => th[t].pc \in Working \cup {"publish"}
      /\ th'[t].x = x
      /\ \A u \in Thread \ {t} : th'[u] = th[u]
      /\ \A y \in Xact \ {x} : xact'[y] = xact[y]
      /\ xact'[x].startTS = xact[x].startTS
      /\ xact'[x].commitTS = xact[x].commitTS
      /\ xact'[x].prev = xact[x].prev
      /\ ContentKept(Owner(t))
      /\ UNCHANGED <<timestampGen, counterLock, commitLock, committedXactsTail, overlooked>>

LEMMA Operating ==
  ASSUME IInv, NEW t \in Thread, WorkStep(t), Grows, Writing(th[t].x),
         StoreTypes', ManagerTypes', Numbered', Writes(t)'
  PROVE  IInv'
<1>1. th[t].x \in Xact \ {Loader} /\ th[t].x # NoXact /\ Begun(th[t].x) /\ ~Committed(th[t].x)
  BY ThreadFacts, XactFacts DEF WorkStep, Uncommitted, Working
<1>2. th[t].pc \in Uncommitted /\ th[t].pc \notin {"draw", "store"} \cup Holding
  BY DEF WorkStep, Uncommitted, Working, Holding
<1>3. th'[t].pc \in Uncommitted \ ({"idle", "validate", "stamp", "clear", "scan", "publish"} \cup Holding)
  BY DEF WorkStep, Uncommitted, Working, Holding
<1>4. Quiet(t)
  BY <1>1, <1>2, <1>3 DEF WorkStep, Quiet, Holding
<1>5. RunsOne(t)'
  BY <1>1, <1>3 DEF RunsOne, WorkStep, Begun, Committed
<1>6. AtList(t)'
  <2>1. th'[t].pc \in Working => xact[th[t].x].prev = NoXact
    BY DEF WorkStep, IInv, AtList
  <2> QED
    BY <1>1, <1>3, <2>1 DEF AtList, WorkStep, Holding
<1>7. Validated(t)'
  BY <1>3 DEF Validated
<1> QED
  BY <1>3, <1>4, <1>5, <1>6, <1>7, QuietStep DEF WorkStep

LEMMA StoreUnchanged ==
  ASSUME IInv, UNCHANGED storeVars
  PROVE  /\ StoreTypes' /\ Numbered' /\ Grows /\ \A x : ContentKept(x)
         /\ XactType' = XactType /\ ThreadType' = ThreadType
<1>1. /\ version' = version /\ entry' = entry /\ index' = index /\ rows' = rows
      /\ slice' = slice /\ removed' = removed
  BY DEF storeVars
<1>2. StoreTypes'
  <2>1. VersionType' = VersionType
    BY <1>1 DEF VersionType
  <2> QED
    BY <1>1, <2>1 DEF IInv, StoreTypes
<1>3. Numbered'
  <2>1. \A x : Versions(x)' = Versions(x)
    BY <1>1 DEF Versions
  <2> QED
    BY <2>1 DEF IInv, Numbered
<1> QED
  BY <1>1, <1>2, <1>3 DEF Grows, ContentKept, XactType, ThreadType

LEMMA WritingNothing ==
  ASSUME IInv, NEW x, DOMAIN version' = DOMAIN version,
         x \in Xact => xact'[x].undo \in {xact[x].undo, <<>>}
  PROVE  Writing(x)
BY DEF Writing, IInv, UndoOwn

-----------------------------------------------------------------------------
(* The operations of the table.                                            *)

(* An operation that only records what it has read.                        *)
Reads(t) ==
  /\ th[t].pc \in Working
  /\ th' \in [Thread -> ThreadType] /\ \A u \in Thread \ {t} : th'[u] = th[u]
  /\ th'[t].x = th[t].x /\ th'[t].pc \in Working
  /\ th'[t].pc = "supersede" => th'[t].found \in DOMAIN version /\ MayFollow(th[t].x, th'[t].found)
  /\ th'[t].pc = "slice" => th'[t].todo \in Seq(DOMAIN entry)
  /\ \E P \in SUBSET Pred : xact' = [xact EXCEPT ![th[t].x].preds = P]
  /\ UNCHANGED <<managerVars, crashed, overlooked>>

LEMMA Reading ==
  ASSUME IInv, NEW t \in Thread, Reads(t), StoreTypes', Numbered', Grows, ContentKept(th[t].x),
         DOMAIN version' = DOMAIN version, DOMAIN entry' = DOMAIN entry
  PROVE  IInv'
<1>0. PICK x : x = th[t].x
  OBVIOUS
<1>1. /\ xact \in [Xact -> XactType] /\ x \in Xact \ {Loader} /\ xact[x] \in XactType
  BY <1>0, ThreadFacts DEF IInv, ManagerTypes, Reads, Uncommitted, Working
<1>2. XactType' = XactType /\ ThreadType' = ThreadType
  BY DEF XactType, ThreadType
<1>3. /\ th' \in [Thread -> ThreadType] /\ \A u \in Thread \ {t} : th'[u] = th[u]
      /\ th[t].pc \in Working /\ th'[t].x = x /\ th'[t].pc \in Working
      /\ th'[t].pc = "supersede" => th'[t].found \in DOMAIN version /\ MayFollow(x, th'[t].found)
      /\ th'[t].pc = "slice" => th'[t].todo \in Seq(DOMAIN entry)
      /\ UNCHANGED <<managerVars, crashed, overlooked>>
  BY <1>0 DEF Reads
<1>4. PICK P \in SUBSET Pred : xact' = [xact EXCEPT ![x].preds = P]
  BY <1>0 DEF Reads
<1>5. xact' \in [Xact -> XactType]
  BY <1>1, <1>4 DEF XactType
<1>6. /\ \A y \in Xact \ {x} : xact'[y] = xact[y]
      /\ xact'[x].startTS = xact[x].startTS /\ xact'[x].commitTS = xact[x].commitTS
      /\ xact'[x].prev = xact[x].prev /\ xact'[x].undo = xact[x].undo
  BY <1>1, <1>4 DEF XactType
<1>7. WorkStep(t)
  BY <1>0, <1>3, <1>6 DEF WorkStep, managerVars, Owner
<1>8. ManagerTypes'
  BY <1>2, <1>3, <1>5 DEF IInv, ManagerTypes, managerVars
<1>9. Writes(t)'
  <2>1. \A y \in Xact : xact'[y].commitTS = xact[y].commitTS /\ xact'[y].startTS = xact[y].startTS
    BY <1>6
  <2>2. th'[t].pc = "supersede" => Writer(th'[t].found) \in Xact
    BY <1>3 DEF IInv, StoreTypes
  <2> QED
    BY <1>1, <1>3, <2>1, <2>2 DEF Writes, MayFollow, Holding, Working
<1>10. Writing(x)
  BY <1>6, WritingNothing
<1> QED
  BY <1>0, <1>7, <1>8, <1>9, <1>10, Operating

(* A step that changes no more than its thread and what it depends on.     *)
LEMMA ReadingOnly ==
  ASSUME IInv, NEW t \in Thread, Reads(t), UNCHANGED storeVars
  PROVE  IInv'
<1>1. DOMAIN version' = DOMAIN version /\ DOMAIN entry' = DOMAIN entry
  BY DEF storeVars
<1> QED
  BY <1>1, StoreUnchanged, Reading

LEMMA Calling ==
  ASSUME IInv, NEW t \in Thread, th[t].pc \in Working, NEW pc \in {"run", "abort"}, Called(t, pc)
  PROVE  /\ th' \in [Thread -> ThreadType] /\ \A u \in Thread \ {t} : th'[u] = th[u]
         /\ th'[t].x = th[t].x /\ th'[t].pc = pc /\ th'[t].pc \in Working
<1>1. th \in [Thread -> ThreadType]
  BY DEF IInv, ManagerTypes
<1>2. pc \in Pc /\ pc \in Working
  BY DEF Pc, Uncommitted, Working
<1>3. PICK n \in Nat : n = th[t].calls + 1
  BY <1>1 DEF ThreadType
<1>4. th' = [th EXCEPT ![t].calls = n, ![t].pc = pc]
  BY <1>3 DEF Called
<1>5. th' \in [Thread -> ThreadType]
  <2>1. /\ th'[t] = [th[t] EXCEPT !.calls = n, !.pc = pc]
        /\ \A u \in Thread : u # t => th'[u] = th[u]
        /\ th' = [u \in Thread |-> th'[u]]
    BY <1>1, <1>4
  <2>2. th'[t] \in ThreadType
    BY <1>1, <1>2, <2>1 DEF ThreadType
  <2> QED
    BY <1>1, <2>1, <2>2
<1>6. th'[t].x = th[t].x /\ th'[t].pc = pc /\ \A u \in Thread \ {t} : th'[u] = th[u]
  BY <1>1, <1>4 DEF ThreadType
<1> QED
  BY <1>2, <1>5, <1>6

(* The preds of xact[x] are a set of predicates.                           *)
LEMMA PredsAdded ==
  ASSUME IInv, NEW x \in Xact, NEW p \in Pred
  PROVE  \E P \in SUBSET Pred : P = xact[x].preds \cup {p}
BY XactTypes DEF XactType

LEMMA PredsKept ==
  ASSUME IInv, NEW x \in Xact, xact' = xact
  PROVE  \E P \in SUBSET Pred : xact' = [xact EXCEPT ![x].preds = P]
<1>1. xact \in [Xact -> XactType]
  BY DEF IInv, ManagerTypes
<1>2. xact[x].preds \in SUBSET Pred
  BY <1>1 DEF XactType
<1>3. xact = [xact EXCEPT ![x].preds = xact[x].preds]
  BY <1>1 DEF XactType
<1> QED
  BY <1>2, <1>3

LEMMA CallReads ==
  ASSUME IInv, NEW t \in Thread, th[t].pc \in Working
  PROVE  /\ FoundNothing(t) => IInv'
         /\ Conflict(t) => IInv'
         /\ \A p \in Pred : \A vs : Found(t, p, vs) => Reads(t)
<1>0. "run" \in Working /\ th[t].x \in Xact /\ xact \in [Xact -> XactType]
  BY ThreadFacts DEF Working, Uncommitted, IInv, ManagerTypes
<1>2. ASSUME NEW pc \in {"run", "abort"}, Called(t, pc), UNCHANGED <<storeVars, xact, managerVars, crashed, ghostVars>>
      PROVE  IInv'
  <2>1. Reads(t)
    BY <1>0, <1>2, PredsKept, Calling DEF Reads, ghostVars
  <2> QED
    BY <1>2, <2>1, ReadingOnly
<1>3. ASSUME NEW p \in Pred, NEW vs, Found(t, p, vs)
      PROVE  Reads(t)
  <2>1. Called(t, "run") /\ UNCHANGED <<managerVars, crashed, overlooked>>
    BY <1>3 DEF Found
  <2>2. PICK P \in SUBSET Pred : P = xact[th[t].x].preds \cup {p}
    BY <1>0, PredsAdded
  <2>3. xact' = [xact EXCEPT ![th[t].x].preds = P]
    BY <1>3, <2>2 DEF Found
  <2> QED
    BY <2>1, <2>2, <2>3, Calling DEF Reads
<1> QED
  BY <1>2, <1>3 DEF FoundNothing, Conflict

(* Only whether the process has crashed is not as it was.                  *)
LEMMA Crashing ==
  ASSUME IInv, UNCHANGED <<storeVars, xact, managerVars, th, ghostVars>>, crashed' \in BOOLEAN
  PROVE  IInv'
<1>1. /\ version' = version /\ entry' = entry /\ index' = index /\ rows' = rows
      /\ slice' = slice /\ removed' = removed /\ xact' = xact /\ th' = th
      /\ timestampGen' = timestampGen /\ counterLock' = counterLock /\ commitLock' = commitLock
      /\ committedXactsTail' = committedXactsTail /\ isGCActive' = isGCActive
      /\ activeXactStartTS' = activeXactStartTS /\ overlooked' = overlooked
  BY DEF storeVars, managerVars, ghostVars
<1>2. StoreTypes' /\ Numbered' /\ XactType' = XactType /\ ThreadType' = ThreadType
  BY <1>1, StoreUnchanged
<1>3. ManagerTypes'
  BY <1>1, <1>2 DEF IInv, ManagerTypes
<1>4. \A y \in Xact : /\ Begun(y)' <=> Begun(y)
                      /\ Committed(y)' <=> Committed(y)
                      /\ Storing(y)' <=> Storing(y)
                      /\ Listed(y)' <=> Listed(y)
                      /\ Settled(y)' <=> Settled(y)
  BY <1>1 DEF Begun, Committed, Storing, Listed, Pushing, Settled, Running
<1>5. OneThreadEach' /\ Clock' /\ Locks'
  BY <1>1 DEF IInv, OneThreadEach, OnOneThread, RunsOne, Begun, Committed, Clock, Counted, Started, Drawn, Storing, Past, DrawnLast, Locks, OneHolder, Holds
<1>6. Chained'
  BY <1>1 DEF IInv, Chained, Listed, Committed, Pushing, Older, Settled, Running, Begun
<1>7. Stamps' /\ UndoOwn'
  BY <1>1 DEF IInv, Stamps, MayFollow, Begun, UndoOwn
<1>8. ASSUME NEW t \in Thread PROVE AtList(t)' /\ Validated(t)' /\ Writes(t)'
  <2>1. AtList(t) /\ Validated(t) /\ Writes(t)
    BY DEF IInv
  <2>2. AtList(t)'
    BY <1>1, <2>1 DEF AtList, Listed, Committed, Pushing
  <2>3. Writes(t)'
    BY <1>1, <2>1 DEF Writes, MayFollow
  <2>4. Validated(t)'
    <3>1. \A x, y : Unmatched(x, y)' <=> Unmatched(x, y)
      <4>1. \A p, v : Matches(p, v)' <=> Matches(p, v)
        BY <1>1 DEF Matches, InSlice, KeyOf
      <4>2. \A p, y : MatchesAny(p, y)' <=> MatchesAny(p, y)
        BY <1>1, <4>1 DEF MatchesAny
      <4> QED
        BY <1>1, <4>2 DEF Unmatched
    <3>2. \A y, z : Older(y, z)' <=> Older(y, z)
      BY <1>1 DEF Older
    <3>3. \A y \in Xact : (Ahead(t, y)' <=> Ahead(t, y)) /\ (ToCheck(t, y)' <=> ToCheck(t, y))
      BY <1>1, <3>2 DEF Ahead, ToCheck
    <3> QED
      BY <1>1, <1>4, <2>1, <3>1, <3>2, <3>3 DEF Validated
  <2> QED
    BY <2>2, <2>3, <2>4
<1> QED
  BY <1>2, <1>3, <1>5, <1>6, <1>7, <1>8 DEF IInv

LEMMA Predicates ==
  /\ \A k \in Key : GetPred(k) \in Pred
  /\ \A s : SlicePred(s) \in Pred
  /\ ForEachPred \in Pred
BY DEF GetPred, SlicePred, ForEachPred, Pred

LEMMA Visible ==
  ASSUME IInv, NEW x \in Xact, NEW v \in DOMAIN version, IsVisible(x, v)
  PROVE  MayFollow(x, v)
<1>1. version[v].xactid \in {Never, xact[Writer(v)].commitTS}
  BY DEF IInv, Stamps
<1> QED
  BY <1>1 DEF IsVisible, IsTemp, MayFollow

LEMMA Newest ==
  ASSUME IInv, NEW e \in DOMAIN entry
  PROVE  NewestOf(e) \in DOMAIN version
BY DEF IInv, StoreTypes, NewestOf

LEMMA CallFacts ==
  ASSUME IInv, NEW t \in Thread, th[t].pc \in Working
  PROVE  /\ th[t].x \in Xact \ {Loader} /\ ~Committed(th[t].x)
         /\ th \in [Thread -> ThreadType] /\ th[t] \in ThreadType
BY ThreadFacts DEF IInv, ManagerTypes, Uncommitted, Working

LEMMA GetStep ==
  ASSUME IInv, NEW t \in Thread, NEW k \in Key, Get(t, k)
  PROVE  IInv'
<1>1. th[t].pc \in Working
  BY DEF Get, Calls, At, Working
<1>2. CASE FoundNothing(t)
  BY <1>1, <1>2, CallReads
<1>3. CASE Crash
  BY <1>3, Crashing DEF Crash
<1>4. ASSUME NEW v, Found(t, GetPred(k), {v}), UNCHANGED storeVars PROVE IInv'
  <2>1. Reads(t)
    BY <1>1, <1>4, CallReads, Predicates
  <2> QED
    BY <1>4, <2>1, ReadingOnly
<1> QED
  BY <1>2, <1>3, <1>4 DEF Get

LEMMA ForeachStep ==
  ASSUME IInv, NEW t \in Thread, Foreach(t)
  PROVE  IInv'
<1>1. th[t].pc \in Working
  BY DEF Foreach, Calls, At, Working
<1>2. CASE Crash
  BY <1>2, Crashing DEF Crash
<1>3. ASSUME NEW vs, Found(t, ForEachPred, vs), UNCHANGED storeVars PROVE IInv'
  <2>1. Reads(t)
    BY <1>1, <1>3, CallReads, Predicates
  <2> QED
    BY <1>3, <2>1, ReadingOnly
<1> QED
  BY <1>2, <1>3 DEF Foreach

LEMMA SliceNoUpdateStep ==
  ASSUME IInv, NEW t \in Thread, NEW s, SliceNoUpdate(t, s)
  PROVE  IInv'
<1>1. th[t].pc \in Working
  BY DEF SliceNoUpdate, Calls, At, Working
<1>2. CASE FoundNothing(t)
  BY <1>1, <1>2, CallReads
<1>3. CASE Crash
  BY <1>3, Crashing DEF Crash
<1>4. ASSUME s \in DOMAIN slice, NEW vs, Found(t, SlicePred(s), vs),
             slice' = [slice EXCEPT ![s] = Live(s)],
             UNCHANGED <<version, entry, index, rows, removed>>
      PROVE  IInv'
  <2>1. Reads(t)
    BY <1>1, <1>4, CallReads, Predicates
  <2>2. Live(s) \in Seq(DOMAIN entry)
    <3>1. slice[s] \in Seq(DOMAIN entry)
      BY <1>4 DEF IInv, StoreTypes
    <3> QED
      BY <3>1, KeepType DEF Live
  <2>3. slice' \in [DOMAIN slice' -> Seq(DOMAIN entry)]
    BY <1>4, <2>2 DEF IInv, StoreTypes
  <2>4. VersionType' = VersionType
    BY <1>4 DEF VersionType
  <2>5. StoreTypes'
    BY <1>4, <2>3, <2>4 DEF IInv, StoreTypes
  <2>6. Numbered'
    <3>1. \A x : Versions(x)' = Versions(x)
      BY <1>4 DEF Versions
    <3> QED
      BY <3>1 DEF IInv, Numbered
  <2>7. Grows /\ ContentKept(th[t].x)
    BY <1>4 DEF Grows, ContentKept
  <2> QED
    BY <1>4, <2>1, <2>5, <2>6, <2>7, Reading
<1> QED
  BY <1>2, <1>3, <1>4 DEF SliceNoUpdate

LEMMA GetForUpdateStep ==
  ASSUME IInv, NEW t \in Thread, NEW k \in Key, GetForUpdate(t, k)
  PROVE  IInv'
<1>1. th[t].pc \in Working /\ th[t].x \in Xact /\ th \in [Thread -> ThreadType]
  BY CallFacts DEF GetForUpdate, Calls, At, Working
<1>2. CASE FoundNothing(t) \/ Conflict(t)
  BY <1>1, <1>2, CallReads
<1>3. ASSUME index[k] # Null, NEW v, v = NewestOf(index[k]), IsVisible(th[t].x, v),
             th' = [th EXCEPT ![t].pc = "supersede", ![t].found = v],
             UNCHANGED <<storeVars, xact, managerVars, crashed, ghostVars>>
      PROVE  IInv'
  <2>1. v \in DOMAIN version
    <3>1. index[k] \in DOMAIN entry
      BY <1>3 DEF IInv, StoreTypes
    <3> QED
      BY <1>3, <3>1, Newest
  <2>2. MayFollow(th[t].x, v)
    BY <1>1, <1>3, <2>1, Visible
  <2>3. /\ th'[t] = [th[t] EXCEPT !.pc = "supersede", !.found = v]
        /\ \A u \in Thread \ {t} : th'[u] = th[u]
        /\ th' = [u \in Thread |-> th'[u]]
    BY <1>1, <1>3
  <2>4. th'[t] \in ThreadType /\ th'[t].x = th[t].x /\ th'[t].pc = "supersede" /\ th'[t].found = v
    BY <1>1, <2>1, <2>3 DEF ThreadType, Pc, Uncommitted, Working
  <2>5. th' \in [Thread -> ThreadType]
    BY <1>1, <2>3, <2>4
  <2>6. \E P \in SUBSET Pred : xact' = [xact EXCEPT ![th[t].x].preds = P]
    BY <1>1, <1>3, PredsKept
  <2>7. Reads(t)
    BY <1>1, <1>3, <2>1, <2>2, <2>3, <2>4, <2>5, <2>6 DEF Reads, Working, ghostVars
  <2> QED
    BY <1>3, <2>7, ReadingOnly
<1> QED
  BY <1>2, <1>3 DEF GetForUpdate

LEMMA SliceForUpdateStep ==
  ASSUME IInv, NEW t \in Thread, NEW s, SliceForUpdate(t, s)
  PROVE  IInv'
<1>1. th[t].pc \in Working /\ th[t].x \in Xact /\ th \in [Thread -> ThreadType]
  BY CallFacts DEF SliceForUpdate, Calls, At, Working
<1>2. CASE FoundNothing(t)
  BY <1>1, <1>2, CallReads
<1>3. CASE Crash
  BY <1>3, Crashing DEF Crash
<1>4. ASSUME s \in DOMAIN slice,
             th' = [th EXCEPT ![t].pc = "slice", ![t].todo = slice[s], ![t].pending = SlicePred(s)],
             UNCHANGED <<storeVars, xact, managerVars, crashed, ghostVars>>
      PROVE  IInv'
  <2>1. slice[s] \in Seq(DOMAIN entry) /\ slice[s] \in Seq(DOMAIN version) /\ SlicePred(s) \in Pred
    <3>1. slice[s] \in Seq(DOMAIN entry) /\ DOMAIN entry \subseteq DOMAIN version
      BY <1>4 DEF IInv, StoreTypes
    <3> QED
      BY <3>1, Predicates
  <2>2. PICK q \in Seq(DOMAIN version), p \in Pred : q = slice[s] /\ p = SlicePred(s)
    BY <2>1
  <2>3. /\ th'[t] = [th[t] EXCEPT !.pc = "slice", !.todo = q, !.pending = p]
        /\ \A u \in Thread \ {t} : th'[u] = th[u]
        /\ th' = [u \in Thread |-> th'[u]]
    BY <1>1, <1>4, <2>2
  <2>4. th'[t] \in ThreadType /\ th'[t].x = th[t].x /\ th'[t].pc = "slice" /\ th'[t].todo = q
    BY <1>1, <2>3 DEF ThreadType, Pc, Uncommitted, Working
  <2>5. th' \in [Thread -> ThreadType]
    BY <1>1, <2>3, <2>4
  <2>6. \E P \in SUBSET Pred : xact' = [xact EXCEPT ![th[t].x].preds = P]
    BY <1>1, <1>4, PredsKept
  <2>7. Reads(t)
    BY <1>1, <1>4, <2>1, <2>2, <2>3, <2>4, <2>5, <2>6 DEF Reads, Working, ghostVars
  <2> QED
    BY <1>4, <2>7, ReadingOnly
<1> QED
  BY <1>2, <1>3, <1>4 DEF SliceForUpdate

LEMMA SliceDoneStep ==
  ASSUME IInv, NEW t \in Thread, SliceDone(t)
  PROVE  IInv'
<1>1. th[t].pc \in Working /\ th[t].x \in Xact /\ th[t].pending \in Pred
  BY CallFacts DEF SliceDone, At, Working, ThreadType
<1>2. PICK P \in SUBSET Pred : P = xact[th[t].x].preds \cup {th[t].pending}
  BY <1>1, PredsAdded
<1>3. xact' = [xact EXCEPT ![th[t].x].preds = P]
  BY <1>2 DEF SliceDone
<1>4. Called(t, "run") /\ UNCHANGED <<storeVars, managerVars, crashed, ghostVars>>
  BY DEF SliceDone
<1>5. Reads(t)
  BY <1>1, <1>3, <1>4, Calling DEF Reads, ghostVars
<1> QED
  BY <1>4, <1>5, ReadingOnly

(* An operation that makes a new version.                                  *)
Logs(x) ==
  /\ \A y \in Xact \ {x} : xact'[y] = xact[y]
  /\ xact'[x].startTS = xact[x].startTS /\ xact'[x].commitTS = xact[x].commitTS
  /\ xact'[x].prev = xact[x].prev
  /\ xact'[x].undo = <<NewVersion(x)>> \o xact[x].undo

LEMMA Logging ==
  ASSUME IInv, NEW x \in Xact, DOMAIN version' = DOMAIN version \cup {NewVersion(x)},
         NEW u, u = <<NewVersion(x)>> \o xact[x].undo,
         \/ xact' = [xact EXCEPT ![x].undo = u]
         \/ \E p \in Pred : xact' = [xact EXCEPT ![x].undo = u, ![x].preds = @ \cup {p}]
  PROVE  Logs(x) /\ xact' \in [Xact -> XactType']
<1>1. xact \in [Xact -> XactType] /\ \A y \in Xact : xact[y] \in XactType'
  BY TypesGrow DEF IInv, ManagerTypes
<1>2. u \in Seq(DOMAIN version')
  <2>1. xact[x].undo \in Seq(DOMAIN version') /\ <<NewVersion(x)>> \in Seq(DOMAIN version')
    BY <1>1 DEF XactType
  <2> QED
    BY <2>1
<1>3. PICK w \in XactType' : w = xact[x]
  BY <1>1
<1>4. CASE xact' = [xact EXCEPT ![x].undo = u]
  <2>1. xact' = [xact EXCEPT ![x] = [w EXCEPT !.undo = u]]
    BY <1>3, <1>4
  <2>2. [w EXCEPT !.undo = u] \in XactType'
    BY <1>2, <1>3 DEF XactType
  <2>3. xact' \in [Xact -> XactType']
    BY <1>1, <2>1, <2>2
  <2> QED
    BY <1>1, <1>3, <2>1, <2>3 DEF Logs, XactType
<1>5. ASSUME NEW p \in Pred, xact' = [xact EXCEPT ![x].undo = u, ![x].preds = @ \cup {p}]
      PROVE  Logs(x) /\ xact' \in [Xact -> XactType']
  <2>0. PICK P \in SUBSET Pred : P = xact[x].preds \cup {p}
    BY PredsAdded
  <2>1. xact' = [xact EXCEPT ![x] = [w EXCEPT !.undo = u, !.preds = P]]
    BY <1>1, <1>3, <1>5, <2>0 DEF XactType
  <2>2. [w EXCEPT !.undo = u, !.preds = P] \in XactType'
    BY <1>2, <1>3 DEF XactType
  <2>3. xact' \in [Xact -> XactType']
    BY <1>1, <2>1, <2>2
  <2> QED
    BY <1>1, <1>3, <2>1, <2>3 DEF Logs, XactType
<1> QED
  BY <1>4, <1>5

LEMMA Overwriting ==
  ASSUME IInv, NEW t \in Thread, th[t].pc \in Working,
         NEW r, Adds(th[t].x, r), r.oldV # Null => MayFollow(th[t].x, r.oldV),
         StoreTypes', DOMAIN entry \subseteq DOMAIN entry',
         Logs(th[t].x), xact' \in [Xact -> XactType'],
         th' \in [Thread -> ThreadType], \A u \in Thread \ {t} : th'[u] = th[u],
         th'[t].x = th[t].x, th'[t].pc \in {"run", "slice"},
         th'[t].pc = "slice" => th'[t].todo \in Seq(DOMAIN entry),
         UNCHANGED <<managerVars, crashed, overlooked>>
  PROVE  IInv'
<1>0. PICK x \in Xact \ {Loader} : x = th[t].x
  BY CallFacts
<1>1. /\ DOMAIN version' = DOMAIN version \cup {NewVersion(x)}
      /\ \A v \in DOMAIN version : version'[v] = version[v]
      /\ version'[NewVersion(x)] = r
      /\ Numbered' /\ ContentKept(x)
  BY <1>0, Adding
<1>2. WorkStep(t)
  BY <1>0, <1>1 DEF WorkStep, Logs, managerVars, Owner, Working
<1>3. Grows
  BY <1>1 DEF Grows
<1>4. Writer(NewVersion(x)) = x
  BY Fresh
<1>5. Writing(x)
  <2>1. ASSUME NEW v \in DOMAIN version' \ DOMAIN version
        PROVE  /\ Writer(v) = x /\ version'[v].xactid = Never
               /\ version'[v].oldV # Null => MayFollow(x, version'[v].oldV)
    BY <1>0, <1>1, <1>4 DEF Adds
  <2>2. ASSUME NEW i \in DOMAIN xact'[x].undo PROVE Writer(xact'[x].undo[i]) = x
    <3>1. PICK s \in Seq(DOMAIN version), n \in {NewVersion(x)} : s = xact[x].undo /\ n = NewVersion(x)
      BY XactTypes
    <3>2. xact'[x].undo = <<n>> \o s
      BY <1>0, <3>1 DEF Logs
    <3>3. \A j \in 1..Len(s) : Writer(s[j]) = x
      BY <3>1 DEF IInv, UndoOwn
    <3>4. i \in 1..(Len(s) + 1) /\ (<<n>> \o s)[i] = IF i = 1 THEN n ELSE s[i - 1]
      BY <2>2, <3>1, <3>2
    <3>5. CASE i = 1
      BY <1>4, <3>1, <3>2, <3>4, <3>5
    <3>6. CASE i # 1
      <4>1. i - 1 \in 1..Len(s)
        BY <3>4, <3>6
      <4> QED
        BY <3>2, <3>3, <3>4, <3>6, <4>1
    <3> QED
      BY <3>5, <3>6
  <2> QED
    BY <2>1, <2>2 DEF Writing
<1>6. ManagerTypes'
  <2>1. th' \in [Thread -> ThreadType']
    <3>1. Seq(DOMAIN version) \subseteq Seq(DOMAIN version') /\ DOMAIN version \subseteq DOMAIN version'
      BY <1>1
    <3>2. ThreadType \subseteq ThreadType'
      BY <3>1 DEF ThreadType
    <3> QED
      BY <3>2
  <2> QED
    BY <2>1 DEF IInv, ManagerTypes, managerVars
<1>7. Writes(t)'
  <2>1. Seq(DOMAIN entry) \subseteq Seq(DOMAIN entry')
    OBVIOUS
  <2> QED
    BY <2>1 DEF Writes, Holding
<1> QED
  BY <1>0, <1>1, <1>2, <1>3, <1>5, <1>6, <1>7, Operating

LEMMA SupersedeStep ==
  ASSUME IInv, NEW t \in Thread, SupersedeFound(t)
  PROVE  IInv'
<1>0. th[t].pc = "supersede" /\ th[t].pc \in Working
  BY DEF SupersedeFound, At, Working
<1>1. PICK x \in Xact \ {Loader} : x = th[t].x
  BY <1>0, CallFacts
<1>2. PICK v \in DOMAIN version : v = th[t].found /\ MayFollow(x, v)
  BY <1>0, <1>1 DEF IInv, Writes
<1>3. CASE Conflict(t)
  BY <1>0, <1>3, CallReads
<1>4. ASSUME Supersede(x, v),
             xact' = [xact EXCEPT ![x].undo = <<NewVersion(x)>> \o @, ![x].preds = @ \cup {GetPred(KeyOf(v))}],
             Called(t, "run"), UNCHANGED <<managerVars, crashed, overlooked>>
      PROVE  IInv'
  <2>1. PICK r : Adds(x, r) /\ r.oldV = v /\ StoreTypes' /\ DOMAIN entry' = DOMAIN entry
    BY <1>4, Superseding
  <2>2. DOMAIN version' = DOMAIN version \cup {NewVersion(x)}
    BY <2>1, Adding
  <2>3. GetPred(KeyOf(v)) \in Pred
    BY Predicates DEF IInv, StoreTypes, VersionType, KeyOf
  <2>4. Logs(x) /\ xact' \in [Xact -> XactType']
    <3>1. PICK p \in Pred, u \in {<<NewVersion(x)>> \o xact[x].undo} : p = GetPred(KeyOf(v)) /\ u = <<NewVersion(x)>> \o xact[x].undo
      BY <2>3
    <3>2. xact' = [xact EXCEPT ![x].undo = u, ![x].preds = @ \cup {p}]
      BY <1>4, <3>1
    <3> QED
      BY <2>2, <3>1, <3>2, Logging
  <2>5. /\ th' \in [Thread -> ThreadType] /\ \A u \in Thread \ {t} : th'[u] = th[u]
        /\ th'[t].x = th[t].x /\ th'[t].pc = "run"
    BY <1>0, <1>4, Calling
  <2> QED
    BY <1>0, <1>1, <1>2, <1>4, <2>1, <2>4, <2>5, Overwriting
<1> QED
  BY <1>1, <1>2, <1>3, <1>4 DEF SupersedeFound

LEMMA InsertStep ==
  ASSUME IInv, NEW t \in Thread, NEW k \in Key, Insert(t, k)
  PROVE  IInv'
<1>0. th[t].pc \in Working
  BY DEF Insert, Calls, At, Working
<1>1. PICK x \in Xact \ {Loader} : x = th[t].x
  BY <1>0, CallFacts
<1>2. CASE Conflict(t)
  BY <1>0, <1>2, CallReads
<1>3. ASSUME InsertEntry(x, k), xact' = [xact EXCEPT ![x].undo = <<NewVersion(x)>> \o @],
             Called(t, "run"), UNCHANGED <<managerVars, crashed, ghostVars>>
      PROVE  IInv'
  <2>1. PICK r : Adds(x, r) /\ r.oldV = Null /\ StoreTypes' /\ DOMAIN entry \subseteq DOMAIN entry'
    BY <1>3, Inserting
  <2>2. DOMAIN version' = DOMAIN version \cup {NewVersion(x)}
    BY <2>1, Adding
  <2>3. Logs(x) /\ xact' \in [Xact -> XactType']
    BY <1>3, <2>2, Logging
  <2>4. /\ th' \in [Thread -> ThreadType] /\ \A u \in Thread \ {t} : th'[u] = th[u]
        /\ th'[t].x = th[t].x /\ th'[t].pc = "run"
    BY <1>0, <1>3, Calling
  <2> QED
    BY <1>0, <1>1, <1>3, <2>1, <2>3, <2>4, Overwriting DEF ghostVars
<1> QED
  BY <1>1, <1>2, <1>3 DEF Insert

(* slice[..] of an update: the row at the head of todo is passed.          *)
LEMMA Passing ==
  ASSUME IInv, NEW t \in Thread, th[t].pc = "slice", th[t].todo # <<>>,
         th' = [th EXCEPT ![t].todo = Tail(@)]
  PROVE  /\ th' \in [Thread -> ThreadType] /\ \A u \in Thread \ {t} : th'[u] = th[u]
         /\ th'[t].x = th[t].x /\ th'[t].pc = "slice" /\ th'[t].todo \in Seq(DOMAIN entry)
         /\ Head(th[t].todo) \in DOMAIN entry
<1>1. th \in [Thread -> ThreadType] /\ th[t].todo \in Seq(DOMAIN entry) /\ DOMAIN entry \subseteq DOMAIN version
  BY DEF IInv, ManagerTypes, Writes, StoreTypes
<1>2. PICK q \in Seq(DOMAIN entry) : q = th[t].todo /\ q # <<>>
  BY <1>1
<1>3. Head(q) \in DOMAIN entry /\ Tail(q) \in Seq(DOMAIN entry)
  BY <1>2, HeadTailProperties
<1>4. PICK s \in Seq(DOMAIN entry) : s = Tail(q) /\ s \in Seq(DOMAIN version)
  <2>1. Seq(DOMAIN entry) \subseteq Seq(DOMAIN version)
    BY <1>1
  <2> QED
    BY <1>3, <2>1
<1>5. /\ th'[t] = [th[t] EXCEPT !.todo = s]
      /\ \A u \in Thread \ {t} : th'[u] = th[u]
      /\ th' = [u \in Thread |-> th'[u]]
  BY <1>1, <1>2, <1>4
<1>6. th'[t] \in ThreadType /\ th'[t].x = th[t].x /\ th'[t].pc = "slice" /\ th'[t].todo = s
  <2>1. PICK w \in ThreadType : w = th[t]
    BY <1>1
  <2>2. th'[t] = [w EXCEPT !.todo = s] /\ w.pc = "slice"
    BY <1>5, <2>1
  <2>3. [w EXCEPT !.todo = s] \in ThreadType
    BY <1>4, <2>1 DEF ThreadType
  <2>4. [w EXCEPT !.todo = s].x = w.x /\ [w EXCEPT !.todo = s].pc = w.pc /\ [w EXCEPT !.todo = s].todo = s
    BY <2>1 DEF ThreadType
  <2> QED
    BY <2>1, <2>2, <2>3, <2>4
<1>7. th' \in [Thread -> ThreadType]
  BY <1>1, <1>5, <1>6
<1> QED
  BY <1>2, <1>3, <1>4, <1>5, <1>6, <1>7

LEMMA NextRowStep ==
  ASSUME IInv, NEW t \in Thread, NextRow(t)
  PROVE  IInv'
<1>0. th[t].pc = "slice" /\ th[t].pc \in Working /\ th[t].todo # <<>>
  BY DEF NextRow, At, Working
<1>1. PICK x \in Xact \ {Loader} : x = th[t].x
  BY <1>0, CallFacts
<1>2. PICK e, v : e = Head(th[t].todo) /\ v = NewestOf(e)
  OBVIOUS
<1>3. CASE Conflict(t)
  BY <1>0, <1>3, CallReads
<1>4. ASSUME IsVisible(x, v), Supersede(x, v), xact' = [xact EXCEPT ![x].undo = <<NewVersion(x)>> \o @],
             th' = [th EXCEPT ![t].todo = Tail(@)], UNCHANGED <<managerVars, crashed, overlooked>>
      PROVE  IInv'
  <2>0. e \in DOMAIN entry
    BY <1>0, <1>2, <1>4, Passing
  <2>1. v \in DOMAIN version /\ MayFollow(x, v)
    BY <1>2, <1>4, <2>0, Newest, Visible
  <2>2. PICK r : Adds(x, r) /\ r.oldV = v /\ StoreTypes' /\ DOMAIN entry' = DOMAIN entry
    BY <1>4, <2>1, Superseding
  <2>3. DOMAIN version' = DOMAIN version \cup {NewVersion(x)}
    BY <2>2, Adding
  <2>4. Logs(x) /\ xact' \in [Xact -> XactType']
    BY <1>4, <2>3, Logging
  <2>5. /\ th' \in [Thread -> ThreadType] /\ \A u \in Thread \ {t} : th'[u] = th[u]
        /\ th'[t].x = th[t].x /\ th'[t].pc = "slice" /\ th'[t].todo \in Seq(DOMAIN entry)
    BY <1>0, <1>4, Passing
  <2> QED
    BY <1>0, <1>1, <1>4, <2>1, <2>2, <2>4, <2>5, Overwriting
<1>5. ASSUME th' = [th EXCEPT ![t].todo = Tail(@)],
             UNCHANGED <<storeVars, xact, managerVars, crashed, ghostVars>>
      PROVE  IInv'
  <2>1. /\ th' \in [Thread -> ThreadType] /\ \A u \in Thread \ {t} : th'[u] = th[u]
        /\ th'[t].x = th[t].x /\ th'[t].pc = "slice" /\ th'[t].todo \in Seq(DOMAIN entry)
    BY <1>0, <1>5, Passing
  <2>2. \E P \in SUBSET Pred : xact' = [xact EXCEPT ![th[t].x].preds = P]
    BY <1>1, <1>5, PredsKept
  <2>3. Reads(t)
    BY <1>0, <1>5, <2>1, <2>2 DEF Reads, ghostVars
  <2> QED
    BY <1>5, <2>3, ReadingOnly
<1> QED
  <2>1. \/ Conflict(t)
        \/ /\ IsVisible(x, v) /\ Supersede(x, v)
           /\ xact' = [xact EXCEPT ![x].undo = <<NewVersion(x)>> \o @]
           /\ th' = [th EXCEPT ![t].todo = Tail(@)] /\ UNCHANGED <<managerVars, crashed, overlooked>>
        \/ /\ th' = [th EXCEPT ![t].todo = Tail(@)]
           /\ UNCHANGED <<storeVars, xact, managerVars, crashed, ghostVars>>
    BY <1>1, <1>2 DEF NextRow
  <2> QED
    BY <1>3, <1>4, <1>5, <2>1

(* del marks the version the transaction has just made.                    *)
LEMMA DeleteStep ==
  ASSUME IInv, NEW t \in Thread, Delete(t)
  PROVE  IInv'
<1>0. th[t].pc = "run" /\ th[t].pc \in Working
  BY DEF Delete, Calls, At, Working
<1>1. PICK x \in Xact \ {Loader} : x = th[t].x
  BY <1>0, CallFacts
<1>2. PICK v : v = Head(xact[x].undo)
  OBVIOUS
<1>3. v \in DOMAIN version /\ Writer(v) = x
  <2>1. PICK s \in Seq(DOMAIN version) : s = xact[x].undo
    BY XactTypes
  <2>2. s # <<>>
    BY <1>1, <2>1 DEF Delete
  <2>3. 1 \in DOMAIN s /\ v = s[1] /\ s[1] \in DOMAIN version
    BY <1>2, <2>1, <2>2
  <2> QED
    BY <2>1, <2>3 DEF IInv, UndoOwn
<1>4. /\ version' = [version EXCEPT ![v].valid = FALSE]
      /\ Called(t, "run")
      /\ UNCHANGED <<entry, index, rows, removed, slice, xact, managerVars, crashed, ghostVars>>
  BY <1>1, <1>2 DEF Delete
<1>5. StoreTypes
  BY DEF IInv
<1>6. /\ DOMAIN version' = DOMAIN version
      /\ version' \in [DOMAIN version -> VersionType]
      /\ \A u \in DOMAIN version : u # v => version'[u] = version[u]
      /\ \A u \in DOMAIN version : /\ version'[u].entry = version[u].entry
                                   /\ version'[u].oldV = version[u].oldV
                                   /\ version'[u].xactid = version[u].xactid
  <2>1. /\ version'[v] = [version[v] EXCEPT !.valid = FALSE]
        /\ \A u \in DOMAIN version : u # v => version'[u] = version[u]
        /\ version' = [u \in DOMAIN version |-> version'[u]]
    BY <1>3, <1>4, <1>5 DEF StoreTypes
  <2>2. version[v] \in VersionType
    BY <1>3, <1>5 DEF StoreTypes
  <2>3. /\ version'[v] \in VersionType /\ version'[v].entry = version[v].entry
        /\ version'[v].oldV = version[v].oldV /\ version'[v].xactid = version[v].xactid
    BY <2>1, <2>2 DEF VersionType
  <2>4. version' \in [DOMAIN version -> VersionType] /\ DOMAIN version' = DOMAIN version
    BY <1>5, <2>1, <2>3 DEF StoreTypes
  <2> QED
    BY <2>1, <2>3, <2>4
<1>7. StoreTypes'
  <2>1. VersionType' = VersionType
    BY <1>4, <1>6 DEF VersionType
  <2> QED
    BY <1>4, <1>5, <1>6, <2>1 DEF StoreTypes
<1>8. Numbered'
  <2>1. \A y : Versions(y)' = Versions(y)
    BY <1>6 DEF Versions
  <2> QED
    BY <2>1 DEF IInv, Numbered
<1>9. Grows /\ ContentKept(x)
  BY <1>3, <1>4, <1>6 DEF Grows, ContentKept
<1>10. /\ th' \in [Thread -> ThreadType] /\ \A u \in Thread \ {t} : th'[u] = th[u]
       /\ th'[t].x = th[t].x /\ th'[t].pc = "run"
  BY <1>0, <1>4, Calling
<1>11. \E P \in SUBSET Pred : xact' = [xact EXCEPT ![th[t].x].preds = P]
  BY <1>1, <1>4, PredsKept
<1>12. Reads(t)
  BY <1>0, <1>4, <1>10, <1>11 DEF Reads, Working, ghostVars
<1> QED
  BY <1>1, <1>4, <1>6, <1>7, <1>8, <1>9, <1>12, Reading

-----------------------------------------------------------------------------
(* begin and rollback.                                                     *)

LEMMA Moving ==
  ASSUME IInv, NEW t \in Thread, NEW w \in ThreadType, th' = [th EXCEPT ![t] = w]
  PROVE  th' \in [Thread -> ThreadType] /\ th'[t] = w /\ \A u \in Thread \ {t} : th'[u] = th[u]
BY DEF IInv, ManagerTypes

LEMMA Going ==
  ASSUME IInv, NEW t \in Thread, NEW pc \in Pc, Goto(t, pc)
  PROVE  /\ th' \in [Thread -> ThreadType] /\ \A u \in Thread \ {t} : th'[u] = th[u]
         /\ th'[t] = [th[t] EXCEPT !.pc = pc] /\ th'[t].pc = pc
         /\ th'[t].x = th[t].x /\ th'[t].start = th[t].start /\ th'[t].todo = th[t].todo
         /\ th'[t].cur = th[t].cur /\ th'[t].end = th[t].end
<1>1. PICK w \in ThreadType : w = th[t]
  BY DEF IInv, ManagerTypes
<1> DEFINE z == [w EXCEPT !.pc = pc]
<1>2. th' = [th EXCEPT ![t] = z]
  BY <1>1 DEF Goto
<1>3. /\ z \in ThreadType /\ z.pc = pc /\ z.x = w.x /\ z.start = w.start /\ z.todo = w.todo
      /\ z.cur = w.cur /\ z.end = w.end
  BY <1>1 DEF ThreadType
<1>4. th'[t] = z
  BY <1>2, <1>3, Moving
<1>5. th' \in [Thread -> ThreadType] /\ \A u \in Thread \ {t} : th'[u] = th[u]
  <2> HIDE DEF z
  <2> QED
    BY <1>2, <1>3, Moving
<1> QED
  BY <1>1, <1>3, <1>4, <1>5

(* A step between operations that leaves the transactions as they are.     *)
LEMMA Between ==
  ASSUME IInv, NEW t \in Thread, th[t].pc \in {"publish", "run", "abort", "rollback", "unchain"},
         th'[t].pc \in {"run", "rollback", "unchain"},
         th'[t].pc = "run" => th[t].pc = "publish",
         th' \in [Thread -> ThreadType], \A u \in Thread \ {t} : th'[u] = th[u], th'[t].x = th[t].x,
         StoreTypes', Numbered', version' = version, ContentKept(NoXact),
         DOMAIN entry' = DOMAIN entry, activeXactStartTS' \in [Thread -> Nat],
         UNCHANGED <<xact, timestampGen, counterLock, commitLock, committedXactsTail, isGCActive, crashed, overlooked>>
  PROVE  IInv'
<1>1. th[t].x \in Xact \ {Loader}
  BY ThreadFacts
<1>2. WorkStep(t)
  <2>1. ContentKept(Owner(t))
    BY DEF ContentKept
  <2> QED
    BY <2>1 DEF WorkStep, Working
<1>3. XactType' = XactType /\ ThreadType' = ThreadType
  BY DEF XactType, ThreadType
<1>4. ManagerTypes'
  BY <1>3 DEF IInv, ManagerTypes
<1>5. Writes(t)'
  BY DEF Writes, Holding
<1>6. Grows
  BY DEF Grows
<1>7. Writing(th[t].x)
  BY WritingNothing
<1> QED
  BY <1>2, <1>4, <1>5, <1>6, <1>7, Operating

LEMMA PublishStep ==
  ASSUME IInv, NEW t \in Thread, PublishStart(t)
  PROVE  IInv'
<1>1. th[t].pc = "publish" /\ "run" \in Pc
  BY DEF PublishStart, At, Pc, Uncommitted, Working
<1>2. activeXactStartTS' \in [Thread -> Nat]
  <2>1. xact[th[t].x].startTS \in Nat /\ activeXactStartTS \in [Thread -> Nat]
    BY <1>1, ThreadFacts, XactTypes DEF IInv, ManagerTypes
  <2> QED
    BY <2>1 DEF PublishStart
<1>3. StoreTypes' /\ Numbered' /\ ContentKept(NoXact)
  BY StoreUnchanged DEF PublishStart
<1> QED
  BY <1>1, <1>2, <1>3, Going, Between DEF PublishStart, storeVars, ghostVars

LEMMA AbortStep ==
  ASSUME IInv, NEW t \in Thread, Abort(t)
  PROVE  IInv'
<1>1. th[t].pc \in {"run", "abort"} /\ "rollback" \in Pc
  BY DEF Abort, At, Pc, Uncommitted, Working
<1>2. activeXactStartTS' \in [Thread -> Nat]
  BY DEF IInv, ManagerTypes, Abort, managerVars
<1>3. StoreTypes' /\ Numbered' /\ ContentKept(NoXact)
  BY StoreUnchanged DEF Abort
<1> QED
  BY <1>1, <1>2, <1>3, Going, Between DEF Abort, storeVars, ghostVars, managerVars

LEMMA RollbackStep ==
  ASSUME IInv, NEW t \in Thread, Rollback(t)
  PROVE  IInv'
<1>1. th[t].pc = "rollback" /\ "unchain" \in Pc
  BY DEF Rollback, At, Pc, Uncommitted, Working
<1>2. activeXactStartTS' \in [Thread -> Nat]
  BY TransactionAssumption DEF IInv, ManagerTypes, Rollback
<1>3. StoreTypes' /\ Numbered' /\ ContentKept(NoXact)
  BY StoreUnchanged DEF Rollback
<1>4. PICK w \in ThreadType, q \in Seq(DOMAIN version) : w = th[t] /\ q = xact[th[t].x].undo
  BY <1>1, ThreadFacts, XactTypes
<1> DEFINE z == [w EXCEPT !.pc = "unchain", !.todo = q]
<1>5. th' = [th EXCEPT ![t] = z]
  BY <1>4 DEF Rollback
<1>6. z \in ThreadType /\ z.pc = "unchain" /\ z.x = w.x
  BY <1>1, <1>4 DEF ThreadType
<1> HIDE DEF z
<1>7. /\ th' \in [Thread -> ThreadType] /\ \A u \in Thread \ {t} : th'[u] = th[u]
      /\ th'[t].x = th[t].x /\ th'[t].pc = "unchain"
  BY <1>4, <1>5, <1>6, Moving
<1> QED
  BY <1>1, <1>2, <1>3, <1>7, Between DEF Rollback, storeVars, ghostVars

LEMMA Unchaining ==
  ASSUME IInv, NEW v \in DOMAIN version, RemoveFromVersionChain(v)
  PROVE  StoreTypes' /\ Numbered' /\ version' = version /\ ContentKept(NoXact) /\ DOMAIN entry' = DOMAIN entry
<1>1. StoreTypes
  BY DEF IInv
<1>2. version[v].entry \in DOMAIN entry /\ version[v].oldV \in DOMAIN version \cup {Null}
  BY <1>1 DEF StoreTypes, VersionType
<1>3. version' = version /\ rows' = rows /\ slice' = slice
  BY DEF RemoveFromVersionChain
<1>4. Numbered'
  <2>1. \A x : Versions(x)' = Versions(x)
    BY <1>3 DEF Versions
  <2> QED
    BY <2>1 DEF IInv, Numbered
<1>5. CASE entry' = entry /\ RemoveEntry(version[v].entry)
  <2>1. entry[version[v].entry].key \in Key
    BY <1>1, <1>2 DEF StoreTypes
  <2>2. index' \in [Key -> DOMAIN entry \cup {Null}]
    BY <1>1, <1>5, <2>1 DEF StoreTypes, RemoveEntry
  <2>3. VersionType' = VersionType
    BY <1>3, <1>5 DEF VersionType
  <2> QED
    BY <1>1, <1>3, <1>4, <1>5, <2>2, <2>3 DEF StoreTypes, ContentKept
<1>6. CASE /\ version[v].oldV # Null /\ UNCHANGED index
           /\ entry' = [entry EXCEPT ![version[v].entry].head = IF @ = v THEN version[v].oldV ELSE @]
  <2>1. PICK e \in DOMAIN entry : e = version[v].entry
    BY <1>2
  <2>2. entry[e] \in [key : Key, head : DOMAIN version]
    BY <1>1 DEF StoreTypes
  <2>3. PICK h \in DOMAIN version : h = IF entry[e].head = v THEN version[v].oldV ELSE entry[e].head
    BY <1>2, <1>6, <2>2
  <2>4. entry' = [entry EXCEPT ![e].head = h]
    BY <1>6, <2>1, <2>3
  <2>5. /\ entry' \in [DOMAIN entry -> [key : Key, head : DOMAIN version]]
        /\ DOMAIN entry' = DOMAIN entry
        /\ \A d \in DOMAIN entry : entry'[d].key = entry[d].key
    BY <1>1, <2>4 DEF StoreTypes
  <2>6. VersionType' = VersionType
    BY <1>3, <2>5 DEF VersionType
  <2> QED
    BY <1>1, <1>3, <1>4, <1>6, <2>5, <2>6 DEF StoreTypes, ContentKept
<1> QED
  BY <1>5, <1>6 DEF RemoveFromVersionChain

LEMMA ShorterTodo ==
  ASSUME IInv, NEW t \in Thread, th[t].todo # <<>>, th' = [th EXCEPT ![t].todo = Tail(@)]
  PROVE  /\ th' \in [Thread -> ThreadType] /\ \A u \in Thread \ {t} : th'[u] = th[u]
         /\ th'[t].x = th[t].x /\ th'[t].pc = th[t].pc /\ Head(th[t].todo) \in DOMAIN version
<1>1. PICK w \in ThreadType, q \in Seq(DOMAIN version) : w = th[t] /\ q = th[t].todo /\ q # <<>>
  BY DEF IInv, ManagerTypes, ThreadType
<1>2. Head(q) \in DOMAIN version /\ Tail(q) \in Seq(DOMAIN version)
  BY <1>1, HeadTailProperties
<1>3. PICK s \in Seq(DOMAIN version) : s = Tail(q)
  BY <1>2
<1> DEFINE z == [w EXCEPT !.todo = s]
<1>4. th' = [th EXCEPT ![t] = z]
  BY <1>1, <1>3
<1>5. z \in ThreadType /\ z.pc = w.pc /\ z.x = w.x
  BY <1>1 DEF ThreadType
<1> HIDE DEF z
<1> QED
  BY <1>1, <1>2, <1>4, <1>5, Moving

LEMMA UnchainStep ==
  ASSUME IInv, NEW t \in Thread, Unchain(t)
  PROVE  IInv'
<1>1. th[t].pc = "unchain" /\ th[t].todo # <<>>
  BY DEF Unchain, At
<1>2. activeXactStartTS' \in [Thread -> Nat]
  BY DEF IInv, ManagerTypes, Unchain, managerVars
<1>3. /\ th' \in [Thread -> ThreadType] /\ \A u \in Thread \ {t} : th'[u] = th[u]
      /\ th'[t].x = th[t].x /\ th'[t].pc = th[t].pc /\ Head(th[t].todo) \in DOMAIN version
  BY <1>1, ShorterTodo DEF Unchain
<1>4. StoreTypes' /\ Numbered' /\ version' = version /\ ContentKept(NoXact) /\ DOMAIN entry' = DOMAIN entry
  BY <1>3, Unchaining DEF Unchain
<1> QED
  BY <1>1, <1>2, <1>3, <1>4, Between DEF Unchain, managerVars, ghostVars

LEMMA IdleType == Idle \in ThreadType /\ Idle.pc = "idle" /\ Idle.x = NoXact
<1>1. ForEachPred \in Pred
  BY Predicates
<1> QED
  BY <1>1 DEF Idle, ThreadType, Pc, NoneOr

LEMMA Finishing ==
  ASSUME IInv, NEW t \in Thread, Finish(t)
  PROVE  /\ th' \in [Thread -> ThreadType] /\ \A u \in Thread \ {t} : th'[u] = th[u]
         /\ th'[t].pc = "idle" /\ th'[t].x = NoXact
BY IdleType, Moving DEF Finish

(* A step off the list, at the end of which t is neither validating nor    *)
(* committing.                                                             *)
LEMMA Aside ==
  ASSUME IInv, NEW t \in Thread, Quiet(t), th'[t].pc \in {"idle", "collect", "scan", "sweep"},
         th' \in [Thread -> ThreadType], th'[t].pc = "idle" <=> th'[t].x = NoXact,
         th'[t].pc = "scan" => th'[t].oldest < Never,
         th[t].pc # "idle",
         th[t].x \in Xact => xact'[th[t].x].undo \in {xact[th[t].x].undo, <<>>},
         StoreTypes', Numbered', Grows, DOMAIN version' = DOMAIN version,
         xact' \in [Xact -> XactType'], isGCActive' \in BOOLEAN, activeXactStartTS' \in [Thread -> Nat],
         UNCHANGED <<counterLock, commitLock, crashed>>, DOMAIN entry' = DOMAIN entry
  PROVE  IInv'
<1>1. th[t].x \in Xact \ {Loader} /\ Begun(th[t].x) /\ NoXact \notin Xact
  BY ThreadFacts, XactFacts
<1>2. th'[t].pc \notin Uncommitted \cup Holding \cup Working \cup {"stamp", "clear", "validate", "publish", "draw", "store", "push", "supersede", "slice"}
  BY DEF Uncommitted, Holding, Working
<1>3. RunsOne(t)'
  BY <1>1, <1>2 DEF RunsOne, Quiet, Begun
<1>4. AtList(t)' /\ Validated(t)' /\ Writes(t)'
  BY <1>2 DEF AtList, Validated, Writes
<1>5. Writing(th[t].x)
  BY WritingNothing
<1>6. ManagerTypes'
  <2>1. ThreadType' = ThreadType
    BY DEF ThreadType
  <2> QED
    BY <2>1 DEF IInv, ManagerTypes, Quiet
<1> QED
  BY <1>2, <1>3, <1>4, <1>5, <1>6, QuietStep

LEMMA RolledBackStep ==
  ASSUME IInv, NEW t \in Thread, RolledBack(t)
  PROVE  IInv'
<1>0. th[t].pc = "unchain" /\ "unchain" \in Uncommitted
  BY DEF RolledBack, At, Uncommitted
<1>1. PICK x \in Xact : x = th[t].x
  BY <1>0, ThreadFacts
<1>2. /\ xact' = [xact EXCEPT ![x].undo = <<>>, ![x].preds = {}]
      /\ Finish(t) /\ UNCHANGED <<storeVars, managerVars, crashed, ghostVars>>
  BY <1>1 DEF RolledBack
<1>3. /\ th' \in [Thread -> ThreadType] /\ \A u \in Thread \ {t} : th'[u] = th[u]
      /\ th'[t].pc = "idle" /\ th'[t].x = NoXact
  BY <1>2, Finishing
<1>4. PICK w \in XactType : w = xact[x] /\ xact \in [Xact -> XactType]
  BY XactTypes DEF IInv, ManagerTypes
<1> DEFINE z == [w EXCEPT !.undo = <<>>, !.preds = {}]
<1>5. xact' = [xact EXCEPT ![x] = z]
  BY <1>2, <1>4 DEF XactType
<1>6. /\ z \in XactType /\ z.startTS = w.startTS /\ z.commitTS = w.commitTS
      /\ z.prev = w.prev /\ z.undo = <<>>
  <2>1. <<>> \in Seq(DOMAIN version) /\ {} \in SUBSET Pred
    OBVIOUS
  <2>2. z \in XactType
    BY <1>4, <2>1 DEF XactType
  <2>3. z.startTS = w.startTS /\ z.commitTS = w.commitTS /\ z.prev = w.prev
    BY <1>4 DEF XactType
  <2>4. z.undo = <<>>
    BY <1>4 DEF XactType
  <2> QED
    BY <2>2, <2>3, <2>4
<1> HIDE DEF z
<1>7. /\ xact' \in [Xact -> XactType] /\ xact'[x] = z /\ \A y \in Xact \ {x} : xact'[y] = xact[y]
  BY <1>4, <1>5, <1>6
<1>8. /\ StoreTypes' /\ Numbered' /\ Grows /\ ContentKept(Owner(t)) /\ XactType' = XactType
      /\ DOMAIN version' = DOMAIN version /\ DOMAIN entry' = DOMAIN entry
  BY <1>2, StoreUnchanged DEF storeVars
<1>9. Quiet(t)
  BY <1>0, <1>1, <1>2, <1>3, <1>4, <1>6, <1>7, <1>8 DEF Quiet, managerVars, ghostVars
<1>10. isGCActive' \in BOOLEAN /\ activeXactStartTS' \in [Thread -> Nat] /\ UNCHANGED <<counterLock, commitLock, crashed>>
  BY <1>2 DEF managerVars, IInv, ManagerTypes
<1> QED
  BY <1>0, <1>1, <1>3, <1>6, <1>7, <1>8, <1>9, <1>10, Aside

-----------------------------------------------------------------------------
(* garbageCollect, but for the cut of the list.                            *)

(* A step of t within its collection, or after it.                         *)
LEMMA Collecting ==
  ASSUME IInv, NEW t \in Thread, th[t].pc \in {"collect", "scan", "sweep"},
         NEW w \in ThreadType, th' = [th EXCEPT ![t] = w],
         w = Idle \/ (w.pc \in {"scan", "sweep"} /\ w.x = th[t].x),
         w.pc = "scan" => w.oldest < Never,
         StoreTypes', Numbered', version' = version, ContentKept(NoXact), DOMAIN entry' = DOMAIN entry,
         isGCActive' \in BOOLEAN,
         UNCHANGED <<xact, timestampGen, counterLock, commitLock, committedXactsTail, activeXactStartTS, crashed, ghostVars>>
  PROVE  IInv'
<1>1. /\ th' \in [Thread -> ThreadType] /\ th'[t] = w /\ \A u \in Thread \ {t} : th'[u] = th[u]
  BY Moving
<1>2. w.pc \in {"idle", "scan", "sweep"} /\ w.x \in {th[t].x, NoXact} /\ (w.pc = "idle" <=> w.x = NoXact)
  BY IdleType, ThreadFacts, XactFacts
<1>3. Owner(t) = NoXact
  BY DEF Owner, Working
<1>4. Quiet(t)
  BY <1>1, <1>2, <1>3 DEF Quiet, ghostVars
<1>5. xact' \in [Xact -> XactType'] /\ activeXactStartTS' \in [Thread -> Nat]
  BY DEF IInv, ManagerTypes, XactType
<1>6. Grows
  BY DEF Grows
<1> QED
  BY <1>1, <1>2, <1>4, <1>5, <1>6, Aside

LEMMA CollectStep ==
  ASSUME IInv, NEW t \in Thread, Collect(t)
  PROVE  IInv'
<1>0. th[t].pc = "collect"
  BY DEF Collect, At
<1>1. UNCHANGED <<storeVars, xact, timestampGen, counterLock, commitLock, committedXactsTail, activeXactStartTS, crashed, ghostVars>>
  BY DEF Collect
<1>2. StoreTypes' /\ Numbered' /\ version' = version /\ ContentKept(NoXact) /\ DOMAIN entry' = DOMAIN entry
  BY <1>1, StoreUnchanged DEF storeVars
<1>3. CASE Finish(t) /\ UNCHANGED isGCActive
  <2>1. isGCActive' \in BOOLEAN
    BY <1>3 DEF IInv, ManagerTypes
  <2> QED
    BY <1>0, <1>1, <1>2, <1>3, <2>1, IdleType, Collecting DEF Finish
<1>4. CASE /\ isGCActive' = TRUE
           /\ th' = [th EXCEPT ![t].pc = "scan", ![t].oldest = timestampGen, ![t].slots = Thread]
  <2>1. PICK w \in ThreadType, n \in Nat : w = th[t] /\ n = timestampGen /\ n < Never
    BY ThreadFacts, ClockBound
  <2> DEFINE z == [w EXCEPT !.pc = "scan", !.oldest = n, !.slots = Thread]
  <2>2. th' = [th EXCEPT ![t] = z]
    BY <1>4, <2>1
  <2>3. z \in ThreadType /\ z.pc = "scan" /\ z.x = w.x /\ z.oldest = n
    BY <2>1 DEF ThreadType, Pc
  <2> HIDE DEF z
  <2> QED
    BY <1>0, <1>1, <1>2, <1>4, <2>1, <2>2, <2>3, Collecting
<1> QED
  BY <1>3, <1>4 DEF Collect

LEMMA ScanStep ==
  ASSUME IInv, NEW t \in Thread, ScanActive(t)
  PROVE  IInv'
<1>0. th[t].pc = "scan" /\ th[t].slots # {}
  BY DEF ScanActive, At
<1>1. UNCHANGED <<storeVars, xact, managerVars, crashed, ghostVars>>
  BY DEF ScanActive
<1>2. StoreTypes' /\ Numbered' /\ version' = version /\ ContentKept(NoXact) /\ DOMAIN entry' = DOMAIN entry
  BY <1>1, StoreUnchanged DEF storeVars
<1>3. PICK w \in ThreadType : w = th[t] /\ w.oldest \in Nat /\ w.slots \in SUBSET Thread /\ w.oldest < Never
  <2>1. th[t] \in ThreadType /\ AtList(t)
    BY ThreadFacts DEF IInv
  <2> QED
    BY <1>0, <2>1 DEF ThreadType, AtList
<1>4. PICK u \in Thread : u = CHOOSE v \in th[t].slots : TRUE
  BY <1>0, <1>3
<1>5. activeXactStartTS[u] \in Nat
  BY DEF IInv, ManagerTypes
<1>6. PICK n \in Nat : n = (IF activeXactStartTS[u] < w.oldest THEN activeXactStartTS[u] ELSE w.oldest) /\ n < Never
  BY <1>3, <1>5, TransactionAssumption
<1> DEFINE z == [w EXCEPT !.slots = w.slots \ {u}, !.oldest = n]
<1>7. th' = [th EXCEPT ![t] = z]
  <2>1. th' = [th EXCEPT ![t].slots = w.slots \ {u}, ![t].oldest = n]
    BY <1>3, <1>4, <1>6 DEF ScanActive, ThreadType
  <2> QED
    BY <1>3, <2>1
<1>8. z \in ThreadType /\ z.pc = w.pc /\ z.x = w.x /\ z.oldest = n
  BY <1>3 DEF ThreadType
<1> HIDE DEF z
<1>9. isGCActive' \in BOOLEAN
  BY <1>1 DEF IInv, ManagerTypes, managerVars
<1> QED
  BY <1>0, <1>1, <1>2, <1>3, <1>6, <1>7, <1>8, <1>9, Collecting DEF managerVars

LEMMA Removing ==
  ASSUME IInv, NEW e \in DOMAIN entry, RemoveEntry(e), UNCHANGED <<version, entry, rows, slice>>
  PROVE  StoreTypes' /\ Numbered' /\ version' = version /\ ContentKept(NoXact) /\ DOMAIN entry' = DOMAIN entry
<1>1. StoreTypes
  BY DEF IInv
<1>2. Numbered'
  <2>1. \A x : Versions(x)' = Versions(x)
    BY DEF Versions
  <2> QED
    BY <2>1 DEF IInv, Numbered
<1>3. entry[e].key \in Key
  BY <1>1 DEF StoreTypes
<1>4. index' \in [Key -> DOMAIN entry \cup {Null}]
  BY <1>1, <1>3 DEF StoreTypes, RemoveEntry
<1>5. VersionType' = VersionType
  BY DEF VersionType
<1> QED
  BY <1>1, <1>2, <1>4, <1>5 DEF StoreTypes, ContentKept

LEMMA SweepStep ==
  ASSUME IInv, NEW t \in Thread, Sweep(t)
  PROVE  IInv'
<1>0. th[t].pc = "sweep" /\ th[t].todo # <<>>
  BY DEF Sweep, At
<1>1. UNCHANGED <<xact, managerVars, crashed, ghostVars>> /\ th' = [th EXCEPT ![t].todo = Tail(@)]
  BY DEF Sweep
<1>2. /\ th' \in [Thread -> ThreadType] /\ \A u \in Thread \ {t} : th'[u] = th[u]
      /\ th'[t].x = th[t].x /\ th'[t].pc = th[t].pc /\ Head(th[t].todo) \in DOMAIN version
  BY <1>0, <1>1, ShorterTodo
<1>3. StoreTypes' /\ Numbered' /\ version' = version /\ ContentKept(NoXact) /\ DOMAIN entry' = DOMAIN entry
  <2>1. CASE UNCHANGED storeVars
    BY <2>1, StoreUnchanged DEF storeVars
  <2>2. CASE RemoveEntry(version[Head(th[t].todo)].entry) /\ UNCHANGED <<version, entry, rows, slice>>
    <3>1. version[Head(th[t].todo)].entry \in DOMAIN entry
      BY <1>2 DEF IInv, StoreTypes, VersionType
    <3> QED
      BY <2>2, <3>1, Removing
  <2> QED
    BY <2>1, <2>2 DEF Sweep
<1>4. PICK w \in ThreadType : w = th'[t]
  BY <1>2
<1>5. th' = [th EXCEPT ![t] = w]
  BY <1>1, <1>4 DEF IInv, ManagerTypes
<1>6. isGCActive' \in BOOLEAN
  BY <1>1 DEF IInv, ManagerTypes, managerVars
<1> QED
  BY <1>0, <1>1, <1>2, <1>3, <1>4, <1>5, <1>6, Collecting DEF managerVars

LEMMA CollectedStep ==
  ASSUME IInv, NEW t \in Thread, Collected(t)
  PROVE  IInv'
<1>0. th[t].pc = "sweep"
  BY DEF Collected, At
<1>1. StoreTypes' /\ Numbered' /\ version' = version /\ ContentKept(NoXact) /\ DOMAIN entry' = DOMAIN entry
  BY StoreUnchanged DEF storeVars, Collected
<1> QED
  BY <1>0, <1>1, IdleType, Collecting DEF Collected, Finish

-----------------------------------------------------------------------------
(* validateAndCommit: the rounds.                                          *)

LEMMA Rounding ==
  ASSUME IInv, NEW t \in Thread, NEW end \in NoneOr(Xact), Round(t, end)
  PROVE  /\ th' \in [Thread -> ThreadType] /\ \A u \in Thread \ {t} : th'[u] = th[u]
         /\ th'[t].x = th[t].x /\ th'[t].pc = "validate" /\ th'[t].start = committedXactsTail
         /\ th'[t].cur = committedXactsTail /\ th'[t].end = end
<1>1. PICK w \in ThreadType, tail \in NoneOr(Xact) : w = th[t] /\ tail = committedXactsTail
  BY DEF IInv, ManagerTypes
<1> DEFINE z == [w EXCEPT !.pc = "validate", !.start = tail, !.cur = tail, !.end = end]
<1>2. th' = [th EXCEPT ![t] = z]
  BY <1>1 DEF Round
<1>3. z \in ThreadType
  BY <1>1 DEF ThreadType, Pc, Uncommitted
<1>4. z.pc = "validate" /\ z.start = tail /\ z.cur = tail /\ z.end = end /\ z.x = w.x
  BY <1>1 DEF ThreadType
<1> HIDE DEF z
<1> QED
  BY <1>1, <1>2, <1>3, <1>4, Moving

Affects(y, x) == Listed(y) /\ xact[x].startTS < xact[y].commitTS
Checked(t, y) == Unmatched(th[t].x, y) \/ Ahead(t, y) \/ ToCheck(t, y)

(* A step of t within its validation, or to its begin.                     *)
LEMMA Checking ==
  ASSUME IInv, NEW t \in Thread, th[t].pc \in {"run", "validate"},
         xact[th[t].x].undo # <<>>,
         th' \in [Thread -> ThreadType], \A u \in Thread \ {t} : th'[u] = th[u],
         th'[t].x = th[t].x, th'[t].pc = "validate",
         \A y \in {th'[t].start, th'[t].cur, th'[t].end} : y = NoXact \/ Listed(y),
         th[t].x \notin overlooked =>
           \A y \in Xact : Affects(y, th[t].x) => Unmatched(th[t].x, y) \/ Ahead(t, y)' \/ ToCheck(t, y)',
         UNCHANGED <<storeVars, xact, managerVars, crashed, ghostVars>>
  PROVE  IInv'
<1>1. PICK x \in Xact \ {Loader} : x = th[t].x /\ Begun(x) /\ ~Committed(x)
  BY ThreadFacts DEF Uncommitted, Working
<1>2. /\ StoreTypes' /\ Numbered' /\ Grows /\ ContentKept(Owner(t)) /\ XactType' = XactType
      /\ ThreadType' = ThreadType /\ DOMAIN version' = DOMAIN version
  BY StoreUnchanged DEF storeVars
<1>3. Quiet(t)
  BY <1>2 DEF Quiet, managerVars, ghostVars
<1>4. \A y \in Xact : Listed(y)' <=> Listed(y)
  BY <1>3, QuietListed
<1>5. \A y \in Xact : Listed(y) => (Unmatched(x, y)' <=> Unmatched(x, y))
  BY <1>3, QuietUnmatched
<1>6. ManagerTypes'
  BY <1>2 DEF IInv, ManagerTypes, managerVars
<1>7. RunsOne(t)'
  BY <1>1, XactFacts DEF RunsOne, Begun, Committed, Uncommitted
<1>8. AtList(t)'
  <2>1. {th'[t].start, th'[t].cur, th'[t].end} \subseteq NoneOr(Xact)
    BY DEF ThreadType
  <2> QED
    BY <1>4, <2>1 DEF AtList, Working, NoneOr
<1>9. Validated(t)'
  <2> SUFFICES ASSUME x \notin overlooked, NEW y \in Xact, Listed(y), xact[x].startTS < xact[y].commitTS
               PROVE  Unmatched(x, y)' \/ Ahead(t, y)' \/ ToCheck(t, y)'
    <3>1. th'[t].x = x /\ UNCHANGED <<xact, overlooked>> /\ th'[t].pc \notin Holding \cup {"stamp", "clear"}
      BY <1>1 DEF ghostVars, Holding
    <3>2. \A y \in Xact : Unmatched(th[t].x, y)' <=> Unmatched(x, y)'
      BY <1>1, <3>1 DEF Unmatched
    <3> QED
      BY <1>4, <3>1, <3>2 DEF Validated
  <2>1. Affects(y, x)
    BY DEF Affects
  <2>2. Unmatched(x, y) \/ Ahead(t, y)' \/ ToCheck(t, y)'
    BY <1>1, <2>1
  <2> QED
    BY <1>5, <2>2
<1>10. Writes(t)'
  BY <1>1 DEF Writes, Holding
<1>11. Writing(x)
  BY <1>2, WritingNothing
<1>12. th'[t].pc \notin Holding
  BY DEF Holding
<1> QED
  BY <1>1, <1>2, <1>3, <1>6, <1>7, <1>8, <1>9, <1>10, <1>11, <1>12, QuietStep DEF managerVars

(* The tail is the newest transaction on the list.                         *)
LEMMA TailNewest ==
  ASSUME IInv, committedXactsTail # NoXact
  PROVE  /\ committedXactsTail \in Xact /\ Listed(committedXactsTail)
         /\ \A y \in Xact : Listed(y) => ~Older(committedXactsTail, y)
BY DEF IInv, ManagerTypes, NoneOr, Chained

(* Whoever validates is running.                                           *)
LEMMA Validating ==
  ASSUME IInv, NEW t \in Thread, th[t].pc \in Uncommitted
  PROVE  th[t].x \in Xact \ {Loader} /\ Running(th[t].x)
BY ThreadFacts DEF Running, Committed, Uncommitted, Working

(* What is settled needs no validation.                                    *)
LEMMA SettledUnaffected ==
  ASSUME IInv, NEW x \in Xact \ overlooked, Running(x), NEW y \in Xact, Settled(y)
  PROVE  ~(xact[x].startTS < xact[y].commitTS)
<1>1. xact[y].commitTS <= xact[x].startTS
  BY DEF Settled
<1> QED
  BY <1>1, XactTypes

LEMMA ValidateAndCommitStep ==
  ASSUME IInv, NEW t \in Thread, ValidateAndCommit(t)
  PROVE  IInv'
<1>1. th[t].pc = "run" /\ xact[th[t].x].undo # <<>> /\ Round(t, NoXact)
      /\ UNCHANGED <<storeVars, xact, managerVars, crashed, ghostVars>>
  BY DEF ValidateAndCommit, At
<1>2. NoXact \in NoneOr(Xact)
  BY DEF NoneOr
<1>3. /\ th' \in [Thread -> ThreadType] /\ \A u \in Thread \ {t} : th'[u] = th[u]
      /\ th'[t].x = th[t].x /\ th'[t].pc = "validate" /\ th'[t].start = committedXactsTail
      /\ th'[t].cur = committedXactsTail /\ th'[t].end = NoXact
  BY <1>1, <1>2, Rounding
<1>4. \A y \in {th'[t].start, th'[t].cur, th'[t].end} : y = NoXact \/ Listed(y)
  BY <1>3, TailNewest
<1>5. ASSUME NEW y \in Xact, Affects(y, th[t].x) PROVE Ahead(t, y)' \/ ToCheck(t, y)'
  <2>1. CASE committedXactsTail = NoXact
    BY <1>3, <2>1 DEF Ahead
  <2>2. CASE committedXactsTail # NoXact
    <3>1. ~Older(committedXactsTail, y)
      BY <1>5, <2>2, TailNewest DEF Affects
    <3> QED
      BY <1>1, <1>3, <2>2, <3>1 DEF ToCheck, Older
  <2> QED
    BY <2>1, <2>2
<1> QED
  BY <1>1, <1>3, <1>4, <1>5, Checking

LEMMA CheckedFacts ==
  ASSUME IInv, NEW t \in Thread, th[t].pc = "validate", th[t].x \notin overlooked,
         NEW y \in Xact, Affects(y, th[t].x)
  PROVE  Checked(t, y)
<1>1. th[t].x \in Xact
  BY ThreadFacts
<1> QED
  BY <1>1 DEF IInv, Validated, Affects, Checked

(* A validation that fails.                                                *)
LEMMA Retreating ==
  ASSUME IInv, NEW t \in Thread, th[t].pc = "validate",
         th' \in [Thread -> ThreadType], \A u \in Thread \ {t} : th'[u] = th[u],
         th'[t].x = th[t].x, th'[t].pc = "rollback",
         UNCHANGED <<storeVars, xact, managerVars, crashed, ghostVars>>
  PROVE  IInv'
<1>1. PICK x \in Xact \ {Loader} : x = th[t].x /\ Begun(x) /\ ~Committed(x)
  BY ThreadFacts DEF Uncommitted
<1>2. /\ StoreTypes' /\ Numbered' /\ Grows /\ ContentKept(Owner(t)) /\ XactType' = XactType
      /\ ThreadType' = ThreadType /\ DOMAIN version' = DOMAIN version
  BY StoreUnchanged DEF storeVars
<1>3. Quiet(t)
  BY <1>2 DEF Quiet, managerVars, ghostVars
<1>4. ManagerTypes'
  BY <1>2 DEF IInv, ManagerTypes, managerVars
<1>5. RunsOne(t)'
  BY <1>1, XactFacts DEF RunsOne, Begun, Committed, Uncommitted
<1>6. AtList(t)' /\ Validated(t)' /\ Writes(t)' /\ th'[t].pc \notin Holding
  BY DEF AtList, Validated, Writes, Working, Holding
<1>7. Writing(x)
  BY <1>2, WritingNothing
<1> QED
  BY <1>1, <1>2, <1>3, <1>4, <1>5, <1>6, <1>7, QuietStep DEF managerVars

LEMMA ValidateStep ==
  ASSUME IInv, NEW t \in Thread, Validate(t)
  PROVE  IInv'
<1>0. PICK x, cur : x = th[t].x /\ cur = th[t].cur
  OBVIOUS
<1>1. th[t].pc = "validate" /\ UNCHANGED <<storeVars, xact, managerVars, crashed, ghostVars>>
  BY DEF Validate, At
<1>2. /\ x \in Xact \ {Loader} /\ Running(x) /\ th[t] \in ThreadType
      /\ cur \in Xact /\ Listed(cur) /\ cur # th[t].end /\ ~(xact[cur].commitTS <= xact[x].startTS)
      /\ th[t].end \in NoneOr(Xact) /\ (th[t].end = NoXact \/ Listed(th[t].end))
      /\ (th[t].start = NoXact \/ Listed(th[t].start))
  <2>1. ~RoundOver(t)
    BY DEF Validate
  <2>2. cur \notin {NoXact, th[t].end} /\ ~(xact[cur].commitTS <= xact[x].startTS)
    BY <1>0, <2>1 DEF RoundOver
  <2>3. th[t] \in ThreadType /\ AtList(t)
    BY ThreadFacts DEF IInv
  <2>4. cur \in NoneOr(Xact) /\ th[t].end \in NoneOr(Xact)
    BY <1>0, <2>3 DEF ThreadType
  <2> QED
    BY <1>0, <1>1, <2>2, <2>3, <2>4, Validating DEF AtList, NoneOr, Uncommitted
<1>3. CASE Goto(t, "rollback")
  <2>1. "rollback" \in Pc
    BY DEF Pc, Uncommitted
  <2>2. /\ th' \in [Thread -> ThreadType] /\ \A u \in Thread \ {t} : th'[u] = th[u]
        /\ th'[t].pc = "rollback" /\ th'[t].x = th[t].x
    BY <1>3, <2>1, Going
  <2> QED
    BY <1>0, <1>1, <1>2, <2>2, Retreating
<1>4. CASE Unmatched(x, cur) /\ th' = [th EXCEPT ![t].cur = xact[cur].prev]
  <2>1. PICK w \in ThreadType, p \in NoneOr(Xact) : w = th[t] /\ p = xact[cur].prev
    BY <1>2, XactTypes
  <2> DEFINE z == [w EXCEPT !.cur = p]
  <2>2. th' = [th EXCEPT ![t] = z]
    BY <1>4, <2>1
  <2>3. z \in ThreadType /\ z.pc = w.pc /\ z.x = w.x /\ z.start = w.start /\ z.end = w.end /\ z.cur = p
    BY <2>1 DEF ThreadType
  <2> HIDE DEF z
  <2>4. /\ th' \in [Thread -> ThreadType] /\ \A u \in Thread \ {t} : th'[u] = th[u]
        /\ th'[t].x = x /\ th'[t].pc = "validate" /\ th'[t].start = th[t].start
        /\ th'[t].cur = p /\ th'[t].end = th[t].end
    BY <1>0, <1>1, <2>1, <2>2, <2>3, Moving
  <2>5. p = NoXact \/ Listed(p)
    BY <1>2, <2>1 DEF IInv, Chained
  <2>6. ASSUME x \notin overlooked, NEW y \in Xact, Affects(y, x)
        PROVE  Unmatched(x, y) \/ Ahead(t, y)' \/ ToCheck(t, y)'
    <3>1. Checked(t, y) /\ Listed(y) /\ xact[x].startTS < xact[y].commitTS
      BY <1>0, <1>1, <2>6, CheckedFacts DEF Affects
    <3>2. CASE Unmatched(th[t].x, y)
      BY <1>0, <3>2
    <3>3. CASE Ahead(t, y)
      BY <1>1, <2>4, <3>3 DEF Ahead, Older
    <3>4. CASE ToCheck(t, y)
      <4>1. ~Older(cur, y) /\ (th[t].end = NoXact \/ Older(th[t].end, y))
        BY <1>0, <3>4 DEF ToCheck
      <4>2. CASE y = cur
        BY <1>4, <4>2
      <4>3. CASE y # cur
        <5>1. Older(y, cur)
          <6>1. xact[y].commitTS # xact[cur].commitTS
            BY <1>2, <3>1, <4>3 DEF IInv, Chained
          <6>2. xact[y].commitTS \in Nat /\ xact[cur].commitTS \in Nat
            BY <1>2, XactTypes
          <6> QED
            BY <4>1, <6>1, <6>2 DEF Older
        <5>2. IF p = NoXact THEN Settled(y) ELSE ~Older(p, y)
          BY <1>2, <2>1, <3>1, <5>1 DEF IInv, Chained
        <5>3. p # NoXact
          BY <1>2, <2>6, <3>1, <5>2, SettledUnaffected
        <5> QED
          BY <1>1, <2>4, <4>1, <5>2, <5>3 DEF ToCheck, Older
      <4> QED
        BY <4>2, <4>3
    <3> QED
      BY <3>1, <3>2, <3>3, <3>4 DEF Checked
  <2>7. xact[x].undo # <<>>
    BY <1>0, <1>1 DEF IInv, Writes
  <2> QED
    BY <1>0, <1>1, <1>2, <2>4, <2>5, <2>6, <2>7, Checking
<1> QED
  BY <1>0, <1>3, <1>4 DEF Validate, Unmatched

(* Whoever has the last round behind it depends on nothing before the tail *)
(* at which the round started.                                             *)
LEMMA RoundOverChecked ==
  ASSUME IInv, NEW t \in Thread, th[t].pc = "validate", RoundOver(t), th[t].x \notin overlooked,
         NEW y \in Xact, Affects(y, th[t].x)
  PROVE  Unmatched(th[t].x, y) \/ Ahead(t, y)
<1>0. PICK x, cur : x = th[t].x /\ cur = th[t].cur
  OBVIOUS
<1>1. Checked(t, y) /\ xact[x].startTS < xact[y].commitTS /\ x \in Xact
  BY <1>0, CheckedFacts, ThreadFacts DEF Affects
<1>2. ASSUME ToCheck(t, y) PROVE FALSE
  <2>1. cur # NoXact /\ ~Older(cur, y) /\ (th[t].end = NoXact \/ Older(th[t].end, y))
    BY <1>0, <1>2 DEF ToCheck
  <2>2. cur # th[t].end
    BY <2>1
  <2>3. xact[cur].commitTS <= xact[x].startTS
    BY <1>0, <2>1, <2>2 DEF RoundOver
  <2>4. cur \in Xact
    BY <1>0, <2>1, ThreadFacts DEF ThreadType, NoneOr
  <2>5. xact[x].startTS \in Nat /\ xact[cur].commitTS \in Nat /\ xact[y].commitTS \in Nat
    BY <1>1, <2>4, XactTypes
  <2> QED
    BY <1>1, <2>1, <2>3, <2>5 DEF Older
<1> QED
  BY <1>1, <1>2 DEF Checked

(* Somebody has moved the tail, or holds the lock: another round.          *)
LEMMA AnotherRound ==
  ASSUME IInv, NEW t \in Thread, th[t].pc = "validate", RoundOver(t), Round(t, th[t].start),
         UNCHANGED <<storeVars, xact, managerVars, crashed, ghostVars>>
  PROVE  IInv'
<1>1. th[t].start \in NoneOr(Xact) /\ (th[t].start = NoXact \/ Listed(th[t].start)) /\ xact[th[t].x].undo # <<>>
  <2>1. th[t] \in ThreadType
    BY ThreadFacts
  <2> QED
    BY <2>1 DEF ThreadType, IInv, AtList, Writes
<1>3. /\ th' \in [Thread -> ThreadType] /\ \A u \in Thread \ {t} : th'[u] = th[u]
      /\ th'[t].x = th[t].x /\ th'[t].pc = "validate" /\ th'[t].start = committedXactsTail
      /\ th'[t].cur = committedXactsTail /\ th'[t].end = th[t].start
  BY <1>1, Rounding
<1>4. \A y \in {th'[t].start, th'[t].cur, th'[t].end} : y = NoXact \/ Listed(y)
  BY <1>1, <1>3, TailNewest
<1>5. ASSUME th[t].x \notin overlooked, NEW y \in Xact, Affects(y, th[t].x)
      PROVE Unmatched(th[t].x, y) \/ Ahead(t, y)' \/ ToCheck(t, y)'
  <2>1. CASE committedXactsTail = NoXact
    BY <1>3, <2>1 DEF Ahead
  <2>2. CASE committedXactsTail # NoXact
    <3>1. ~Older(committedXactsTail, y)
      BY <1>5, <2>2, TailNewest DEF Affects
    <3>2. Unmatched(th[t].x, y) \/ Ahead(t, y)
      BY <1>5, RoundOverChecked
    <3> QED
      BY <1>3, <2>2, <3>1, <3>2 DEF ToCheck, Older, Ahead
  <2> QED
    BY <2>1, <2>2
<1> QED
  BY <1>1, <1>3, <1>4, <1>5, Checking

-----------------------------------------------------------------------------
(* commit: after the lock has been released.                               *)

LEMMA StampStep ==
  ASSUME IInv, NEW t \in Thread, StampVersions(t)
  PROVE  IInv'
<1>0. th[t].pc = "stamp" /\ "clear" \in Pc
  BY DEF StampVersions, At, Pc
<1>1. PICK x \in Xact \ {Loader} : x = th[t].x /\ Begun(x) /\ Committed(x) /\ x # NoXact
  BY <1>0, ThreadFacts, XactFacts DEF IInv, OneThreadEach, RunsOne
<1>2. PICK c \in Nat : c = xact[x].commitTS
  BY XactTypes
<1>3. /\ version' = [v \in DOMAIN version |-> IF Writer(v) = x THEN [version[v] EXCEPT !.xactid = c] ELSE version[v]]
      /\ Goto(t, "clear")
      /\ UNCHANGED <<entry, index, rows, removed, slice, xact, managerVars, crashed, ghostVars>>
  BY <1>1, <1>2 DEF StampVersions
<1>4. /\ th' \in [Thread -> ThreadType] /\ \A u \in Thread \ {t} : th'[u] = th[u]
      /\ th'[t].x = th[t].x /\ th'[t].pc = "clear"
  BY <1>0, <1>3, Going
<1>5. StoreTypes
  BY DEF IInv
<1>6. DOMAIN version' = DOMAIN version
  BY <1>3
<1>7. ASSUME NEW v \in DOMAIN version
      PROVE  /\ version'[v] \in VersionType /\ version'[v].entry = version[v].entry
             /\ version'[v].oldV = version[v].oldV /\ version'[v].valid = version[v].valid
             /\ version'[v].xactid = IF Writer(v) = x THEN c ELSE version[v].xactid
  <2>1. version[v] \in VersionType
    BY <1>5 DEF StoreTypes
  <2>2. CASE Writer(v) = x
    <3>1. PICK w \in VersionType : w = version[v]
      BY <2>1
    <3> DEFINE z == [w EXCEPT !.xactid = c]
    <3>2. version'[v] = z
      BY <1>3, <2>2, <3>1
    <3>3. z \in VersionType
      BY <3>1 DEF VersionType
    <3>4. z.entry = w.entry /\ z.oldV = w.oldV /\ z.valid = w.valid /\ z.xactid = c
      BY <3>1 DEF VersionType
    <3> HIDE DEF z
    <3> QED
      BY <2>2, <3>1, <3>2, <3>3, <3>4
  <2>3. CASE Writer(v) # x
    BY <1>3, <2>1, <2>3
  <2> QED
    BY <2>2, <2>3
<1>8. version' \in [DOMAIN version' -> VersionType]
  <2>1. version' = [v \in DOMAIN version |-> version'[v]]
    BY <1>3
  <2> QED
    BY <1>6, <1>7, <2>1
<1>9. StoreTypes'
  <2>1. VersionType' = VersionType
    BY <1>3, <1>6 DEF VersionType
  <2> QED
    BY <1>3, <1>5, <1>6, <1>8, <2>1 DEF StoreTypes
<1>10. Numbered'
  <2>1. \A y : Versions(y)' = Versions(y)
    BY <1>6 DEF Versions
  <2> QED
    BY <2>1 DEF IInv, Numbered
<1>11. Grows
  BY <1>2, <1>3, <1>6, <1>7 DEF Grows
<1>12. Quiet(t)
  <2>1. ContentKept(Owner(t))
    BY <1>3, <1>6, <1>7 DEF ContentKept
  <2> QED
    BY <1>0, <1>3, <1>4, <2>1 DEF Quiet, managerVars, ghostVars
<1>13. Writing(th[t].x)
  BY <1>3, <1>6, WritingNothing
<1>14. ManagerTypes'
  <2>1. XactType' = XactType /\ ThreadType' = ThreadType
    BY <1>6 DEF XactType, ThreadType
  <2> QED
    BY <1>3, <1>4, <2>1 DEF IInv, ManagerTypes, managerVars
<1>15. RunsOne(t)'
  BY <1>1, <1>3, <1>4 DEF RunsOne, Begun, Committed, Uncommitted, Working
<1>16. AtList(t)' /\ Writes(t)' /\ th'[t].pc \notin Holding
  BY <1>4 DEF AtList, Writes, Working, Holding
<1>17. Validated(t)'
  <2>1. \A y \in Xact : (Listed(y)' <=> Listed(y)) /\ (Older(y, x)' <=> Older(y, x))
    BY <1>3, <1>12, QuietListed DEF Older
  <2>2. \A y \in Xact : Listed(y) => (Unmatched(x, y)' <=> Unmatched(x, y))
    BY <1>3, <1>12, QuietUnmatched
  <2>3. \A y \in Xact : Unmatched(th[t].x, y)' <=> Unmatched(x, y)'
    BY <1>1, <1>4 DEF Unmatched
  <2>4. \A y \in Xact : Older(y, th[t].x)' <=> Older(y, x)'
    BY <1>1, <1>4 DEF Older
  <2>5. x \in Xact \ overlooked => \A y \in Xact : Listed(y) /\ xact[x].startTS < xact[y].commitTS /\ Older(y, x) => Unmatched(x, y)
    BY <1>0, <1>1 DEF IInv, Validated
  <2> QED
    BY <1>1, <1>3, <1>4, <2>1, <2>2, <2>3, <2>4, <2>5 DEF Validated, ghostVars
<1> QED
  BY <1>3, <1>9, <1>10, <1>11, <1>12, <1>13, <1>14, <1>15, <1>16, <1>17, QuietStep DEF managerVars

LEMMA ClearStep ==
  ASSUME IInv, NEW t \in Thread, ClearActive(t)
  PROVE  IInv'
<1>0. th[t].pc = "clear" /\ "collect" \in Pc
  BY DEF ClearActive, At, Pc
<1>1. PICK x \in Xact \ {Loader} : x = th[t].x /\ x # NoXact
  BY <1>0, ThreadFacts, XactFacts
<1>2. /\ xact' = [xact EXCEPT ![x].preds = {}]
      /\ activeXactStartTS' = [activeXactStartTS EXCEPT ![t] = Never]
      /\ Goto(t, "collect")
      /\ UNCHANGED <<storeVars, timestampGen, counterLock, commitLock, committedXactsTail, isGCActive, crashed, ghostVars>>
  BY <1>1 DEF ClearActive
<1>3. /\ th' \in [Thread -> ThreadType] /\ \A u \in Thread \ {t} : th'[u] = th[u]
      /\ th'[t].x = th[t].x /\ th'[t].pc = "collect"
  BY <1>0, <1>2, Going
<1>4. PICK w \in XactType : w = xact[x] /\ xact \in [Xact -> XactType]
  BY XactTypes DEF IInv, ManagerTypes
<1> DEFINE z == [w EXCEPT !.preds = {}]
<1>5. xact' = [xact EXCEPT ![x] = z]
  BY <1>2, <1>4
<1>6. z \in XactType
  <2>1. {} \in SUBSET Pred
    OBVIOUS
  <2> QED
    BY <1>4, <2>1 DEF XactType
<1>7. z.startTS = w.startTS /\ z.commitTS = w.commitTS /\ z.prev = w.prev /\ z.undo = w.undo
  BY <1>4 DEF XactType
<1> HIDE DEF z
<1>8. xact' \in [Xact -> XactType] /\ xact'[x] = z /\ \A y \in Xact \ {x} : xact'[y] = xact[y]
  BY <1>4, <1>5, <1>6
<1>9. /\ StoreTypes' /\ Numbered' /\ Grows /\ ContentKept(Owner(t)) /\ XactType' = XactType
      /\ DOMAIN version' = DOMAIN version /\ DOMAIN entry' = DOMAIN entry
  BY <1>2, StoreUnchanged DEF storeVars
<1>10. Quiet(t)
  BY <1>0, <1>1, <1>2, <1>3, <1>4, <1>7, <1>8, <1>9 DEF Quiet, ghostVars
<1>11. isGCActive' \in BOOLEAN /\ activeXactStartTS' \in [Thread -> Nat]
  BY <1>2, TransactionAssumption DEF IInv, ManagerTypes
<1>12. xact'[x].undo = xact[x].undo
  BY <1>4, <1>7, <1>8
<1> QED
  BY <1>0, <1>1, <1>2, <1>3, <1>8, <1>9, <1>10, <1>11, <1>12, Aside

-----------------------------------------------------------------------------
(* Steps that change the list, the clock or who runs.                      *)

(* The table, and what the transactions did and depend on, is as it was.   *)
Still(t) ==
  /\ UNCHANGED storeVars
  /\ \A u \in Thread \ {t} : th'[u] = th[u]
  /\ \A y \in Xact : xact'[y].undo = xact[y].undo /\ xact'[y].preds = xact[y].preds
  /\ overlooked \subseteq overlooked'

LEMMA StillUnmatched ==
  ASSUME IInv, NEW t \in Thread, Still(t), NEW x \in Xact, NEW y \in Xact
  PROVE  Unmatched(x, y)' <=> Unmatched(x, y)
<1>1. version' = version /\ entry' = entry
  BY DEF Still, storeVars
<1>2. \A p, v : Matches(p, v)' <=> Matches(p, v)
  BY <1>1 DEF Matches, InSlice, KeyOf
<1>3. \A p : MatchesAny(p, y)' <=> MatchesAny(p, y)
  BY <1>2 DEF Still, MatchesAny
<1> QED
  BY <1>3 DEF Still, Unmatched

(* What keeps the validation of another thread.                            *)
Compared(u) ==
  LET x == th[u].x
  IN  /\ xact'[x].startTS = xact[x].startTS
      /\ \A a, b \in Xact : Listed(a) /\ Listed(b) => (Older(a, b)' <=> Older(a, b))
      /\ \A y \in Xact : Listed(y)' =>
           \/ (th[u].pc = "validate" => Ahead(u, y)') /\ ~Older(y, x)'
           \/ /\ Listed(y)
              /\ xact[x].startTS < xact'[y].commitTS => xact[x].startTS < xact[y].commitTS
              /\ th[u].pc \in Holding \cup {"stamp", "clear"} => (Older(y, x)' => Older(y, x))

LEMMA StillValidated ==
  ASSUME IInv, NEW t \in Thread, Still(t), NEW u \in Thread \ {t}, th[u].x \in Xact => Compared(u)
  PROVE  Validated(u)'
<1>1. th'[u] = th[u] /\ overlooked \subseteq overlooked'
  BY DEF Still
<1> SUFFICES ASSUME th[u].x \in Xact \ overlooked',
                    NEW y \in Xact, Listed(y)', xact'[th[u].x].startTS < xact'[y].commitTS
             PROVE  /\ th[u].pc = "validate" => Unmatched(th[u].x, y)' \/ Ahead(u, y)' \/ ToCheck(u, y)'
                    /\ th[u].pc \in Holding \cup {"stamp", "clear"} /\ Older(y, th[u].x)' => Unmatched(th[u].x, y)'
  BY <1>1 DEF Validated
<1>2. PICK x \in Xact \ overlooked : x = th[u].x /\ Compared(u)
  BY <1>1
<1>3. Unmatched(x, y)' <=> Unmatched(x, y)
  BY StillUnmatched
<1>4. (Unmatched(th[u].x, y)' <=> Unmatched(x, y)') /\ (Older(y, th[u].x)' <=> Older(y, x)')
  BY <1>1, <1>2 DEF Unmatched, Older
<1>5. xact'[x].startTS = xact[x].startTS /\ xact[x].startTS < xact'[y].commitTS
  BY <1>1, <1>2 DEF Compared
<1>6. CASE (th[u].pc = "validate" => Ahead(u, y)') /\ ~Older(y, x)'
  <2>1. th[u].pc = "validate" => th[u].pc \notin Holding
    BY DEF Holding
  <2> QED
    BY <1>4, <1>6
<1>7. CASE /\ Listed(y) /\ xact[x].startTS < xact[y].commitTS
           /\ th[u].pc \in Holding \cup {"stamp", "clear"} => (Older(y, x)' => Older(y, x))
  <2>1. /\ th[u].pc = "validate" => Unmatched(x, y) \/ Ahead(u, y) \/ ToCheck(u, y)
        /\ th[u].pc \in Holding \cup {"stamp", "clear"} /\ Older(y, x) => Unmatched(x, y)
    BY <1>2, <1>7 DEF IInv, Validated
  <2>2. th[u].pc = "validate" => (Ahead(u, y) => Ahead(u, y)') /\ (ToCheck(u, y) => ToCheck(u, y)')
    <3> SUFFICES ASSUME th[u].pc = "validate"
                 PROVE  (Ahead(u, y) => Ahead(u, y)') /\ (ToCheck(u, y) => ToCheck(u, y)')
      OBVIOUS
    <3>1. /\ AtList(u) /\ th[u] \in ThreadType
      BY ThreadFacts DEF IInv
    <3>2. \A z \in {th[u].start, th[u].cur, th[u].end} : z = NoXact \/ (z \in Xact /\ Listed(z))
      BY <3>1 DEF AtList, ThreadType, NoneOr
    <3>3. \A a \in Xact : Listed(a) => (Older(a, y)' <=> Older(a, y))
      BY <1>2, <1>7 DEF Compared
    <3>4. \A a \in {th[u].start, th[u].cur, th[u].end} : a # NoXact => (Older(a, y)' <=> Older(a, y))
      BY <3>2, <3>3
    <3>5. \A a : Older(a, y)' <=> xact'[a].commitTS < xact'[y].commitTS
      BY DEF Older
    <3> QED
      BY <1>1, <3>4, <3>5 DEF Ahead, ToCheck, Older
  <2> QED
    BY <1>3, <1>4, <1>7, <2>1, <2>2
<1>8. \/ (th[u].pc = "validate" => Ahead(u, y)') /\ ~Older(y, x)'
      \/ /\ Listed(y)
         /\ xact[x].startTS < xact'[y].commitTS => xact[x].startTS < xact[y].commitTS
         /\ th[u].pc \in Holding \cup {"stamp", "clear"} => (Older(y, x)' => Older(y, x))
  <2>2. Older(y, th[u].x) <=> Older(y, x)
    BY <1>2
  <2> QED
    BY <1>2, <1>4, <2>2 DEF Compared
<1> QED
  BY <1>5, <1>6, <1>7, <1>8

LEMMA StillWrites ==
  ASSUME IInv, NEW t \in Thread, Still(t),
         \A y \in Xact : Begun(y) => xact'[y].startTS = xact[y].startTS,
         \A y \in Xact : Committed(y) => xact'[y].commitTS = xact[y].commitTS
  PROVE  /\ StoreTypes' /\ Numbered' /\ XactType' = XactType /\ ThreadType' = ThreadType
         /\ Stamps' /\ UndoOwn' /\ \A u \in Thread \ {t} : Writes(u)'
<1>1. version' = version /\ entry' = entry /\ \A u \in Thread \ {t} : th'[u] = th[u]
  BY DEF Still, storeVars
<1>2. StoreTypes' /\ Numbered' /\ XactType' = XactType /\ ThreadType' = ThreadType
  BY StoreUnchanged DEF Still
<1>3. ASSUME NEW x \in Xact, Begun(x), NEW v \in DOMAIN version, MayFollow(x, v)
      PROVE  MayFollow(x, v)'
  <2>1. /\ Writer(v) \in Xact
        /\ Writer(v) = x \/ (Committed(Writer(v)) /\ xact[Writer(v)].commitTS < xact[x].startTS)
    BY <1>3, FollowedCommitted
  <2> QED
    BY <1>3, <2>1 DEF MayFollow
<1>4. Stamps'
  <2> SUFFICES ASSUME NEW v \in DOMAIN version
               PROVE  /\ version[v].xactid \in {Never, xact'[Writer(v)].commitTS}
                      /\ xact'[Writer(v)].startTS # Never
                      /\ version[v].oldV # Null => MayFollow(Writer(v), version[v].oldV)'
    BY <1>1 DEF Stamps, Begun
  <2>1. /\ Writer(v) \in Xact /\ version[v].oldV \in DOMAIN version \cup {Null}
        /\ version[v].xactid \in {Never, xact[Writer(v)].commitTS}
        /\ Begun(Writer(v))
        /\ version[v].oldV # Null => MayFollow(Writer(v), version[v].oldV)
    BY DEF IInv, StoreTypes, VersionType, Stamps
  <2>2. version[v].xactid \in {Never, xact'[Writer(v)].commitTS}
    BY <2>1 DEF Committed
  <2>3. PICK o : o = version[v].oldV
    OBVIOUS
  <2>4. o # Null => MayFollow(Writer(v), o)'
    BY <1>3, <2>1, <2>3
  <2>5. version'[v].oldV = o
    BY <1>1, <2>3
  <2> QED
    BY <2>1, <2>2, <2>3, <2>4, <2>5 DEF Begun, MayFollow
<1>5. UndoOwn'
  BY DEF IInv, UndoOwn, Still
<1>6. ASSUME NEW u \in Thread \ {t} PROVE Writes(u)'
  <2>1. Writes(u)
    BY DEF IInv
  <2>2. th[u].pc \in Holding \cup {"validate"} => th[u].x \in Xact
    BY ThreadFacts DEF Holding
  <2>3. th[u].pc = "supersede" => MayFollow(th[u].x, th[u].found)'
    <3> SUFFICES ASSUME th[u].pc = "supersede" PROVE MayFollow(th[u].x, th[u].found)'
      OBVIOUS
    <3>1. PICK x \in Xact, v \in DOMAIN version : x = th[u].x /\ v = th[u].found /\ Begun(x) /\ MayFollow(x, v)
      BY <2>1, ThreadFacts DEF Writes
    <3>2. MayFollow(x, v)'
      BY <1>3, <3>1
    <3> QED
      BY <1>1, <3>1, <3>2 DEF MayFollow
  <2> QED
    BY <1>1, <2>1, <2>2, <2>3 DEF Writes, Still
<1> QED
  BY <1>2, <1>4, <1>5, <1>6

(* What is on the list has committed, but for what the lock holder pushed. *)
LEMMA ListedCommitted ==
  ASSUME IInv, NEW y \in Xact, Listed(y)
  PROVE  /\ Committed(y) \/ Pushing(y)
         /\ Committed(y) => xact[y].commitTS < timestampGen /\ xact[y].commitTS < Never
         /\ Pushing(y) => xact[y].commitTS = Never /\ committedXactsTail = y
<1>1. Committed(Loader)
  BY DEF IInv, Clock, Past
<1>2. Committed(y) \/ Pushing(y)
  BY <1>1 DEF Listed
<1>3. Committed(y) => xact[y].commitTS < timestampGen /\ xact[y].commitTS < Never
  <2>1. xact[y].commitTS \in Nat /\ timestampGen \in Nat /\ Never \in Nat /\ timestampGen < Never
    BY XactTypes, ClockBound
  <2>2. Committed(y) => xact[y].commitTS < timestampGen
    BY DEF IInv, Clock, Past
  <2> QED
    BY <2>1, <2>2
<1>4. ASSUME Pushing(y) PROVE xact[y].commitTS = Never /\ committedXactsTail = y
  <2>1. PICK u \in Thread : th[u].x = y /\ th[u].pc \in {"draw", "store"}
    BY <1>4 DEF Pushing
  <2> QED
    BY <2>1, ThreadFacts DEF IInv, AtList, Committed, Uncommitted
<1> QED
  BY <1>2, <1>3, <1>4

(* A transaction that has not begun has left no trace.                     *)
LEMMA NotBegun ==
  ASSUME IInv, NEW x \in Xact, ~Begun(x)
  PROVE  /\ x # Loader /\ ~Committed(x) /\ ~Listed(x) /\ xact[x].prev = NoXact
         /\ \A u \in Thread : th[u].x # x
<1>1. x # Loader /\ ~Committed(x) /\ xact[x].prev = NoXact
  BY DEF IInv, Clock, Past, Chained
<1>2. \A u \in Thread : th[u].x # x
  BY XactFacts DEF IInv, OneThreadEach, RunsOne
<1> QED
  BY <1>1, <1>2 DEF Listed, Pushing

(* The chain stays when nothing on it changes its place.                   *)
LEMMA ChainKeptBut ==
  ASSUME IInv, UNCHANGED committedXactsTail, \A y \in Xact : Listed(y) => xact'[y].prev = xact[y].prev,
         \A y \in Xact : Listed(y)' <=> Listed(y),
         \A a, b \in Xact : Listed(a) /\ Listed(b) =>
           /\ Older(a, b)' <=> Older(a, b)
           /\ xact'[a].commitTS = xact'[b].commitTS => xact[a].commitTS = xact[b].commitTS,
         \A y \in Xact : Listed(y) /\ Committed(y) /\ Settled(y) => Settled(y)',
         \A y \in Xact : xact'[y].prev # NoXact => Listed(xact[y].prev)' /\ Older(xact[y].prev, y)',
         \A y \in Xact : ~Begun(y)' => xact'[y].prev = NoXact
  PROVE  Chained'
<1>1. PICK c \in NoneOr(Xact) : c = committedXactsTail /\ committedXactsTail' = c
  BY DEF IInv, ManagerTypes
<1>2. c \in Xact <=> c # NoXact
  BY <1>1, XactFacts DEF NoneOr
<1>3. c # NoXact => Listed(c)' /\ \A v \in Xact : Listed(v)' => ~Older(c, v)'
  BY <1>1, <1>2 DEF IInv, Chained
<1>4. c = NoXact => \A v \in Xact : Listed(v)' => Settled(v)'
  <2> SUFFICES ASSUME c = NoXact, NEW v \in Xact, Listed(v) PROVE Settled(v)'
    OBVIOUS
  <2>1. Committed(v)
    BY <1>1, ListedCommitted, XactFacts
  <2> QED
    BY <1>1, <2>1 DEF IInv, Chained
<1>5. ASSUME NEW y \in Xact, Listed(y)', NEW v \in Xact, Listed(v)', Older(v, y)'
      PROVE  IF xact'[y].prev = NoXact THEN Settled(v)' ELSE ~Older(xact[y].prev, v)'
  <2>0. Listed(y) /\ xact'[y].prev = xact[y].prev
    BY <1>5
  <2>1. PICK p \in NoneOr(Xact) : p = xact[y].prev
    BY XactTypes
  <2>2. IF p = NoXact THEN Settled(v) ELSE Listed(p) /\ ~Older(p, v)
    BY <1>5, <2>1 DEF IInv, Chained
  <2>3. Committed(v)
    <3>1. /\ xact[v].commitTS < xact[y].commitTS /\ xact[v].commitTS \in Nat /\ xact[y].commitTS \in Nat
          /\ xact[y].commitTS <= Never /\ Never \in Nat
      BY <1>5, XactTypes, ClockBound DEF Older
    <3> QED
      BY <3>1 DEF Committed
  <2>4. IF p = NoXact THEN Settled(v)' ELSE ~Older(p, v)'
    BY <1>5, <2>2, <2>3 DEF NoneOr
  <2>5. Older(xact[y].prev, v)' <=> Older(p, v)'
    BY <2>0, <2>1 DEF Older
  <2> QED
    BY <2>0, <2>1, <2>4, <2>5
<1>7. \A y, z \in Xact : Listed(y)' /\ Listed(z)' /\ xact'[y].commitTS = xact'[z].commitTS => y = z
  BY DEF IInv, Chained
<1>9. /\ Listed(committedXactsTail)' <=> Listed(c)'
      /\ \A v : Older(committedXactsTail, v)' <=> Older(c, v)'
  BY <1>1 DEF Listed, Committed, Pushing, Older
<1> QED
  BY <1>1, <1>3, <1>4, <1>5, <1>7, <1>9 DEF Chained

LEMMA ChainKept ==
  ASSUME IInv, UNCHANGED committedXactsTail, \A y \in Xact : xact'[y].prev = xact[y].prev,
         \A y \in Xact : Listed(y)' <=> Listed(y),
         \A a, b \in Xact : Listed(a) /\ Listed(b) =>
           /\ Older(a, b)' <=> Older(a, b)
           /\ xact'[a].commitTS = xact'[b].commitTS => xact[a].commitTS = xact[b].commitTS,
         \A y \in Xact : Listed(y) /\ Committed(y) /\ Settled(y) => Settled(y)',
         \A y \in Xact : xact[y].prev # NoXact => Older(xact[y].prev, y)',
         \A y \in Xact : Begun(y) => Begun(y)'
  PROVE  Chained'
<1>1. ASSUME NEW y \in Xact, xact'[y].prev # NoXact PROVE Listed(xact[y].prev)' /\ Older(xact[y].prev, y)'
  <2>1. PICK p \in NoneOr(Xact) : p = xact[y].prev /\ p # NoXact
    BY <1>1, XactTypes
  <2>2. Listed(p)'
    BY <2>1 DEF IInv, Chained, NoneOr
  <2>3. xact'[y].prev = p
    BY <2>1
  <2>4. Listed(xact[y].prev)' <=> Listed(p)'
    BY <2>3 DEF Listed, Committed, Pushing
  <2> QED
    BY <1>1, <2>2, <2>4
<1>2. \A y \in Xact : ~Begun(y)' => xact'[y].prev = NoXact
  BY DEF IInv, Chained
<1> QED
  BY <1>1, <1>2, ChainKeptBut

LEMMA ComparedTo ==
  ASSUME NEW u \in Thread, th'[u] = th[u], NEW x \in Xact, x = th[u].x,
         xact'[x].startTS = xact[x].startTS,
         \A a, b \in Xact : Listed(a) /\ Listed(b) => (Older(a, b)' <=> Older(a, b)),
         \A y \in Xact : Listed(y)' =>
           \/ (th[u].pc = "validate" => Ahead(u, y)') /\ ~Older(y, x)'
           \/ /\ Listed(y)
              /\ xact[x].startTS < xact'[y].commitTS => xact[x].startTS < xact[y].commitTS
              /\ th[u].pc \in Holding \cup {"stamp", "clear"} => (Older(y, x)' => Older(y, x))
  PROVE  Compared(u)
<1>1. \A y : (Older(y, th[u].x)' <=> Older(y, x)') /\ (Older(y, th[u].x) <=> Older(y, x))
  BY DEF Older
<1> QED
  BY <1>1 DEF Compared

LEMMA StillAtList ==
  ASSUME IInv, NEW u \in Thread, th'[u] = th[u],
         th[u].pc \in {"draw", "store"} => committedXactsTail' = committedXactsTail,
         th[u].x \in Xact /\ th[u].pc \in Working \cup {"publish", "push"} => xact'[th[u].x].prev = xact[th[u].x].prev,
         \A y \in Xact : Listed(y) => Listed(y)'
  PROVE  AtList(u)'
<1>1. AtList(u) /\ th[u] \in ThreadType
  BY ThreadFacts DEF IInv
<1>2. th[u].pc \in Working \cup {"publish", "push"} => th[u].x \in Xact
  BY ThreadFacts DEF Working
<1>3. ASSUME NEW y \in {th[u].start, th[u].cur, th[u].end}, y # NoXact, th[u].pc \in {"validate", "push"}
      PROVE  Listed(y)'
  <2>1. y \in Xact
    BY <1>1, <1>3 DEF ThreadType, NoneOr
  <2> QED
    BY <1>1, <1>3, <2>1 DEF AtList
<1>4. \A y \in {th'[u].start, th'[u].cur, th'[u].end} : th'[u].pc \in {"validate", "push"} => y = NoXact \/ Listed(y)'
  BY <1>3
<1> QED
  BY <1>1, <1>2, <1>4 DEF AtList

LEMMA BeginStep ==
  ASSUME IInv, NEW t \in Thread, Begin(t)
  PROVE  IInv'
<1>0. th[t].pc = "idle" /\ ~counterLock /\ th[t].x = NoXact
  BY DEF Begin, At, IInv, OneThreadEach, RunsOne
<1>1. PICK x \in Xact :
        /\ ~Begun(x)
        /\ xact' = [xact EXCEPT ![x].startTS = timestampGen]
        /\ th' = [th EXCEPT ![t] = [Idle EXCEPT !.pc = "publish", !.x = x]]
  BY DEF Begin
<1>2. /\ timestampGen' = timestampGen + 1
      /\ UNCHANGED <<storeVars, counterLock, commitLock, committedXactsTail, isGCActive, activeXactStartTS, crashed, ghostVars>>
  BY DEF Begin
<1>3. /\ x # Loader /\ ~Committed(x) /\ ~Listed(x) /\ xact[x].prev = NoXact /\ \A u \in Thread : th[u].x # x
      /\ x # NoXact
  BY <1>1, NotBegun, XactFacts
<1>4. timestampGen \in Nat /\ Never \in Nat /\ timestampGen < Never
  BY ClockBound
<1>5. PICK w \in XactType, g \in Nat : w = xact[x] /\ g = timestampGen /\ xact \in [Xact -> XactType]
  BY <1>4, XactTypes DEF IInv, ManagerTypes
<1> DEFINE z == [w EXCEPT !.startTS = g]
           i == [Idle EXCEPT !.pc = "publish", !.x = x]
<1>6. z \in XactType /\ z.startTS = g /\ z.commitTS = w.commitTS /\ z.prev = w.prev /\ z.undo = w.undo /\ z.preds = w.preds
  BY <1>5 DEF XactType
<1>7. i \in ThreadType /\ i.pc = "publish" /\ i.x = x
  BY IdleType DEF ThreadType, Pc, Uncommitted, NoneOr
<1>8. xact' = [xact EXCEPT ![x] = z] /\ th' = [th EXCEPT ![t] = i]
  BY <1>1, <1>5
<1> HIDE DEF z, i
<1>9. /\ xact' \in [Xact -> XactType] /\ \A y \in Xact \ {x} : xact'[y] = xact[y]
      /\ xact'[x].startTS = timestampGen /\ xact'[x].commitTS = xact[x].commitTS
      /\ xact'[x].prev = xact[x].prev /\ xact'[x].undo = xact[x].undo /\ xact'[x].preds = xact[x].preds
  BY <1>5, <1>6, <1>8
<1>10. /\ th' \in [Thread -> ThreadType] /\ \A u \in Thread \ {t} : th'[u] = th[u]
       /\ th'[t].pc = "publish" /\ th'[t].x = x
  BY <1>7, <1>8, Moving
<1>11. \A y \in Xact : xact'[y].commitTS = xact[y].commitTS /\ xact'[y].prev = xact[y].prev /\ xact'[y].undo = xact[y].undo
  BY <1>9
<1>12. Still(t)
  BY <1>2, <1>9, <1>10 DEF Still, ghostVars
<1>13. /\ StoreTypes' /\ Numbered' /\ XactType' = XactType /\ ThreadType' = ThreadType
       /\ Stamps' /\ UndoOwn' /\ \A u \in Thread \ {t} : Writes(u)'
  BY <1>1, <1>9, <1>11, <1>12, StillWrites
<1>14. ManagerTypes'
  BY <1>2, <1>4, <1>9, <1>10, <1>13 DEF IInv, ManagerTypes
<1>15. \A y \in Xact : /\ Committed(y)' <=> Committed(y)
                       /\ Begun(y)' <=> (Begun(y) \/ y = x)
                       /\ Pushing(y)' <=> Pushing(y)
                       /\ Storing(y)' <=> Storing(y)
                       /\ Listed(y)' <=> Listed(y)
  <2>1. \A y \in Xact : (Pushing(y)' <=> Pushing(y)) /\ (Storing(y)' <=> Storing(y))
    BY <1>0, <1>10 DEF Pushing, Storing
  <2>2. \A y \in Xact : Committed(y)' <=> Committed(y)
    BY <1>11 DEF Committed
  <2>3. \A y \in Xact : Begun(y)' <=> (Begun(y) \/ y = x)
    BY <1>4, <1>9 DEF Begun
  <2> QED
    BY <1>11, <2>1, <2>2, <2>3 DEF Listed
<1>16. \A y, z1 \in Xact : Older(y, z1)' <=> Older(y, z1)
  BY <1>11 DEF Older
<1>17. ASSUME NEW y \in Xact, Committed(y), Settled(y) PROVE Settled(y)'
  <2> SUFFICES ASSUME NEW z1 \in Xact \ overlooked, Running(z1)'
               PROVE  xact'[y].commitTS <= xact'[z1].startTS
    BY <1>2 DEF Settled, ghostVars
  <2>1. CASE z1 = x
    <3>1. xact[y].commitTS < timestampGen /\ xact[y].commitTS \in Nat
      BY <1>17, XactTypes DEF IInv, Clock, Past
    <3> QED
      BY <1>4, <1>9, <1>11, <2>1, <3>1
  <2>2. CASE z1 # x
    <3>1. PICK u \in Thread : th'[u].x = z1 /\ Begun(z1)' /\ xact'[z1].commitTS = Never
      BY DEF Running
    <3>2. u # t
      BY <1>10, <2>2, <3>1
    <3>3. Running(z1)
      BY <1>10, <1>11, <1>15, <2>2, <3>1, <3>2 DEF Running
    <3> QED
      BY <1>9, <1>11, <1>17, <2>2, <3>3 DEF Settled
  <2> QED
    BY <2>1, <2>2
<1>18. Chained'
  <2>1. \A y \in Xact : xact[y].prev # NoXact => Older(xact[y].prev, y)'
    <3> SUFFICES ASSUME NEW y \in Xact, xact[y].prev # NoXact PROVE Older(xact[y].prev, y)'
      OBVIOUS
    <3>1. PICK p \in Xact : p = xact[y].prev /\ Older(p, y)
      BY XactTypes DEF IInv, Chained, NoneOr
    <3>2. Older(p, y)' /\ xact'[y].prev = p
      BY <1>11, <1>16, <3>1
    <3> QED
      BY <3>2 DEF Older
  <2> QED
    BY <1>2, <1>11, <1>15, <1>16, <1>17, <2>1, ChainKept
<1>19. \A u \in Thread : th[u].pc # "store" /\ th'[u].pc # "store"
  BY <1>0, <1>10 DEF IInv, Locks, Holds
<1>20. Clock'
  <2>1. Counted'
    <3>1. Started' = Started \cup {x} /\ x \notin Started /\ Drawn' = Drawn
      BY <1>1, <1>3, <1>15 DEF Started, Drawn
    <3>2. Started \in SUBSET Xact /\ Drawn \in SUBSET Xact
      BY DEF Started, Drawn
    <3>3. IsFiniteSet(Started) /\ IsFiniteSet(Drawn)
      BY <3>2, XactFacts, FS_Subset
    <3>4. Cardinality(Started') = Cardinality(Started) + 1 /\ Cardinality(Started) \in Nat /\ Cardinality(Drawn) \in Nat
      BY <3>1, <3>3, FS_AddElement, FS_CardinalityType
    <3> QED
      BY <1>2, <1>4, <3>1, <3>4 DEF IInv, Clock, Counted
  <2>2. Past'
    <3>1. Past
      BY DEF IInv, Clock
    <3>2. \A y \in Xact : Begun(y)' => xact'[y].startTS < timestampGen'
      <4> SUFFICES ASSUME NEW y \in Xact, Begun(y)' PROVE xact'[y].startTS < timestampGen'
        OBVIOUS
      <4>1. y # x => xact'[y].startTS = xact[y].startTS /\ xact[y].startTS \in Nat /\ xact[y].startTS < timestampGen
        BY <1>9, <1>15, <3>1, XactTypes DEF Past
      <4> QED
        BY <1>2, <1>4, <1>9, <4>1
    <3>3. \A y \in Xact : Committed(y)' => Begun(y)' /\ xact'[y].commitTS < timestampGen'
      <4> SUFFICES ASSUME NEW y \in Xact, Committed(y)' PROVE Begun(y)' /\ xact'[y].commitTS < timestampGen'
        OBVIOUS
      <4>1. Begun(y) /\ xact[y].commitTS < timestampGen /\ xact[y].commitTS \in Nat
        BY <1>15, <3>1, XactTypes DEF Past
      <4> QED
        BY <1>2, <1>4, <1>11, <1>15, <4>1
    <3>4. Begun(Loader)' /\ Committed(Loader)'
      BY <1>15, <3>1, XactFacts DEF Past
    <3> QED
      BY <3>2, <3>3, <3>4 DEF Past
  <2> QED
    BY <1>19, <2>1, <2>2 DEF Clock, DrawnLast
<1>21. Locks'
  <2>1. "publish" \notin Holding
    BY DEF Holding
  <2>2. OneHolder'
    BY <1>10, <2>1 DEF IInv, Locks, OneHolder
  <2>3. \A u \in Thread : Holds(u)'
    BY <1>2, <1>10, <1>19, <2>1 DEF IInv, Locks, Holds
  <2> QED
    BY <2>2, <2>3 DEF Locks
<1>22. OneThreadEach'
  <2>1. OnOneThread'
    BY <1>3, <1>10 DEF IInv, OneThreadEach, OnOneThread
  <2>2. RunsOne(t)'
    <3>1. Begun(x)' /\ ~Committed(x)'
      BY <1>3, <1>15
    <3> QED
      BY <1>3, <1>10, <3>1 DEF RunsOne, Begun, Committed
  <2>3. ASSUME NEW u \in Thread \ {t} PROVE RunsOne(u)'
    <3>1. RunsOne(u) /\ th[u] \in ThreadType /\ th'[u] = th[u]
      BY <1>10, ThreadFacts DEF IInv, OneThreadEach
    <3>2. PICK y \in NoneOr(Xact) : y = th[u].x /\ y # x
      BY <1>3, <3>1 DEF ThreadType
    <3>3. y # NoXact => (Begun(y)' <=> Begun(y)) /\ (Committed(y)' <=> Committed(y))
      BY <1>15, <3>2 DEF NoneOr
    <3>4. th[u].pc \in Uncommitted \cup {"stamp", "clear"} => y # NoXact
      BY <3>1, <3>2 DEF RunsOne, Uncommitted, Working
    <3> QED
      BY <3>1, <3>2, <3>3, <3>4 DEF RunsOne, Begun, Committed
  <2> QED
    BY <2>1, <2>2, <2>3 DEF OneThreadEach
<1>23. ASSUME NEW u \in Thread \ {t} PROVE AtList(u)' /\ Validated(u)' /\ Writes(u)'
  <2>1. AtList(u)'
    BY <1>2, <1>10, <1>11, <1>15, StillAtList
  <2>2. ASSUME NEW y \in Xact, y = th[u].x PROVE Compared(u)
    <3>1. xact'[y].startTS = xact[y].startTS /\ th'[u] = th[u]
      BY <1>3, <1>9, <1>10, <2>2
    <3> QED
      BY <1>11, <1>15, <1>16, <2>2, <3>1, ComparedTo
  <2> QED
    BY <1>12, <1>13, <2>1, <2>2, StillValidated
<1>24. AtList(t)' /\ Validated(t)' /\ Writes(t)'
  BY <1>3, <1>9, <1>10 DEF AtList, Validated, Writes, Holding, Working
<1> QED
  BY <1>13, <1>14, <1>18, <1>20, <1>21, <1>22, <1>23, <1>24 DEF IInv

(* A step that leaves the table alone, but for what it changes.            *)
LEMMA StillStep ==
  ASSUME IInv, NEW t \in Thread, Still(t),
         xact' \in [Xact -> XactType], th' \in [Thread -> ThreadType],
         timestampGen' \in Nat, {counterLock', commitLock', isGCActive', crashed'} \subseteq BOOLEAN,
         committedXactsTail' \in NoneOr(Xact), activeXactStartTS' \in [Thread -> Nat],
         th'[t].x \in {th[t].x, NoXact},
         \A y \in Xact : xact'[y].startTS = xact[y].startTS,
         \A y \in Xact : Committed(y) => xact'[y].commitTS = xact[y].commitTS,
         \A y \in Xact \ {th[t].x} : xact'[y].commitTS = xact[y].commitTS,
         Chained', Clock', Locks',
         \A u \in Thread \ {t} : AtList(u)' /\ (th[u].x \in Xact => Compared(u)),
         RunsOne(t)', AtList(t)', Validated(t)', Writes(t)'
  PROVE  IInv'
<1>1. /\ StoreTypes' /\ Numbered' /\ XactType' = XactType /\ ThreadType' = ThreadType
      /\ Stamps' /\ UndoOwn' /\ \A u \in Thread \ {t} : Writes(u)'
  BY StillWrites
<1>2. ManagerTypes'
  BY <1>1 DEF ManagerTypes
<1>3. \A u \in Thread \ {t} : th'[u] = th[u]
  BY DEF Still
<1>4. OneThreadEach'
  <2>1. OnOneThread'
    BY <1>3 DEF IInv, OneThreadEach, OnOneThread
  <2>2. ASSUME NEW u \in Thread \ {t} PROVE RunsOne(u)'
    <3>1. RunsOne(u) /\ th[u] \in ThreadType /\ th'[u] = th[u]
      BY <1>3, ThreadFacts DEF IInv, OneThreadEach
    <3>2. PICK y \in NoneOr(Xact) : y = th[u].x
      BY <3>1 DEF ThreadType
    <3>3. y # NoXact => y \in Xact \ {th[t].x}
      BY <3>2 DEF IInv, OneThreadEach, OnOneThread, NoneOr
    <3>4. y # NoXact => (Begun(y)' <=> Begun(y)) /\ (Committed(y)' <=> Committed(y))
      BY <3>3 DEF Begun, Committed
    <3>5. th[u].pc \in Uncommitted \cup {"stamp", "clear"} => y # NoXact
      BY <3>1, <3>2 DEF RunsOne, Uncommitted, Working
    <3> QED
      BY <3>1, <3>2, <3>4, <3>5 DEF RunsOne, Begun, Committed
  <2> QED
    BY <2>1, <2>2 DEF OneThreadEach
<1>5. \A u \in Thread \ {t} : Validated(u)'
  BY StillValidated
<1> QED
  BY <1>1, <1>2, <1>4, <1>5 DEF IInv

(* The clock of a step that draws no timestamp.                            *)
LEMMA ClockKept ==
  ASSUME IInv, UNCHANGED timestampGen,
         \A y \in Xact : xact'[y].startTS = xact[y].startTS,
         \A y \in Xact : Committed(y)' => Begun(y) /\ (xact'[y].commitTS = xact[y].commitTS \/ xact'[y].commitTS < timestampGen),
         \A y \in Xact : Committed(y) => Committed(y)',
         Drawn \subseteq Drawn', \A u \in Thread : DrawnLast(u)'
  PROVE  Clock'
<1>1. \A y \in Xact : Begun(y)' <=> Begun(y)
  BY DEF Begun
<1>2. Started' = Started
  BY <1>1 DEF Started
<1>3. Counted'
  <2>1. Drawn \in SUBSET Xact /\ Drawn' \in SUBSET Xact
    BY DEF Drawn
  <2>2. IsFiniteSet(Drawn') /\ IsFiniteSet(Drawn) /\ Cardinality(Drawn) <= Cardinality(Drawn')
    BY <2>1, XactFacts, FS_Subset
  <2>3. Cardinality(Drawn) \in Nat /\ Cardinality(Drawn') \in Nat
    BY <2>2, FS_CardinalityType
  <2>4. Started \in SUBSET Xact
    BY DEF Started
  <2>5. Cardinality(Started) \in Nat
    BY <2>4, XactFacts, FS_Subset, FS_CardinalityType
  <2> QED
    BY <1>2, <2>2, <2>3, <2>5 DEF IInv, ManagerTypes, Clock, Counted
<1>4. Past'
  <2>1. Past
    BY DEF IInv, Clock
  <2>2. \A y \in Xact : Committed(y)' => Begun(y)' /\ xact'[y].commitTS < timestampGen'
    <3> SUFFICES ASSUME NEW y \in Xact, Committed(y)' PROVE Begun(y)' /\ xact'[y].commitTS < timestampGen'
      OBVIOUS
    <3>1. CASE xact'[y].commitTS = xact[y].commitTS
      BY <1>1, <2>1, <3>1 DEF Past, Committed
    <3>2. CASE xact'[y].commitTS < timestampGen
      BY <1>1, <3>2
    <3> QED
      BY <3>1, <3>2
  <2> QED
    BY <1>1, <2>1, <2>2, XactFacts DEF Past
<1> QED
  BY <1>3, <1>4 DEF Clock

(* The transaction of another thread is another one.                       *)
LEMMA OtherXact ==
  ASSUME IInv, NEW t \in Thread, NEW u \in Thread \ {t}, th[u].x \in Xact
  PROVE  th[u].x # th[t].x
BY XactFacts DEF IInv, OneThreadEach, OnOneThread

LEMMA CommitReadOnlyStep ==
  ASSUME IInv, NEW t \in Thread, CommitReadOnly(t)
  PROVE  IInv'
<1>0. th[t].pc = "run" /\ "run" \in Uncommitted /\ "run" \in Working
  BY DEF CommitReadOnly, At, Uncommitted, Working
<1>1. PICK x \in Xact \ {Loader} : x = th[t].x /\ Begun(x) /\ ~Committed(x) /\ xact[x].prev = NoXact
  BY <1>0, ThreadFacts DEF IInv, AtList
<1>2. /\ xact[x].undo = <<>>
      /\ xact' = [xact EXCEPT ![x].commitTS = xact[x].startTS]
      /\ activeXactStartTS' = [activeXactStartTS EXCEPT ![t] = Never]
      /\ Finish(t)
      /\ UNCHANGED <<storeVars, timestampGen, counterLock, commitLock, committedXactsTail, isGCActive, crashed, ghostVars>>
  BY <1>1 DEF CommitReadOnly
<1>3. /\ th' \in [Thread -> ThreadType] /\ \A u \in Thread \ {t} : th'[u] = th[u]
      /\ th'[t].pc = "idle" /\ th'[t].x = NoXact
  BY <1>2, Finishing
<1>4. PICK w \in XactType, s \in Nat : w = xact[x] /\ s = xact[x].startTS /\ xact \in [Xact -> XactType] /\ s < timestampGen
  BY <1>1, XactTypes DEF IInv, ManagerTypes, Clock, Past
<1> DEFINE z == [w EXCEPT !.commitTS = s]
<1>5. xact' = [xact EXCEPT ![x] = z]
  BY <1>2, <1>4
<1>6. z \in XactType /\ z.startTS = w.startTS /\ z.commitTS = s /\ z.prev = w.prev /\ z.undo = w.undo /\ z.preds = w.preds
  BY <1>4 DEF XactType
<1> HIDE DEF z
<1>7. /\ xact' \in [Xact -> XactType] /\ \A y \in Xact \ {x} : xact'[y] = xact[y]
      /\ xact'[x].startTS = xact[x].startTS /\ xact'[x].commitTS = s
      /\ xact'[x].prev = xact[x].prev /\ xact'[x].undo = xact[x].undo /\ xact'[x].preds = xact[x].preds
  BY <1>4, <1>5, <1>6
<1>8. \A y \in Xact : xact'[y].startTS = xact[y].startTS /\ xact'[y].prev = xact[y].prev /\ xact'[y].undo = xact[y].undo
  BY <1>7
<1>9. Still(t)
  BY <1>2, <1>3, <1>7 DEF Still, ghostVars
<1>10. /\ \A y \in Xact : (Pushing(y)' <=> Pushing(y)) /\ (Storing(y)' <=> Storing(y))
       /\ \A y \in Xact : Begun(y)' <=> Begun(y)
       /\ \A y \in Xact \ {x} : Committed(y)' <=> Committed(y)
  BY <1>0, <1>3, <1>7, <1>8 DEF Pushing, Storing, Begun, Committed
<1>11. ~Pushing(x)
  BY <1>0, <1>1, XactFacts DEF Pushing, IInv, OneThreadEach, OnOneThread
<1>12. ~Listed(x) /\ \A y \in Xact : Listed(y)' <=> Listed(y)
  BY <1>1, <1>2, <1>8, <1>10, <1>11 DEF Listed
<1>13. \A y \in Xact : Listed(y) => xact'[y].commitTS = xact[y].commitTS
  BY <1>7, <1>12
<1>14. \A a, b \in Xact : Listed(a) /\ Listed(b) =>
         /\ Older(a, b)' <=> Older(a, b)
         /\ xact'[a].commitTS = xact'[b].commitTS => xact[a].commitTS = xact[b].commitTS
  BY <1>13 DEF Older
<1>15. \A y \in Xact : Running(y)' => Running(y)
  <2> SUFFICES ASSUME NEW y \in Xact, Running(y)' PROVE Running(y)
    OBVIOUS
  <2>1. PICK u \in Thread : th'[u].x = y
    BY DEF Running
  <2>2. u # t /\ th[u].x = y
    BY <1>3, <2>1, XactFacts
  <2>3. y # x
    BY <1>1, <2>2, OtherXact
  <2> QED
    BY <1>7, <1>10, <2>2, <2>3 DEF Running
<1>16. Chained'
  <2>1. \A y \in Xact : Listed(y) /\ Committed(y) /\ Settled(y) => Settled(y)'
    BY <1>2, <1>8, <1>13, <1>15 DEF Settled, ghostVars
  <2>2. ASSUME NEW y \in Xact, xact[y].prev # NoXact PROVE Older(xact[y].prev, y)'
    <3>1. PICK p \in Xact : p = xact[y].prev /\ Listed(p) /\ Older(p, y) /\ y # x
      BY <1>1, <2>2, XactTypes DEF IInv, Chained, NoneOr
    <3>2. xact'[y].prev = p /\ xact'[p].commitTS = xact[p].commitTS /\ xact'[y].commitTS = xact[y].commitTS
      BY <1>7, <1>8, <1>13, <3>1
    <3> QED
      BY <3>1, <3>2 DEF Older
  <2> QED
    BY <1>2, <1>8, <1>10, <1>12, <1>14, <2>1, <2>2, ChainKept
<1>17. Clock'
  <2>1. Drawn \subseteq Drawn'
    BY <1>1, <1>10, <1>11 DEF Drawn, Storing, Pushing
  <2>2. \A y \in Xact : Committed(y)' => Begun(y) /\ (xact'[y].commitTS = xact[y].commitTS \/ xact'[y].commitTS < timestampGen)
    BY <1>1, <1>4, <1>7, <1>10 DEF IInv, Clock, Past
  <2>3. \A y \in Xact : Committed(y) => Committed(y)'
    BY <1>1, <1>10
  <2>4. ASSUME NEW u \in Thread PROVE DrawnLast(u)'
    <3>1. CASE u = t
      BY <1>3, <3>1 DEF DrawnLast
    <3>2. CASE u # t
      <4>1. DrawnLast(u) /\ th'[u] = th[u]
        BY <1>3, <3>2 DEF IInv, Clock
      <4>2. th[u].pc = "store" => xact'[x].commitTS < th[u].drawn
        BY <1>1, <1>4, <1>7, <4>1 DEF DrawnLast
      <4> QED
        BY <1>2, <1>7, <1>8, <1>10, <4>1, <4>2 DEF DrawnLast
    <3> QED
      BY <3>1, <3>2
  <2> QED
    BY <1>2, <1>8, <2>1, <2>2, <2>3, <2>4, ClockKept
<1>18. Locks'
  <2>1. "idle" \notin Holding /\ "store" \in Holding
    BY DEF Holding
  <2> QED
    BY <1>2, <1>3, <2>1 DEF IInv, Locks, OneHolder, Holds
<1>19. ASSUME NEW u \in Thread \ {t} PROVE AtList(u)' /\ (th[u].x \in Xact => Compared(u))
  <2>1. AtList(u)'
    BY <1>2, <1>3, <1>8, <1>12, StillAtList
  <2>2. ASSUME NEW y \in Xact, y = th[u].x PROVE Compared(u)
    <3>1. y # x /\ xact'[y] = xact[y] /\ th'[u] = th[u]
      BY <1>1, <1>3, <1>7, <2>2, OtherXact
    <3>2. \A a \in Xact : Listed(a) => (Older(a, y)' <=> Older(a, y))
      BY <1>13, <3>1 DEF Older
    <3> QED
      BY <1>12, <1>13, <1>14, <2>2, <3>1, <3>2, ComparedTo
  <2> QED
    BY <2>1, <2>2
<1>20. RunsOne(t)' /\ AtList(t)' /\ Validated(t)' /\ Writes(t)'
  BY <1>3 DEF RunsOne, AtList, Validated, Writes, Uncommitted, Working, Holding
<1>21. /\ timestampGen' \in Nat /\ {counterLock', commitLock', isGCActive', crashed'} \subseteq BOOLEAN
       /\ committedXactsTail' \in NoneOr(Xact) /\ activeXactStartTS' \in [Thread -> Nat]
  BY <1>2, TransactionAssumption DEF IInv, ManagerTypes
<1>22. \A y \in Xact : Committed(y) => xact'[y].commitTS = xact[y].commitTS
  BY <1>1, <1>7
<1> QED
  BY <1>1, <1>3, <1>7, <1>8, <1>9, <1>16, <1>17, <1>18, <1>19, <1>20, <1>21, <1>22, StillStep

LEMMA TryLockStep ==
  ASSUME IInv, NEW t \in Thread, TryLock(t)
  PROVE  IInv'
<1>0. /\ th[t].pc = "validate" /\ RoundOver(t) /\ "validate" \in Uncommitted
      /\ UNCHANGED <<storeVars, timestampGen, counterLock, committedXactsTail, isGCActive, activeXactStartTS, crashed, ghostVars>>
  BY DEF TryLock, At, Uncommitted
<1>1. CASE Round(t, th[t].start) /\ UNCHANGED <<xact, commitLock>>
  <2>1. UNCHANGED <<storeVars, xact, managerVars, crashed, ghostVars>>
    BY <1>0, <1>1 DEF managerVars
  <2> QED
    BY <1>0, <1>1, <2>1, AnotherRound
<1>2. ASSUME committedXactsTail = th[t].start, ~commitLock, commitLock' = TRUE,
             xact' = [xact EXCEPT ![th[t].x].prev = th[t].start], Goto(t, "push")
      PROVE  IInv'
  <2>1. PICK x \in Xact \ {Loader} : x = th[t].x /\ Begun(x) /\ ~Committed(x) /\ x # NoXact
    BY <1>0, ThreadFacts, XactFacts
  <2>2. PICK w \in XactType, s \in NoneOr(Xact) :
          w = xact[x] /\ s = th[t].start /\ xact \in [Xact -> XactType] /\ s = committedXactsTail
    BY <1>2, XactTypes DEF IInv, ManagerTypes
  <2> DEFINE z == [w EXCEPT !.prev = s]
  <2>3. xact' = [xact EXCEPT ![x] = z]
    BY <1>2, <2>1, <2>2
  <2>4. z \in XactType /\ z.startTS = w.startTS /\ z.commitTS = w.commitTS /\ z.prev = s /\ z.undo = w.undo /\ z.preds = w.preds
    BY <2>2 DEF XactType
  <2> HIDE DEF z
  <2>5. /\ xact' \in [Xact -> XactType] /\ \A y \in Xact \ {x} : xact'[y] = xact[y]
        /\ xact'[x].startTS = xact[x].startTS /\ xact'[x].commitTS = xact[x].commitTS
        /\ xact'[x].prev = s /\ xact'[x].undo = xact[x].undo /\ xact'[x].preds = xact[x].preds
    BY <2>2, <2>3, <2>4
  <2>6. "push" \in Pc
    BY DEF Pc, Uncommitted
  <2>7. /\ th' \in [Thread -> ThreadType] /\ \A u \in Thread \ {t} : th'[u] = th[u]
        /\ th'[t].pc = "push" /\ th'[t].x = x /\ th'[t].start = th[t].start
        /\ th'[t].cur = th[t].cur /\ th'[t].end = th[t].end
    BY <1>2, <2>1, <2>6, Going
  <2>8. \A y \in Xact : xact'[y].startTS = xact[y].startTS /\ xact'[y].commitTS = xact[y].commitTS /\ xact'[y].undo = xact[y].undo
    BY <2>5
  <2>9. Still(t)
    BY <1>0, <2>5, <2>7 DEF Still, ghostVars
  <2>10. \A y \in Xact : /\ Pushing(y)' <=> Pushing(y)
                         /\ Storing(y)' <=> Storing(y)
                         /\ Begun(y)' <=> Begun(y)
                         /\ Committed(y)' <=> Committed(y)
    BY <1>0, <2>7, <2>8 DEF Pushing, Storing, Begun, Committed
  <2>11. \A y \in Xact : Listed(y)' <=> Listed(y)
    BY <2>8, <2>10 DEF Listed
  <2>12. \A a, b \in Xact : Older(a, b)' <=> Older(a, b)
    BY <2>8 DEF Older
  <2>13. \A u \in Thread : th[u].pc \notin Holding
    BY <1>2 DEF IInv, Locks, Holds
  <2>14. ~Listed(x) /\ \A y \in Xact : ~Pushing(y)
    BY <2>1, <2>13 DEF Listed, Pushing, Holding
  <2>15. Running(x) /\ \A y \in Xact : Running(y)' => Running(y)
    <3>1. Running(x)
      BY <1>0, <2>1, Validating
    <3>2. \A u \in Thread : th'[u].x = th[u].x
      BY <2>1, <2>7
    <3> QED
      BY <2>8, <2>10, <3>1, <3>2 DEF Running
  <2>16. s = NoXact \/ (s \in Xact /\ Listed(s) /\ Older(s, x))
    <3> SUFFICES ASSUME s # NoXact PROVE s \in Xact /\ Listed(s) /\ Older(s, x)
      OBVIOUS
    <3>1. s \in Xact /\ Listed(s)
      BY <2>2, TailNewest
    <3>2. xact[s].commitTS < Never
      BY <2>14, <3>1, ListedCommitted
    <3> QED
      BY <2>1, <3>1, <3>2 DEF Older, Committed
  <2>17. Chained'
    <3>1. \A y \in Xact : Listed(y) /\ Committed(y) /\ Settled(y) => Settled(y)'
      BY <1>0, <2>8, <2>15 DEF Settled, ghostVars
    <3>2. ASSUME NEW y \in Xact, xact'[y].prev # NoXact PROVE Listed(xact[y].prev)' /\ Older(xact[y].prev, y)'
      <4>1. PICK p \in Xact : xact'[y].prev = p /\ Listed(p) /\ Older(p, y)
        <5>1. CASE y = x
          BY <2>5, <2>16, <3>2, <5>1
        <5>2. CASE y # x
          BY <2>5, <3>2, <5>2, XactTypes DEF IInv, Chained, NoneOr
        <5> QED
          BY <5>1, <5>2
      <4>2. Listed(p)' /\ Older(p, y)'
        BY <2>11, <2>12, <4>1
      <4> QED
        BY <4>1, <4>2 DEF Listed, Committed, Pushing, Older
    <3>3. \A y \in Xact : ~Begun(y)' => xact'[y].prev = NoXact
      BY <2>1, <2>5, <2>10 DEF IInv, Chained
    <3>4. \A y \in Xact : Listed(y) => xact'[y].prev = xact[y].prev
      BY <2>5, <2>14
    <3>5. \A a, b \in Xact : xact'[a].commitTS = xact'[b].commitTS => xact[a].commitTS = xact[b].commitTS
      BY <2>8
    <3> QED
      BY <1>0, <2>11, <2>12, <3>1, <3>2, <3>3, <3>4, <3>5, ChainKeptBut
  <2>18. Clock'
    <3>1. Drawn \subseteq Drawn'
      BY <2>10 DEF Drawn
    <3>2. \A y \in Xact : Committed(y)' => Begun(y)
      BY <2>10 DEF IInv, Clock, Past
    <3>3. \A u \in Thread : DrawnLast(u)'
      BY <2>7, <2>13 DEF DrawnLast, Holding
    <3> QED
      BY <1>0, <2>8, <2>10, <3>1, <3>2, <3>3, ClockKept
  <2>19. Locks'
    BY <1>2, <2>7, <2>13 DEF Locks, OneHolder, Holds, Holding
  <2>20. ASSUME NEW u \in Thread \ {t} PROVE AtList(u)' /\ (th[u].x \in Xact => Compared(u))
    <3>1. AtList(u)'
      <4>1. th[u].x \in Xact => xact'[th[u].x] = xact[th[u].x]
        BY <2>1, <2>5, OtherXact
      <4> QED
        BY <1>0, <2>7, <2>11, <4>1, StillAtList
    <3>2. ASSUME NEW y \in Xact, y = th[u].x PROVE Compared(u)
      <4>1. th'[u] = th[u]
        BY <2>7
      <4> QED
        BY <2>8, <2>11, <2>12, <3>2, <4>1, ComparedTo
    <3> QED
      BY <3>1, <3>2
  <2>21. RunsOne(t)'
    BY <2>1, <2>5, <2>7 DEF RunsOne, Begun, Committed, Uncommitted
  <2>22. AtList(t)'
    <3>1. \A y \in {th[t].start, th[t].cur, th[t].end} : y = NoXact \/ (y \in Xact /\ Listed(y))
      <4>1. AtList(t) /\ th[t] \in ThreadType
        BY ThreadFacts DEF IInv
      <4> QED
        BY <1>0, <4>1 DEF AtList, ThreadType, NoneOr
    <3>2. \A y \in {th'[t].start, th'[t].cur, th'[t].end} : y = NoXact \/ Listed(y)'
      BY <2>7, <2>11, <3>1
    <3> QED
      BY <2>2, <2>5, <2>7, <3>2 DEF AtList, Working
  <2>23. Validated(t)'
    <3> SUFFICES ASSUME x \notin overlooked, NEW y \in Xact, Listed(y), xact[x].startTS < xact[y].commitTS, Older(y, x)
                 PROVE  Unmatched(x, y)'
      <4>1. \A y \in Xact : (Unmatched(th[t].x, y)' <=> Unmatched(x, y)') /\ (Older(y, th[t].x)' <=> Older(y, x)')
        BY <2>7 DEF Unmatched, Older
      <4> QED
        BY <1>0, <2>7, <2>8, <2>11, <2>12, <4>1 DEF Validated, ghostVars
    <3>1. Affects(y, x)
      BY DEF Affects
    <3>2. Unmatched(x, y) \/ Ahead(t, y)
      BY <1>0, <2>1, <3>1, RoundOverChecked
    <3>3. ~Ahead(t, y)
      <4>1. CASE s = NoXact
        <5>1. Settled(y)
          BY <2>2, <4>1 DEF IInv, Chained
        <5> QED
          BY <2>15, <5>1, SettledUnaffected
      <4>2. CASE s # NoXact
        BY <2>2, <4>2, TailNewest DEF Ahead
      <4> QED
        BY <4>1, <4>2
    <3> QED
      BY <2>9, <3>2, <3>3, StillUnmatched
  <2>24. Writes(t)'
    <3>1. xact[x].undo # <<>>
      BY <1>0, <2>1 DEF IInv, Writes
    <3> QED
      BY <2>5, <2>7, <3>1 DEF Writes
  <2>25. /\ timestampGen' \in Nat /\ {counterLock', commitLock', isGCActive', crashed'} \subseteq BOOLEAN
         /\ committedXactsTail' \in NoneOr(Xact) /\ activeXactStartTS' \in [Thread -> Nat]
    BY <1>0, <1>2 DEF IInv, ManagerTypes
  <2> QED
    BY <2>1, <2>5, <2>7, <2>8, <2>9, <2>17, <2>18, <2>19, <2>20, <2>21, <2>22, <2>23, <2>24, <2>25, StillStep
<1> QED
  BY <1>0, <1>1, <1>2 DEF TryLock

LEMMA PushStep ==
  ASSUME IInv, NEW t \in Thread, Push(t)
  PROVE  IInv'
<1>0. /\ th[t].pc = "push" /\ "push" \in Uncommitted /\ "push" \in Holding /\ "draw" \in Pc
      /\ UNCHANGED <<storeVars, xact, timestampGen, counterLock, isGCActive, activeXactStartTS, crashed, ghostVars>>
  BY DEF Push, At, Uncommitted, Holding, Pc
<1>1. PICK x \in Xact \ {Loader}, s \in NoneOr(Xact) :
        /\ x = th[t].x /\ s = th[t].start /\ xact[x].prev = s
        /\ Begun(x) /\ ~Committed(x) /\ x # NoXact /\ xact[x].undo # <<>>
        /\ s = NoXact \/ Listed(s)
  <2>1. AtList(t) /\ Writes(t)
    BY DEF IInv
  <2> QED
    BY <1>0, <2>1, ThreadFacts, XactFacts DEF ThreadType, AtList, Writes
<1>2. commitLock /\ \A u \in Thread \ {t} : th[u].pc \notin Holding
  BY <1>0 DEF IInv, Locks, OneHolder, Holds
<1>3. \A y \in Xact : ~Pushing(y) /\ ~Storing(y)
  BY <1>0, <1>2 DEF Pushing, Storing, Holding
<1>4. \A a, b : Older(a, b)' <=> Older(a, b)
  BY <1>0 DEF Older
<1>5. \A y : (Begun(y)' <=> Begun(y)) /\ (Committed(y)' <=> Committed(y))
  BY <1>0 DEF Begun, Committed
<1>6. \A y \in Xact : Listed(y) => Older(y, x) /\ y # x
  BY <1>1, <1>3, ListedCommitted DEF Older, Committed, Listed
<1>7. \A y \in Xact : ~Older(x, y)
  BY <1>1, ClockBound, XactTypes DEF Older, Committed
<1>8. /\ xact' \in [Xact -> XactType]
      /\ \A y \in Xact : xact'[y].startTS = xact[y].startTS /\ xact'[y].commitTS = xact[y].commitTS
      /\ crashed' \in BOOLEAN /\ timestampGen' \in Nat /\ activeXactStartTS' \in [Thread -> Nat]
      /\ counterLock' \in BOOLEAN /\ isGCActive' \in BOOLEAN
  BY <1>0 DEF IInv, ManagerTypes
<1>9. \A u \in Thread : th[u].pc # "store"
  BY <1>0, <1>2 DEF Holding
<1>10. CASE /\ committedXactsTail = s /\ committedXactsTail' = x
            /\ Goto(t, "draw") /\ UNCHANGED commitLock
  <2>1. /\ th' \in [Thread -> ThreadType] /\ \A u \in Thread \ {t} : th'[u] = th[u]
        /\ th'[t].pc = "draw" /\ th'[t].x = x
    BY <1>0, <1>1, <1>10, Going
  <2>2. Still(t)
    BY <1>0, <2>1 DEF Still, ghostVars
  <2>3. \A y \in Xact : (Pushing(y)' <=> y = x) /\ ~Storing(y)'
    BY <1>1, <1>3, <2>1 DEF Pushing, Storing
  <2>4. \A y \in Xact : Listed(y)' <=> (Listed(y) \/ y = x)
    BY <1>0, <1>3, <1>5, <2>3 DEF Listed
  <2>5. \A y \in Xact : Settled(y)' <=> Settled(y)
    <3>1. \A u \in Thread : th'[u].x = th[u].x
      BY <1>1, <2>1
    <3>2. \A y : Running(y)' <=> Running(y)
      BY <1>0, <1>5, <3>1 DEF Running
    <3> QED
      BY <1>0, <3>2 DEF Settled, ghostVars
  <2>6. Chained'
    <3>1. x \in Xact /\ Listed(x)' /\ \A w \in Xact : Listed(w)' => ~Older(x, w)'
      BY <1>1, <1>4, <1>7, <2>4
    <3>2. ASSUME NEW y \in Xact, Listed(y)', NEW w \in Xact, Listed(w)', Older(w, y)'
          PROVE  IF xact[y].prev = NoXact THEN Settled(w)' ELSE ~Older(xact[y].prev, w)'
      <4>1. Older(w, y) /\ w # x /\ Listed(w)
        BY <1>4, <1>7, <2>4, <3>2
      <4>2. IF xact[y].prev = NoXact THEN Settled(w) ELSE ~Older(xact[y].prev, w)
        <5>1. CASE y = x
          BY <1>1, <1>10, <4>1, <5>1 DEF IInv, Chained
        <5>2. CASE y # x
          BY <2>4, <3>2, <4>1, <5>2 DEF IInv, Chained
        <5> QED
          BY <5>1, <5>2
      <4> QED
        BY <1>0, <2>5, <4>2 DEF Older
    <3>3. ASSUME NEW y \in Xact, xact[y].prev # NoXact PROVE Listed(xact[y].prev)' /\ Older(xact[y].prev, y)'
      <4>1. PICK p \in Xact : p = xact[y].prev /\ Listed(p) /\ Older(p, y)
        BY <3>3, XactTypes DEF IInv, Chained, NoneOr
      <4>2. Listed(p)' /\ Older(p, y)' /\ xact'[y].prev = p
        BY <1>0, <1>4, <2>4, <4>1
      <4> QED
        BY <1>0, <4>1, <4>2 DEF Listed, Committed, Pushing, Older
    <3>4. ASSUME NEW y \in Xact, NEW z \in Xact, Listed(y)', Listed(z)', xact[y].commitTS = xact[z].commitTS PROVE y = z
      <4>1. CASE Listed(y) /\ Listed(z)
        BY <3>4, <4>1 DEF IInv, Chained
      <4>2. CASE ~Listed(y) \/ ~Listed(z)
        <5>1. Listed(y) => xact[y].commitTS < xact[x].commitTS
          BY <1>6 DEF Older
        <5>2. Listed(z) => xact[z].commitTS < xact[x].commitTS
          BY <1>6 DEF Older
        <5>3. xact[x].commitTS \in Nat /\ xact[y].commitTS \in Nat /\ xact[z].commitTS \in Nat
          BY XactTypes
        <5> QED
          BY <2>4, <3>4, <4>2, <5>1, <5>2, <5>3
      <4> QED
        BY <4>1, <4>2
    <3>5. \A y \in Xact : ~Begun(y)' => xact[y].prev = NoXact
      BY <1>5 DEF IInv, Chained
    <3>6. /\ Listed(committedXactsTail)' <=> Listed(x)'
          /\ \A w : Older(committedXactsTail, w)' <=> Older(x, w)'
      BY <1>10 DEF Listed, Committed, Pushing, Older
    <3>7. committedXactsTail' # NoXact
      BY <1>1, <1>10
    <3> QED
      BY <1>0, <3>1, <3>2, <3>3, <3>4, <3>5, <3>6, <3>7 DEF Chained
  <2>7. Clock'
    <3>1. Drawn \subseteq Drawn'
      BY <1>3, <1>5 DEF Drawn
    <3>2. \A y \in Xact : Committed(y)' => Begun(y)
      BY <1>5 DEF IInv, Clock, Past
    <3>3. \A u \in Thread : DrawnLast(u)'
      BY <1>9, <2>1 DEF DrawnLast
    <3> QED
      BY <1>0, <1>5, <1>8, <3>1, <3>2, <3>3, ClockKept
  <2>8. Locks'
    BY <1>2, <1>10, <2>1 DEF Locks, OneHolder, Holds, Holding
  <2>9. ASSUME NEW u \in Thread \ {t} PROVE AtList(u)' /\ (th[u].x \in Xact => Compared(u))
    <3>1. AtList(u)'
      <4>1. th[u].pc \notin {"draw", "store"} /\ th'[u] = th[u]
        BY <1>2, <2>1 DEF Holding
      <4> QED
        BY <1>0, <2>4, <4>1, StillAtList
    <3>2. ASSUME NEW z \in Xact, z = th[u].x PROVE Compared(u)
      <4>1. th'[u] = th[u] /\ xact'[z].startTS = xact[z].startTS
        BY <1>8, <2>1
      <4>2. ASSUME NEW y \in Xact, Listed(y)'
            PROVE  \/ (th[u].pc = "validate" => Ahead(u, y)') /\ ~Older(y, z)'
                   \/ /\ Listed(y)
                      /\ xact[z].startTS < xact'[y].commitTS => xact[z].startTS < xact[y].commitTS
                      /\ th[u].pc \in Holding \cup {"stamp", "clear"} => (Older(y, z)' => Older(y, z))
        <5>1. CASE Listed(y)
          BY <1>4, <1>8, <5>1
        <5>2. CASE y = x
          <6>1. ~Older(x, z)'
            BY <1>4, <1>7
          <6>2. ASSUME th[u].pc = "validate" PROVE Ahead(u, x)'
            <7>1. PICK a \in NoneOr(Xact) : a = th[u].start /\ (a = NoXact \/ Listed(a))
              BY <6>2, ThreadFacts DEF IInv, AtList, ThreadType
            <7>2. a = NoXact \/ Older(a, x)
              BY <1>6, <7>1 DEF NoneOr
            <7> QED
              BY <1>0, <4>1, <7>1, <7>2 DEF Ahead, Older
          <6> QED
            BY <5>2, <6>1, <6>2
        <5> QED
          BY <2>4, <4>2, <5>1, <5>2
      <4> QED
        BY <1>4, <3>2, <4>1, <4>2, ComparedTo
    <3> QED
      BY <3>1, <3>2
  <2>10. RunsOne(t)'
    BY <1>0, <1>1, <2>1 DEF RunsOne, Begun, Committed, Uncommitted
  <2>11. AtList(t)'
    BY <1>10, <2>1 DEF AtList, Working
  <2>12. Validated(t)'
    <3>1. \A y \in Xact : (Unmatched(th[t].x, y)' <=> Unmatched(x, y)') /\ (Older(y, th[t].x)' <=> Older(y, x)')
      BY <2>1 DEF Unmatched, Older
    <3>2. \A y \in Xact : Unmatched(x, y)' <=> Unmatched(x, y)
      BY <2>2, StillUnmatched
    <3>3. x \notin overlooked => \A y \in Xact : Listed(y) /\ xact[x].startTS < xact[y].commitTS /\ Older(y, x) => Unmatched(x, y)
      BY <1>0, <1>1 DEF IInv, Validated
    <3> QED
      BY <1>0, <1>4, <1>7, <2>1, <2>4, <3>1, <3>2, <3>3 DEF Validated, ghostVars
  <2>13. Writes(t)'
    BY <1>0, <1>1, <2>1 DEF Writes
  <2>14. {counterLock', commitLock', isGCActive', crashed'} \subseteq BOOLEAN /\ committedXactsTail' \in NoneOr(Xact)
    BY <1>2, <1>8, <1>10 DEF NoneOr, IInv, ManagerTypes
  <2> QED
    BY <1>1, <1>8, <2>1, <2>2, <2>6, <2>7, <2>8, <2>9, <2>10, <2>11, <2>12, <2>13, <2>14, StillStep
<1>11. CASE commitLock' = FALSE /\ Round(t, s) /\ UNCHANGED committedXactsTail
  <2>1. PICK c \in NoneOr(Xact) : c = committedXactsTail /\ (c = NoXact \/ Listed(c)) /\ UNCHANGED committedXactsTail
    BY <1>11, TailNewest DEF IInv, ManagerTypes
  <2>2. /\ th' \in [Thread -> ThreadType] /\ \A u \in Thread \ {t} : th'[u] = th[u]
        /\ th'[t].pc = "validate" /\ th'[t].x = x /\ th'[t].start = c /\ th'[t].cur = c /\ th'[t].end = s
    BY <1>1, <1>11, <2>1, Rounding
  <2>3. Still(t)
    BY <1>0, <2>2 DEF Still, ghostVars
  <2>4. \A y \in Xact : ~Pushing(y)' /\ ~Storing(y)'
    BY <1>3, <2>2 DEF Pushing, Storing
  <2>5. \A y \in Xact : Listed(y)' <=> Listed(y)
    BY <1>0, <1>3, <1>5, <2>4 DEF Listed
  <2>6. \A y \in Xact : Settled(y)' <=> Settled(y)
    <3>1. \A u \in Thread : th'[u].x = th[u].x
      BY <1>1, <2>2
    <3>2. \A y : Running(y)' <=> Running(y)
      BY <1>0, <1>5, <3>1 DEF Running
    <3> QED
      BY <1>0, <3>2 DEF Settled, ghostVars
  <2>7. Chained'
    <3>1. ASSUME NEW y \in Xact, xact[y].prev # NoXact PROVE Older(xact[y].prev, y)'
      BY <1>0, <3>1 DEF IInv, Chained, Older
    <3> QED
      BY <1>0, <1>4, <1>5, <1>8, <2>1, <2>5, <2>6, <3>1, ChainKept
  <2>8. Clock'
    <3>1. Drawn \subseteq Drawn'
      BY <1>3, <1>5 DEF Drawn
    <3>2. \A y \in Xact : Committed(y)' => Begun(y)
      BY <1>5 DEF IInv, Clock, Past
    <3>3. \A u \in Thread : DrawnLast(u)'
      BY <1>9, <2>2 DEF DrawnLast
    <3> QED
      BY <1>0, <1>5, <1>8, <3>1, <3>2, <3>3, ClockKept
  <2>9. Locks'
    BY <1>2, <2>2 DEF Locks, OneHolder, Holds, Holding
  <2>10. ASSUME NEW u \in Thread \ {t} PROVE AtList(u)' /\ (th[u].x \in Xact => Compared(u))
    <3>1. AtList(u)'
      BY <1>0, <2>1, <2>2, <2>5, StillAtList
    <3>2. ASSUME NEW y \in Xact, y = th[u].x PROVE Compared(u)
      BY <1>4, <1>8, <2>2, <2>5, <3>2, ComparedTo
    <3> QED
      BY <3>1, <3>2
  <2>11. RunsOne(t)'
    BY <1>0, <1>1, <2>2 DEF RunsOne, Begun, Committed, Uncommitted
  <2>12. AtList(t)'
    <3>1. \A y \in {s, c} : y = NoXact \/ Listed(y)'
      BY <1>1, <2>1, <2>5 DEF NoneOr
    <3> QED
      BY <2>2, <3>1 DEF AtList, Working
  <2>13. Validated(t)'
    <3> SUFFICES ASSUME x \notin overlooked, NEW y \in Xact, Listed(y), xact[x].startTS < xact[y].commitTS
                 PROVE  Unmatched(x, y)'
      <4>1. \A y \in Xact : Unmatched(th[t].x, y)' <=> Unmatched(x, y)'
        BY <2>2 DEF Unmatched
      <4>2. "validate" \notin Holding \cup {"stamp", "clear"}
        BY DEF Holding
      <4> QED
        BY <1>0, <2>2, <2>5, <4>1, <4>2 DEF Validated, ghostVars
    <3>1. Unmatched(x, y)
      BY <1>0, <1>1, <1>6 DEF IInv, Validated
    <3> QED
      BY <2>3, <3>1, StillUnmatched
  <2>14. Writes(t)'
    BY <1>0, <1>1, <2>2 DEF Writes
  <2>15. {counterLock', commitLock', isGCActive', crashed'} \subseteq BOOLEAN /\ committedXactsTail' \in NoneOr(Xact)
    BY <1>8, <1>11, <2>1
  <2> QED
    BY <1>1, <1>8, <2>2, <2>3, <2>7, <2>8, <2>9, <2>10, <2>11, <2>12, <2>13, <2>14, <2>15, StillStep
<1> QED
  BY <1>0, <1>1, <1>10, <1>11 DEF Push

LEMMA DrawStep ==
  ASSUME IInv, NEW t \in Thread, DrawCommitTS(t)
  PROVE  IInv'
<1>0. /\ th[t].pc = "draw" /\ ~counterLock /\ counterLock' = TRUE /\ timestampGen' = timestampGen + 1
      /\ "draw" \in Uncommitted /\ "draw" \in Holding /\ "store" \in Pc
      /\ UNCHANGED <<storeVars, xact, commitLock, committedXactsTail, isGCActive, activeXactStartTS, crashed, ghostVars>>
  BY DEF DrawCommitTS, At, Uncommitted, Holding, Pc
<1>1. PICK x \in Xact \ {Loader} :
        /\ x = th[t].x /\ Begun(x) /\ ~Committed(x) /\ x # NoXact /\ xact[x].undo # <<>>
        /\ committedXactsTail = x
  <2>1. AtList(t) /\ Writes(t)
    BY DEF IInv
  <2> QED
    BY <1>0, <2>1, ThreadFacts, XactFacts DEF AtList, Writes
<1>2. commitLock /\ \A u \in Thread \ {t} : th[u].pc \notin Holding
  BY <1>0 DEF IInv, Locks, OneHolder, Holds
<1>3. PICK w \in ThreadType, g \in Nat : w = th[t] /\ g = timestampGen
  BY ThreadFacts DEF IInv, ManagerTypes
<1> DEFINE z == [w EXCEPT !.pc = "store", !.drawn = g]
<1>4. th' = [th EXCEPT ![t] = z]
  BY <1>3 DEF DrawCommitTS
<1>5. z \in ThreadType
  BY <1>0, <1>3 DEF ThreadType
<1>6. z.pc = "store" /\ z.drawn = g /\ z.x = w.x
  BY <1>3 DEF ThreadType
<1> HIDE DEF z
<1>7. /\ th' \in [Thread -> ThreadType] /\ \A u \in Thread \ {t} : th'[u] = th[u]
      /\ th'[t].pc = "store" /\ th'[t].x = x /\ th'[t].drawn = timestampGen
  BY <1>1, <1>3, <1>4, <1>5, <1>6, Moving
<1>8. Still(t)
  BY <1>0, <1>7 DEF Still, ghostVars
<1>9. \A y \in Xact : (Pushing(y)' <=> Pushing(y)) /\ ~Storing(y) /\ (Storing(y)' <=> y = x)
  BY <1>0, <1>1, <1>2, <1>7 DEF Pushing, Storing, Holding
<1>10. \A y : (Begun(y)' <=> Begun(y)) /\ (Committed(y)' <=> Committed(y))
  BY <1>0 DEF Begun, Committed
<1>11. \A y \in Xact : Listed(y)' <=> Listed(y)
  BY <1>0, <1>9, <1>10 DEF Listed
<1>12. \A a, b : Older(a, b)' <=> Older(a, b)
  BY <1>0 DEF Older
<1>13. /\ xact' \in [Xact -> XactType]
       /\ \A y \in Xact : xact'[y].startTS = xact[y].startTS /\ xact'[y].commitTS = xact[y].commitTS
       /\ timestampGen' \in Nat /\ {counterLock', commitLock', isGCActive', crashed'} \subseteq BOOLEAN
       /\ committedXactsTail' \in NoneOr(Xact) /\ activeXactStartTS' \in [Thread -> Nat]
  BY <1>0 DEF IInv, ManagerTypes
<1>14. Chained'
  <2>1. ASSUME NEW y \in Xact, xact[y].prev # NoXact PROVE Older(xact[y].prev, y)'
    BY <1>0, <2>1 DEF IInv, Chained, Older
  <2>2. \A u \in Thread : th'[u].x = th[u].x
    BY <1>1, <1>7
  <2>3. \A y : Running(y)' <=> Running(y)
    BY <1>0, <1>10, <2>2 DEF Running
  <2>4. \A y \in Xact : Settled(y)' <=> Settled(y)
    BY <1>0, <2>3 DEF Settled, ghostVars
  <2> QED
    BY <1>0, <1>10, <1>11, <1>12, <1>13, <2>1, <2>4, ChainKept
<1>15. Clock'
  <2>1. Started' = Started /\ Drawn' = Drawn \cup {x} /\ x \notin Drawn
    BY <1>1, <1>9, <1>10 DEF Started, Drawn
  <2>2. Started \in SUBSET Xact /\ Drawn \in SUBSET Xact
    BY DEF Started, Drawn
  <2>3. IsFiniteSet(Started) /\ IsFiniteSet(Drawn)
    BY <2>2, XactFacts, FS_Subset
  <2>4. Cardinality(Drawn') = Cardinality(Drawn) + 1 /\ Cardinality(Started) \in Nat /\ Cardinality(Drawn) \in Nat
    BY <2>1, <2>3, FS_AddElement, FS_CardinalityType
  <2>5. Counted'
    BY <1>0, <1>3, <2>1, <2>4 DEF IInv, Clock, Counted
  <2>6. Past
    BY DEF IInv, Clock
  <2>7. Past'
    <3>1. ASSUME NEW y \in Xact
          PROVE  /\ Begun(y) => xact[y].startTS < timestampGen'
                 /\ Committed(y) => Begun(y) /\ xact[y].commitTS < timestampGen'
      <4>1. xact[y].startTS \in Nat /\ xact[y].commitTS \in Nat
        BY XactTypes
      <4> QED
        BY <1>0, <1>3, <2>6, <4>1 DEF Past
    <3> QED
      BY <1>0, <1>10, <2>6, <3>1 DEF Past
  <2>8. \A u \in Thread : DrawnLast(u)'
    <3>1. DrawnLast(t)'
      BY <1>0, <1>3, <1>7, <1>10, <2>6 DEF DrawnLast, Past
    <3>2. \A u \in Thread \ {t} : th'[u].pc # "store"
      BY <1>2, <1>7 DEF Holding
    <3> QED
      BY <3>1, <3>2 DEF DrawnLast
  <2> QED
    BY <2>5, <2>7, <2>8 DEF Clock
<1>16. Locks'
  BY <1>0, <1>2, <1>7 DEF Locks, OneHolder, Holds, Holding
<1>17. ASSUME NEW u \in Thread \ {t} PROVE AtList(u)' /\ (th[u].x \in Xact => Compared(u))
  <2>1. AtList(u)'
    BY <1>0, <1>7, <1>11, StillAtList
  <2>2. ASSUME NEW y \in Xact, y = th[u].x PROVE Compared(u)
    BY <1>7, <1>11, <1>12, <1>13, <2>2, ComparedTo
  <2> QED
    BY <2>1, <2>2
<1>18. RunsOne(t)'
  BY <1>0, <1>1, <1>7 DEF RunsOne, Begun, Committed, Uncommitted
<1>19. AtList(t)'
  BY <1>0, <1>1, <1>7 DEF AtList, Working
<1>20. Validated(t)'
  <2>1. \A y \in Xact : (Unmatched(th[t].x, y)' <=> Unmatched(x, y)') /\ (Older(y, th[t].x)' <=> Older(y, x)')
    BY <1>7 DEF Unmatched, Older
  <2>2. \A y \in Xact : Unmatched(x, y)' <=> Unmatched(x, y)
    BY <1>8, StillUnmatched
  <2>3. x \notin overlooked => \A y \in Xact : Listed(y) /\ xact[x].startTS < xact[y].commitTS /\ Older(y, x) => Unmatched(x, y)
    BY <1>0, <1>1 DEF IInv, Validated
  <2> QED
    BY <1>0, <1>7, <1>11, <1>12, <2>1, <2>2, <2>3 DEF Validated, ghostVars
<1>21. Writes(t)'
  BY <1>0, <1>1, <1>7 DEF Writes
<1>22. th'[t].x = th[t].x
  BY <1>1, <1>7
<1> QED
  BY <1>7, <1>8, <1>13, <1>14, <1>15, <1>16, <1>17, <1>18, <1>19, <1>20, <1>21, <1>22, StillStep

LEMMA StoreStep ==
  ASSUME IInv, NEW t \in Thread, StoreCommitTS(t)
  PROVE  IInv'
<1>0. /\ th[t].pc = "store" /\ counterLock' = FALSE /\ commitLock' = FALSE /\ Goto(t, "stamp")
      /\ "store" \in Uncommitted /\ "store" \in Holding /\ "stamp" \in Pc
      /\ UNCHANGED <<storeVars, timestampGen, committedXactsTail, isGCActive, activeXactStartTS, crashed, ghostVars>>
  BY DEF StoreCommitTS, At, Uncommitted, Holding, Pc
<1>1. PICK x \in Xact \ {Loader} :
        /\ x = th[t].x /\ Begun(x) /\ ~Committed(x) /\ x # NoXact /\ xact[x].undo # <<>>
        /\ committedXactsTail = x
  <2>1. AtList(t) /\ Writes(t)
    BY DEF IInv
  <2> QED
    BY <1>0, <2>1, ThreadFacts, XactFacts DEF AtList, Writes
<1>2. \A u \in Thread \ {t} : th[u].pc \notin Holding
  BY <1>0 DEF IInv, Locks, OneHolder
<1>3. PICK w \in XactType, d \in Nat :
        /\ w = xact[x] /\ d = th[t].drawn /\ xact \in [Xact -> XactType] /\ d < timestampGen /\ d # Never
        /\ \A y \in Xact : Committed(y) => xact[y].commitTS < d
  <2>1. PICK d \in Nat : d = th[t].drawn
    BY ThreadFacts DEF ThreadType
  <2>2. d < timestampGen /\ \A y \in Xact : Committed(y) => xact[y].commitTS < d
    BY <1>0, <2>1 DEF IInv, Clock, DrawnLast
  <2>3. d # Never
    BY <2>2, ClockBound
  <2> QED
    BY <2>1, <2>2, <2>3, XactTypes DEF IInv, ManagerTypes
<1> DEFINE z == [w EXCEPT !.commitTS = d]
<1>4. xact' = [xact EXCEPT ![x] = z]
  BY <1>1, <1>3 DEF StoreCommitTS
<1>5. z \in XactType /\ z.startTS = w.startTS /\ z.commitTS = d /\ z.prev = w.prev /\ z.undo = w.undo /\ z.preds = w.preds
  BY <1>3 DEF XactType
<1> HIDE DEF z
<1>6. /\ xact' \in [Xact -> XactType] /\ \A y \in Xact \ {x} : xact'[y] = xact[y]
      /\ xact'[x].startTS = xact[x].startTS /\ xact'[x].commitTS = d
      /\ xact'[x].prev = xact[x].prev /\ xact'[x].undo = xact[x].undo /\ xact'[x].preds = xact[x].preds
  BY <1>3, <1>4, <1>5
<1>7. \A y \in Xact : xact'[y].startTS = xact[y].startTS /\ xact'[y].prev = xact[y].prev /\ xact'[y].undo = xact[y].undo
  BY <1>6
<1>8. /\ th' \in [Thread -> ThreadType] /\ \A u \in Thread \ {t} : th'[u] = th[u]
      /\ th'[t].pc = "stamp" /\ th'[t].x = x
  BY <1>0, <1>1, Going
<1>9. Still(t)
  BY <1>0, <1>6, <1>8 DEF Still, ghostVars
<1>10. /\ \A y \in Xact : (Pushing(y) <=> y = x) /\ (Storing(y) <=> y = x) /\ ~Pushing(y)' /\ ~Storing(y)'
       /\ \A y \in Xact : Begun(y)' <=> Begun(y)
       /\ \A y \in Xact : Committed(y)' <=> (Committed(y) \/ y = x)
  <2>1. \A y \in Xact : Begun(y)' <=> Begun(y)
    BY <1>7 DEF Begun
  <2>2. \A y \in Xact : Committed(y)' <=> (Committed(y) \/ y = x)
    BY <1>3, <1>6 DEF Committed
  <2> QED
    BY <1>0, <1>1, <1>2, <1>8, <2>1, <2>2 DEF Pushing, Storing, Holding
<1>11. \A y \in Xact : Listed(y)' <=> Listed(y)
  BY <1>1, <1>7, <1>10 DEF Listed
<1>12. \A y \in Xact : /\ Listed(y) /\ y # x => Committed(y)
                       /\ Committed(y) => y # x /\ xact'[y].commitTS = xact[y].commitTS /\ xact[y].commitTS < d
                       /\ xact[y].commitTS \in Nat /\ xact[y].commitTS <= Never
  BY <1>1, <1>3, <1>6, <1>10, ListedCommitted, XactTypes, ClockBound
<1>13. xact[x].commitTS = Never /\ Never \in Nat /\ d < Never
  <2>1. timestampGen \in Nat /\ Never \in Nat /\ timestampGen < Never
    BY ClockBound
  <2> QED
    BY <1>1, <1>3, <2>1 DEF Committed
<1>14. \A a \in Xact : ~Older(x, a) /\ (Listed(a) /\ a # x => Older(a, x) /\ Older(a, x)' /\ ~Older(x, a)')
  BY <1>6, <1>12, <1>13 DEF Older
<1>15. \A a, b \in Xact : Listed(a) /\ Listed(b) =>
         /\ Older(a, b)' <=> Older(a, b)
         /\ xact'[a].commitTS = xact'[b].commitTS => xact[a].commitTS = xact[b].commitTS
  <2> SUFFICES ASSUME NEW a \in Xact, NEW b \in Xact, Listed(a), Listed(b)
               PROVE  /\ Older(a, b)' <=> Older(a, b)
                      /\ xact'[a].commitTS = xact'[b].commitTS => xact[a].commitTS = xact[b].commitTS
    OBVIOUS
  <2>1. CASE a = b
    BY <1>3, <1>6, <1>12, <2>1 DEF Older
  <2>2. CASE a # x /\ b # x
    BY <1>6, <2>2 DEF Older
  <2>3. CASE a = x /\ b # x
    BY <1>6, <1>12, <1>14, <2>3
  <2>4. CASE a # x /\ b = x
    BY <1>6, <1>12, <1>14, <2>4
  <2> QED
    BY <2>1, <2>2, <2>3, <2>4
<1>16. Chained'
  <2>1. \A y \in Xact : Running(y)' => Running(y)
    <3>1. \A u \in Thread : th'[u].x = th[u].x
      BY <1>1, <1>8
    <3>2. \A y \in Xact : Committed(y) => Committed(y)'
      BY <1>10
    <3> QED
      BY <1>10, <3>1, <3>2 DEF Running, Committed
  <2>2. \A y \in Xact : Listed(y) /\ Committed(y) /\ Settled(y) => Settled(y)'
    BY <1>0, <1>7, <1>12, <2>1 DEF Settled, ghostVars
  <2>3. ASSUME NEW y \in Xact, xact[y].prev # NoXact PROVE Older(xact[y].prev, y)'
    <3>1. PICK p \in Xact : p = xact[y].prev /\ Listed(p) /\ Older(p, y)
      BY <2>3, XactTypes DEF IInv, Chained, NoneOr
    <3>2. p # x
      BY <1>14, <3>1
    <3>3. Older(p, y)'
      <4>1. CASE y = x
        BY <1>14, <3>1, <3>2, <4>1
      <4>2. CASE y # x
        BY <1>6, <3>1, <3>2, <4>2 DEF Older
      <4> QED
        BY <4>1, <4>2
    <3> QED
      BY <1>7, <3>1, <3>3 DEF Older
  <2> QED
    BY <1>0, <1>7, <1>10, <1>11, <1>15, <2>2, <2>3, ChainKept
<1>17. Clock'
  <2>1. Drawn \subseteq Drawn'
    BY <1>10 DEF Drawn
  <2>2. \A y \in Xact : Committed(y)' => Begun(y) /\ (xact'[y].commitTS = xact[y].commitTS \/ xact'[y].commitTS < timestampGen)
    BY <1>1, <1>3, <1>6, <1>10 DEF IInv, Clock, Past
  <2>3. \A u \in Thread : DrawnLast(u)'
    BY <1>2, <1>8 DEF DrawnLast, Holding
  <2> QED
    BY <1>0, <1>7, <1>10, <2>1, <2>2, <2>3, ClockKept
<1>18. Locks'
  BY <1>2, <1>8 DEF Locks, OneHolder, Holds, Holding
<1>19. ASSUME NEW u \in Thread \ {t} PROVE AtList(u)' /\ (th[u].x \in Xact => Compared(u))
  <2>1. AtList(u)'
    BY <1>0, <1>7, <1>8, <1>11, StillAtList
  <2>2. ASSUME NEW v \in Xact, v = th[u].x PROVE Compared(u)
    <3>1. v # x /\ th'[u] = th[u] /\ xact'[v] = xact[v]
      BY <1>1, <1>6, <1>8, <2>2, OtherXact
    <3>2. th[u].pc \in Holding \cup {"stamp", "clear"} => Committed(v)
      BY <1>2, <2>2 DEF IInv, OneThreadEach, RunsOne
    <3>3. ASSUME NEW y \in Xact, Listed(y)
          PROVE  /\ xact[v].startTS < xact'[y].commitTS => xact[v].startTS < xact[y].commitTS
                 /\ Committed(v) => (Older(y, v)' => Older(y, v))
      <4>1. CASE y # x
        BY <1>6, <3>1, <4>1 DEF Older
      <4>2. CASE y = x
        <5>1. xact[v].startTS \in Nat
          BY XactTypes
        <5>2. Committed(v) => ~Older(x, v)'
          BY <1>3, <1>6, <1>12 DEF Older
        <5> QED
          BY <1>3, <1>6, <1>13, <4>2, <5>1, <5>2
      <4> QED
        BY <4>1, <4>2
    <3> QED
      BY <1>7, <1>11, <1>15, <2>2, <3>1, <3>2, <3>3, ComparedTo
  <2> QED
    BY <2>1, <2>2
<1>20. RunsOne(t)'
  BY <1>1, <1>3, <1>6, <1>8 DEF RunsOne, Begun, Committed, Uncommitted, Working
<1>21. AtList(t)' /\ Writes(t)'
  BY <1>8 DEF AtList, Writes, Working, Holding
<1>22. Validated(t)'
  <2> SUFFICES ASSUME x \notin overlooked, NEW y \in Xact, Listed(y), xact[x].startTS < xact'[y].commitTS, Older(y, x)'
               PROVE  Unmatched(x, y)'
    <3>1. \A y \in Xact : (Unmatched(th[t].x, y)' <=> Unmatched(x, y)') /\ (Older(y, th[t].x)' <=> Older(y, x)')
      BY <1>8 DEF Unmatched, Older
    <3> QED
      BY <1>0, <1>7, <1>8, <1>11, <3>1 DEF Validated, ghostVars
  <2>1. y # x
    BY <1>3, <1>6 DEF Older
  <2>2. Older(y, x) /\ xact[x].startTS < xact[y].commitTS
    BY <1>6, <1>14, <2>1
  <2>3. Unmatched(x, y)
    BY <1>0, <1>1, <2>2 DEF IInv, Validated
  <2> QED
    BY <1>9, <2>3, StillUnmatched
<1>23. /\ timestampGen' \in Nat /\ {counterLock', commitLock', isGCActive', crashed'} \subseteq BOOLEAN
       /\ committedXactsTail' \in NoneOr(Xact) /\ activeXactStartTS' \in [Thread -> Nat]
  BY <1>0 DEF IInv, ManagerTypes
<1>24. /\ th'[t].x = th[t].x
       /\ \A y \in Xact : Committed(y) => xact'[y].commitTS = xact[y].commitTS
       /\ \A y \in Xact \ {th[t].x} : xact'[y].commitTS = xact[y].commitTS
  BY <1>1, <1>6, <1>8, <1>12
<1> QED
  BY <1>6, <1>7, <1>8, <1>9, <1>16, <1>17, <1>18, <1>19, <1>20, <1>21, <1>22, <1>23, <1>24, StillStep

-----------------------------------------------------------------------------
(* garbageCollect: where the list is cut.                                  *)

LEMMA ListFacts ==
  ASSUME IInv
  PROVE  LET list == CommittedFrom(committedXactsTail)
         IN  /\ list \in Seq(Xact)
             /\ committedXactsTail # NoXact => list # <<>> /\ list[1] = committedXactsTail
             /\ committedXactsTail = NoXact => list = <<>>
             /\ \A i \in 1..Len(list) : Listed(list[i])
             /\ \A i \in 1..(Len(list) - 1) : xact[list[i]].prev = list[i + 1]
             /\ \A i, j \in 1..Len(list) : i < j => Older(list[j], list[i])
<1>1. PICK list : list = CommittedFrom(committedXactsTail)
  OBVIOUS
<1>2. Linked(list, committedXactsTail)
  <2>1. \A y \in Xact : xact[y].commitTS \in 0..Never /\ xact[y].prev \in NoneOr(Xact)
    BY XactTypes, ClockBound
  <2>2. PrevOlder
    BY <2>1 DEF IInv, Chained, PrevOlder, NoneOr
  <2>3. committedXactsTail \in NoneOr(Xact)
    BY DEF IInv, ManagerTypes
  <2> QED
    BY <1>1, <2>1, <2>2, <2>3, CommittedFromLinked
<1>3. /\ list \in Seq(Xact) /\ Len(list) \in Nat /\ \A i \in 1..Len(list) : list[i] \in Xact
      /\ IF committedXactsTail = NoXact THEN list = <<>> ELSE list # <<>> /\ list[1] = committedXactsTail
      /\ \A i \in 1..(Len(list) - 1) : xact[list[i]].prev = list[i + 1]
  BY <1>2 DEF Linked
<1>4. ASSUME NEW i \in 1..(Len(list) - 1)
      PROVE  Listed(list[i + 1]) /\ Older(list[i + 1], list[i])
  <2>1. i \in 1..Len(list) /\ i + 1 \in 1..Len(list)
    BY <1>3
  <2>2. PICK y \in Xact, p \in Xact : y = list[i] /\ p = list[i + 1] /\ xact[y].prev = p /\ p # NoXact
    BY <1>3, <2>1, XactFacts
  <2> QED
    BY <2>2 DEF IInv, Chained
<1>5. ASSUME NEW i \in 1..Len(list) PROVE Listed(list[i])
  <2>1. CASE i = 1
    <3>1. list # <<>>
      BY <1>3, <2>1
    <3> QED
      BY <1>3, <2>1, <3>1, TailNewest
  <2>2. CASE i # 1
    <3>1. i - 1 \in 1..(Len(list) - 1) /\ (i - 1) + 1 = i
      BY <1>3, <2>2
    <3> QED
      BY <1>4, <3>1
  <2> QED
    BY <2>1, <2>2
<1> DEFINE D == {d \in Nat : \A i \in 1..Len(list) : i + (d + 1) <= Len(list) => Older(list[i + (d + 1)], list[i])}
<1>6. 0 \in D
  <2>1. \A i \in 1..Len(list) : i + 1 <= Len(list) => Older(list[i + 1], list[i])
    BY <1>3, <1>4
  <2> QED
    BY <2>1, 0 \in Nat
<1>7. ASSUME NEW d \in D PROVE d + 1 \in D
  <2>1. d \in Nat /\ \A i \in 1..Len(list) : i + (d + 1) <= Len(list) => Older(list[i + (d + 1)], list[i])
    OBVIOUS
  <2>2. ASSUME NEW i \in 1..Len(list), i + (d + 2) <= Len(list) PROVE Older(list[i + (d + 2)], list[i])
    <3>1. i + (d + 1) \in 1..(Len(list) - 1) /\ (i + (d + 1)) + 1 = i + (d + 2) /\ i + (d + 2) \in 1..Len(list)
      BY <1>3, <2>1, <2>2
    <3>2. Older(list[i + (d + 1)], list[i]) /\ Older(list[i + (d + 2)], list[i + (d + 1)])
      <4>1. i + (d + 1) <= Len(list)
        BY <1>3, <3>1
      <4>2. Older(list[(i + (d + 1)) + 1], list[i + (d + 1)])
        BY <1>4, <3>1
      <4> QED
        BY <2>1, <3>1, <4>1, <4>2
    <3>3. PICK a \in Xact, b \in Xact, c \in Xact : a = list[i] /\ b = list[i + (d + 1)] /\ c = list[i + (d + 2)]
      <4>1. i + (d + 1) \in 1..Len(list)
        BY <1>3, <3>1
      <4> QED
        BY <1>3, <3>1, <4>1
    <3>4. xact[a].commitTS \in Nat /\ xact[b].commitTS \in Nat /\ xact[c].commitTS \in Nat
      BY XactTypes
    <3>5. Older(b, a) /\ Older(c, b)
      BY <3>2, <3>3
    <3>6. Older(c, a)
      BY <3>4, <3>5 DEF Older
    <3> QED
      BY <3>3, <3>6
  <2>3. (d + 1) + 1 = d + 2 /\ d + 1 \in Nat
    BY <2>1
  <2> QED
    BY <2>2, <2>3
<1>8. D = Nat
  <2>1. D \in SUBSET Nat
    OBVIOUS
  <2> HIDE DEF D
  <2> QED
    BY <1>6, <1>7, <2>1, NumberInduction
<1>9. ASSUME NEW i \in 1..Len(list), NEW j \in 1..Len(list), i < j PROVE Older(list[j], list[i])
  <2>1. j - i - 1 \in Nat /\ i + ((j - i - 1) + 1) = j /\ i + ((j - i - 1) + 1) <= Len(list)
    BY <1>3, <1>9
  <2>2. j - i - 1 \in D
    BY <1>8, <2>1
  <2>3. Older(list[i + ((j - i - 1) + 1)], list[i])
    BY <2>1, <2>2
  <2> QED
    BY <2>1, <2>3
<1> HIDE DEF D
<1> QED
  BY <1>1, <1>3, <1>5, <1>9

(* A set of positions with all before them is an initial interval.         *)
LEMMA InitialInterval ==
  ASSUME NEW m \in Nat, NEW S \in SUBSET (1..m), \A i, j \in 1..m : i < j /\ j \in S => i \in S
  PROVE  Cardinality(S) \in 0..m /\ \A i \in 1..m : i \in S <=> i <= Cardinality(S)
<1>1. /\ IsFiniteSet(S) /\ Cardinality(S) \in Nat /\ Cardinality(S) <= m
      /\ \A k \in 0..m : IsFiniteSet(1..k) /\ Cardinality(1..k) = k
  <2>1. \A k \in 0..m : IsFiniteSet(1..k) /\ Cardinality(1..k) = k
    <3> SUFFICES ASSUME NEW k \in 0..m PROVE IsFiniteSet(1..k) /\ Cardinality(1..k) = k
      OBVIOUS
    <3>1. IsFiniteSet(1..k) /\ Cardinality(1..k) = IF 1 > k THEN 0 ELSE k - 1 + 1
      BY FS_Interval
    <3> QED
      BY <3>1
  <2>2. IsFiniteSet(1..m) /\ Cardinality(1..m) = m
    BY <2>1
  <2>3. IsFiniteSet(S) /\ Cardinality(S) <= m
    BY <2>2, FS_Subset
  <2> QED
    BY <2>1, <2>3, FS_CardinalityType
<1>2. ASSUME NEW i \in 1..m, i \in S PROVE i <= Cardinality(S)
  <2>1. 1..i \in SUBSET S
    BY <1>2
  <2> QED
    BY <1>1, <2>1, FS_Subset
<1>3. ASSUME NEW i \in 1..m, i \notin S PROVE Cardinality(S) < i
  <2>1. S \in SUBSET (1..(i - 1))
    BY <1>3
  <2>2. IsFiniteSet(1..(i - 1)) /\ Cardinality(1..(i - 1)) = i - 1
    BY <1>1, i - 1 \in 0..m
  <2>3. Cardinality(S) <= i - 1
    BY <2>1, <2>2, FS_Subset
  <2> QED
    BY <1>1, <2>3
<1> QED
  BY <1>1, <1>2, <1>3

(* What the collector leaves of the list of transactions.                  *)
Cut(t, list, n) ==
  /\ list \in Seq(Xact)
  /\ n \in 0..Len(list)
  /\ \A i \in 1..Len(list) : xact[list[i]].commitTS > th[t].oldest <=> i <= n
  /\ IF n = Len(list) THEN UNCHANGED <<xact, committedXactsTail>>
     ELSE IF n = 0 THEN committedXactsTail' = NoXact /\ UNCHANGED xact
     ELSE xact' = [xact EXCEPT ![list[n]].prev = NoXact] /\ UNCHANGED committedXactsTail

LEMMA Cutting ==
  ASSUME IInv, NEW t \in Thread, CutCommitted(t)
  PROVE  /\ th' \in [Thread -> ThreadType] /\ \A u \in Thread \ {t} : th'[u] = th[u]
         /\ th'[t].pc = "sweep" /\ th'[t].x = th[t].x
         /\ \E n \in Nat : Cut(t, CommittedFrom(committedXactsTail), n)
<1>1. PICK list : list = CommittedFrom(committedXactsTail)
  OBVIOUS
<1>2. /\ list \in Seq(Xact) /\ Len(list) \in Nat /\ DOMAIN list = 1..Len(list)
      /\ \A i, j \in 1..Len(list) : i < j => Older(list[j], list[i])
      /\ \A i \in 1..Len(list) : list[i] \in Xact
  BY <1>1, ListFacts
<1>3. PICK oldest \in Nat : oldest = th[t].oldest
  BY ThreadFacts DEF ThreadType
<1>4. PICK newer \in SUBSET (1..Len(list)) : newer = {i \in 1..Len(list) : xact[list[i]].commitTS > oldest}
  OBVIOUS
<1>5. \A i, j \in 1..Len(list) : i < j /\ j \in newer => i \in newer
  <2> SUFFICES ASSUME NEW i \in 1..Len(list), NEW j \in 1..Len(list), i < j, j \in newer PROVE i \in newer
    OBVIOUS
  <2>1. PICK a \in Xact, b \in Xact : a = list[i] /\ b = list[j] /\ Older(b, a)
    BY <1>2
  <2>2. xact[a].commitTS \in Nat /\ xact[b].commitTS \in Nat
    BY XactTypes
  <2> QED
    BY <1>4, <2>1, <2>2 DEF Older
<1>6. PICK n \in 0..Len(list) : n = Cardinality(newer) /\ \A i \in 1..Len(list) : i \in newer <=> i <= n
  BY <1>2, <1>5, InitialInterval
<1>7. PICK old \in Seq(Xact) : old = SubSeq(list, n + 1, Len(list)) /\ (old = <<>> <=> n = Len(list))
  <2>1. /\ SubSeq(list, n + 1, Len(list)) \in Seq(Xact)
        /\ Len(SubSeq(list, n + 1, Len(list))) = IF n + 1 <= Len(list) THEN Len(list) - (n + 1) + 1 ELSE 0
    <3>1. \A i \in (n + 1)..Len(list) : list[i] \in Xact
      BY <1>2, <1>6
    <3> QED
      BY <1>2, <1>6, <3>1, SubSeqProperties
  <2>2. PICK old \in Seq(Xact) : old = SubSeq(list, n + 1, Len(list))
    BY <2>1
  <2>3. Len(old) = 0 <=> n = Len(list)
    BY <1>2, <1>6, <2>1, <2>2
  <2>4. Len(old) = 0 <=> old = <<>>
    BY <2>2, EmptySeq
  <2> QED
    BY <2>2, <2>3, <2>4
<1>8. PICK todo : todo = Concat([i \in DOMAIN old |-> xact[old[i]].undo])
  OBVIOUS
<1>9. /\ th' = [th EXCEPT ![t].pc = "sweep", ![t].todo = todo]
      /\ IF old = <<>> THEN UNCHANGED <<xact, committedXactsTail>>
         ELSE IF n = 0 THEN committedXactsTail' = NoXact /\ UNCHANGED xact
         ELSE xact' = [xact EXCEPT ![list[n]].prev = NoXact] /\ UNCHANGED committedXactsTail
  BY <1>1, <1>2, <1>3, <1>4, <1>6, <1>7, <1>8 DEF CutCommitted
<1>10. todo \in Seq(DOMAIN version)
  <2>1. DOMAIN old = 1..Len(old) /\ Len(old) \in Nat /\ \A i \in 1..Len(old) : old[i] \in Xact
    BY <1>7
  <2>2. \A i \in 1..Len(old) : xact[old[i]].undo \in Seq(DOMAIN version)
    BY <2>1, XactTypes
  <2>3. [i \in DOMAIN old |-> xact[old[i]].undo] \in Seq(Seq(DOMAIN version))
    BY <2>1, <2>2
  <2> QED
    BY <1>8, <2>3, ConcatType
<1>11. PICK w \in ThreadType : w = th[t]
  BY ThreadFacts
<1> DEFINE z == [w EXCEPT !.pc = "sweep", !.todo = todo]
<1>12. th' = [th EXCEPT ![t] = z]
  BY <1>9, <1>11
<1>13. z \in ThreadType
  <2>1. "sweep" \in Pc
    BY DEF Pc
  <2> QED
    BY <1>10, <1>11, <2>1 DEF ThreadType
<1>14. z.pc = "sweep" /\ z.x = w.x
  BY <1>11 DEF ThreadType
<1> HIDE DEF z
<1>15. Cut(t, list, n)
  BY <1>2, <1>3, <1>4, <1>6, <1>7, <1>9 DEF Cut
<1>16. n \in Nat
  BY <1>2, <1>6
<1>17. \E k \in Nat : Cut(t, CommittedFrom(committedXactsTail), k)
  BY <1>1, <1>15, <1>16
<1> QED
  BY <1>11, <1>12, <1>13, <1>14, <1>17, Moving

LEMMA CutStep ==
  ASSUME IInv, NEW t \in Thread, CutCommitted(t)
  PROVE  IInv'
<1>0. /\ th[t].pc = "scan"
      /\ UNCHANGED <<storeVars, timestampGen, counterLock, commitLock, isGCActive, activeXactStartTS, crashed, reads>>
  BY DEF CutCommitted, At
<1>1. /\ th' \in [Thread -> ThreadType] /\ \A u \in Thread \ {t} : th'[u] = th[u]
      /\ th'[t].pc = "sweep" /\ th'[t].x = th[t].x
  BY Cutting
<1>2. PICK list : list = CommittedFrom(committedXactsTail) /\ \E n \in Nat : Cut(t, list, n)
  BY Cutting
<1> PICK n \in Nat : Cut(t, list, n)
  BY <1>2
<1>3. PICK oldest \in Nat : oldest = th[t].oldest /\ oldest < Never /\ Never \in Nat
  BY <1>0, ThreadFacts, TransactionAssumption DEF ThreadType, IInv, AtList
<1>4. overlooked' = overlooked \cup {x \in Xact : Running(x) /\ xact[x].startTS < oldest}
  BY <1>3 DEF CutCommitted
<1>5. /\ list \in Seq(Xact) /\ Len(list) \in Nat
      /\ \A i \in 1..Len(list) : list[i] \in Xact /\ Listed(list[i])
      /\ committedXactsTail # NoXact => list # <<>> /\ list[1] = committedXactsTail
      /\ committedXactsTail = NoXact => list = <<>>
      /\ \A i \in 1..(Len(list) - 1) : xact[list[i]].prev = list[i + 1]
  BY <1>2, ListFacts
<1>6. PICK m \in NoneOr(Xact) : m = IF n = 0 \/ n = Len(list) THEN NoXact ELSE list[n]
  BY <1>2, <1>5 DEF Cut, NoneOr
<1>7. /\ m # NoXact => m \in Xact /\ Listed(m) /\ xact' = [xact EXCEPT ![m].prev = NoXact]
      /\ m = NoXact => xact' = xact
      /\ committedXactsTail' # committedXactsTail => n = 0 /\ n # Len(list) /\ committedXactsTail' = NoXact
  <2>1. /\ n \in 0..Len(list)
        /\ IF n = Len(list) THEN UNCHANGED <<xact, committedXactsTail>>
           ELSE IF n = 0 THEN committedXactsTail' = NoXact /\ UNCHANGED xact
           ELSE xact' = [xact EXCEPT ![list[n]].prev = NoXact] /\ UNCHANGED committedXactsTail
    BY DEF Cut
  <2>2. m # NoXact => n \in 1..Len(list) /\ n # Len(list) /\ m = list[n]
    BY <1>5, <1>6, <2>1
  <2>3. m = NoXact => n = 0 \/ n = Len(list)
    <3>1. n # 0 /\ n # Len(list) => n \in 1..Len(list)
      BY <1>5, <2>1
    <3> QED
      BY <1>5, <1>6, <3>1, XactFacts
  <2> QED
    BY <1>5, <2>1, <2>2, <2>3
<1>8. PICK xs \in [Xact -> XactType] : xs = xact
  BY DEF IInv, ManagerTypes
<1>9. /\ xact' \in [Xact -> XactType]
      /\ \A y \in Xact : /\ xact'[y].startTS = xact[y].startTS /\ xact'[y].commitTS = xact[y].commitTS
                         /\ xact'[y].undo = xact[y].undo /\ xact'[y].preds = xact[y].preds
                         /\ xact'[y].prev = IF y = m THEN NoXact ELSE xact[y].prev
  <2>1. CASE m = NoXact
    BY <1>7, <1>8, <2>1, XactFacts
  <2>2. CASE m # NoXact
    <3>1. PICK w \in XactType : w = xact[m] /\ m \in Xact
      BY <1>7, <2>2, XactTypes
    <3> DEFINE z == [w EXCEPT !.prev = NoXact]
    <3>2. xact' = [xact EXCEPT ![m] = z]
      BY <1>7, <2>2, <3>1
    <3>3. z \in XactType /\ z.startTS = w.startTS /\ z.commitTS = w.commitTS /\ z.prev = NoXact /\ z.undo = w.undo /\ z.preds = w.preds
      BY <3>1 DEF XactType, NoneOr
    <3> HIDE DEF z
    <3> QED
      BY <1>8, <3>1, <3>2, <3>3
  <2> QED
    BY <2>1, <2>2
<1>10. Still(t)
  BY <1>0, <1>1, <1>4, <1>9 DEF Still
<1>11. \A y \in Xact : /\ Begun(y)' <=> Begun(y)
                       /\ Committed(y)' <=> Committed(y)
                       /\ Pushing(y)' <=> Pushing(y)
                       /\ Storing(y)' <=> Storing(y)
  BY <1>0, <1>1, <1>9 DEF Begun, Committed, Pushing, Storing
<1>12. \A y \in Xact : Listed(y)' <=> Listed(y)
  BY <1>9, <1>11 DEF Listed
<1>13. \A a, b \in Xact : Older(a, b)' <=> Older(a, b)
  BY <1>9 DEF Older
<1>14. \A y \in Xact : Running(y)' <=> Running(y)
  <2>1. \A u \in Thread : th'[u].x = th[u].x
    BY <1>1
  <2> QED
    BY <1>9, <1>11, <2>1 DEF Running
<1>15. ASSUME NEW y \in Xact, Settled(y) \/ xact[y].commitTS <= oldest PROVE Settled(y)'
  <2> SUFFICES ASSUME NEW z \in Xact \ overlooked', Running(z)' PROVE xact'[y].commitTS <= xact'[z].startTS
    BY DEF Settled
  <2>1. Running(z) /\ z \notin overlooked /\ ~(xact[z].startTS < oldest)
    BY <1>4, <1>14
  <2>2. xact[y].commitTS \in Nat /\ xact[z].startTS \in Nat
    BY XactTypes
  <2>3. CASE Settled(y)
    BY <1>9, <2>1, <2>3 DEF Settled
  <2>4. CASE xact[y].commitTS <= oldest
    BY <1>9, <2>1, <2>2, <2>4
  <2> QED
    BY <1>15, <2>3, <2>4
<1>16. committedXactsTail' # committedXactsTail =>
         \A y \in Xact : Listed(y) => xact[y].commitTS <= oldest
  <2> SUFFICES ASSUME committedXactsTail' # committedXactsTail, NEW y \in Xact, Listed(y)
               PROVE  xact[y].commitTS <= oldest
    OBVIOUS
  <2>1. n = 0 /\ list # <<>> /\ committedXactsTail # NoXact /\ list[1] = committedXactsTail /\ 1 \in 1..Len(list)
    BY <1>5, <1>7
  <2>2. PICK c \in Xact : c = committedXactsTail /\ ~(xact[c].commitTS > oldest) /\ ~Older(c, y)
    BY <1>2, <1>3, <1>5, <2>1, TailNewest DEF Cut
  <2>3. xact[c].commitTS \in Nat /\ xact[y].commitTS \in Nat
    BY XactTypes
  <2> QED
    BY <2>2, <2>3 DEF Older
<1>17. ASSUME m # NoXact, NEW v \in Xact, Listed(v), Older(v, m) PROVE xact[v].commitTS <= oldest
  <2>1. n \in 1..(Len(list) - 1) /\ n + 1 \in 1..Len(list) /\ m = list[n]
    BY <1>2, <1>5, <1>6, <1>17 DEF Cut
  <2>2. PICK p \in Xact : p = list[n + 1] /\ xact[m].prev = p /\ p # NoXact /\ ~(xact[p].commitTS > oldest)
    <3>1. list[n + 1] \in Xact /\ xact[list[n]].prev = list[n + 1]
      BY <1>5, <2>1
    <3>2. ~(n + 1 <= n)
      OBVIOUS
    <3>3. ~(xact[list[n + 1]].commitTS > oldest)
      BY <1>3, <2>1, <3>2 DEF Cut
    <3> QED
      BY <2>1, <3>1, <3>3, XactFacts
  <2>3. ~Older(p, v)
    BY <1>7, <1>17, <2>2 DEF IInv, Chained
  <2>4. xact[p].commitTS \in Nat /\ xact[v].commitTS \in Nat
    BY XactTypes
  <2> QED
    BY <2>2, <2>3, <2>4 DEF Older
<1>18. Chained'
  <2>1. ASSUME committedXactsTail' # NoXact
        PROVE  Listed(committedXactsTail)' /\ \A v \in Xact : Listed(v)' => ~Older(committedXactsTail, v)'
    <3>1. PICK c \in Xact : c = committedXactsTail /\ committedXactsTail' = c
      BY <1>7, <2>1, TailNewest
    <3>2. Listed(c)' /\ \A v \in Xact : Listed(v)' => ~Older(c, v)'
      <4>1. Listed(c) /\ \A v \in Xact : Listed(v) => ~Older(c, v)
        BY <3>1, XactFacts DEF IInv, Chained
      <4> QED
        BY <1>12, <1>13, <3>1, <4>1
    <3> QED
      BY <3>1, <3>2 DEF Listed, Committed, Pushing, Older
  <2>2. ASSUME committedXactsTail' = NoXact, NEW v \in Xact, Listed(v)' PROVE Settled(v)'
    <3>1. CASE committedXactsTail = NoXact
      BY <1>12, <1>15, <2>2, <3>1 DEF IInv, Chained
    <3>2. CASE committedXactsTail # NoXact
      BY <1>12, <1>15, <1>16, <2>2, <3>2
    <3> QED
      BY <3>1, <3>2
  <2>3. ASSUME NEW y \in Xact, Listed(y)', NEW v \in Xact, Listed(v)', Older(v, y)'
        PROVE  IF xact'[y].prev = NoXact THEN Settled(v)' ELSE ~Older(xact[y].prev, v)'
    <3>1. Listed(y) /\ Listed(v) /\ Older(v, y)
      BY <1>12, <1>13, <2>3
    <3>2. CASE y = m
      <4>1. Settled(v)'
        BY <1>15, <1>17, <3>1, <3>2, XactFacts
      <4> QED
        BY <1>9, <3>2, <4>1
    <3>3. CASE y # m
      <4>1. PICK p \in NoneOr(Xact) : p = xact[y].prev /\ xact'[y].prev = p
        BY <1>9, <3>3, XactTypes
      <4>2. IF p = NoXact THEN Settled(v) ELSE ~Older(p, v)
        BY <3>1, <4>1 DEF IInv, Chained
      <4>3. IF p = NoXact THEN Settled(v)' ELSE ~Older(p, v)'
        BY <1>13, <1>15, <4>2 DEF NoneOr
      <4>4. Older(xact[y].prev, v)' <=> Older(p, v)'
        BY <4>1 DEF Older
      <4> QED
        BY <4>1, <4>3, <4>4
    <3> QED
      BY <3>2, <3>3
  <2>4. ASSUME NEW y \in Xact, xact'[y].prev # NoXact PROVE Listed(xact[y].prev)' /\ Older(xact[y].prev, y)'
    <3>1. PICK p \in Xact : xact'[y].prev = p /\ Listed(p) /\ Older(p, y)
      BY <1>9, <2>4, XactTypes DEF IInv, Chained, NoneOr
    <3>2. Listed(p)' /\ Older(p, y)'
      BY <1>12, <1>13, <3>1
    <3> QED
      BY <3>1, <3>2 DEF Listed, Committed, Pushing, Older
  <2>5. \A y, z \in Xact : Listed(y)' /\ Listed(z)' /\ xact'[y].commitTS = xact'[z].commitTS => y = z
    BY <1>9, <1>12 DEF IInv, Chained
  <2>6. \A y \in Xact : ~Begun(y)' => xact'[y].prev = NoXact
    BY <1>9, <1>11 DEF IInv, Chained
  <2> QED
    BY <2>1, <2>2, <2>3, <2>4, <2>5, <2>6 DEF Chained
<1>19. Clock'
  <2>1. Drawn \subseteq Drawn'
    BY <1>11 DEF Drawn
  <2>2. \A y \in Xact : Committed(y)' => Begun(y)
    BY <1>11 DEF IInv, Clock, Past
  <2>3. ASSUME NEW u \in Thread PROVE DrawnLast(u)'
    <3>1. CASE u = t
      BY <1>1, <3>1 DEF DrawnLast
    <3>2. CASE u # t
      <4>1. DrawnLast(u) /\ th'[u] = th[u]
        BY <1>1, <3>2 DEF IInv, Clock
      <4> QED
        BY <1>0, <1>9, <1>11, <4>1 DEF DrawnLast
    <3> QED
      BY <3>1, <3>2
  <2> QED
    BY <1>0, <1>9, <1>11, <2>1, <2>2, <2>3, ClockKept
<1>20. Locks'
  <2>1. "sweep" \notin Holding /\ "store" \in Holding
    BY DEF Holding
  <2> QED
    BY <1>0, <1>1, <2>1 DEF IInv, Locks, OneHolder, Holds
<1>21. ASSUME NEW u \in Thread \ {t} PROVE AtList(u)' /\ (th[u].x \in Xact => Compared(u))
  <2>1. AtList(u)'
    <3>1. th[u].pc \in {"draw", "store"} => committedXactsTail' = committedXactsTail
      <4> SUFFICES ASSUME th[u].pc \in {"draw", "store"}, committedXactsTail' # committedXactsTail PROVE FALSE
        OBVIOUS
      <4>1. PICK y \in Xact : y = th[u].x /\ Pushing(y) /\ Listed(y)
        BY ThreadFacts DEF Pushing, Listed
      <4>2. xact[y].commitTS = Never /\ xact[y].commitTS <= oldest
        BY <1>16, <4>1, ListedCommitted
      <4> QED
        BY <1>3, <4>2
    <3>2. ASSUME th[u].x \in Xact, th[u].pc \in Working \cup {"publish", "push"}
          PROVE  xact'[th[u].x].prev = xact[th[u].x].prev
      <4>1. PICK y \in Xact : y = th[u].x /\ y # Loader /\ ~Committed(y)
        BY <3>2, ThreadFacts DEF Uncommitted, Working
      <4>2. ~Pushing(y)
        BY <3>2, <4>1, XactFacts DEF Pushing, Working, IInv, OneThreadEach, OnOneThread
      <4>3. y # m
        BY <1>7, <4>1, <4>2, XactFacts DEF Listed
      <4> QED
        BY <1>9, <4>1, <4>3
    <3> QED
      BY <1>1, <1>12, <3>1, <3>2, StillAtList
  <2>2. ASSUME NEW y \in Xact, y = th[u].x PROVE Compared(u)
    <3>1. th'[u] = th[u] /\ \A v \in Xact : (Listed(v)' => Listed(v)) /\ (Older(v, y)' => Older(v, y))
      BY <1>1, <1>12, <1>13
    <3> QED
      BY <1>9, <1>13, <2>2, <3>1, ComparedTo
  <2> QED
    BY <2>1, <2>2
<1>22. RunsOne(t)'
  <2>1. th[t].x \in Xact \ {Loader} /\ Begun(th[t].x) /\ th[t].x # NoXact
    BY <1>0, ThreadFacts, XactFacts
  <2> QED
    BY <1>1, <1>9, <2>1 DEF RunsOne, Begun, Uncommitted, Working
<1>23. AtList(t)' /\ Validated(t)' /\ Writes(t)'
  BY <1>1 DEF AtList, Validated, Writes, Working, Holding
<1>24. /\ timestampGen' \in Nat /\ {counterLock', commitLock', isGCActive', crashed'} \subseteq BOOLEAN
       /\ committedXactsTail' \in NoneOr(Xact) /\ activeXactStartTS' \in [Thread -> Nat]
  BY <1>0, <1>7 DEF IInv, ManagerTypes, NoneOr
<1> QED
  BY <1>1, <1>9, <1>10, <1>18, <1>19, <1>20, <1>21, <1>22, <1>23, <1>24, StillStep

-----------------------------------------------------------------------------
(* The initial states, all steps, and what the invariant gives.            *)

LEMMA InitTypes ==
  ASSUME Init
  PROVE  StoreTypes /\ ManagerTypes
<1> DEFINE L == {Loaded(k) : k \in Present}
<1>1. \A v \in L : v \in DOMAIN version /\ Writer(v) = Loader
  BY DEF Init, Loaded, Writer
<1>2. DOMAIN version = L /\ DOMAIN entry = L
  BY DEF Init
<1>3. Loader \in Xact /\ Cardinality(Present) \in Nat /\ Present \subseteq Key /\ Never \in Nat
  BY XactFacts, TransactionAssumption, FS_CardinalityType
<1>4. version \in [L -> VersionType]
  <2>1. version = [v \in L |-> [entry |-> v, oldV |-> Null, xactid |-> 1, valid |-> TRUE]]
    BY DEF Init
  <2>2. \A v \in L : [entry |-> v, oldV |-> Null, xactid |-> 1, valid |-> TRUE] \in VersionType
    BY <1>2 DEF VersionType
  <2> HIDE DEF L
  <2> QED
    BY <2>1, <2>2
<1>5. entry \in [L -> [key : Key, head : L]]
  <2>1. entry = [e \in L |-> [key |-> e[2], head |-> e]]
    BY DEF Init
  <2>2. \A e \in L : e[2] \in Key
    BY <1>3 DEF Loaded
  <2> HIDE DEF L
  <2> QED
    BY <2>1, <2>2
<1>6. index \in [Key -> L \cup {Null}]
  <2>1. index = [k \in Key |-> IF k \in Present THEN Loaded(k) ELSE Null]
    BY DEF Init
  <2> QED
    BY <2>1
<1>7. rows \in Seq(L)
  <2>1. rows \in [1..Cardinality(Present) -> L]
    BY <1>2 DEF Init
  <2> HIDE DEF L
  <2> QED
    BY <1>3, <2>1
<1>8. slice \in [DOMAIN slice -> Seq(L)]
  <2>1. slice = [s \in {SliceOf[k] : k \in Present} |-> Keep(rows, {Loaded(k) : k \in {j \in Present : SliceOf[j] = s}})]
    BY DEF Init
  <2>2. \A S : Keep(rows, S) \in Seq(L)
    BY <1>7, KeepType
  <2> HIDE DEF L
  <2> QED
    BY <2>1, <2>2
<1>9. xact \in [Xact -> XactType]
  <2>1. Transaction \in XactType
    <3>1. <<>> \in Seq(DOMAIN version) /\ {} \in SUBSET Pred
      OBVIOUS
    <3> QED
      BY <1>3, <3>1 DEF Transaction, XactType, NoneOr
  <2>2. [Transaction EXCEPT !.startTS = 0, !.commitTS = 1, !.undo = rows] \in XactType
    BY <1>2, <1>7, <2>1 DEF XactType
  <2>3. xact = [x \in Xact |-> IF x = Loader THEN [Transaction EXCEPT !.startTS = 0, !.commitTS = 1, !.undo = rows] ELSE Transaction]
    BY DEF Init
  <2> QED
    BY <2>1, <2>2, <2>3
<1>10. th \in [Thread -> ThreadType]
  BY IdleType DEF Init
<1>11. StoreTypes
  <2> HIDE DEF L
  <2> QED
    BY <1>1, <1>2, <1>3, <1>4, <1>5, <1>6, <1>7, <1>8 DEF StoreTypes
<1>12. /\ timestampGen \in Nat /\ {counterLock, commitLock, isGCActive, crashed} \subseteq BOOLEAN
       /\ committedXactsTail \in NoneOr(Xact) /\ activeXactStartTS \in [Thread -> Nat]
  <2>1. activeXactStartTS \in [Thread -> {0, Never}]
    BY DEF Init
  <2>2. activeXactStartTS \in [Thread -> Nat]
    BY <1>3, <2>1
  <2>3. committedXactsTail \in NoneOr(Xact)
    BY <1>3 DEF Init, NoneOr
  <2>4. timestampGen \in Nat /\ counterLock = FALSE /\ commitLock = FALSE /\ isGCActive = FALSE /\ crashed = FALSE
    BY DEF Init
  <2> QED
    BY <2>2, <2>3, <2>4
<1> QED
  BY <1>9, <1>10, <1>11, <1>12 DEF ManagerTypes

LEMMA InitIInv ==
  ASSUME Init
  PROVE  IInv
<1>1. StoreTypes /\ ManagerTypes
  BY InitTypes
<1>2. Loader \in Xact /\ Never \in Nat /\ 2 < Never /\ Loader # NoXact /\ NoXact \notin Xact
  <2>1. MaxXacts \in Nat /\ MaxXacts >= 1 /\ Never \in Nat /\ 2 * MaxXacts < Never
    BY TransactionAssumption
  <2> QED
    BY <2>1, XactFacts DEF Loader, NoXact
<1>3. \A v \in DOMAIN version : Writer(v) = Loader /\ version[v].oldV = Null /\ version[v].xactid = 1
  BY DEF Init, Loaded, Writer
<1>4. /\ xact[Loader].startTS = 0 /\ xact[Loader].commitTS = 1 /\ xact[Loader].undo = rows /\ xact[Loader].prev = NoXact
      /\ \A x \in Xact \ {Loader} : /\ xact[x].startTS = Never /\ xact[x].commitTS = Never
                                    /\ xact[x].undo = <<>> /\ xact[x].prev = NoXact
  BY <1>2 DEF Init, Transaction
<1>5. \A t \in Thread : th[t].pc = "idle" /\ th[t].x = NoXact
  BY IdleType DEF Init
<1>6. Begun(Loader) /\ Committed(Loader) /\ \A x \in Xact \ {Loader} : ~Begun(x) /\ ~Committed(x)
  BY <1>2, <1>4 DEF Begun, Committed
<1>7. \A x \in Xact : (Listed(x) <=> x = Loader) /\ ~Storing(x)
  BY <1>4, <1>5 DEF Listed, Pushing, Storing
<1>8. Numbered
  <2> SUFFICES ASSUME NEW x \in Xact \ {Loader} PROVE \E n \in Nat : Versions(x) = {<<x, i>> : i \in 1..n}
    BY DEF Numbered
  <2>1. Versions(x) = {} /\ 1..0 = {}
    BY <1>3 DEF Versions
  <2> QED
    BY <2>1, 0 \in Nat
<1>9. OneThreadEach
  BY <1>5 DEF OneThreadEach, OnOneThread, RunsOne, Uncommitted, Working
<1>10. Clock
  <2>1. Started = {} /\ Drawn = {}
    BY <1>6, <1>7 DEF Started, Drawn
  <2>2. Counted
    BY <2>1, FS_EmptySet DEF Counted, Init
  <2>3. Past
    <3>1. \A x \in Xact : (Begun(x) => x = Loader) /\ (Committed(x) => x = Loader)
      BY <1>6
    <3> QED
      BY <1>4, <1>6, <3>1 DEF Past, Init
  <2> QED
    BY <1>5, <2>2, <2>3 DEF Clock, DrawnLast
<1>11. Locks
  BY <1>5 DEF Locks, OneHolder, Holds, Holding
<1>12. Chained
  <2>1. committedXactsTail = Loader
    BY DEF Init
  <2>2. ~Older(Loader, Loader)
    BY <1>4 DEF Older
  <2> QED
    BY <1>2, <1>4, <1>7, <2>1, <2>2 DEF Chained
<1>13. Stamps
  BY <1>3, <1>4, <1>6 DEF Stamps
<1>14. UndoOwn
  <2>1. \A i \in DOMAIN rows : rows[i] \in DOMAIN version
    BY <1>1 DEF StoreTypes
  <2> QED
    BY <1>3, <1>4, <2>1 DEF UndoOwn
<1>15. \A t \in Thread : AtList(t) /\ Validated(t) /\ Writes(t)
  BY <1>2, <1>5 DEF AtList, Validated, Writes, Working, Holding
<1> QED
  BY <1>1, <1>8, <1>9, <1>10, <1>11, <1>12, <1>13, <1>14, <1>15 DEF IInv

LEMMA NextIInv ==
  ASSUME IInv, [Next]_vars
  PROVE  IInv'
<1>1. CASE UNCHANGED vars
  <2>1. UNCHANGED <<storeVars, xact, managerVars, th, ghostVars>> /\ crashed' \in BOOLEAN
    BY <1>1 DEF vars, IInv, ManagerTypes
  <2> QED
    BY <2>1, Crashing
<1>2. ASSUME NEW t \in Thread, Operations(t) PROVE IInv'
  <2>1. ASSUME NEW k \in Key, Get(t, k) \/ GetForUpdate(t, k) \/ Insert(t, k) PROVE IInv'
    BY <2>1, GetStep, GetForUpdateStep, InsertStep
  <2>2. ASSUME NEW s, SliceNoUpdate(t, s) \/ SliceForUpdate(t, s) PROVE IInv'
    BY <2>2, SliceNoUpdateStep, SliceForUpdateStep
  <2>3. CASE SupersedeFound(t) \/ Delete(t) \/ Foreach(t) \/ NextRow(t) \/ SliceDone(t)
    BY <2>3, SupersedeStep, DeleteStep, ForeachStep, NextRowStep, SliceDoneStep
  <2> QED
    BY <1>2, <2>1, <2>2, <2>3 DEF Operations
<1>3. ASSUME NEW t \in Thread, Commit(t) PROVE IInv'
  <2>1. CASE CommitReadOnly(t) \/ ValidateAndCommit(t) \/ Validate(t) \/ TryLock(t) \/ Push(t)
    BY <2>1, CommitReadOnlyStep, ValidateAndCommitStep, ValidateStep, TryLockStep, PushStep
  <2>2. CASE DrawCommitTS(t) \/ StoreCommitTS(t) \/ StampVersions(t) \/ ClearActive(t)
    BY <2>2, DrawStep, StoreStep, StampStep, ClearStep
  <2> QED
    BY <1>3, <2>1, <2>2 DEF Commit
<1>4. ASSUME NEW t \in Thread, GarbageCollect(t) PROVE IInv'
  BY <1>4, CollectStep, ScanStep, CutStep, SweepStep, CollectedStep DEF GarbageCollect
<1>5. ASSUME NEW t \in Thread, Begin(t) \/ PublishStart(t) \/ Abort(t) \/ Rollback(t) \/ Unchain(t) \/ RolledBack(t)
      PROVE  IInv'
  BY <1>5, BeginStep, PublishStep, AbortStep, RollbackStep, UnchainStep, RolledBackStep
<1> QED
  BY <1>1, <1>2, <1>3, <1>4, <1>5 DEF Next, Ended

(* TransactionManager: in every reachable state the threads, the lock, the *)
(* clock, the list of committed transactions and the version chains are    *)
(* related as IInv says, whatever the threads run.                         *)
THEOREM ManagerInvariant == Spec => []IInv
<1>1. Init => IInv
  BY InitIInv
<1>2. IInv /\ [Next]_vars => IInv'
  BY NextIInv
<1> QED
  BY <1>1, <1>2, PTL DEF Spec

(* Every pointer is to a version, an entry or a transaction that exists,    *)
(* and every thread is at one of the steps of an operation.                 *)
THEOREM TypesStay == Spec => []TypeOK
<1>1. IInv => TypeOK
  BY DEF IInv, TypeOK
<1> QED
  BY <1>1, ManagerInvariant, PTL

(* commit: only one thread at a time is between taking commitLock and      *)
(* releasing it, and it holds the lock.                                    *)
THEOREM OneCommitsAtATime == Spec => []Locks
<1>1. IInv => Locks
  BY DEF IInv
<1> QED
  BY <1>1, ManagerInvariant, PTL

(* getForUpdate: of two concurrent transactions that write one row, the    *)
(* second one never gets its version onto the chain.                       *)
THEOREM WritersAreNotConcurrent == Spec => []FirstUpdaterWins
<1>1. IInv => FirstUpdaterWins
  BY DEF IInv, Stamps, MayFollow, FirstUpdaterWins
<1> QED
  BY <1>1, ManagerInvariant, PTL

(* commit, garbageCollect: the transactions that can be reached from the   *)
(* tail are in commit order, newest first.                                 *)
THEOREM ListIsOrdered == Spec => []CommitListOrdered
<1>1. ASSUME IInv PROVE CommitListOrdered
  <2>1. PICK list : list = CommittedFrom(committedXactsTail)
    OBVIOUS
  <2>2. /\ list \in Seq(Xact)
        /\ \A i, j \in 1..Len(list) : i < j => Older(list[j], list[i])
    BY <1>1, <2>1, ListFacts
  <2>3. \A i, j \in DOMAIN list : i < j => xact[list[j]].commitTS < xact[list[i]].commitTS
    BY <2>2 DEF Older
  <2> QED
    BY <2>1, <2>3 DEF CommitListOrdered
<1> QED
  BY <1>1, ManagerInvariant, PTL

LEMMA JustCommittedUnaffected ==
  ASSUME IInv, NEW x \in Xact \ overlooked, JustCommitted(x)
  PROVE  Unaffected(x)
<1> SUFFICES ASSUME NEW y \in Xact, xact[x].startTS < xact[y].commitTS, xact[y].commitTS < xact[x].commitTS
             PROVE  Unmatched(x, y)
  BY DEF Unaffected, Unmatched
<1>1. PICK t \in Thread : th[t].x = x /\ th[t].pc \in {"stamp", "clear"}
  BY DEF JustCommitted
<1>2. CASE Listed(y)
  BY <1>1, <1>2 DEF IInv, Validated, Older
<1>3. CASE ~Listed(y)
  <2>1. Committed(y)
    <3>1. xact[x].commitTS <= Never /\ xact[x].commitTS \in Nat /\ xact[y].commitTS \in Nat /\ Never \in Nat
      BY ClockBound, XactTypes
    <3> QED
      BY <3>1 DEF Committed
  <2>2. xact[y].undo = <<>>
    BY <1>3, <2>1 DEF Listed
  <2> QED
    BY <2>2 DEF Unmatched, MatchesAny
<1> QED
  BY <1>2, <1>3

(* validateAndCommit: a transaction that commits depends on nothing that a *)
(* transaction wrote which committed since it began, unless a collector    *)
(* ran past its start.                                                     *)
THEOREM CommitsAreValid == Spec => []CommittedAreValid
<1>1. IInv => \A x \in Xact \ overlooked : JustCommitted(x) => Unaffected(x)
  BY JustCommittedUnaffected
<1>2. IInv /\ CommitListOrdered => CommittedAreValid
  BY <1>1 DEF CommittedAreValid
<1> QED
  BY <1>2, ListIsOrdered, ManagerInvariant, PTL
-----------------------------------------------------------------------------
(***************************************************************************)
(* The versions of the rows, for any number of threads, keys and           *)
(* transactions: a read returns what had been committed when its           *)
(* transaction began, a rollback leaves nothing behind, and the collector  *)
(* removes no row that a transaction it knows of can still see.            *)
(***************************************************************************)
(* The inductive invariant.                                                *)

(* The versions of one entry form a chain, a later version above an        *)
(* earlier one.                                                            *)
Elems(s) == {s[i] : i \in DOMAIN s}

Founds(e) == version[e].entry = e /\ version[NewestOf(e)].entry = e

Follows(v) ==
  LET u == version[v].oldV
  IN  IF u = Null THEN version[v].entry = v
      ELSE /\ version[u].entry = version[v].entry
           /\ Writer(v) # Loader
           /\ Writer(u) = Writer(v) => u[2] < v[2]

Chains ==
  /\ Null \notin DOMAIN version
  /\ \A e \in DOMAIN entry : Founds(e)
  /\ \A v \in DOMAIN version : Follows(v)

(* The versions from v downwards.                                          *)
Shut(S) == \A w \in S : version[w].oldV \in S \cup {Null}
Below(v) == {w \in DOMAIN version : \A S \in SUBSET DOMAIN version : v \in S /\ Shut(S) => w \in S}
OnChain(v) == v \in Below(NewestOf(version[v].entry))

(* x has committed or may still do so.                                     *)
Standing(x) == Committed(x) \/ \E t \in Thread : th[t].x = x /\ th[t].pc # "unchain"

(* The versions of a transaction are in its undo buffer, newest first.     *)
Undoable(s, x) ==
  \A i \in DOMAIN s :
    /\ Writer(s[i]) = x
    /\ LET u == version[s[i]].oldV
       IN  u # Null /\ Writer(u) = x => \E j \in DOMAIN s : i < j /\ s[j] = u

Logged(x) ==
  /\ Undoable(xact[x].undo, x)
  /\ Standing(x) /\ x # Loader =>
       \A v \in DOMAIN version : Writer(v) = x => v \in Elems(xact[x].undo)

Reachable == \A v \in DOMAIN version : Standing(Writer(v)) => OnChain(v)

(* Who has put the newest version where it is.                             *)
Topped(e) ==
  LET v == NewestOf(e)
  IN  \/ Committed(Writer(v))
      \/ \E t \in Thread : /\ th[t].x = Writer(v)
                           /\ th[t].pc = "unchain" => v \in Elems(th[t].todo)

(* An entry whose insertion has not committed has no other writer.         *)
Founded(e) ==
  ~Committed(Writer(e)) => \A v \in DOMAIN version : version[v].entry = e => Writer(v) = Writer(e)

(* Commits come after starts, and no two at one time.                      *)
Apart ==
  /\ \A x \in Xact : Committed(x) => xact[x].startTS <= xact[x].commitTS
  /\ \A v \in DOMAIN version, x \in Xact :
       Committed(Writer(v)) /\ Begun(x) => xact[Writer(v)].commitTS # xact[x].startTS

(* Entries are removed after a rollback, or when all see their deletion.   *)
Failed(x) == ~Committed(x) /\ \A t \in Thread : th[t].x = x => th[t].pc = "unchain"

Seen(n) == \A x \in Xact \ overlooked : Running(x) => n <= xact[x].startTS

Buried(e) ==
  LET v == NewestOf(e)
  IN  /\ Committed(Writer(v)) /\ version[v].xactid = xact[Writer(v)].commitTS
      /\ ~version[v].valid
      /\ Seen(xact[Writer(v)].commitTS)

Gone(e) == e \in DOMAIN entry /\ (Failed(Writer(e)) \/ Buried(e))

(* Where the threads are.                                                  *)
OnTheWay(t) ==
  /\ th[t].pc = "unchain" => Undoable(th[t].todo, th[t].x)
  /\ th[t].pc = "supersede" => version[th[t].found].valid
  /\ th[t].pc \in {"collect", "scan", "sweep"} => Committed(th[t].x)
  /\ th[t].pc \in {"scan", "sweep"} => th[t].oldest <= timestampGen
  /\ th[t].pc = "sweep" => Seen(th[t].oldest)

ReadsRight ==
  /\ reads \in [Xact -> SUBSET DOMAIN version]
  /\ \A x \in Xact : ~Begun(x) => reads[x] = {}
  /\ ReadsAreSnapshot

VInv ==
  /\ Chains /\ Reachable /\ Apart /\ ReadsRight
  /\ \A x \in Xact : Logged(x)
  /\ \A e \in DOMAIN entry \ removed : Topped(e)
  /\ \A e \in DOMAIN entry : Founded(e)
  /\ \A e \in removed : Gone(e)
  /\ \A t \in Thread : OnTheWay(t)

-----------------------------------------------------------------------------
(* Chains.                                                                 *)

LEMMA VersionFacts ==
  ASSUME IInv, NEW v \in DOMAIN version
  PROVE  /\ Writer(v) \in Xact /\ Begun(Writer(v)) /\ version[v] \in VersionType
         /\ version[v].entry \in DOMAIN entry /\ version[v].oldV \in DOMAIN version \cup {Null}
         /\ version[v].xactid \in {Never, xact[Writer(v)].commitTS}
         /\ Writer(v) # Loader => v[2] \in Nat
         /\ xact[Writer(v)].startTS \in Nat /\ xact[Writer(v)].commitTS \in Nat
<1>1. Writer(v) \in Xact /\ version[v] \in VersionType
  BY DEF IInv, StoreTypes
<1>2. Begun(Writer(v)) /\ version[v].xactid \in {Never, xact[Writer(v)].commitTS}
  BY DEF IInv, Stamps
<1>3. Writer(v) # Loader => v[2] \in Nat
  <2> SUFFICES ASSUME Writer(v) # Loader PROVE v[2] \in Nat
    OBVIOUS
  <2>1. PICK n \in Nat : Versions(Writer(v)) = {<<Writer(v), i>> : i \in 1..n}
    BY <1>1 DEF IInv, Numbered
  <2>2. v \in Versions(Writer(v))
    BY DEF Versions
  <2>3. PICK i \in 1..n : v = <<Writer(v), i>>
    BY <2>1, <2>2
  <2> QED
    BY <2>3
<1> QED
  BY <1>1, <1>2, <1>3, XactTypes DEF VersionType

(* What x writes over is its own or was committed before x began.          *)
LEMMA Under ==
  ASSUME IInv, NEW v \in DOMAIN version, NEW u, u = version[v].oldV, u # Null
  PROVE  /\ u \in DOMAIN version
         /\ Writer(u) = Writer(v) \/ (Committed(Writer(u)) /\ xact[Writer(u)].commitTS < xact[Writer(v)].startTS)
<1>1. u \in DOMAIN version /\ Writer(v) \in Xact
  BY VersionFacts
<1>2. MayFollow(Writer(v), u)
  BY DEF IInv, Stamps
<1> QED
  BY <1>1, <1>2, FollowedCommitted

LEMMA InShut ==
  ASSUME NEW v, NEW S \in SUBSET DOMAIN version, v \in S, Shut(S)
  PROVE  Below(v) \subseteq S
BY DEF Below

LEMMA BelowSelf ==
  ASSUME NEW v \in DOMAIN version
  PROVE  v \in Below(v)
BY DEF Below

LEMMA BelowStep ==
  ASSUME NEW v \in DOMAIN version, NEW u \in DOMAIN version, u = version[v].oldV, u # Null
  PROVE  Below(v) = {v} \cup Below(u)
<1>1. ASSUME NEW w \in Below(v), w # v PROVE w \in Below(u)
  <2> SUFFICES ASSUME NEW S \in SUBSET DOMAIN version, u \in S, Shut(S) PROVE w \in S
    BY <1>1 DEF Below
  <2>1. Shut(S \cup {v})
    BY DEF Shut
  <2>2. Below(v) \subseteq S \cup {v}
    BY <2>1, InShut
  <2> QED
    BY <1>1, <2>2
<1>2. ASSUME NEW w \in Below(u) PROVE w \in Below(v)
  <2> SUFFICES ASSUME NEW S \in SUBSET DOMAIN version, v \in S, Shut(S) PROVE w \in S
    BY <1>2 DEF Below
  <2>1. u \in S
    BY DEF Shut
  <2> QED
    BY <1>2, <2>1, InShut
<1> QED
  BY <1>1, <1>2, BelowSelf

(* The order along a chain.                                                *)
NotNewer(w, v) ==
  \/ Writer(w) = Writer(v)
  \/ Committed(Writer(w)) /\ xact[Writer(w)].commitTS < xact[Writer(v)].startTS

Lower(w, v) ==
  \/ xact[Writer(w)].startTS < xact[Writer(v)].startTS
  \/ Writer(w) = Writer(v) /\ Writer(v) # Loader /\ w[2] < v[2]

LEMMA NextBelow ==
  ASSUME IInv, Chains, Apart, NEW v \in DOMAIN version, NEW u, u = version[v].oldV, u # Null
  PROVE  /\ u \in DOMAIN version /\ version[u].entry = version[v].entry
         /\ NotNewer(u, v) /\ Lower(u, v)
<1>1. u \in DOMAIN version /\ NotNewer(u, v)
  BY Under DEF NotNewer
<1>2. /\ version[u].entry = version[v].entry /\ Writer(v) # Loader
      /\ Writer(u) = Writer(v) => u[2] < v[2]
  BY DEF Chains, Follows
<1>3. Lower(u, v)
  <2>1. Writer(u) \in Xact /\ xact[Writer(u)].startTS \in Nat /\ xact[Writer(u)].commitTS \in Nat
    BY <1>1, VersionFacts
  <2>2. xact[Writer(v)].startTS \in Nat
    BY VersionFacts
  <2>3. Committed(Writer(u)) => xact[Writer(u)].startTS <= xact[Writer(u)].commitTS
    BY <2>1 DEF Apart
  <2> QED
    BY <1>1, <1>2, <2>1, <2>2, <2>3 DEF NotNewer, Lower
<1> QED
  BY <1>1, <1>2, <1>3

LEMMA BelowFacts ==
  ASSUME IInv, Chains, Apart, NEW v \in DOMAIN version, NEW w \in Below(v)
  PROVE  /\ w \in DOMAIN version /\ version[w].entry = version[v].entry
         /\ NotNewer(w, v) /\ (w = v \/ Lower(w, v))
<1> DEFINE S == {z \in DOMAIN version : /\ version[z].entry = version[v].entry
                                       /\ NotNewer(z, v) /\ (z = v \/ Lower(z, v))}
<1>1. v \in S
  BY DEF NotNewer
<1>2. ASSUME NEW z \in S, NEW u, u = version[z].oldV, u # Null PROVE u \in S
  <2>1. u \in DOMAIN version /\ version[u].entry = version[z].entry /\ NotNewer(u, z) /\ Lower(u, z)
    BY <1>2, NextBelow
  <2>2. /\ xact[Writer(u)].startTS \in Nat /\ xact[Writer(u)].commitTS \in Nat
        /\ Writer(u) # Loader => u[2] \in Nat
        /\ xact[Writer(z)].startTS \in Nat /\ xact[Writer(z)].commitTS \in Nat /\ Writer(z) \in Xact
        /\ Writer(z) # Loader => z[2] \in Nat
        /\ xact[Writer(v)].startTS \in Nat
        /\ Writer(v) # Loader => v[2] \in Nat
    BY <2>1, VersionFacts
  <2>3. Committed(Writer(z)) => xact[Writer(z)].startTS <= xact[Writer(z)].commitTS
    BY <2>2 DEF Apart
  <2>4. NotNewer(u, v)
    BY <2>1, <2>2, <2>3 DEF NotNewer
  <2>5. Lower(u, v)
    BY <2>1, <2>2 DEF Lower
  <2> QED
    BY <2>1, <2>4, <2>5
<1>3. Shut(S)
  BY <1>2 DEF Shut
<1>4. Below(v) \subseteq S
  <2> HIDE DEF S
  <2>1. S \in SUBSET DOMAIN version
    BY DEF S
  <2> QED
    BY <1>1, <1>3, <2>1, InShut
<1> QED
  BY <1>4

LEMMA BelowBoth ==
  ASSUME IInv, Chains, Apart, NEW v \in DOMAIN version, NEW w \in Below(v), v \in Below(w)
  PROVE  w = v
<1>1. w \in DOMAIN version /\ (w = v \/ Lower(w, v)) /\ (v = w \/ Lower(v, w))
  BY BelowFacts
<1>2. /\ xact[Writer(w)].startTS \in Nat /\ xact[Writer(v)].startTS \in Nat
      /\ Writer(v) # Loader => v[2] \in Nat
      /\ Writer(w) # Loader => w[2] \in Nat
  BY <1>1, VersionFacts
<1> QED
  BY <1>1, <1>2 DEF Lower

(* A set of versions has one whose predecessor is not in it.               *)
LEMMA Lowest ==
  ASSUME IInv, Chains, Apart, NEW C \in SUBSET DOMAIN version, C # {}
  PROVE  \E v \in C : version[v].oldV \notin C \ {Null}
<1> DEFINE T == {xact[Writer(v)].startTS : v \in C}
<1>1. T \in SUBSET Nat /\ T # {}
  BY VersionFacts
<1>2. PICK n \in T : \A m \in T : n <= m
  <2> HIDE DEF T
  <2> QED
    BY <1>1, LeastNumber
<1>3. PICK a \in C : xact[Writer(a)].startTS = n
  OBVIOUS
<1>4. \A v \in C : xact[Writer(a)].startTS <= xact[Writer(v)].startTS
  BY <1>2, <1>3
<1> HIDE DEF T
<1>5. CASE Writer(a) = Loader
  BY <1>5, VersionFacts DEF Chains, Follows
<1>6. CASE Writer(a) # Loader
  <2> DEFINE N == {v[2] : v \in {w \in C : Writer(w) = Writer(a)}}
  <2>1. N \in SUBSET Nat /\ N # {}
    BY <1>6, VersionFacts
  <2>2. PICK i \in N : \A j \in N : i <= j
    <3> HIDE DEF N
    <3> QED
      BY <2>1, LeastNumber
  <2>3. PICK v \in C : Writer(v) = Writer(a) /\ v[2] = i
    OBVIOUS
  <2>4. \A w \in C : Writer(w) = Writer(v) => v[2] <= w[2]
    BY <2>2, <2>3
  <2> HIDE DEF N
  <2>5. ASSUME NEW u \in C, u # Null, u = version[v].oldV PROVE FALSE
    <3>1. Lower(u, v)
      BY <2>5, NextBelow
    <3>2. xact[Writer(v)].startTS <= xact[Writer(u)].startTS
      BY <1>4, <2>3
    <3>3. /\ xact[Writer(u)].startTS \in Nat /\ xact[Writer(v)].startTS \in Nat
          /\ v[2] \in Nat /\ (Writer(u) = Writer(v) => u[2] \in Nat)
      BY <1>6, <2>3, VersionFacts
    <3> QED
      BY <2>4, <3>1, <3>2, <3>3 DEF Lower
  <2> QED
    BY <2>3, <2>5
<1> QED
  BY <1>5, <1>6

-----------------------------------------------------------------------------
(* What a transaction sees.                                                *)

LEMMA SeesCommitted ==
  ASSUME IInv, NEW x \in Xact, ~Committed(x), Begun(x), NEW v \in DOMAIN version
  PROVE  /\ IsVisible(x, v) <=> Writer(v) = x \/ xact[Writer(v)].commitTS < xact[x].startTS
         /\ xact[Writer(v)].commitTS < xact[x].startTS => Committed(Writer(v))
<1>1. /\ version[v].xactid \in {Never, xact[Writer(v)].commitTS}
      /\ xact[Writer(v)].commitTS \in Nat /\ Writer(v) \in Xact
  BY VersionFacts
<1>2. xact[x].startTS \in Nat /\ xact[x].startTS < Never /\ xact[x].commitTS = Never /\ Never \in Nat
  <2>1. xact[x].startTS \in Nat /\ xact[x].startTS <= Never /\ Never \in Nat
    BY ClockBound, XactTypes
  <2> QED
    BY <2>1 DEF Begun, Committed
<1>3. xact[Writer(v)].commitTS < xact[x].startTS => Committed(Writer(v))
  BY <1>1, <1>2 DEF Committed
<1>4. CASE IsTemp(v)
  BY <1>3, <1>4 DEF IsVisible
<1>5. CASE ~IsTemp(v)
  <2>1. version[v].xactid = xact[Writer(v)].commitTS /\ version[v].xactid # Never
    BY <1>1, <1>5 DEF IsTemp
  <2>2. Writer(v) # x
    BY <1>2, <2>1
  <2> QED
    BY <1>3, <1>5, <2>1, <2>2 DEF IsVisible
<1> QED
  BY <1>3, <1>4, <1>5

SeenBelow(x, v) == {w \in Below(v) : IsVisible(x, w)}
TopOf(S) == CHOOSE w \in S : S \subseteq Below(w)

(* The first visible version on the way down from v.                       *)
FirstSeen(x, v) ==
  IF v = Null THEN Null
  ELSE IF SeenBelow(x, v) = {} THEN Null ELSE TopOf(SeenBelow(x, v))

Descends(f, x) ==
  \A v \in DOMAIN version \cup {Null} :
    f[v] = IF v = Null THEN Null ELSE IF IsVisible(x, v) THEN v ELSE f[version[v].oldV]

LEMMA DescentExists ==
  ASSUME IInv, Chains, Apart, NEW x
  PROVE  Descends([v \in DOMAIN version \cup {Null} |-> FirstSeen(x, v)], x)
<1> DEFINE f == [v \in DOMAIN version \cup {Null} |-> FirstSeen(x, v)]
<1>1. ASSUME NEW v \in DOMAIN version, IsVisible(x, v) PROVE FirstSeen(x, v) = v
  <2> DEFINE S == SeenBelow(x, v)
  <2>1. v \in S /\ S \subseteq Below(v)
    BY <1>1, BelowSelf DEF SeenBelow
  <2>2. ASSUME NEW w \in S, S \subseteq Below(w) PROVE w = v
    BY <2>1, <2>2, BelowBoth
  <2> HIDE DEF S
  <2>3. TopOf(S) \in S /\ S \subseteq Below(TopOf(S))
    BY <2>1 DEF TopOf
  <2>4. TopOf(S) = v
    BY <2>2, <2>3
  <2>5. v # Null
    BY DEF Chains
  <2> QED
    BY <2>1, <2>4, <2>5 DEF FirstSeen, S
<1>2. ASSUME NEW v \in DOMAIN version, ~IsVisible(x, v), version[v].oldV = Null
      PROVE  FirstSeen(x, v) = Null
  <2>1. Shut({v}) /\ {v} \in SUBSET DOMAIN version
    BY <1>2 DEF Shut
  <2>2. Below(v) \subseteq {v}
    BY <2>1, InShut
  <2>3. SeenBelow(x, v) = {}
    BY <1>2, <2>2 DEF SeenBelow
  <2> QED
    BY <2>3 DEF FirstSeen
<1>3. ASSUME NEW v \in DOMAIN version, ~IsVisible(x, v), NEW u, u = version[v].oldV, u # Null
      PROVE  FirstSeen(x, v) = FirstSeen(x, u) /\ u \in DOMAIN version
  <2>1. u \in DOMAIN version
    BY <1>3, VersionFacts
  <2>2. Below(v) = {v} \cup Below(u)
    BY <1>3, <2>1, BelowStep
  <2>3. SeenBelow(x, v) = SeenBelow(x, u)
    BY <1>3, <2>2 DEF SeenBelow
  <2>4. v # Null
    BY DEF Chains
  <2> QED
    BY <1>3, <2>1, <2>3, <2>4 DEF FirstSeen
<1>4. FirstSeen(x, Null) = Null
  BY DEF FirstSeen
<1>5. ASSUME NEW v \in DOMAIN version \cup {Null}
      PROVE  f[v] = IF v = Null THEN Null ELSE IF IsVisible(x, v) THEN v ELSE f[version[v].oldV]
  <2>1. f[v] = FirstSeen(x, v)
    OBVIOUS
  <2>2. v \in DOMAIN version => f[version[v].oldV] = FirstSeen(x, version[v].oldV)
    BY VersionFacts
  <2>3. CASE v = Null
    BY <1>4, <2>1, <2>3
  <2>4. CASE v # Null /\ IsVisible(x, v)
    BY <1>1, <2>1, <2>4
  <2>5. CASE v # Null /\ ~IsVisible(x, v)
    BY <1>2, <1>3, <1>4, <2>1, <2>2, <2>5
  <2> HIDE DEF f
  <2> QED
    BY <2>3, <2>4, <2>5
<1> HIDE DEF f
<1>6. Descends(f, x)
  BY <1>5 DEF Descends
<1> QED
  BY <1>6 DEF f

(* What the descent from v arrives at.                                     *)
Arrives(r, x, v) ==
  /\ r = Null => SeenBelow(x, v) = {}
  /\ r # Null => r \in SeenBelow(x, v) /\ \A w \in SeenBelow(x, v) : NotNewer(w, r)

LEMMA Descending ==
  ASSUME IInv, Chains, Apart, NEW x, NEW f, Descends(f, x), NEW v \in DOMAIN version
  PROVE  Arrives(f[v], x, v)
<1> DEFINE C == {w \in DOMAIN version : ~Arrives(f[w], x, w)}
<1> SUFFICES ASSUME C # {} PROVE FALSE
  OBVIOUS
<1>1. PICK a \in C : version[a].oldV \notin C \ {Null}
  <2>1. C \in SUBSET DOMAIN version
    OBVIOUS
  <2> HIDE DEF C
  <2> QED
    BY <2>1, Lowest
<1>2. a \in DOMAIN version /\ a # Null
  BY DEF Chains
<1>3. f[a] = IF IsVisible(x, a) THEN a ELSE f[version[a].oldV]
  BY <1>2 DEF Descends
<1>4. CASE IsVisible(x, a)
  <2>1. a \in SeenBelow(x, a)
    BY <1>2, <1>4, BelowSelf DEF SeenBelow
  <2>2. \A w \in SeenBelow(x, a) : NotNewer(w, a)
    BY <1>2, BelowFacts DEF SeenBelow
  <2> QED
    BY <1>2, <1>3, <1>4, <2>1, <2>2 DEF Arrives
<1>5. CASE ~IsVisible(x, a) /\ version[a].oldV = Null
  <2>1. Shut({a}) /\ {a} \in SUBSET DOMAIN version
    BY <1>2, <1>5 DEF Shut
  <2>2. Below(a) \subseteq {a}
    BY <2>1, InShut
  <2>3. SeenBelow(x, a) = {}
    BY <1>5, <2>2 DEF SeenBelow
  <2>4. f[Null] = Null
    BY DEF Descends
  <2> QED
    BY <1>3, <1>5, <2>3, <2>4 DEF Arrives
<1>6. CASE ~IsVisible(x, a) /\ version[a].oldV # Null
  <2>1. PICK u \in DOMAIN version : u = version[a].oldV
    BY <1>2, <1>6, VersionFacts
  <2>2. Below(a) = {a} \cup Below(u)
    BY <1>2, <1>6, <2>1, BelowStep
  <2>3. SeenBelow(x, a) = SeenBelow(x, u)
    BY <1>6, <2>2 DEF SeenBelow
  <2>4. Arrives(f[u], x, u)
    BY <1>1, <1>6, <2>1
  <2> QED
    BY <1>3, <1>6, <2>1, <2>3, <2>4 DEF Arrives
<1> QED
  BY <1>4, <1>5, <1>6

(* CorrectVersion returns the newest version on the chain that x may see.  *)
LEMMA Seeing ==
  ASSUME IInv, Chains, Apart, NEW x, NEW e \in DOMAIN entry
  PROVE  /\ Arrives(CorrectVersion(x, e), x, NewestOf(e))
         /\ IsVisible(x, NewestOf(e)) => CorrectVersion(x, e) = NewestOf(e)
<1> DEFINE Rec(f) == [v \in DOMAIN version \cup {Null} |->
                        IF v = Null THEN Null ELSE IF IsVisible(x, v) THEN v ELSE f[version[v].oldV]]
           from == CHOOSE f : f = Rec(f)
           g == [v \in DOMAIN version \cup {Null} |-> FirstSeen(x, v)]
<1>1. g = Rec(g)
  <2>1. Descends(g, x)
    BY DescentExists
  <2>2. \A v \in DOMAIN version \cup {Null} :
          g[v] = IF v = Null THEN Null ELSE IF IsVisible(x, v) THEN v ELSE g[version[v].oldV]
    <3> HIDE DEF g
    <3> QED
      BY <2>1 DEF Descends
  <2>3. g = [v \in DOMAIN version \cup {Null} |-> g[v]]
    OBVIOUS
  <2> HIDE DEF g
  <2> QED
    BY <2>2, <2>3
<1>2. from = Rec(from)
  <2> HIDE DEF g, Rec
  <2> QED
    BY <1>1
<1>3. CorrectVersion(x, e) = from[NewestOf(e)]
  BY Zenon DEF CorrectVersion, from
<1> HIDE DEF from
<1>4. Descends(from, x)
  BY <1>2 DEF Descends
<1>5. NewestOf(e) \in DOMAIN version /\ NewestOf(e) # Null
  BY Newest DEF Chains
<1>6. Arrives(from[NewestOf(e)], x, NewestOf(e))
  BY <1>4, <1>5, Descending
<1>7. IsVisible(x, NewestOf(e)) => from[NewestOf(e)] = NewestOf(e)
  BY <1>4, <1>5 DEF Descends
<1> QED
  BY <1>3, <1>6, <1>7

(* Reading v is reading the snapshot of x.                                 *)
Snapshot(x, v) ==
  /\ xact[Writer(v)].commitTS < xact[x].startTS
  /\ \A u \in DOMAIN version :
       version[u].entry = version[v].entry /\ xact[Writer(u)].commitTS < xact[x].startTS
         => xact[Writer(u)].commitTS <= xact[Writer(v)].commitTS

LEMMA SnapshotsRead ==
  ASSUME IInv, reads \in [Xact -> SUBSET DOMAIN version]
  PROVE  ReadsAreSnapshot <=> \A x \in Xact : \A v \in reads[x] : Snapshot(x, v)
<1> SUFFICES ASSUME NEW x \in Xact, NEW v \in reads[x]
             PROVE  LET before == {u \in DOMAIN version : /\ version[u].entry = version[v].entry
                                                          /\ xact[Writer(u)].commitTS < xact[x].startTS}
                    IN  (/\ v \in before
                         /\ \A u \in before : xact[Writer(u)].commitTS <= xact[Writer(v)].commitTS)
                          <=> Snapshot(x, v)
  BY DEF ReadsAreSnapshot
<1>1. v \in DOMAIN version
  OBVIOUS
<1> QED
  BY <1>1 DEF Snapshot

LEMMA SeesEarlier ==
  ASSUME IInv, NEW x \in Xact, NEW v \in DOMAIN version, xact[Writer(v)].commitTS < xact[x].startTS
  PROVE  Committed(Writer(v))
<1>1. xact[x].startTS \in Nat /\ xact[x].startTS <= Never /\ Never \in Nat /\ xact[Writer(v)].commitTS \in Nat
  BY ClockBound, XactTypes, VersionFacts
<1> QED
  BY <1>1 DEF Committed

LEMMA NotNewerTimes ==
  ASSUME IInv, Apart, NEW u \in DOMAIN version, NEW v \in DOMAIN version, NotNewer(u, v), Committed(Writer(v))
  PROVE  xact[Writer(u)].commitTS <= xact[Writer(v)].commitTS
<1>1. /\ xact[Writer(u)].commitTS \in Nat /\ xact[Writer(v)].commitTS \in Nat
      /\ xact[Writer(v)].startTS \in Nat /\ Writer(v) \in Xact
  BY VersionFacts
<1>2. xact[Writer(v)].startTS <= xact[Writer(v)].commitTS
  BY <1>1 DEF Apart
<1> QED
  BY <1>1, <1>2 DEF NotNewer

(* A version above all others of its entry that x may see is its snapshot. *)
LEMMA ReadingNewest ==
  ASSUME IInv, VInv, NEW x \in Xact, Begun(x), ~Committed(x), NEW v \in DOMAIN version, Writer(v) # x,
         IsVisible(x, v),
         \A w \in SeenBelow(x, NewestOf(version[v].entry)) : NotNewer(w, v)
  PROVE  Snapshot(x, v)
<1>1. xact[Writer(v)].commitTS < xact[x].startTS /\ Committed(Writer(v))
  BY SeesCommitted
<1>2. ASSUME NEW u \in DOMAIN version, version[u].entry = version[v].entry, xact[Writer(u)].commitTS < xact[x].startTS
      PROVE  xact[Writer(u)].commitTS <= xact[Writer(v)].commitTS
  <2>1. IsVisible(x, u) /\ Committed(Writer(u))
    BY <1>2, SeesCommitted
  <2>2. OnChain(u)
    BY <2>1 DEF VInv, Reachable, Standing
  <2>3. u \in SeenBelow(x, NewestOf(version[v].entry))
    BY <1>2, <2>1, <2>2 DEF OnChain, SeenBelow
  <2>4. NotNewer(u, v)
    BY <2>3
  <2> QED
    BY <1>1, <2>4, NotNewerTimes DEF VInv
<1> QED
  BY <1>1, <1>2 DEF Snapshot

LEMMA ReadingSnapshot ==
  ASSUME IInv, VInv, NEW x \in Xact, Begun(x), ~Committed(x), NEW e \in DOMAIN entry,
         NEW v, v = CorrectVersion(x, e), v # Null
  PROVE  /\ v \in DOMAIN version /\ version[v].entry = e /\ IsVisible(x, v)
         /\ Writer(v) # x => Snapshot(x, v)
<1>1. Arrives(v, x, NewestOf(e))
  BY Seeing DEF VInv
<1>2. v \in SeenBelow(x, NewestOf(e)) /\ \A w \in SeenBelow(x, NewestOf(e)) : NotNewer(w, v)
  BY <1>1 DEF Arrives
<1>3. NewestOf(e) \in DOMAIN version /\ version[NewestOf(e)].entry = e
  BY Newest DEF VInv, Chains, Founds
<1>4. v \in DOMAIN version /\ version[v].entry = e /\ IsVisible(x, v)
  BY <1>2, <1>3, BelowFacts DEF SeenBelow, VInv
<1> QED
  BY <1>2, <1>4, ReadingNewest

LEMMA ReadingHead ==
  ASSUME IInv, VInv, NEW x \in Xact, Begun(x), ~Committed(x), NEW v \in DOMAIN version,
         NewestOf(version[v].entry) = v, MayFollow(x, v), Writer(v) # x
  PROVE  Snapshot(x, v)
<1>1. IsVisible(x, v)
  BY SeesCommitted DEF MayFollow
<1>2. \A w \in SeenBelow(x, v) : NotNewer(w, v)
  BY BelowFacts DEF SeenBelow, VInv
<1> QED
  BY <1>1, <1>2, ReadingNewest

-----------------------------------------------------------------------------
(* What the invariant is for.                                              *)

LEMMA RolledBackNothing ==
  ASSUME IInv, VInv
  PROVE  RolledBackLeaveNothing
BY DEF VInv, Topped, RolledBackLeaveNothing

LEMMA CollectedUnseen ==
  ASSUME IInv, VInv
  PROVE  CollectedAreUnseen
<1> SUFFICES ASSUME NEW e \in removed, NEW x \in Xact \ overlooked, Running(x),
                    NEW v, v = CorrectVersion(x, e), v # Null
             PROVE  ~version[v].valid \/ Writer(v) = x
  BY DEF CollectedAreUnseen
<1>1. Begun(x) /\ ~Committed(x)
  BY DEF Running, Committed
<1>2. e \in DOMAIN entry /\ (Failed(Writer(e)) \/ Buried(e)) /\ Founded(e)
  BY DEF VInv, Gone
<1>3. v \in DOMAIN version /\ version[v].entry = e /\ IsVisible(x, v)
  BY <1>1, <1>2, ReadingSnapshot
<1>4. CASE Failed(Writer(e))
  <2>1. Writer(v) = Writer(e) /\ ~Committed(Writer(v))
    BY <1>2, <1>3, <1>4 DEF Failed, Founded
  <2> QED
    BY <1>1, <1>3, <2>1, SeesCommitted
<1>5. CASE Buried(e)
  <2> DEFINE h == NewestOf(e)
  <2>1. h \in DOMAIN version /\ Committed(Writer(h)) /\ ~version[h].valid /\ xact[Writer(h)].commitTS <= xact[x].startTS
    BY <1>2, <1>5, Newest DEF Buried, Seen
  <2>2. xact[Writer(h)].commitTS # xact[x].startTS
    BY <1>1, <2>1 DEF VInv, Apart
  <2>3. xact[Writer(h)].commitTS \in Nat /\ xact[x].startTS \in Nat
    BY <2>1, VersionFacts, XactTypes
  <2>4. IsVisible(x, h)
    <3> HIDE DEF h
    <3> QED
      BY <1>1, <2>1, <2>2, <2>3, SeesCommitted
  <2>5. v = h
    BY <1>2, <2>4, Seeing DEF VInv
  <2> QED
    BY <2>1, <2>5
<1> QED
  BY <1>2, <1>4, <1>5

-----------------------------------------------------------------------------
(* Steps that leave the chains as they are.                                *)

SameChains ==
  /\ DOMAIN version' = DOMAIN version /\ entry' = entry
  /\ \A v \in DOMAIN version : /\ version'[v].entry = version[v].entry
                               /\ version'[v].oldV = version[v].oldV

LEMMA ChainsSame ==
  ASSUME IInv, Chains, SameChains
  PROVE  /\ Chains'
         /\ \A v \in DOMAIN version : Below(v)' = Below(v) /\ (OnChain(v)' <=> OnChain(v))
         /\ \A e : NewestOf(e)' = NewestOf(e)
<1>1. \A S \in SUBSET DOMAIN version : Shut(S)' <=> Shut(S)
  BY DEF Shut, SameChains
<1>2. \A v : Below(v)' = Below(v)
  BY <1>1 DEF Below, SameChains
<1>3. \A e : NewestOf(e)' = NewestOf(e)
  BY DEF NewestOf, SameChains
<1>4. \A v \in DOMAIN version : OnChain(v)' <=> OnChain(v)
  BY <1>2, <1>3 DEF OnChain, SameChains
<1>5. \A e \in DOMAIN entry : Founds(e)'
  <2> SUFFICES ASSUME NEW e \in DOMAIN entry PROVE Founds(e)'
    OBVIOUS
  <2>1. e \in DOMAIN version /\ NewestOf(e) \in DOMAIN version /\ Founds(e)
    BY Newest DEF IInv, StoreTypes, Chains
  <2> QED
    BY <1>3, <2>1 DEF Founds, SameChains
<1>6. \A v \in DOMAIN version : Follows(v)'
  <2> SUFFICES ASSUME NEW v \in DOMAIN version PROVE Follows(v)'
    OBVIOUS
  <2>1. PICK u : u = version[v].oldV
    OBVIOUS
  <2>2. Follows(v) /\ u \in DOMAIN version \cup {Null} /\ version'[v].oldV = u
    BY <2>1, VersionFacts DEF Chains, SameChains
  <2> QED
    BY <2>1, <2>2 DEF Follows, SameChains
<1> QED
  BY <1>2, <1>3, <1>4, <1>5, <1>6 DEF Chains, SameChains

LEMMA UndoableSame ==
  ASSUME IInv, \A v \in DOMAIN version : version'[v].oldV = version[v].oldV,
         NEW s \in Seq(DOMAIN version), NEW x, Undoable(s, x)
  PROVE  Undoable(s, x)'
<1>1. \A i \in DOMAIN s : s[i] \in DOMAIN version
  OBVIOUS
<1> QED
  BY <1>1 DEF Undoable

SameTimes == \A y \in Xact : xact'[y].startTS = xact[y].startTS /\ xact'[y].commitTS = xact[y].commitTS

LEMMA TimesSame ==
  ASSUME SameTimes
  PROVE  \A y \in Xact : (Begun(y)' <=> Begun(y)) /\ (Committed(y)' <=> Committed(y))
BY DEF SameTimes, Begun, Committed

LEMMA ApartSame ==
  ASSUME IInv, Apart, SameTimes,
         \A v \in DOMAIN version' : Writer(v) \in Xact /\ (v \notin DOMAIN version => ~Committed(Writer(v)))
  PROVE  Apart'
<1>1. \A y \in Xact : (Begun(y)' <=> Begun(y)) /\ (Committed(y)' <=> Committed(y))
  BY TimesSame
<1> QED
  BY <1>1 DEF Apart, SameTimes

(* What was read stays the snapshot: who commits later is not in it.       *)
Later(u) == \A z \in Xact : Begun(z) => xact[z].startTS <= xact'[Writer(u)].commitTS

LEMMA ReadsOn ==
  ASSUME IInv, ReadsRight, DOMAIN version \subseteq DOMAIN version',
         \A v \in DOMAIN version : version'[v].entry = version[v].entry,
         \A z \in Xact : xact'[z].startTS \in Nat /\ xact'[z].commitTS \in Nat,
         \A u \in DOMAIN version' : Writer(u) \in Xact,
         \A u \in DOMAIN version' : Later(u) \/ (u \in DOMAIN version /\ xact'[Writer(u)].commitTS = xact[Writer(u)].commitTS),
         \A u \in DOMAIN version : Committed(Writer(u)) => xact'[Writer(u)].commitTS = xact[Writer(u)].commitTS,
         \A z \in Xact : Begun(z) => xact'[z].startTS = xact[z].startTS,
         reads' \in [Xact -> SUBSET DOMAIN version],
         \A x \in Xact : \A v \in reads'[x] : Begun(x) /\ (v \in reads[x] \/ Snapshot(x, v))
  PROVE  ReadsRight'
<1>1. ASSUME NEW x \in Xact, NEW v \in reads'[x]
      PROVE  /\ Begun(x)' /\ v \in DOMAIN version'
             /\ xact'[Writer(v)].commitTS < xact'[x].startTS
             /\ \A u \in DOMAIN version' :
                  version'[u].entry = version'[v].entry /\ xact'[Writer(u)].commitTS < xact'[x].startTS
                    => xact'[Writer(u)].commitTS <= xact'[Writer(v)].commitTS
  <2>1. v \in DOMAIN version /\ Begun(x) /\ xact'[x].startTS = xact[x].startTS
    BY <1>1
  <2>2. Snapshot(x, v)
    BY <1>1, SnapshotsRead DEF ReadsRight
  <2>3. Committed(Writer(v))
    BY <2>1, <2>2, SeesEarlier DEF Snapshot
  <2>4. xact'[Writer(v)].commitTS = xact[Writer(v)].commitTS
    BY <2>1, <2>3
  <2>5. ASSUME NEW u \in DOMAIN version', version'[u].entry = version'[v].entry,
               xact'[Writer(u)].commitTS < xact'[x].startTS
        PROVE  xact'[Writer(u)].commitTS <= xact'[Writer(v)].commitTS
    <3>1. ~Later(u)
      <4>1. Writer(u) \in Xact /\ xact'[Writer(u)].commitTS \in Nat /\ xact[x].startTS \in Nat
        BY <2>1
      <4> QED
        BY <2>1, <2>5, <4>1 DEF Later
    <3>2. u \in DOMAIN version /\ xact'[Writer(u)].commitTS = xact[Writer(u)].commitTS
      BY <3>1
    <3> QED
      BY <2>1, <2>2, <2>4, <2>5, <3>2 DEF Snapshot
  <2> QED
    BY <2>1, <2>2, <2>4, <2>5 DEF Begun, Snapshot
<1>2. ReadsAreSnapshot'
  <2> SUFFICES ASSUME NEW x \in Xact, NEW v \in reads'[x]
               PROVE  (LET before == {u \in DOMAIN version : /\ version[u].entry = version[v].entry
                                                             /\ xact[Writer(u)].commitTS < xact[x].startTS}
                       IN  /\ v \in before
                           /\ \A u \in before : xact[Writer(u)].commitTS <= xact[Writer(v)].commitTS)'
    BY DEF ReadsAreSnapshot
  <2> QED
    BY <1>1
<1>3. \A x \in Xact : ~Begun(x)' => reads'[x] = {}
  BY <1>1
<1>4. reads' \in [Xact -> SUBSET DOMAIN version']
  OBVIOUS
<1> QED
  BY <1>2, <1>3, <1>4 DEF ReadsRight

(* A step that takes back no commit and no rollback.                       *)
Onward(y) ==
  /\ Standing(y)' => Standing(y)
  /\ Failed(y) => Failed(y)'
  /\ Committed(y) => xact'[y].commitTS = xact[y].commitTS

SeenOn == \A n \in Nat : n <= timestampGen /\ Seen(n) => Seen(n)'

LEMMA Steady ==
  ASSUME IInv, VInv, IInv', SameChains, removed \subseteq removed', \A e \in removed' \ removed : Gone(e)',
         \A v \in DOMAIN version :
           /\ ~version[v].valid => ~version'[v].valid
           /\ version'[v].xactid \in {version[v].xactid, xact[Writer(v)].commitTS},
         \A y \in Xact : Begun(y) => Onward(y), SeenOn,
         Apart', ReadsRight', \A y \in Xact : Logged(y)',
         \A e \in DOMAIN entry \ removed' : Topped(e)', \A u \in Thread : OnTheWay(u)'
  PROVE  VInv'
<1>1. /\ Chains'
      /\ \A v \in DOMAIN version : OnChain(v)' <=> OnChain(v)
      /\ \A e : NewestOf(e)' = NewestOf(e)
  BY ChainsSame DEF VInv
<1>2. /\ DOMAIN version' = DOMAIN version /\ entry' = entry
      /\ \A v \in DOMAIN version : version'[v].entry = version[v].entry /\ version'[v].oldV = version[v].oldV
  BY DEF SameChains
<1>3. \A y \in Xact : Committed(y) /\ Begun(y) => Committed(y)'
  BY DEF Onward, Committed
<1>4. \A v \in DOMAIN version : Writer(v) \in Xact /\ Begun(Writer(v))
  BY VersionFacts
<1>5. Reachable'
  BY <1>1, <1>2, <1>4 DEF VInv, Reachable, Onward
<1>6. ASSUME NEW e \in DOMAIN entry PROVE Founded(e)'
  <2>1. Founded(e) /\ e \in DOMAIN version /\ Writer(e) \in Xact /\ Begun(Writer(e))
    BY <1>4 DEF VInv, IInv, StoreTypes
  <2> QED
    BY <1>2, <1>3, <2>1 DEF Founded
<1>7. ASSUME NEW e \in removed PROVE Gone(e)'
  <2>1. Gone(e)
    BY DEF VInv
  <2>2. e \in DOMAIN entry /\ e \in DOMAIN version /\ Writer(e) \in Xact /\ Begun(Writer(e))
    BY <1>4, <2>1 DEF Gone, IInv, StoreTypes
  <2>3. CASE Failed(Writer(e))
    BY <1>2, <2>2, <2>3 DEF Gone, Onward
  <2>4. CASE Buried(e)
    <3>1. PICK v \in DOMAIN version : v = NewestOf(e) /\ v = NewestOf(e)' /\ Writer(v) \in Xact /\ Begun(Writer(v))
      BY <1>1, <1>4, <2>2, Newest
    <3>2. /\ Committed(Writer(v)) /\ version[v].xactid = xact[Writer(v)].commitTS /\ ~version[v].valid
          /\ Seen(xact[Writer(v)].commitTS)
      BY <2>4, <3>1 DEF Buried
    <3>3. xact'[Writer(v)].commitTS = xact[Writer(v)].commitTS
      BY <3>1, <3>2 DEF Onward
    <3>4. version'[v].xactid = xact'[Writer(v)].commitTS /\ ~version'[v].valid
      BY <3>1, <3>2, <3>3
    <3>5. PICK n \in Nat : n = xact[Writer(v)].commitTS /\ n <= timestampGen
      <4>1. xact[Writer(v)].commitTS < timestampGen
        BY <3>1, <3>2 DEF IInv, Clock, Past
      <4> QED
        BY <4>1, <3>1, VersionFacts DEF IInv, ManagerTypes
    <3>6. Seen(xact[Writer(v)].commitTS)'
      <4>1. Seen(n)'
        BY <3>2, <3>5 DEF SeenOn
      <4> QED
        BY <3>3, <3>5, <4>1 DEF Seen
    <3>7. Buried(e)'
      BY <1>3, <3>1, <3>2, <3>4, <3>6 DEF Buried
    <3> QED
      BY <1>2, <2>2, <3>7 DEF Gone
  <2> QED
    BY <2>1, <2>3, <2>4 DEF Gone
<1> QED
  BY <1>1, <1>2, <1>5, <1>6, <1>7 DEF VInv

-----------------------------------------------------------------------------
(* A calm step: no version comes or goes, no transaction begins, commits   *)
(* or rolls back.                                                          *)

Moves(u) ==
  /\ th[u].pc # "unchain" /\ th'[u].pc # "unchain"
  /\ th'[u].x = th[u].x \/ (th'[u].x = NoXact /\ Committed(th[u].x))

Calm ==
  /\ SameChains /\ removed' = removed
  /\ \A v \in DOMAIN version :
       /\ ~version[v].valid => ~version'[v].valid
       /\ version'[v].xactid \in {version[v].xactid, xact[Writer(v)].commitTS}
  /\ SameTimes /\ \A y \in Xact : xact'[y].undo = xact[y].undo
  /\ overlooked \subseteq overlooked'
  /\ \A u \in Thread : th'[u] = th[u] \/ Moves(u)

LEMMA CalmStanding ==
  ASSUME IInv, Calm, NEW y \in Xact
  PROVE  /\ Standing(y)' => Standing(y)
         /\ Failed(y) => Failed(y)'
         /\ Running(y)' => Running(y)
<1>1. (Begun(y)' <=> Begun(y)) /\ (Committed(y)' <=> Committed(y))
  BY TimesSame DEF Calm
<1>2. ASSUME NEW u \in Thread, th'[u].x = y
      PROVE  th[u].x = y /\ (th'[u].pc = "unchain" <=> th[u].pc = "unchain")
  <2>1. th'[u] = th[u] \/ Moves(u)
    BY DEF Calm
  <2>2. y # NoXact
    BY XactFacts
  <2> QED
    BY <1>2, <2>1, <2>2 DEF Moves
<1>3. Standing(y)' => Standing(y)
  BY <1>1, <1>2 DEF Standing
<1>4. Failed(y) => Failed(y)'
  BY <1>1, <1>2 DEF Failed
<1>5. Running(y)' => Running(y)
  BY <1>1, <1>2 DEF Running, Committed
<1> QED
  BY <1>3, <1>4, <1>5

LEMMA CalmStep ==
  ASSUME IInv, VInv, IInv', Calm, \A u \in Thread : OnTheWay(u)', ReadsRight'
  PROVE  VInv'
<1>1. /\ Chains'
      /\ \A e : NewestOf(e)' = NewestOf(e)
  BY ChainsSame DEF VInv, Calm
<1>2. /\ DOMAIN version' = DOMAIN version /\ entry' = entry /\ removed' = removed
      /\ \A v \in DOMAIN version : version'[v].entry = version[v].entry /\ version'[v].oldV = version[v].oldV
  BY DEF Calm, SameChains
<1>3. \A y \in Xact : (Begun(y)' <=> Begun(y)) /\ (Committed(y)' <=> Committed(y))
  BY TimesSame DEF Calm
<1>4. \A v \in DOMAIN version : Writer(v) \in Xact
  BY VersionFacts
<1>5. Apart'
  BY <1>2, <1>4, ApartSame DEF VInv, Calm
<1>6. ASSUME NEW y \in Xact PROVE Logged(y)'
  <2>1. xact'[y].undo = xact[y].undo /\ Logged(y) /\ xact[y].undo \in Seq(DOMAIN version)
    BY XactTypes DEF Calm, VInv
  <2>2. PICK s \in Seq(DOMAIN version) : s = xact[y].undo
    BY <2>1
  <2>3. Undoable(s, y)'
    BY <1>2, <2>1, <2>2, UndoableSame DEF Logged
  <2>4. Undoable(xact[y].undo, y)'
    BY <2>1, <2>2, <2>3 DEF Undoable
  <2>5. (Standing(y) /\ y # Loader => \A v \in DOMAIN version : Writer(v) = y => v \in Elems(xact[y].undo))'
    BY <1>2, <2>1, CalmStanding DEF Logged
  <2> QED
    BY <2>4, <2>5 DEF Logged
<1>7. ASSUME NEW e \in DOMAIN entry \ removed PROVE Topped(e)'
  <2>1. PICK v \in DOMAIN version : v = NewestOf(e) /\ v = NewestOf(e)' /\ Writer(v) \in Xact
    BY <1>1, <1>4, Newest
  <2>2. Topped(e)
    BY DEF VInv
  <2>3. ASSUME NEW u \in Thread, th[u].x = Writer(v), th[u].pc = "unchain" => v \in Elems(th[u].todo)
        PROVE  Topped(e)'
    <3>1. th'[u] = th[u] \/ Moves(u)
      BY DEF Calm
    <3> QED
      BY <1>3, <2>1, <2>3, <3>1 DEF Moves, Topped
  <2> QED
    BY <1>3, <2>1, <2>2, <2>3 DEF Topped
<1>8. \A y \in Xact : Onward(y)
  BY CalmStanding DEF Onward, Calm, SameTimes
<1>9. SeenOn
  BY CalmStanding DEF SeenOn, Seen, Calm, SameTimes
<1> QED
  BY <1>2, <1>5, <1>6, <1>7, <1>8, <1>9, Steady DEF Calm

(* A calm step of t alone, after which the versions are as they were.      *)
StillVersions == UNCHANGED <<version, entry, removed>>

LEMMA WayKept ==
  ASSUME IInv, NEW u \in Thread, OnTheWay(u), th'[u] = th[u],
         \A v \in DOMAIN version : version'[v].oldV = version[v].oldV,
         th[u].pc = "supersede" => version'[th[u].found].valid,
         th[u].x \in Xact => (Committed(th[u].x) => Committed(th[u].x)'),
         timestampGen <= timestampGen', timestampGen' \in Nat,
         \A n \in Nat : n <= timestampGen /\ Seen(n) => Seen(n)'
  PROVE  OnTheWay(u)'
<1>1. PICK w \in ThreadType : w = th[u] /\ w = th'[u]
  BY ThreadFacts
<1>2. w.oldest \in Nat /\ w.todo \in Seq(DOMAIN version) /\ w.x \in NoneOr(Xact) /\ timestampGen \in Nat
  BY <1>1 DEF ThreadType, IInv, ManagerTypes
<1>3. w.pc = "unchain" => Undoable(w.todo, w.x)'
  <2>1. PICK s \in Seq(DOMAIN version), x \in {w.x} : s = w.todo
    BY <1>2
  <2>2. w.pc = "unchain" => Undoable(s, x)'
    BY <1>1, <2>1, UndoableSame DEF OnTheWay
  <2> QED
    BY <2>1, <2>2 DEF Undoable
<1>4. w.pc \in {"collect", "scan", "sweep"} => Committed(w.x)'
  <2>1. w.pc \in {"collect", "scan", "sweep"} => w.x \in Xact
    BY <1>1, ThreadFacts
  <2>2. PICK x : x = w.x
    OBVIOUS
  <2> QED
    BY <1>1, <2>1, <2>2 DEF OnTheWay, Committed
<1>5. w.pc \in {"scan", "sweep"} => w.oldest <= timestampGen'
  BY <1>1, <1>2 DEF OnTheWay
<1>6. w.pc = "sweep" => Seen(w.oldest)'
  <2>1. PICK n \in Nat : n = w.oldest
    BY <1>2
  <2>2. w.pc = "sweep" => Seen(n)'
    BY <1>1, <2>1 DEF OnTheWay
  <2> QED
    BY <2>1, <2>2 DEF Seen
<1>7. w.pc = "supersede" => version'[w.found].valid
  BY <1>1
<1> QED
  BY <1>1, <1>3, <1>4, <1>5, <1>6, <1>7 DEF OnTheWay, Undoable, Seen, Committed

(* What the reads of a step are.                                           *)
ReadsWell ==
  /\ reads' \in [Xact -> SUBSET DOMAIN version]
  /\ \A x \in Xact : \A v \in reads'[x] : Begun(x) /\ (v \in reads[x] \/ Snapshot(x, v))

LEMMA ReadsSame ==
  ASSUME VInv, reads' = reads
  PROVE  ReadsWell
BY DEF VInv, ReadsRight, ReadsWell

LEMMA CalmReads ==
  ASSUME IInv, VInv, Calm, ReadsWell
  PROVE  ReadsRight'
<1>1. \A z \in Xact : xact'[z].startTS \in Nat /\ xact'[z].commitTS \in Nat
  BY XactTypes DEF Calm, SameTimes
<1>2. \A u \in DOMAIN version : Writer(u) \in Xact
  BY VersionFacts
<1>3. \A u \in DOMAIN version : xact'[Writer(u)].commitTS = xact[Writer(u)].commitTS
  BY <1>2 DEF Calm, SameTimes
<1> QED
  BY <1>1, <1>2, <1>3, ReadsOn DEF ReadsWell, VInv, Calm, SameChains, SameTimes

LEMMA SeenSame ==
  ASSUME IInv, SameTimes, overlooked \subseteq overlooked',
         \A y \in Xact : Running(y)' => Running(y)
  PROVE  \A n : Seen(n) => Seen(n)'
BY DEF Seen, SameTimes

LEMMA CalmOne ==
  ASSUME IInv, VInv, IInv', StillVersions, NEW t \in Thread, Moves(t),
         \A u \in Thread \ {t} : th'[u] = th[u],
         SameTimes, \A y \in Xact : xact'[y].undo = xact[y].undo,
         timestampGen <= timestampGen', overlooked \subseteq overlooked',
         ReadsWell, OnTheWay(t)'
  PROVE  VInv'
<1>1. /\ version' = version /\ entry' = entry /\ removed' = removed
  BY DEF StillVersions
<1>2. Calm
  BY <1>1 DEF Calm, SameChains
<1>3. ASSUME NEW u \in Thread PROVE OnTheWay(u)'
  <2>1. CASE u = t
    BY <2>1
  <2>2. CASE u # t
    <3>1. OnTheWay(u) /\ th'[u] = th[u]
      BY <2>2 DEF VInv
    <3>2. th[u].pc = "supersede" => version'[th[u].found].valid
      BY <1>1, <3>1 DEF OnTheWay
    <3>3. timestampGen' \in Nat
      BY DEF IInv, ManagerTypes
    <3>4. \A n \in Nat : n <= timestampGen /\ Seen(n) => Seen(n)'
      BY <1>2, CalmStanding, SeenSame DEF Calm
    <3>5. th[u].x \in Xact => (Committed(th[u].x) => Committed(th[u].x)')
      BY <3>1 DEF SameTimes, Committed
    <3> QED
      BY <1>1, <3>1, <3>2, <3>3, <3>4, <3>5, WayKept
  <2> QED
    BY <2>1, <2>2
<1>4. ReadsRight'
  BY <1>2, CalmReads
<1> QED
  BY <1>2, <1>3, <1>4, CalmStep

(* The steps after which t is not on its way to change a chain.            *)
LEMMA EasyStep ==
  ASSUME IInv, VInv, IInv', StillVersions, NEW t \in Thread,
         th[t].pc # "unchain", th'[t].pc \notin {"unchain", "supersede", "collect", "scan", "sweep"},
         th'[t].x = th[t].x \/ (th'[t].x = NoXact /\ Committed(th[t].x)),
         \A u \in Thread \ {t} : th'[u] = th[u],
         SameTimes, \A y \in Xact : xact'[y].undo = xact[y].undo,
         timestampGen <= timestampGen', overlooked \subseteq overlooked', ReadsWell
  PROVE  VInv'
<1>1. Moves(t)
  BY DEF Moves
<1>2. OnTheWay(t)'
  BY DEF OnTheWay
<1> QED
  BY <1>1, <1>2, CalmOne

LEMMA XactSame ==
  ASSUME xact' = xact
  PROVE  SameTimes /\ \A y \in Xact : xact'[y].undo = xact[y].undo
BY DEF SameTimes

LEMMA ClockType ==
  ASSUME IInv
  PROVE  timestampGen <= timestampGen /\ timestampGen \in Nat
BY DEF IInv, ManagerTypes

(* Nothing changes that the invariant speaks of.                           *)
LEMMA NothingMoves ==
  ASSUME IInv, VInv, IInv', StillVersions, xact' = xact, th' = th, timestampGen' = timestampGen,
         overlooked' = overlooked, reads' = reads
  PROVE  VInv'
<1>1. version' = version /\ entry' = entry /\ removed' = removed
  BY DEF StillVersions
<1>2. Calm
  BY <1>1 DEF Calm, SameChains, SameTimes
<1>3. ASSUME NEW u \in Thread PROVE OnTheWay(u)'
  <2>1. OnTheWay(u)
    BY DEF VInv
  <2>2. \A n : Seen(n) => Seen(n)'
    BY <1>2, CalmStanding, SeenSame DEF Calm
  <2>3. th[u].pc = "supersede" => version'[th[u].found].valid
    BY <1>1, <2>1 DEF OnTheWay
  <2>4. th[u].x \in Xact => (Committed(th[u].x) => Committed(th[u].x)')
    BY DEF Committed
  <2> QED
    BY <1>1, <2>1, <2>2, <2>3, <2>4, ClockType, WayKept
<1>4. ReadsRight'
  <2>1. ReadsRight
    BY DEF VInv
  <2> QED
    BY <1>1, <2>1 DEF ReadsRight, ReadsAreSnapshot, Begun
<1> QED
  BY <1>2, <1>3, <1>4, CalmStep

-----------------------------------------------------------------------------
(* The operations that read.                                               *)

LEMMA CallsWell ==
  ASSUME IInv, VInv, IInv', NEW t \in Thread, th[t].pc \in Working
  PROVE  /\ FoundNothing(t) => VInv'
         /\ Conflict(t) => VInv'
<1>1. ASSUME NEW pc \in {"run", "abort"}, Called(t, pc), UNCHANGED <<storeVars, xact, managerVars, crashed, ghostVars>>
      PROVE  VInv'
  <2>1. /\ \A u \in Thread \ {t} : th'[u] = th[u]
        /\ th'[t].x = th[t].x /\ th'[t].pc = pc
    BY <1>1, Calling
  <2>2. /\ StillVersions /\ xact' = xact /\ timestampGen' = timestampGen
        /\ overlooked' = overlooked /\ reads' = reads
    BY <1>1 DEF storeVars, managerVars, ghostVars, StillVersions
  <2>3. th[t].pc # "unchain"
    BY DEF Working
  <2> QED
    BY <2>1, <2>2, <2>3, XactSame, ReadsSame, ClockType, EasyStep
<1> QED
  BY <1>1 DEF FoundNothing, Conflict

LEMMA PredsOnly ==
  ASSUME IInv, NEW x \in Xact, NEW p, xact' = [xact EXCEPT ![x].preds = @ \cup {p}]
  PROVE  SameTimes /\ \A y \in Xact : xact'[y].undo = xact[y].undo
<1>1. xact \in [Xact -> XactType]
  BY DEF IInv, ManagerTypes
<1>2. PICK P : P = xact[x].preds \cup {p}
  OBVIOUS
<1>3. xact' = [xact EXCEPT ![x] = [xact[x] EXCEPT !.preds = P]]
  BY <1>1, <1>2
<1>4. PICK w \in XactType : w = xact[x]
  BY <1>1
<1>5. /\ [w EXCEPT !.preds = P].startTS = w.startTS /\ [w EXCEPT !.preds = P].commitTS = w.commitTS
      /\ [w EXCEPT !.preds = P].undo = w.undo
  BY DEF XactType
<1> QED
  BY <1>1, <1>3, <1>4, <1>5 DEF SameTimes

(* What x reads of others has to be its snapshot.                          *)
LEMMA ReadMore ==
  ASSUME IInv, VInv, NEW x \in Xact, Begun(x), NEW W \in SUBSET DOMAIN version, reads' = [reads EXCEPT ![x] = @ \cup W],
         \A v \in W : Snapshot(x, v)
  PROVE  ReadsWell
<1>1. reads \in [Xact -> SUBSET DOMAIN version] /\ \A y \in Xact : ~Begun(y) => reads[y] = {}
  BY DEF VInv, ReadsRight
<1>2. reads'[x] = reads[x] \cup W /\ \A y \in Xact \ {x} : reads'[y] = reads[y]
  BY <1>1
<1>3. reads' \in [Xact -> SUBSET DOMAIN version]
  BY <1>1
<1> QED
  BY <1>1, <1>2, <1>3 DEF ReadsWell

LEMMA FoundWell ==
  ASSUME IInv, VInv, IInv', NEW t \in Thread, th[t].pc \in Working, NEW p, NEW vs, Found(t, p, vs), StillVersions,
         \A v \in vs : v \in DOMAIN version /\ (Writer(v) # th[t].x => Snapshot(th[t].x, v))
  PROVE  VInv'
<1>1. PICK x \in Xact : x = th[t].x /\ Begun(x)
  BY ThreadFacts DEF Working
<1>2. /\ xact' = [xact EXCEPT ![x].preds = @ \cup {p}]
      /\ reads' = [reads EXCEPT ![x] = @ \cup {v \in vs : Writer(v) # x}]
      /\ Called(t, "run")
      /\ UNCHANGED <<managerVars, crashed, overlooked>>
  BY <1>1 DEF Found
<1>3. SameTimes /\ \A y \in Xact : xact'[y].undo = xact[y].undo
  BY <1>2, PredsOnly
<1>4. ReadsWell
  <2> DEFINE W == {v \in vs : Writer(v) # x}
  <2>1. W \in SUBSET DOMAIN version /\ \A v \in W : Snapshot(x, v)
    BY <1>1
  <2>2. reads' = [reads EXCEPT ![x] = @ \cup W]
    BY <1>2
  <2> HIDE DEF W
  <2> QED
    BY <1>1, <2>1, <2>2, ReadMore
<1>5. /\ \A u \in Thread \ {t} : th'[u] = th[u]
      /\ th'[t].x = th[t].x /\ th'[t].pc = "run"
  BY <1>2, Calling
<1>6. timestampGen' = timestampGen /\ overlooked' = overlooked /\ th[t].pc # "unchain"
  BY <1>2 DEF managerVars, Working
<1> QED
  BY <1>3, <1>4, <1>5, <1>6, ClockType, EasyStep

LEMMA CrashWell ==
  ASSUME IInv, VInv, IInv', Crash
  PROVE  VInv'
<1>1. /\ StillVersions /\ xact' = xact /\ th' = th /\ timestampGen' = timestampGen
      /\ overlooked' = overlooked /\ reads' = reads
  BY DEF Crash, storeVars, managerVars, ghostVars, StillVersions
<1> QED
  BY <1>1, NothingMoves

LEMMA GetWell ==
  ASSUME IInv, VInv, IInv', NEW t \in Thread, NEW k \in Key, Get(t, k)
  PROVE  VInv'
<1>1. th[t].pc \in Working
  BY DEF Get, Calls, At, Working
<1>2. CASE FoundNothing(t)
  BY <1>1, <1>2, CallsWell
<1>3. CASE Crash
  BY <1>3, CrashWell
<1>4. ASSUME index[k] # Null, NEW v, v = CorrectVersion(th[t].x, index[k]), v # Null,
             Found(t, GetPred(k), {v}), UNCHANGED storeVars
      PROVE  VInv'
  <2>1. PICK x \in Xact : x = th[t].x /\ Begun(x) /\ ~Committed(x)
    BY <1>1, ThreadFacts DEF Uncommitted
  <2>2. index[k] \in DOMAIN entry
    BY <1>4 DEF IInv, StoreTypes
  <2>3. v \in DOMAIN version /\ (Writer(v) # x => Snapshot(x, v))
    BY <1>4, <2>1, <2>2, ReadingSnapshot
  <2>4. StillVersions
    BY <1>4 DEF storeVars, StillVersions
  <2>5. \A u \in {v} : u \in DOMAIN version /\ (Writer(u) # th[t].x => Snapshot(th[t].x, u))
    BY <2>1, <2>3
  <2> QED
    BY <1>1, <1>4, <2>4, <2>5, FoundWell
<1> QED
  BY <1>2, <1>3, <1>4 DEF Get

LEMMA ForeachWell ==
  ASSUME IInv, VInv, IInv', NEW t \in Thread, Foreach(t)
  PROVE  VInv'
<1>1. th[t].pc \in Working
  BY DEF Foreach, Calls, At, Working
<1> DEFINE seen == {CorrectVersion(th[t].x, rows[i]) : i \in DOMAIN rows}
<1>2. CASE Crash
  BY <1>2, CrashWell
<1>3. ASSUME Null \notin seen, Found(t, ForEachPred, seen), UNCHANGED storeVars PROVE VInv'
  <2>1. PICK x \in Xact : x = th[t].x /\ Begun(x) /\ ~Committed(x)
    BY <1>1, ThreadFacts DEF Uncommitted
  <2>2. \A i \in DOMAIN rows : rows[i] \in DOMAIN entry
    BY DEF IInv, StoreTypes
  <2>3. ASSUME NEW u \in seen
        PROVE  u \in DOMAIN version /\ (Writer(u) # th[t].x => Snapshot(th[t].x, u))
    <3>1. PICK i \in DOMAIN rows : u = CorrectVersion(x, rows[i])
      BY <2>1, <2>3
    <3>2. PICK e \in DOMAIN entry : e = rows[i]
      BY <2>2
    <3>3. u = CorrectVersion(x, e) /\ u # Null
      BY <1>3, <2>3, <3>1, <3>2
    <3> QED
      BY <2>1, <3>3, ReadingSnapshot
  <2>4. StillVersions
    BY <1>3 DEF storeVars, StillVersions
  <2> HIDE DEF seen
  <2> QED
    BY <1>1, <1>3, <2>3, <2>4, FoundWell
<1> QED
  BY <1>2, <1>3 DEF Foreach

LEMMA SliceNoUpdateWell ==
  ASSUME IInv, VInv, IInv', NEW t \in Thread, NEW s, SliceNoUpdate(t, s)
  PROVE  VInv'
<1>1. th[t].pc \in Working
  BY DEF SliceNoUpdate, Calls, At, Working
<1> DEFINE seen == {CorrectVersion(th[t].x, Live(s)[i]) : i \in DOMAIN Live(s)}
           vs == {v \in seen \ {Null} : version[v].valid}
<1>2. CASE FoundNothing(t)
  BY <1>1, <1>2, CallsWell
<1>3. CASE Crash
  BY <1>3, CrashWell
<1>4. ASSUME s \in DOMAIN slice, Found(t, SlicePred(s), vs),
             UNCHANGED <<version, entry, index, rows, removed>>
      PROVE  VInv'
  <2>1. PICK x \in Xact : x = th[t].x /\ Begun(x) /\ ~Committed(x)
    BY <1>1, ThreadFacts DEF Uncommitted
  <2>2. \A i \in DOMAIN Live(s) : Live(s)[i] \in DOMAIN entry
    <3>1. slice[s] \in Seq(DOMAIN entry)
      BY <1>4 DEF IInv, StoreTypes
    <3>2. PICK q \in Seq(DOMAIN entry) : q = Live(s)
      BY <3>1, KeepType DEF Live
    <3> QED
      BY <3>2
  <2>3. ASSUME NEW u \in vs
        PROVE  u \in DOMAIN version /\ (Writer(u) # th[t].x => Snapshot(th[t].x, u))
    <3>1. PICK i \in DOMAIN Live(s) : u = CorrectVersion(x, Live(s)[i])
      BY <2>1, <2>3
    <3>2. PICK e \in DOMAIN entry : e = Live(s)[i]
      BY <2>2
    <3>3. u = CorrectVersion(x, e) /\ u # Null
      BY <2>3, <3>1, <3>2
    <3> QED
      BY <2>1, <3>3, ReadingSnapshot
  <2>4. StillVersions
    BY <1>4 DEF StillVersions
  <2> HIDE DEF vs
  <2> QED
    BY <1>1, <1>4, <2>3, <2>4, FoundWell
<1> QED
  BY <1>2, <1>3, <1>4 DEF SliceNoUpdate

(* t goes on to write over what it has found, or to the rows of a slice.   *)
LEMMA WorkingOn ==
  ASSUME IInv, VInv, IInv', NEW t \in Thread, th[t].pc \in Working, UNCHANGED <<storeVars, xact, managerVars, crashed, ghostVars>>,
         \A u \in Thread \ {t} : th'[u] = th[u], th'[t].x = th[t].x, th'[t].pc \in {"supersede", "slice"},
         th'[t].pc = "supersede" => version[th'[t].found].valid
  PROVE  VInv'
<1>1. /\ StillVersions /\ version' = version /\ xact' = xact /\ timestampGen' = timestampGen
      /\ overlooked' = overlooked /\ reads' = reads
  BY DEF storeVars, managerVars, ghostVars, StillVersions
<1>2. Moves(t)
  BY DEF Working, Moves
<1>3. OnTheWay(t)'
  BY <1>1 DEF OnTheWay
<1> QED
  BY <1>1, <1>2, <1>3, XactSame, ReadsSame, ClockType, CalmOne

LEMMA GetForUpdateWell ==
  ASSUME IInv, VInv, IInv', NEW t \in Thread, NEW k \in Key, GetForUpdate(t, k)
  PROVE  VInv'
<1>1. th[t].pc \in Working /\ th \in [Thread -> ThreadType]
  BY CallFacts DEF GetForUpdate, Calls, At, Working
<1>2. CASE FoundNothing(t) \/ Conflict(t)
  BY <1>1, <1>2, CallsWell
<1>3. ASSUME index[k] # Null, NEW v, v = NewestOf(index[k]), version[v].valid,
             th' = [th EXCEPT ![t].pc = "supersede", ![t].found = v],
             UNCHANGED <<storeVars, xact, managerVars, crashed, ghostVars>>
      PROVE  VInv'
  <2>3. /\ th'[t] = [th[t] EXCEPT !.pc = "supersede", !.found = v]
        /\ \A u \in Thread \ {t} : th'[u] = th[u]
    BY <1>1, <1>3
  <2>4. th'[t].x = th[t].x /\ th'[t].pc = "supersede" /\ th'[t].found = v
    BY <1>1, <2>3 DEF ThreadType
  <2> QED
    BY <1>1, <1>3, <2>3, <2>4, WorkingOn
<1> QED
  BY <1>2, <1>3 DEF GetForUpdate

LEMMA SliceForUpdateWell ==
  ASSUME IInv, VInv, IInv', NEW t \in Thread, NEW s, SliceForUpdate(t, s)
  PROVE  VInv'
<1>1. th[t].pc \in Working /\ th \in [Thread -> ThreadType]
  BY CallFacts DEF SliceForUpdate, Calls, At, Working
<1>2. CASE FoundNothing(t)
  BY <1>1, <1>2, CallsWell
<1>3. CASE Crash
  BY <1>3, CrashWell
<1>4. ASSUME th' = [th EXCEPT ![t].pc = "slice", ![t].todo = slice[s], ![t].pending = SlicePred(s)],
             UNCHANGED <<storeVars, xact, managerVars, crashed, ghostVars>>
      PROVE  VInv'
  <2>2. PICK q, p : q = slice[s] /\ p = SlicePred(s)
    OBVIOUS
  <2>3. /\ th'[t] = [th[t] EXCEPT !.pc = "slice", !.todo = q, !.pending = p]
        /\ \A u \in Thread \ {t} : th'[u] = th[u]
    BY <1>1, <1>4, <2>2
  <2>4. th'[t].x = th[t].x /\ th'[t].pc = "slice"
    BY <1>1, <2>3 DEF ThreadType
  <2> QED
    BY <1>1, <1>4, <2>3, <2>4, WorkingOn
<1> QED
  BY <1>2, <1>3, <1>4 DEF SliceForUpdate

LEMMA SliceDoneWell ==
  ASSUME IInv, VInv, IInv', NEW t \in Thread, SliceDone(t)
  PROVE  VInv'
<1>1. th[t].pc \in Working /\ th[t].x \in Xact
  BY CallFacts DEF SliceDone, At, Working
<1>2. SameTimes /\ \A y \in Xact : xact'[y].undo = xact[y].undo
  BY <1>1, PredsOnly DEF SliceDone
<1>3. /\ \A u \in Thread \ {t} : th'[u] = th[u]
      /\ th'[t].x = th[t].x /\ th'[t].pc = "run"
  BY <1>1, Calling DEF SliceDone
<1>4. StillVersions /\ timestampGen' = timestampGen /\ overlooked' = overlooked /\ reads' = reads
  BY DEF SliceDone, storeVars, managerVars, ghostVars, StillVersions
<1>5. th[t].pc # "unchain"
  BY <1>1 DEF Working
<1> QED
  BY <1>2, <1>3, <1>4, <1>5, ReadsSame, ClockType, EasyStep

-----------------------------------------------------------------------------
(* Commit and garbage collection, but for what they do to the versions.    *)

(* What a transaction has read and written stays.                          *)
LEMMA OneFieldPrev ==
  ASSUME IInv, NEW x \in Xact, NEW p, xact' = [xact EXCEPT ![x].prev = p]
  PROVE  SameTimes /\ \A y \in Xact : xact'[y].undo = xact[y].undo
<1>1. PICK w \in XactType : w = xact[x] /\ xact \in [Xact -> XactType]
  BY DEF IInv, ManagerTypes
<1> DEFINE z == [w EXCEPT !.prev = p]
<1>2. xact' = [xact EXCEPT ![x] = z]
  BY <1>1
<1>3. z.startTS = w.startTS /\ z.commitTS = w.commitTS /\ z.undo = w.undo
  BY DEF XactType
<1> HIDE DEF z
<1> QED
  BY <1>1, <1>2, <1>3 DEF SameTimes

LEMMA OneFieldPreds ==
  ASSUME IInv, NEW x \in Xact, NEW P, xact' = [xact EXCEPT ![x].preds = P]
  PROVE  SameTimes /\ \A y \in Xact : xact'[y].undo = xact[y].undo
<1>1. PICK w \in XactType : w = xact[x] /\ xact \in [Xact -> XactType]
  BY DEF IInv, ManagerTypes
<1> DEFINE z == [w EXCEPT !.preds = P]
<1>2. xact' = [xact EXCEPT ![x] = z]
  BY <1>1
<1>3. z.startTS = w.startTS /\ z.commitTS = w.commitTS /\ z.undo = w.undo
  BY DEF XactType
<1> HIDE DEF z
<1> QED
  BY <1>1, <1>2, <1>3 DEF SameTimes

LEMMA PublishWell ==
  ASSUME IInv, VInv, IInv', NEW t \in Thread, PublishStart(t)
  PROVE  VInv'
<1>1. th[t].pc = "publish" /\ "run" \in Pc
  BY DEF PublishStart, At, Pc, Uncommitted, Working
<1>2. /\ \A u \in Thread \ {t} : th'[u] = th[u]
      /\ th'[t].pc = "run" /\ th'[t].x = th[t].x
  BY <1>1, Going DEF PublishStart
<1>3. StillVersions /\ xact' = xact /\ timestampGen' = timestampGen /\ overlooked' = overlooked /\ reads' = reads
  BY DEF PublishStart, storeVars, ghostVars, StillVersions
<1> QED
  BY <1>1, <1>2, <1>3, XactSame, ReadsSame, ClockType, EasyStep

LEMMA AbortWell ==
  ASSUME IInv, VInv, IInv', NEW t \in Thread, Abort(t)
  PROVE  VInv'
<1>1. th[t].pc # "unchain" /\ "rollback" \in Pc
  BY DEF Abort, At, Pc, Uncommitted
<1>2. /\ \A u \in Thread \ {t} : th'[u] = th[u]
      /\ th'[t].pc = "rollback" /\ th'[t].x = th[t].x
  BY <1>1, Going DEF Abort
<1>3. StillVersions /\ xact' = xact /\ timestampGen' = timestampGen /\ overlooked' = overlooked /\ reads' = reads
  BY DEF Abort, storeVars, managerVars, ghostVars, StillVersions
<1> QED
  BY <1>1, <1>2, <1>3, XactSame, ReadsSame, ClockType, EasyStep

LEMMA RoundWell ==
  ASSUME IInv, VInv, IInv', NEW t \in Thread, th[t].pc # "unchain", NEW end \in NoneOr(Xact), Round(t, end),
         StillVersions, xact' = xact, timestampGen' = timestampGen, overlooked' = overlooked, reads' = reads
  PROVE  VInv'
<1>1. /\ \A u \in Thread \ {t} : th'[u] = th[u]
      /\ th'[t].pc = "validate" /\ th'[t].x = th[t].x
  BY Rounding
<1> QED
  BY <1>1, XactSame, ReadsSame, ClockType, EasyStep

LEMMA ValidateAndCommitWell ==
  ASSUME IInv, VInv, IInv', NEW t \in Thread, ValidateAndCommit(t)
  PROVE  VInv'
<1>1. th[t].pc # "unchain" /\ NoXact \in NoneOr(Xact) /\ Round(t, NoXact)
  BY DEF ValidateAndCommit, At, NoneOr
<1>2. StillVersions /\ xact' = xact /\ timestampGen' = timestampGen /\ overlooked' = overlooked /\ reads' = reads
  BY DEF ValidateAndCommit, storeVars, managerVars, ghostVars, StillVersions
<1> QED
  BY <1>1, <1>2, RoundWell

LEMMA ValidateWell ==
  ASSUME IInv, VInv, IInv', NEW t \in Thread, Validate(t)
  PROVE  VInv'
<1>1. th[t].pc = "validate" /\ "rollback" \in Pc
  BY DEF Validate, At, Pc, Uncommitted
<1>2. StillVersions /\ xact' = xact /\ timestampGen' = timestampGen /\ overlooked' = overlooked /\ reads' = reads
  BY DEF Validate, storeVars, managerVars, ghostVars, StillVersions
<1>3. \A u \in Thread \ {t} : th'[u] = th[u]
  BY DEF Validate, IInv, ManagerTypes, Goto
<1>4. th'[t].pc \in {"validate", "rollback"} /\ th'[t].x = th[t].x
  <2>1. CASE Goto(t, "rollback")
    BY <1>1, <2>1, Going
  <2>2. ASSUME NEW c, th' = [th EXCEPT ![t].cur = c]
        PROVE  th'[t].pc \in {"validate", "rollback"} /\ th'[t].x = th[t].x
    <3>1. PICK w \in ThreadType : w = th[t] /\ w.pc = "validate" /\ th \in [Thread -> ThreadType]
      BY <1>1 DEF IInv, ManagerTypes
    <3>2. th'[t] = [w EXCEPT !.cur = c]
      BY <2>2, <3>1
    <3> QED
      BY <3>1, <3>2 DEF ThreadType
  <2> QED
    BY <2>1, <2>2 DEF Validate
<1> QED
  BY <1>1, <1>2, <1>3, <1>4, XactSame, ReadsSame, ClockType, EasyStep

LEMMA TryLockWell ==
  ASSUME IInv, VInv, IInv', NEW t \in Thread, TryLock(t)
  PROVE  VInv'
<1>1. th[t].pc = "validate" /\ "push" \in Pc /\ th[t].start \in NoneOr(Xact) /\ th[t].x \in Xact
  BY ThreadFacts DEF TryLock, At, Pc, Uncommitted, ThreadType
<1>2. StillVersions /\ timestampGen' = timestampGen /\ overlooked' = overlooked /\ reads' = reads
  BY DEF TryLock, storeVars, ghostVars, StillVersions
<1>3. CASE Round(t, th[t].start) /\ xact' = xact
  BY <1>1, <1>2, <1>3, RoundWell
<1>4. CASE xact' = [xact EXCEPT ![th[t].x].prev = th[t].start] /\ Goto(t, "push")
  <2>1. SameTimes /\ \A y \in Xact : xact'[y].undo = xact[y].undo
    BY <1>1, <1>4, OneFieldPrev
  <2>2. /\ \A u \in Thread \ {t} : th'[u] = th[u]
        /\ th'[t].pc = "push" /\ th'[t].x = th[t].x
    BY <1>1, <1>4, Going
  <2> QED
    BY <1>1, <1>2, <2>1, <2>2, ReadsSame, ClockType, EasyStep
<1> QED
  BY <1>3, <1>4 DEF TryLock

LEMMA PushWell ==
  ASSUME IInv, VInv, IInv', NEW t \in Thread, Push(t)
  PROVE  VInv'
<1>1. th[t].pc = "push" /\ "draw" \in Pc /\ th[t].start \in NoneOr(Xact)
  BY ThreadFacts DEF Push, At, Pc, Uncommitted, ThreadType
<1>2. StillVersions /\ xact' = xact /\ timestampGen' = timestampGen /\ overlooked' = overlooked /\ reads' = reads
  BY DEF Push, storeVars, ghostVars, StillVersions
<1>3. CASE Round(t, th[t].start)
  BY <1>1, <1>2, <1>3, RoundWell
<1>4. CASE Goto(t, "draw")
  <2>1. /\ \A u \in Thread \ {t} : th'[u] = th[u]
        /\ th'[t].pc = "draw" /\ th'[t].x = th[t].x
    BY <1>1, <1>4, Going
  <2> QED
    BY <1>1, <1>2, <2>1, XactSame, ReadsSame, ClockType, EasyStep
<1> QED
  BY <1>3, <1>4 DEF Push

LEMMA DrawWell ==
  ASSUME IInv, VInv, IInv', NEW t \in Thread, DrawCommitTS(t)
  PROVE  VInv'
<1>1. th[t].pc = "draw" /\ timestampGen' = timestampGen + 1 /\ timestampGen \in Nat
  BY DEF DrawCommitTS, At, IInv, ManagerTypes
<1>2. StillVersions /\ xact' = xact /\ overlooked' = overlooked /\ reads' = reads
  BY DEF DrawCommitTS, storeVars, ghostVars, StillVersions
<1>3. PICK w \in ThreadType, g \in Nat : w = th[t] /\ g = timestampGen /\ th \in [Thread -> ThreadType]
  BY <1>1 DEF IInv, ManagerTypes
<1>4. th' = [th EXCEPT ![t] = [w EXCEPT !.pc = "store", !.drawn = g]]
  BY <1>3 DEF DrawCommitTS
<1>5. /\ \A u \in Thread \ {t} : th'[u] = th[u]
      /\ th'[t].pc = "store" /\ th'[t].x = th[t].x
  BY <1>3, <1>4 DEF ThreadType
<1> QED
  BY <1>1, <1>2, <1>5, XactSame, ReadsSame, EasyStep

LEMMA ClearWell ==
  ASSUME IInv, VInv, IInv', NEW t \in Thread, ClearActive(t)
  PROVE  VInv'
<1>1. th[t].pc = "clear" /\ "collect" \in Pc /\ th[t].x \in Xact
  BY ThreadFacts DEF ClearActive, At, Pc
<1>2. StillVersions /\ timestampGen' = timestampGen /\ overlooked' = overlooked /\ reads' = reads
  BY DEF ClearActive, storeVars, ghostVars, StillVersions
<1>3. SameTimes /\ \A y \in Xact : xact'[y].undo = xact[y].undo
  BY <1>1, OneFieldPreds DEF ClearActive
<1>4. /\ \A u \in Thread \ {t} : th'[u] = th[u]
      /\ th'[t].pc = "collect" /\ th'[t].x = th[t].x
  BY <1>1, Going DEF ClearActive
<1>5. Committed(th[t].x)
  BY <1>1 DEF IInv, OneThreadEach, RunsOne
<1>6. Committed(th[t].x)'
  BY <1>1, <1>3, <1>4, <1>5 DEF SameTimes, Committed
<1>7. OnTheWay(t)' /\ Moves(t)
  BY <1>1, <1>4, <1>6 DEF OnTheWay, Moves
<1> QED
  BY <1>2, <1>3, <1>4, <1>7, ReadsSame, ClockType, CalmOne

(* The collector lets the thread go.                                       *)
LEMMA FinishWell ==
  ASSUME IInv, VInv, IInv', NEW t \in Thread, th[t].pc \in {"collect", "sweep"}, Finish(t),
         StillVersions, xact' = xact, timestampGen' = timestampGen, overlooked' = overlooked, reads' = reads
  PROVE  VInv'
<1>1. /\ \A u \in Thread \ {t} : th'[u] = th[u]
      /\ th'[t].pc = "idle" /\ th'[t].x = NoXact
  BY Finishing
<1>2. Committed(th[t].x)
  BY DEF VInv, OnTheWay
<1> QED
  BY <1>1, <1>2, XactSame, ReadsSame, ClockType, EasyStep

LEMMA CollectWell ==
  ASSUME IInv, VInv, IInv', NEW t \in Thread, Collect(t)
  PROVE  VInv'
<1>1. th[t].pc = "collect" /\ th[t].x \in Xact
  BY ThreadFacts DEF Collect, At
<1>2. StillVersions /\ xact' = xact /\ timestampGen' = timestampGen /\ overlooked' = overlooked /\ reads' = reads
  BY DEF Collect, storeVars, ghostVars, StillVersions
<1>3. CASE Finish(t)
  BY <1>1, <1>2, <1>3, FinishWell
<1>4. CASE th' = [th EXCEPT ![t].pc = "scan", ![t].oldest = timestampGen, ![t].slots = Thread]
  <2>1. PICK w \in ThreadType, n \in Nat : w = th[t] /\ n = timestampGen /\ th \in [Thread -> ThreadType]
    BY DEF IInv, ManagerTypes
  <2>2. th' = [th EXCEPT ![t] = [w EXCEPT !.pc = "scan", !.oldest = n, !.slots = Thread]]
    BY <1>4, <2>1
  <2>3. /\ \A u \in Thread \ {t} : th'[u] = th[u]
        /\ th'[t].pc = "scan" /\ th'[t].x = th[t].x /\ th'[t].oldest = n
    BY <2>1, <2>2 DEF ThreadType
  <2>4. Committed(th[t].x)
    BY <1>1 DEF VInv, OnTheWay
  <2>5. OnTheWay(t)' /\ Moves(t)
    BY <1>1, <1>2, <2>1, <2>3, <2>4 DEF OnTheWay, Moves, Committed
  <2> QED
    BY <1>2, <2>3, <2>5, XactSame, ReadsSame, ClockType, CalmOne
<1> QED
  BY <1>3, <1>4 DEF Collect

LEMMA ScanWell ==
  ASSUME IInv, VInv, IInv', NEW t \in Thread, ScanActive(t)
  PROVE  VInv'
<1>1. th[t].pc = "scan" /\ th[t].slots # {} /\ th[t].x \in Xact
  BY ThreadFacts DEF ScanActive, At
<1>2. StillVersions /\ xact' = xact /\ timestampGen' = timestampGen /\ overlooked' = overlooked /\ reads' = reads
  BY DEF ScanActive, storeVars, managerVars, ghostVars, StillVersions
<1>3. PICK w \in ThreadType : w = th[t] /\ w.oldest \in Nat /\ w.slots \in SUBSET Thread /\ th \in [Thread -> ThreadType]
  BY DEF IInv, ManagerTypes, ThreadType
<1>4. PICK u \in Thread : u = CHOOSE v \in th[t].slots : TRUE
  BY <1>1, <1>3
<1>5. activeXactStartTS[u] \in Nat
  BY DEF IInv, ManagerTypes
<1>6. PICK n \in Nat : n = (IF activeXactStartTS[u] < w.oldest THEN activeXactStartTS[u] ELSE w.oldest) /\ n <= w.oldest
  BY <1>3, <1>5
<1>7. th' = [th EXCEPT ![t] = [w EXCEPT !.slots = w.slots \ {u}, !.oldest = n]]
  <2>1. th' = [th EXCEPT ![t].slots = w.slots \ {u}, ![t].oldest = n]
    BY <1>3, <1>4, <1>6 DEF ScanActive, ThreadType
  <2> QED
    BY <1>3, <2>1
<1>8. /\ \A v \in Thread \ {t} : th'[v] = th[v]
      /\ th'[t].pc = "scan" /\ th'[t].x = th[t].x /\ th'[t].oldest = n
  BY <1>1, <1>3, <1>7 DEF ThreadType
<1>9. Committed(th[t].x) /\ th[t].oldest <= timestampGen /\ timestampGen \in Nat
  BY <1>1 DEF VInv, OnTheWay, IInv, ManagerTypes
<1>10. OnTheWay(t)' /\ Moves(t)
  BY <1>1, <1>2, <1>3, <1>6, <1>8, <1>9 DEF OnTheWay, Moves, Committed
<1> QED
  BY <1>2, <1>8, <1>10, XactSame, ReadsSame, ClockType, CalmOne

LEMMA CutWell ==
  ASSUME IInv, VInv, IInv', NEW t \in Thread, CutCommitted(t)
  PROVE  VInv'
<1>1. th[t].pc = "scan" /\ th[t].x \in Xact /\ Committed(th[t].x) /\ th[t].oldest <= timestampGen
  BY ThreadFacts DEF CutCommitted, At, VInv, OnTheWay
<1>2. StillVersions /\ timestampGen' = timestampGen /\ reads' = reads
  BY DEF CutCommitted, storeVars, StillVersions
<1>3. /\ \A u \in Thread \ {t} : th'[u] = th[u]
      /\ th'[t].pc = "sweep" /\ th'[t].x = th[t].x
  BY Cutting
<1>4. PICK w \in ThreadType, n \in Nat : w = th[t] /\ n = w.oldest /\ th \in [Thread -> ThreadType]
  BY DEF IInv, ManagerTypes, ThreadType
<1>5. th'[t].oldest = n
  <2>1. PICK s : th' = [th EXCEPT ![t].pc = "sweep", ![t].todo = s]
    BY DEF CutCommitted
  <2>2. th'[t] = [w EXCEPT !.pc = "sweep", !.todo = s]
    BY <1>4, <2>1
  <2> QED
    BY <1>4, <2>2 DEF ThreadType
<1>6. SameTimes /\ \A y \in Xact : xact'[y].undo = xact[y].undo
  <2>1. PICK list : list = CommittedFrom(committedXactsTail) /\ \E m \in Nat : Cut(t, list, m)
    BY Cutting
  <2>2. PICK m \in Nat : Cut(t, list, m)
    BY <2>1
  <2>3. CASE xact' = xact
    BY <2>3, XactSame
  <2>4. CASE m # 0 /\ m # Len(list) /\ xact' = [xact EXCEPT ![list[m]].prev = NoXact]
    <3>1. list[m] \in Xact
      BY <2>2, <2>4 DEF Cut
    <3> QED
      BY <2>4, <3>1, OneFieldPrev
  <2> QED
    BY <2>2, <2>3, <2>4 DEF Cut
<1>7. overlooked' = overlooked \cup {x \in Xact : Running(x) /\ xact[x].startTS < n}
  BY <1>4 DEF CutCommitted
<1>8. \A u \in Thread : th'[u].x = th[u].x
  BY <1>3
<1>9. Seen(n)'
  <2> SUFFICES ASSUME NEW x \in Xact, x \notin overlooked', Running(x)' PROVE n <= xact'[x].startTS
    BY DEF Seen
  <2>1. Running(x) /\ xact'[x].startTS = xact[x].startTS /\ xact[x].startTS \in Nat
    BY <1>6, <1>8, XactTypes DEF Running, SameTimes, Begun
  <2> QED
    BY <1>7, <2>1
<1>10. OnTheWay(t)'
  <2>1. Committed(th[t].x)'
    BY <1>1, <1>3, <1>6 DEF Committed, SameTimes
  <2>3. Seen(th[t].oldest)'
    BY <1>5, <1>9 DEF Seen
  <2>4. th'[t].oldest <= timestampGen'
    BY <1>1, <1>2, <1>4, <1>5
  <2>5. th'[t].pc = "sweep"
    BY <1>3
  <2> QED
    BY <2>1, <2>3, <2>4, <2>5 DEF OnTheWay
<1>11. Moves(t) /\ overlooked \subseteq overlooked'
  BY <1>1, <1>3, <1>7 DEF Moves
<1> QED
  BY <1>2, <1>3, <1>6, <1>10, <1>11, ReadsSame, ClockType, CalmOne

LEMMA CollectedWell ==
  ASSUME IInv, VInv, IInv', NEW t \in Thread, Collected(t)
  PROVE  VInv'
<1>1. th[t].pc = "sweep" /\ Finish(t)
  BY DEF Collected, At
<1>2. StillVersions /\ xact' = xact /\ timestampGen' = timestampGen /\ overlooked' = overlooked /\ reads' = reads
  BY DEF Collected, storeVars, ghostVars, StillVersions
<1> QED
  BY <1>1, <1>2, FinishWell

-----------------------------------------------------------------------------
(* Steps that change what a transaction is, or what a version says.        *)

LEMMA LoggedSame ==
  ASSUME IInv, VInv, SameChains, NEW y \in Xact, xact'[y].undo = xact[y].undo, Standing(y)' => Standing(y)
  PROVE  Logged(y)'
<1>1. Logged(y) /\ \A v \in DOMAIN version : version'[v].oldV = version[v].oldV
  BY DEF VInv, SameChains
<1>2. PICK s \in Seq(DOMAIN version) : s = xact[y].undo /\ s = xact'[y].undo
  BY XactTypes
<1>3. Undoable(s, y)'
  BY <1>1, <1>2, UndoableSame DEF Logged
<1>4. Undoable(xact[y].undo, y)'
  BY <1>2, <1>3 DEF Undoable
<1>5. (Standing(y) /\ y # Loader => \A v \in DOMAIN version : Writer(v) = y => v \in Elems(xact[y].undo))'
  BY <1>1, <1>2 DEF Logged, SameChains
<1> QED
  BY <1>4, <1>5 DEF Logged

LEMMA DeleteWell ==
  ASSUME IInv, VInv, IInv', NEW t \in Thread, Delete(t)
  PROVE  VInv'
<1>0. th[t].pc = "run" /\ th[t].pc \in Working
  BY DEF Delete, Calls, At, Working
<1>1. PICK x \in Xact \ {Loader} : x = th[t].x /\ ~Committed(x)
  BY <1>0, CallFacts
<1>2. PICK v : v = Head(xact[x].undo)
  OBVIOUS
<1>3. v \in DOMAIN version /\ Writer(v) = x
  <2>1. PICK s \in Seq(DOMAIN version) : s = xact[x].undo
    BY XactTypes
  <2>2. s # <<>>
    BY <1>1, <2>1 DEF Delete
  <2>3. 1 \in DOMAIN s /\ v = s[1] /\ s[1] \in DOMAIN version
    BY <1>2, <2>1, <2>2
  <2> QED
    BY <2>1, <2>3 DEF IInv, UndoOwn
<1>4. /\ version' = [version EXCEPT ![v].valid = FALSE]
      /\ Called(t, "run")
      /\ UNCHANGED <<entry, index, rows, removed, slice, xact, managerVars, crashed, ghostVars>>
  BY <1>1, <1>2 DEF Delete
<1>5. /\ DOMAIN version' = DOMAIN version
      /\ \A u \in DOMAIN version : u # v => version'[u] = version[u]
      /\ version'[v].entry = version[v].entry /\ version'[v].oldV = version[v].oldV
      /\ version'[v].xactid = version[v].xactid /\ ~version'[v].valid
  <2>1. PICK w \in VersionType : w = version[v] /\ version \in [DOMAIN version -> VersionType]
    BY <1>3 DEF IInv, StoreTypes
  <2>2. version' = [version EXCEPT ![v] = [w EXCEPT !.valid = FALSE]]
    BY <1>3, <1>4, <2>1
  <2> QED
    BY <1>3, <2>1, <2>2 DEF VersionType
<1>6. /\ \A u \in Thread \ {t} : th'[u] = th[u]
      /\ th'[t].x = th[t].x /\ th'[t].pc = "run"
  BY <1>0, <1>4, Calling
<1>7. SameTimes /\ (\A y \in Xact : xact'[y].undo = xact[y].undo) /\ timestampGen' = timestampGen
      /\ overlooked' = overlooked /\ reads' = reads /\ entry' = entry /\ removed' = removed
  BY <1>4, XactSame DEF managerVars, ghostVars
<1>8. Moves(t)
  BY <1>0, <1>6 DEF Moves
<1>9. Calm
  BY <1>5, <1>6, <1>7, <1>8 DEF Calm, SameChains
<1>10. ASSUME NEW u \in Thread PROVE OnTheWay(u)'
  <2>1. CASE u = t
    BY <1>6, <2>1 DEF OnTheWay
  <2>2. CASE u # t
    <3>1. OnTheWay(u) /\ th'[u] = th[u]
      BY <1>6, <2>2 DEF VInv
    <3>2. th[u].pc = "supersede" => version'[th[u].found].valid
      <4> SUFFICES ASSUME th[u].pc = "supersede" PROVE version'[th[u].found].valid
        OBVIOUS
      <4>1. PICK f \in DOMAIN version : f = th[u].found /\ MayFollow(th[u].x, f) /\ version[f].valid
        BY <3>1 DEF IInv, Writes, OnTheWay
      <4>2. th[u].x \in Xact
        BY ThreadFacts
      <4>3. Writer(f) # x
        BY <1>1, <2>2, <4>1, <4>2, FollowedCommitted, OtherXact
      <4> QED
        BY <1>3, <1>5, <4>1, <4>3
    <3>3. \A n \in Nat : n <= timestampGen /\ Seen(n) => Seen(n)'
      BY <1>7, <1>9, CalmStanding, SeenSame DEF Calm
    <3>4. th[u].x \in Xact => (Committed(th[u].x) => Committed(th[u].x)')
      BY <1>7, <3>1 DEF SameTimes, Committed
    <3>5. \A w \in DOMAIN version : version'[w].oldV = version[w].oldV
      BY <1>5
    <3>6. timestampGen <= timestampGen' /\ timestampGen' \in Nat
      BY <1>7, ClockType
    <3> QED
      BY <3>1, <3>2, <3>3, <3>4, <3>5, <3>6, WayKept
  <2> QED
    BY <2>1, <2>2
<1>11. ReadsRight'
  BY <1>7, <1>9, ReadsSame, CalmReads
<1> QED
  BY <1>9, <1>10, <1>11, CalmStep

LEMMA StampWell ==
  ASSUME IInv, VInv, IInv', NEW t \in Thread, StampVersions(t)
  PROVE  VInv'
<1>0. th[t].pc = "stamp" /\ "clear" \in Pc
  BY DEF StampVersions, At, Pc
<1>1. PICK x \in Xact : x = th[t].x
  BY <1>0, ThreadFacts
<1>2. PICK c : c = xact[x].commitTS
  OBVIOUS
<1>3. /\ version' = [v \in DOMAIN version |-> IF Writer(v) = x THEN [version[v] EXCEPT !.xactid = c] ELSE version[v]]
      /\ Goto(t, "clear")
      /\ UNCHANGED <<entry, index, rows, removed, slice, xact, managerVars, crashed, ghostVars>>
  BY <1>1, <1>2 DEF StampVersions
<1>4. /\ \A u \in Thread \ {t} : th'[u] = th[u]
      /\ th'[t].x = th[t].x /\ th'[t].pc = "clear"
  BY <1>0, <1>3, Going
<1>5. DOMAIN version' = DOMAIN version
  BY <1>3
<1>6. ASSUME NEW v \in DOMAIN version
      PROVE  /\ version'[v].entry = version[v].entry
             /\ version'[v].oldV = version[v].oldV /\ version'[v].valid = version[v].valid
             /\ version'[v].xactid \in {version[v].xactid, xact[Writer(v)].commitTS}
  <2>1. PICK w \in VersionType : w = version[v]
    BY VersionFacts
  <2>2. CASE Writer(v) = x
    <3>1. version'[v] = [w EXCEPT !.xactid = c]
      BY <1>3, <2>1, <2>2
    <3> QED
      BY <1>2, <2>1, <2>2, <3>1 DEF VersionType
  <2>3. CASE Writer(v) # x
    BY <1>3, <2>1, <2>3
  <2> QED
    BY <2>2, <2>3
<1>7. SameTimes /\ (\A y \in Xact : xact'[y].undo = xact[y].undo) /\ timestampGen' = timestampGen
      /\ overlooked' = overlooked /\ reads' = reads /\ entry' = entry /\ removed' = removed
  BY <1>3, XactSame DEF managerVars, ghostVars
<1>8. Moves(t)
  BY <1>0, <1>4 DEF Moves
<1>9. Calm
  BY <1>4, <1>5, <1>6, <1>7, <1>8 DEF Calm, SameChains
<1>10. ASSUME NEW u \in Thread PROVE OnTheWay(u)'
  <2>1. CASE u = t
    BY <1>4, <2>1 DEF OnTheWay
  <2>2. CASE u # t
    <3>1. OnTheWay(u) /\ th'[u] = th[u]
      BY <1>4, <2>2 DEF VInv
    <3>2. th[u].pc = "supersede" => version'[th[u].found].valid
      BY <1>6, <3>1 DEF IInv, Writes, OnTheWay
    <3>3. \A n \in Nat : n <= timestampGen /\ Seen(n) => Seen(n)'
      BY <1>7, <1>9, CalmStanding, SeenSame DEF Calm
    <3>4. th[u].x \in Xact => (Committed(th[u].x) => Committed(th[u].x)')
      BY <1>7, <3>1 DEF SameTimes, Committed
    <3>5. \A w \in DOMAIN version : version'[w].oldV = version[w].oldV
      BY <1>6
    <3>6. timestampGen <= timestampGen' /\ timestampGen' \in Nat
      BY <1>7, ClockType
    <3> QED
      BY <3>1, <3>2, <3>3, <3>4, <3>5, <3>6, WayKept
  <2> QED
    BY <2>1, <2>2
<1>11. ReadsRight'
  BY <1>7, <1>9, ReadsSame, CalmReads
<1> QED
  BY <1>9, <1>10, <1>11, CalmStep

(* The other threads stay on their way.                                    *)
LEMMA OthersOnTheWay ==
  ASSUME IInv, VInv, StillVersions, NEW t \in Thread, \A u \in Thread \ {t} : th'[u] = th[u],
         timestampGen <= timestampGen', timestampGen' \in Nat, SeenOn,
         \A y \in Xact : Committed(y) => Committed(y)', OnTheWay(t)'
  PROVE  \A u \in Thread : OnTheWay(u)'
<1> SUFFICES ASSUME NEW u \in Thread, u # t PROVE OnTheWay(u)'
  OBVIOUS
<1>1. OnTheWay(u) /\ th'[u] = th[u] /\ version' = version
  BY DEF VInv, StillVersions
<1>2. th[u].pc = "supersede" => version'[th[u].found].valid
  BY <1>1 DEF OnTheWay
<1>3. \A w \in DOMAIN version : version'[w].oldV = version[w].oldV
  BY <1>1
<1>4. th[u].x \in Xact => (Committed(th[u].x) => Committed(th[u].x)')
  <2>1. PICK y : y = th[u].x
    OBVIOUS
  <2>2. y \in Xact => (Committed(y) => Committed(y)')
    OBVIOUS
  <2> QED
    BY <1>1, <2>1, <2>2 DEF Committed
<1> QED
  BY <1>1, <1>2, <1>3, <1>4, WayKept DEF SeenOn

LEMMA RollbackWell ==
  ASSUME IInv, VInv, IInv', NEW t \in Thread, Rollback(t)
  PROVE  VInv'
<1>1. th[t].pc = "rollback"
  BY DEF Rollback, At
<1>2. PICK x \in Xact : x = th[t].x /\ Begun(x) /\ x # Loader
  BY <1>1, ThreadFacts
<1>3. PICK w \in ThreadType, q \in Seq(DOMAIN version) : w = th[t] /\ q = xact[x].undo /\ th \in [Thread -> ThreadType]
  BY <1>1, XactTypes DEF IInv, ManagerTypes
<1>4. th' = [th EXCEPT ![t] = [w EXCEPT !.pc = "unchain", !.todo = q]]
  BY <1>2, <1>3 DEF Rollback
<1>5. /\ \A u \in Thread \ {t} : th'[u] = th[u]
      /\ th'[t].x = x /\ th'[t].pc = "unchain" /\ th'[t].todo = q
  BY <1>2, <1>3, <1>4 DEF ThreadType
<1>6. StillVersions /\ xact' = xact /\ timestampGen' = timestampGen /\ overlooked' = overlooked /\ reads' = reads
  BY DEF Rollback, storeVars, ghostVars, StillVersions
<1>7. SameChains /\ version' = version /\ removed' = removed /\ entry' = entry
  BY <1>6 DEF StillVersions, SameChains
<1>8. \A y : (Committed(y)' <=> Committed(y)) /\ (Begun(y)' <=> Begun(y))
  BY <1>6 DEF Committed, Begun
<1>9. \A y \in Xact : Onward(y)
  BY <1>1, <1>2, <1>5, <1>6, <1>8 DEF Onward, Standing, Failed
<1>10. SeenOn
  <2>1. \A y \in Xact : Running(y)' => Running(y)
    BY <1>2, <1>5, <1>6, <1>8 DEF Running
  <2> QED
    BY <1>6, <2>1 DEF SeenOn, Seen
<1>11. Apart'
  BY <1>6, <1>7, <1>8 DEF VInv, Apart
<1>12. ReadsRight'
  BY <1>6, <1>7, <1>8 DEF VInv, ReadsRight, ReadsAreSnapshot
<1>13. \A y \in Xact : Logged(y)'
  BY <1>6, <1>7, <1>9, LoggedSame DEF Onward
<1>14. Logged(x) /\ Standing(x)
  BY <1>1, <1>2 DEF VInv, Standing
<1>15. ASSUME NEW e \in DOMAIN entry \ removed PROVE Topped(e)'
  <2>1. PICK v \in DOMAIN version : v = NewestOf(e) /\ v = NewestOf(e)'
    BY <1>7, Newest DEF NewestOf
  <2>2. Topped(e)
    BY DEF VInv
  <2>3. Writer(v) = x => v \in Elems(q)
    BY <1>2, <1>3, <1>14 DEF Logged
  <2>4. ASSUME NEW u \in Thread, th[u].x = Writer(v), th[u].pc = "unchain" => v \in Elems(th[u].todo)
        PROVE  Topped(e)'
    <3>1. CASE u = t
      BY <1>2, <1>5, <2>1, <2>3, <2>4, <3>1 DEF Topped
    <3>2. CASE u # t
      BY <1>5, <2>1, <2>4, <3>2 DEF Topped
    <3> QED
      BY <3>1, <3>2
  <2> QED
    BY <1>8, <2>1, <2>2, <2>4 DEF Topped
<1>16. OnTheWay(t)'
  <2>1. Undoable(q, x)'
    BY <1>3, <1>7, <1>14, UndoableSame DEF Logged
  <2>2. Undoable(th[t].todo, th[t].x)'
    BY <1>5, <2>1 DEF Undoable
  <2> QED
    BY <1>5, <2>2 DEF OnTheWay
<1>17. \A u \in Thread : OnTheWay(u)'
  BY <1>5, <1>6, <1>8, <1>10, <1>16, ClockType, OthersOnTheWay
<1>18. \A v \in DOMAIN version :
           /\ ~version[v].valid => ~version'[v].valid
           /\ version'[v].xactid \in {version[v].xactid, xact[Writer(v)].commitTS}
  BY <1>7
<1> QED
  BY <1>7, <1>9, <1>10, <1>11, <1>12, <1>13, <1>15, <1>17, <1>18, Steady

LEMMA RolledBackWell ==
  ASSUME IInv, VInv, IInv', NEW t \in Thread, RolledBack(t)
  PROVE  VInv'
<1>1. th[t].pc = "unchain" /\ "unchain" \in Uncommitted /\ th[t].todo = <<>>
  BY DEF RolledBack, At, Uncommitted
<1>2. PICK x \in Xact : x = th[t].x /\ Begun(x) /\ x # Loader /\ ~Committed(x)
  BY <1>1, ThreadFacts
<1>3. PICK w \in XactType : w = xact[x] /\ xact \in [Xact -> XactType]
  BY DEF IInv, ManagerTypes
<1> DEFINE z == [w EXCEPT !.undo = <<>>, !.preds = {}]
<1>4. xact' = [xact EXCEPT ![x] = z]
  BY <1>2, <1>3 DEF RolledBack, XactType
<1>5. z.startTS = w.startTS /\ z.commitTS = w.commitTS /\ z.undo = <<>>
  BY DEF XactType
<1> HIDE DEF z
<1>6. SameTimes /\ xact'[x].undo = <<>> /\ \A y \in Xact \ {x} : xact'[y].undo = xact[y].undo
  BY <1>3, <1>4, <1>5 DEF SameTimes
<1>7. /\ \A u \in Thread \ {t} : th'[u] = th[u]
      /\ th'[t].pc = "idle" /\ th'[t].x = NoXact
  BY Finishing DEF RolledBack
<1>8. StillVersions /\ timestampGen' = timestampGen /\ overlooked' = overlooked /\ reads' = reads
  BY DEF RolledBack, storeVars, managerVars, ghostVars, StillVersions
<1>9. SameChains /\ version' = version /\ removed' = removed /\ entry' = entry
  BY <1>8 DEF StillVersions, SameChains
<1>10. \A y \in Xact : (Committed(y)' <=> Committed(y)) /\ (Begun(y)' <=> Begun(y))
  BY <1>6, TimesSame
<1>11. \A u \in Thread : \A y \in Xact : th'[u].x = y => u # t /\ th[u].x = y
  BY <1>7, XactFacts
<1>12. \A y \in Xact : Onward(y)
  BY <1>6, <1>7, <1>10, <1>11 DEF Onward, Standing, Failed, SameTimes
<1>13. SeenOn
  <2>1. \A y \in Xact : Running(y)' => Running(y)
    BY <1>6, <1>10, <1>11 DEF Running, SameTimes
  <2> QED
    BY <1>6, <1>8, <2>1 DEF SeenOn, Seen, SameTimes
<1>14. \A v \in DOMAIN version : Writer(v) \in Xact
  BY VersionFacts
<1>15. Apart'
  BY <1>6, <1>9, <1>14, ApartSame DEF VInv
<1>16. ReadsRight'
  <2>1. ReadsWell
    BY <1>8, ReadsSame
  <2>2. \A y \in Xact : xact'[y].startTS \in Nat /\ xact'[y].commitTS \in Nat
    BY <1>6, XactTypes DEF SameTimes
  <2> QED
    BY <1>6, <1>9, <1>14, <2>1, <2>2, ReadsOn DEF ReadsWell, VInv, SameTimes
<1>17. ASSUME NEW y \in Xact PROVE Logged(y)'
  <2>1. CASE y = x
    <3>1. ~Standing(x)'
      <4>1. \A u \in Thread : th'[u].x # x
        BY <1>2, <1>11, OtherXact
      <4> QED
        BY <1>2, <1>10, <4>1 DEF Standing
    <3> QED
      BY <1>6, <2>1, <3>1 DEF Logged, Undoable
  <2>2. CASE y # x
    BY <1>6, <1>9, <1>12, <2>2, LoggedSame DEF Onward
  <2> QED
    BY <2>1, <2>2
<1>18. ASSUME NEW e \in DOMAIN entry \ removed PROVE Topped(e)'
  <2>1. PICK v \in DOMAIN version : v = NewestOf(e) /\ v = NewestOf(e)' /\ Writer(v) \in Xact
    BY <1>9, <1>14, Newest DEF NewestOf
  <2>2. Topped(e)
    BY DEF VInv
  <2>3. v \notin Elems(th[t].todo)
    BY <1>1 DEF Elems
  <2>4. ASSUME NEW u \in Thread, th[u].x = Writer(v), th[u].pc = "unchain" => v \in Elems(th[u].todo)
        PROVE  Topped(e)'
    <3>1. u # t
      BY <1>1, <2>3, <2>4
    <3> QED
      BY <1>7, <2>1, <2>4, <3>1 DEF Topped
  <2> QED
    BY <1>10, <2>1, <2>2, <2>4 DEF Topped
<1>19. OnTheWay(t)'
  BY <1>7 DEF OnTheWay
<1>20. \A u \in Thread : OnTheWay(u)'
  BY <1>7, <1>8, <1>10, <1>13, <1>19, ClockType, OthersOnTheWay
<1>21. \A v \in DOMAIN version :
           /\ ~version[v].valid => ~version'[v].valid
           /\ version'[v].xactid \in {version[v].xactid, xact[Writer(v)].commitTS}
  BY <1>9
<1> QED
  BY <1>9, <1>12, <1>13, <1>15, <1>16, <1>17, <1>18, <1>20, <1>21, Steady

(* x commits at c: no version is its, or c is after all starts.            *)
LEMMA Committing ==
  ASSUME IInv, VInv, IInv', NEW t \in Thread, NEW x \in Xact \ {Loader}, x = th[t].x, th[t].pc # "unchain",
         Begun(x), ~Committed(x), NEW c \in Nat, c # Never,
         xact' \in [Xact -> XactType], \A y \in Xact \ {x} : xact'[y] = xact[y],
         xact'[x].startTS = xact[x].startTS, xact'[x].commitTS = c, xact'[x].undo = xact[x].undo,
         xact[x].startTS <= c,
         (\A y \in Xact : Begun(y) => xact[y].startTS < c) \/ \A v \in DOMAIN version : Writer(v) # x,
         \A u \in Thread \ {t} : th'[u] = th[u], th'[t].pc \in {"idle", "stamp"}, th'[t].x \in {x, NoXact},
         StillVersions, timestampGen' = timestampGen, overlooked' = overlooked, reads' = reads
  PROVE  VInv'
<1>1. SameChains /\ version' = version /\ removed' = removed /\ entry' = entry
  BY DEF StillVersions, SameChains
<1>2. \A v \in DOMAIN version : Writer(v) \in Xact
  BY VersionFacts
<1>3. /\ \A y \in Xact : Committed(y)' <=> (Committed(y) \/ y = x)
      /\ \A y \in Xact : Begun(y)' <=> Begun(y)
      /\ \A y \in Xact : xact'[y].startTS = xact[y].startTS /\ xact'[y].undo = xact[y].undo
  BY DEF Committed, Begun
<1>4. \A u \in Thread : \A y \in Xact : th'[u].x = y => th[u].x = y /\ (u # t \/ y = x)
  BY XactFacts
<1>5. Standing(x)
  BY DEF Standing
<1>6. \A y \in Xact : Onward(y)
  <2> SUFFICES ASSUME NEW y \in Xact PROVE Onward(y)
    OBVIOUS
  <2>1. Standing(y)' => Standing(y)
    <3>1. CASE y = x
      BY <1>5, <3>1
    <3>2. CASE y # x
      BY <1>3, <1>4, <3>2 DEF Standing
    <3> QED
      BY <3>1, <3>2
  <2>2. Failed(y) => Failed(y)'
    <3>1. Failed(y) => y # x
      BY DEF Failed
    <3>2. ASSUME y # x, Failed(y), NEW u \in Thread, th'[u].x = y PROVE th'[u].pc = "unchain"
      <4>1. u # t /\ th[u].x = y
        BY <1>4, <3>2
      <4> QED
        BY <3>2, <4>1 DEF Failed
    <3> QED
      BY <1>3, <3>1, <3>2 DEF Failed
  <2> QED
    BY <2>1, <2>2 DEF Onward, Committed
<1>7. SeenOn
  <2>1. \A y \in Xact : Running(y)' => Running(y)
    BY <1>3, <1>4 DEF Running
  <2> QED
    BY <1>3, <2>1 DEF SeenOn, Seen
<1>8. Apart'
  <2>1. \A y \in Xact : Committed(y)' => xact'[y].startTS <= xact'[y].commitTS
    BY <1>3 DEF VInv, Apart
  <2>2. ASSUME NEW v \in DOMAIN version, NEW y \in Xact, Committed(Writer(v))', Begun(y)'
        PROVE  xact'[Writer(v)].commitTS # xact'[y].startTS
    <3>1. CASE Writer(v) = x
      <4>1. xact[y].startTS < c /\ xact[y].startTS \in Nat
        BY <1>3, <2>2, <3>1, XactTypes
      <4> QED
        BY <1>3, <3>1, <4>1
    <3>2. CASE Writer(v) # x
      BY <1>2, <1>3, <2>2, <3>2 DEF VInv, Apart
    <3> QED
      BY <3>1, <3>2
  <2> QED
    BY <1>1, <2>1, <2>2 DEF Apart
<1>9. ReadsRight'
  <2>1. ReadsWell
    BY ReadsSame
  <2>2. \A y \in Xact : xact'[y].startTS \in Nat /\ xact'[y].commitTS \in Nat
    BY DEF XactType
  <2>3. ASSUME NEW u \in DOMAIN version
        PROVE  /\ Later(u) \/ xact'[Writer(u)].commitTS = xact[Writer(u)].commitTS
               /\ Committed(Writer(u)) => xact'[Writer(u)].commitTS = xact[Writer(u)].commitTS
    <3>1. CASE Writer(u) = x
      <4>1. \A y \in Xact : Begun(y) => xact[y].startTS <= c
        BY <3>1, XactTypes
      <4> QED
        BY <3>1, <4>1 DEF Later
    <3>2. CASE Writer(u) # x
      BY <1>2, <3>2
    <3> QED
      BY <3>1, <3>2
  <2>4. ReadsRight
    BY DEF VInv
  <2> QED
    BY <1>1, <1>2, <1>3, <2>1, <2>2, <2>3, <2>4, ReadsOn DEF ReadsWell
<1>10. \A y \in Xact : Logged(y)'
  BY <1>1, <1>3, <1>6, LoggedSame DEF Onward
<1>11. ASSUME NEW e \in DOMAIN entry \ removed PROVE Topped(e)'
  <2>1. PICK v \in DOMAIN version : v = NewestOf(e) /\ v = NewestOf(e)' /\ Writer(v) \in Xact
    BY <1>1, <1>2, Newest DEF NewestOf
  <2>2. Topped(e)
    BY DEF VInv
  <2>3. ASSUME NEW u \in Thread, th[u].x = Writer(v), th[u].pc = "unchain" => v \in Elems(th[u].todo)
        PROVE  Topped(e)'
    <3>1. CASE u = t
      BY <1>3, <2>1, <2>3, <3>1 DEF Topped
    <3>2. CASE u # t
      BY <2>1, <2>3, <3>2 DEF Topped
    <3> QED
      BY <3>1, <3>2
  <2> QED
    BY <1>3, <2>1, <2>2, <2>3 DEF Topped
<1>12. OnTheWay(t)'
  BY DEF OnTheWay
<1>13. \A u \in Thread : OnTheWay(u)'
  BY <1>3, <1>7, <1>12, ClockType, OthersOnTheWay
<1>14. \A v \in DOMAIN version :
           /\ ~version[v].valid => ~version'[v].valid
           /\ version'[v].xactid \in {version[v].xactid, xact[Writer(v)].commitTS}
  BY <1>1
<1> QED
  BY <1>1, <1>6, <1>7, <1>8, <1>9, <1>10, <1>11, <1>13, <1>14, Steady

LEMMA CommitReadOnlyWell ==
  ASSUME IInv, VInv, IInv', NEW t \in Thread, CommitReadOnly(t)
  PROVE  VInv'
<1>0. th[t].pc = "run" /\ "run" \in Uncommitted
  BY DEF CommitReadOnly, At, Uncommitted, Working
<1>1. PICK x \in Xact \ {Loader} : x = th[t].x /\ Begun(x) /\ ~Committed(x)
  BY <1>0, ThreadFacts
<1>2. /\ xact[x].undo = <<>>
      /\ xact' = [xact EXCEPT ![x].commitTS = xact[x].startTS]
      /\ Finish(t)
  BY <1>1 DEF CommitReadOnly
<1>3. StillVersions /\ timestampGen' = timestampGen /\ overlooked' = overlooked /\ reads' = reads
  BY DEF CommitReadOnly, storeVars, ghostVars, StillVersions
<1>4. /\ \A u \in Thread \ {t} : th'[u] = th[u]
      /\ th'[t].pc = "idle" /\ th'[t].x = NoXact
  BY <1>2, Finishing
<1>5. PICK w \in XactType, s \in Nat : w = xact[x] /\ s = xact[x].startTS /\ xact \in [Xact -> XactType] /\ s # Never
  BY <1>1, XactTypes DEF IInv, ManagerTypes, Begun
<1> DEFINE z == [w EXCEPT !.commitTS = s]
<1>6. xact' = [xact EXCEPT ![x] = z]
  BY <1>2, <1>5
<1>7. z \in XactType /\ z.startTS = w.startTS /\ z.commitTS = s /\ z.undo = w.undo
  BY <1>5 DEF XactType
<1> HIDE DEF z
<1>8. /\ xact' \in [Xact -> XactType] /\ \A y \in Xact \ {x} : xact'[y] = xact[y]
      /\ xact'[x].startTS = xact[x].startTS /\ xact'[x].commitTS = s /\ xact'[x].undo = xact[x].undo
  BY <1>5, <1>6, <1>7
<1>9. \A v \in DOMAIN version : Writer(v) # x
  <2>1. Logged(x) /\ Standing(x)
    BY <1>0, <1>1 DEF VInv, Standing
  <2> QED
    BY <1>2, <2>1 DEF Logged, Elems
<1>10. th[t].pc # "unchain" /\ xact[x].startTS <= s
  BY <1>0, <1>5
<1> QED
  BY <1>1, <1>3, <1>4, <1>5, <1>8, <1>9, <1>10, Committing

LEMMA StoreWell ==
  ASSUME IInv, VInv, IInv', NEW t \in Thread, StoreCommitTS(t)
  PROVE  VInv'
<1>0. th[t].pc = "store" /\ "store" \in Uncommitted /\ "stamp" \in Pc /\ Goto(t, "stamp")
  BY DEF StoreCommitTS, At, Uncommitted, Pc
<1>1. PICK x \in Xact \ {Loader} : x = th[t].x /\ Begun(x) /\ ~Committed(x)
  BY <1>0, ThreadFacts
<1>2. StillVersions /\ timestampGen' = timestampGen /\ overlooked' = overlooked /\ reads' = reads
  BY DEF StoreCommitTS, storeVars, ghostVars, StillVersions
<1>3. /\ \A u \in Thread \ {t} : th'[u] = th[u]
      /\ th'[t].pc = "stamp" /\ th'[t].x = x
  BY <1>0, <1>1, Going
<1>4. PICK w \in XactType, d \in Nat :
        /\ w = xact[x] /\ d = th[t].drawn /\ xact \in [Xact -> XactType] /\ d # Never
        /\ \A y \in Xact : Begun(y) => xact[y].startTS < d
  <2>1. PICK d \in Nat : d = th[t].drawn
    BY ThreadFacts DEF ThreadType
  <2>2. d < timestampGen /\ \A y \in Xact : Begun(y) => xact[y].startTS < d
    BY <1>0, <2>1 DEF IInv, Clock, DrawnLast
  <2>3. d # Never
    BY <2>2, ClockBound
  <2> QED
    BY <2>1, <2>2, <2>3, XactTypes DEF IInv, ManagerTypes
<1> DEFINE z == [w EXCEPT !.commitTS = d]
<1>5. xact' = [xact EXCEPT ![x] = z]
  BY <1>1, <1>4 DEF StoreCommitTS
<1>6. z \in XactType /\ z.startTS = w.startTS /\ z.commitTS = d /\ z.undo = w.undo
  BY <1>4 DEF XactType
<1> HIDE DEF z
<1>7. /\ xact' \in [Xact -> XactType] /\ \A y \in Xact \ {x} : xact'[y] = xact[y]
      /\ xact'[x].startTS = xact[x].startTS /\ xact'[x].commitTS = d /\ xact'[x].undo = xact[x].undo
  BY <1>4, <1>5, <1>6
<1>8. th[t].pc # "unchain" /\ xact[x].startTS <= d
  <2>1. xact[x].startTS < d /\ xact[x].startTS \in Nat
    BY <1>1, <1>4, XactTypes
  <2> QED
    BY <1>0, <2>1
<1> QED
  BY <1>1, <1>2, <1>3, <1>4, <1>7, <1>8, Committing

LEMMA BeginWell ==
  ASSUME IInv, VInv, IInv', NEW t \in Thread, Begin(t)
  PROVE  VInv'
<1>0. th[t].pc = "idle" /\ th[t].x = NoXact
  BY DEF Begin, At, IInv, OneThreadEach, RunsOne
<1>1. PICK x \in Xact :
        /\ ~Begun(x)
        /\ xact' = [xact EXCEPT ![x].startTS = timestampGen]
        /\ th' = [th EXCEPT ![t] = [Idle EXCEPT !.pc = "publish", !.x = x]]
  BY DEF Begin
<1>2. /\ timestampGen' = timestampGen + 1
      /\ StillVersions /\ overlooked' = overlooked /\ reads' = reads
  BY DEF Begin, storeVars, ghostVars, StillVersions
<1>3. ~Committed(x) /\ x # NoXact
  BY <1>1, NotBegun, XactFacts
<1>4. timestampGen \in Nat /\ Never \in Nat /\ timestampGen < Never
  BY ClockBound
<1>5. PICK w \in XactType, g \in Nat : w = xact[x] /\ g = timestampGen /\ xact \in [Xact -> XactType]
  BY <1>4, XactTypes DEF IInv, ManagerTypes
<1> DEFINE z == [w EXCEPT !.startTS = g]
           i == [Idle EXCEPT !.pc = "publish", !.x = x]
<1>6. z.startTS = g /\ z.commitTS = w.commitTS /\ z.undo = w.undo
  BY <1>5 DEF XactType
<1>7. i \in ThreadType /\ i.pc = "publish" /\ i.x = x
  BY IdleType DEF ThreadType, Pc, Uncommitted, NoneOr
<1>8. xact' = [xact EXCEPT ![x] = z] /\ th' = [th EXCEPT ![t] = i]
  BY <1>1, <1>5
<1> HIDE DEF z, i
<1>9. /\ \A y \in Xact \ {x} : xact'[y] = xact[y]
      /\ xact'[x].startTS = timestampGen /\ xact'[x].commitTS = xact[x].commitTS
      /\ xact'[x].undo = xact[x].undo
  BY <1>5, <1>6, <1>8
<1>10. /\ \A u \in Thread \ {t} : th'[u] = th[u]
       /\ th'[t].pc = "publish" /\ th'[t].x = x
  BY <1>7, <1>8, Moving
<1>11. SameChains /\ version' = version /\ removed' = removed /\ entry' = entry
  BY <1>2 DEF StillVersions, SameChains
<1>12. /\ \A y \in Xact : Committed(y)' <=> Committed(y)
       /\ \A y \in Xact : Begun(y)' <=> (Begun(y) \/ y = x)
       /\ \A y \in Xact : xact'[y].commitTS = xact[y].commitTS /\ xact'[y].undo = xact[y].undo
       /\ \A y \in Xact : Begun(y) => xact'[y].startTS = xact[y].startTS
  BY <1>1, <1>4, <1>9 DEF Committed, Begun
<1>13. \A v \in DOMAIN version : Writer(v) \in Xact /\ Begun(Writer(v)) /\ Writer(v) # x
  BY <1>1, VersionFacts
<1>14. \A u \in Thread : \A y \in Xact \ {x} : th'[u].x = y <=> u # t /\ th[u].x = y
  BY <1>0, <1>10, XactFacts
<1>15. \A y \in Xact : Begun(y) => Onward(y)
  <2> SUFFICES ASSUME NEW y \in Xact \ {x}, Begun(y) PROVE Onward(y)
    BY <1>1
  <2>1. Standing(y)' => Standing(y)
    BY <1>10, <1>12, <1>14 DEF Standing
  <2>2. Failed(y) => Failed(y)'
    BY <1>10, <1>12, <1>14 DEF Failed
  <2> QED
    BY <1>12, <2>1, <2>2 DEF Onward
<1>16. SeenOn
  <2> SUFFICES ASSUME NEW n \in Nat, n <= timestampGen, Seen(n),
                      NEW y \in Xact \ overlooked', Running(y)'
               PROVE  n <= xact'[y].startTS
    BY DEF SeenOn, Seen
  <2>1. CASE y = x
    BY <1>9, <2>1
  <2>2. CASE y # x
    <3>1. Running(y)
      BY <1>12, <1>14, <2>2 DEF Running
    <3> QED
      BY <1>2, <1>9, <2>2, <3>1 DEF Seen
  <2> QED
    BY <2>1, <2>2
<1>17. Apart'
  <2>1. ASSUME NEW y \in Xact, Committed(y)' PROVE xact'[y].startTS <= xact'[y].commitTS
    <3>1. Committed(y) /\ y # x
      BY <1>3, <1>12, <2>1
    <3> QED
      BY <1>9, <3>1 DEF VInv, Apart
  <2>2. ASSUME NEW v \in DOMAIN version, NEW y \in Xact, Committed(Writer(v))', Begun(y)'
        PROVE  xact'[Writer(v)].commitTS # xact'[y].startTS
    <3>1. Committed(Writer(v)) /\ Writer(v) \in Xact
      BY <1>12, <1>13, <2>2
    <3>2. CASE y = x
      <4>1. xact[Writer(v)].commitTS < timestampGen /\ xact[Writer(v)].commitTS \in Nat
        BY <3>1, XactTypes DEF IInv, Clock, Past
      <4> QED
        BY <1>4, <1>9, <1>12, <3>1, <3>2, <4>1
    <3>3. CASE y # x
      BY <1>12, <2>2, <3>1, <3>3 DEF VInv, Apart
    <3> QED
      BY <3>2, <3>3
  <2> QED
    BY <1>11, <2>1, <2>2 DEF Apart
<1>18. ReadsRight'
  <2>1. ReadsWell /\ ReadsRight
    BY <1>2, ReadsSame DEF VInv
  <2>2. \A y \in Xact : xact'[y].startTS \in Nat /\ xact'[y].commitTS \in Nat
    BY <1>4, <1>9, XactTypes
  <2>3. \A u \in DOMAIN version : Writer(u) \in Xact /\ xact'[Writer(u)].commitTS = xact[Writer(u)].commitTS
    BY <1>12, <1>13
  <2> QED
    BY <1>11, <1>12, <2>1, <2>2, <2>3, ReadsOn DEF ReadsWell
<1>19. ASSUME NEW y \in Xact PROVE Logged(y)'
  <2>1. CASE y = x
    <3>1. DOMAIN xact[x].undo = {}
      <4> SUFFICES ASSUME NEW j \in DOMAIN xact[x].undo PROVE FALSE
        OBVIOUS
      <4>1. PICK s \in Seq(DOMAIN version) : s = xact[x].undo
        BY XactTypes
      <4>2. s[j] \in DOMAIN version /\ Writer(s[j]) = x
        BY <4>1 DEF IInv, UndoOwn
      <4> QED
        BY <1>13, <4>2
    <3> QED
      BY <1>9, <1>11, <1>13, <2>1, <3>1 DEF Logged, Undoable
  <2>2. CASE y # x
    <3>1. Standing(y)' => Standing(y)
      BY <1>10, <1>12, <1>14, <2>2 DEF Standing
    <3> QED
      BY <1>11, <1>12, <3>1, LoggedSame
  <2> QED
    BY <2>1, <2>2
<1>20. ASSUME NEW e \in DOMAIN entry \ removed PROVE Topped(e)'
  <2>1. PICK v \in DOMAIN version : v = NewestOf(e) /\ v = NewestOf(e)' /\ Writer(v) \in Xact
    BY <1>11, <1>13, Newest DEF NewestOf
  <2>2. Topped(e)
    BY DEF VInv
  <2>3. ASSUME NEW u \in Thread, th[u].x = Writer(v), th[u].pc = "unchain" => v \in Elems(th[u].todo)
        PROVE  Topped(e)'
    <3>1. u # t
      BY <1>0, <2>1, <2>3, XactFacts
    <3> QED
      BY <1>10, <2>1, <2>3, <3>1 DEF Topped
  <2> QED
    BY <1>12, <2>1, <2>2, <2>3 DEF Topped
<1>21. OnTheWay(t)'
  BY <1>10 DEF OnTheWay
<1>22. \A u \in Thread : OnTheWay(u)'
  <2>1. timestampGen <= timestampGen' /\ timestampGen' \in Nat
    BY <1>2, <1>4
  <2> QED
    BY <1>2, <1>10, <1>12, <1>16, <1>21, <2>1, OthersOnTheWay
<1>23. \A v \in DOMAIN version :
           /\ ~version[v].valid => ~version'[v].valid
           /\ version'[v].xactid \in {version[v].xactid, xact[Writer(v)].commitTS}
  BY <1>11
<1> QED
  BY <1>11, <1>15, <1>16, <1>17, <1>18, <1>19, <1>20, <1>22, <1>23, Steady

-----------------------------------------------------------------------------
(* Versions leave their chains, and entries the lists.                     *)

LEMMA UndoableTail ==
  ASSUME NEW s \in Seq(DOMAIN version), s # <<>>, NEW x, Undoable(s, x)
  PROVE  /\ Head(s) \in Elems(s) /\ Writer(Head(s)) = x
         /\ Elems(s) = {Head(s)} \cup Elems(Tail(s))
         /\ Undoable(Tail(s), x)
         /\ LET u == version[Head(s)].oldV
            IN  u # Null /\ Writer(u) = x => u \in Elems(Tail(s))
<1>1. /\ Len(s) \in Nat /\ Len(s) # 0 /\ DOMAIN s = 1..Len(s) /\ Head(s) = s[1]
      /\ DOMAIN Tail(s) = 1..(Len(s) - 1) /\ \A i \in DOMAIN Tail(s) : Tail(s)[i] = s[i + 1]
  OBVIOUS
<1>2. 1 \in DOMAIN s
  BY <1>1
<1>3. \A i \in DOMAIN s : i = 1 \/ (i - 1 \in DOMAIN Tail(s) /\ s[i] = Tail(s)[i - 1])
  BY <1>1
<1>4. Elems(s) = {Head(s)} \cup Elems(Tail(s))
  <2>1. ASSUME NEW i \in DOMAIN Tail(s) PROVE Tail(s)[i] \in Elems(s)
    <3>1. i + 1 \in DOMAIN s
      BY <1>1, <2>1
    <3> QED
      BY <1>1, <3>1 DEF Elems
  <2>2. Elems(Tail(s)) \subseteq Elems(s)
    BY <2>1 DEF Elems
  <2>3. Head(s) \in Elems(s)
    BY <1>1, <1>2 DEF Elems
  <2>4. ASSUME NEW y \in Elems(s) PROVE y = Head(s) \/ y \in Elems(Tail(s))
    <3>1. PICK i \in DOMAIN s : y = s[i]
      BY <2>4 DEF Elems
    <3>2. CASE i = 1
      BY <1>1, <3>1, <3>2
    <3>3. CASE i # 1
      BY <1>3, <3>1, <3>3 DEF Elems
    <3> QED
      BY <3>2, <3>3
  <2> QED
    BY <2>2, <2>3, <2>4
<1>5. ASSUME NEW i \in DOMAIN s, NEW u, u = version[s[i]].oldV, u # Null, Writer(u) = x
      PROVE  \E j \in DOMAIN Tail(s) : i - 1 < j /\ Tail(s)[j] = u
  <2>1. PICK j \in DOMAIN s : i < j /\ s[j] = u
    BY <1>5 DEF Undoable
  <2>2. j # 1
    BY <1>1, <2>1
  <2>3. j - 1 \in DOMAIN Tail(s) /\ Tail(s)[j - 1] = u /\ i - 1 < j - 1
    BY <1>1, <1>3, <2>1, <2>2
  <2> QED
    BY <2>3
<1>6. Undoable(Tail(s), x)
  <2> SUFFICES ASSUME NEW i \in DOMAIN Tail(s)
               PROVE  /\ Writer(Tail(s)[i]) = x
                      /\ LET u == version[Tail(s)[i]].oldV
                         IN  u # Null /\ Writer(u) = x => \E j \in DOMAIN Tail(s) : i < j /\ Tail(s)[j] = u
    BY DEF Undoable
  <2>1. i + 1 \in DOMAIN s /\ Tail(s)[i] = s[i + 1] /\ (i + 1) - 1 = i
    BY <1>1
  <2>2. Writer(Tail(s)[i]) = x
    BY <2>1 DEF Undoable
  <2>3. PICK u : u = version[Tail(s)[i]].oldV
    OBVIOUS
  <2>4. u # Null /\ Writer(u) = x => \E j \in DOMAIN Tail(s) : i < j /\ Tail(s)[j] = u
    BY <1>5, <2>1, <2>3
  <2> QED
    BY <2>2, <2>3, <2>4
<1>7. ASSUME NEW u, u = version[Head(s)].oldV, u # Null, Writer(u) = x PROVE u \in Elems(Tail(s))
  BY <1>1, <1>2, <1>5, <1>7 DEF Elems
<1>8. Writer(Head(s)) = x
  BY <1>1, <1>2 DEF Undoable
<1> QED
  BY <1>4, <1>6, <1>7, <1>8

(* Nothing but a thread's way through its versions and the lists changes.  *)
LEMMA OnTheSpot ==
  ASSUME IInv, VInv, version' = version, xact' = xact, timestampGen' = timestampGen, reads' = reads, overlooked' = overlooked,
         \A u \in Thread : th'[u].x = th[u].x /\ th'[u].pc = th[u].pc
  PROVE  /\ \A y : (Committed(y)' <=> Committed(y)) /\ (Standing(y)' <=> Standing(y)) /\ (Failed(y)' <=> Failed(y))
         /\ \A y \in Xact : Onward(y)
         /\ SeenOn /\ Apart' /\ ReadsRight' /\ (\A n : Seen(n)' <=> Seen(n))
         /\ \A y \in Xact : Logged(y)'
         /\ \A v : Below(v)' = Below(v)
<1>1. \A y : (Committed(y)' <=> Committed(y)) /\ (Begun(y)' <=> Begun(y))
  BY DEF Committed, Begun
<1>2. \A y : (Standing(y)' <=> Standing(y)) /\ (Failed(y)' <=> Failed(y))
  BY <1>1 DEF Standing, Failed
<1>3. \A y \in Xact : Onward(y)
  BY <1>1, <1>2 DEF Onward
<1>4. \A n : Seen(n)' <=> Seen(n)
  <2>1. \A y \in Xact : Running(y)' <=> Running(y)
    BY <1>1 DEF Running
  <2> QED
    BY <2>1 DEF Seen
<1>5. SeenOn
  BY <1>4 DEF SeenOn
<1>6. Apart'
  BY <1>1 DEF VInv, Apart
<1>7. ReadsRight'
  BY <1>1 DEF VInv, ReadsRight, ReadsAreSnapshot
<1>8. \A y \in Xact : Logged(y)'
  BY <1>2 DEF VInv, Logged, Undoable
<1>9. \A v : Below(v)' = Below(v)
  BY DEF Below, Shut
<1> QED
  BY <1>1, <1>2, <1>3, <1>4, <1>5, <1>6, <1>7, <1>8, <1>9

LEMMA SweepWell ==
  ASSUME IInv, VInv, IInv', NEW t \in Thread, Sweep(t)
  PROVE  VInv'
<1>0. th[t].pc = "sweep" /\ th[t].todo # <<>>
  BY DEF Sweep, At
<1>1. xact' = xact /\ timestampGen' = timestampGen /\ reads' = reads /\ overlooked' = overlooked
      /\ th' = [th EXCEPT ![t].todo = Tail(@)] /\ version' = version /\ entry' = entry
  BY DEF Sweep, managerVars, ghostVars, storeVars, RemoveEntry
<1>2. /\ \A u \in Thread \ {t} : th'[u] = th[u]
      /\ th'[t].x = th[t].x /\ th'[t].pc = th[t].pc /\ Head(th[t].todo) \in DOMAIN version
  BY <1>0, <1>1, ShorterTodo
<1>3. PICK n \in Nat : n = th[t].oldest /\ n = th'[t].oldest /\ n <= timestampGen /\ Seen(n) /\ Committed(th[t].x)
  <2>1. PICK w \in ThreadType, s \in {Tail(th[t].todo)} : w = th[t] /\ th \in [Thread -> ThreadType] /\ OnTheWay(t)
    BY DEF IInv, ManagerTypes, VInv
  <2>2. th' = [th EXCEPT ![t] = [w EXCEPT !.todo = s]]
    BY <1>1, <2>1
  <2> QED
    BY <1>0, <2>1, <2>2 DEF ThreadType, OnTheWay
<1>4. SameChains
  BY <1>1 DEF SameChains
<1>5. \A u \in Thread : th'[u].x = th[u].x /\ th'[u].pc = th[u].pc
  BY <1>2
<1>6. /\ \A y : (Committed(y)' <=> Committed(y))
      /\ \A y \in Xact : Onward(y)
      /\ SeenOn /\ Apart' /\ ReadsRight' /\ (\A m : Seen(m)' <=> Seen(m))
      /\ \A y \in Xact : Logged(y)'
  BY <1>1, <1>5, OnTheSpot
<1>7. ASSUME NEW e, e = version[Head(th[t].todo)].entry, IsGarbage(Head(th[t].todo), n) PROVE Gone(e)'
  <2>1. e \in DOMAIN entry
    BY <1>2, <1>7, VersionFacts
  <2>2. PICK h \in DOMAIN version : h = NewestOf(e) /\ h = NewestOf(e)'
    BY <1>1, <2>1, Newest DEF NewestOf
  <2>3. version[h].xactid <= n /\ ~version[h].valid
    BY <1>7, <2>2 DEF IsGarbage
  <2>4. PICK c \in Nat : c = xact[Writer(h)].commitTS
    BY VersionFacts
  <2>5. version[h].xactid = c /\ c <= n /\ c # Never
    BY <1>3, <2>3, <2>4, VersionFacts, ClockBound
  <2>6. Seen(c)
    BY <1>3, <2>5, XactTypes DEF Seen
  <2>7. Seen(xact[Writer(h)].commitTS)'
    <3>1. Seen(c)' /\ c = xact'[Writer(h)].commitTS
      BY <1>1, <1>6, <2>4, <2>6
    <3> QED
      BY <3>1 DEF Seen
  <2>8. Buried(e)'
    BY <1>1, <2>2, <2>3, <2>4, <2>5, <2>7 DEF Buried, Committed
  <2> QED
    BY <1>1, <2>1, <2>8 DEF Gone
<1>8. removed \subseteq removed' /\ \A e \in removed' \ removed : Gone(e)'
  <2>1. CASE removed' = removed
    BY <2>1
  <2>2. CASE /\ IsGarbage(Head(th[t].todo), n)
             /\ removed' = removed \cup {version[Head(th[t].todo)].entry}
    BY <1>7, <2>2
  <2> QED
    BY <1>3, <2>1, <2>2 DEF Sweep, storeVars, RemoveEntry
<1>9. ASSUME NEW e \in DOMAIN entry \ removed' PROVE Topped(e)'
  <2>1. PICK v \in DOMAIN version : v = NewestOf(e) /\ v = NewestOf(e)'
    BY <1>1, Newest DEF NewestOf
  <2>2. Topped(e)
    BY <1>8 DEF VInv
  <2>3. ASSUME NEW u \in Thread, th[u].x = Writer(v), th[u].pc = "unchain" => v \in Elems(th[u].todo)
        PROVE  Topped(e)'
    <3>1. th'[u].pc = "unchain" => v \in Elems(th'[u].todo)
      BY <1>0, <1>2, <2>3
    <3> QED
      BY <1>5, <2>1, <2>3, <3>1 DEF Topped
  <2> QED
    BY <1>6, <2>1, <2>2, <2>3 DEF Topped
<1>10. \A u \in Thread : OnTheWay(u)'
  <2> SUFFICES ASSUME NEW u \in Thread PROVE OnTheWay(u)'
    OBVIOUS
  <2>1. CASE u = t
    <3>1. Seen(n)' /\ Committed(th[t].x)' /\ th'[t].pc = "sweep"
      BY <1>0, <1>1, <1>2, <1>3, <1>6 DEF Committed
    <3>2. Seen(th[t].oldest)'
      BY <1>3, <3>1 DEF Seen
    <3>3. th'[t].oldest <= timestampGen'
      BY <1>1, <1>3
    <3> QED
      BY <2>1, <3>1, <3>2, <3>3 DEF OnTheWay
  <2>2. CASE u # t
    <3>1. OnTheWay(u) /\ th'[u] = th[u]
      BY <1>2, <2>2 DEF VInv
    <3>2. th[u].pc = "supersede" => version'[th[u].found].valid
      BY <1>1, <3>1 DEF OnTheWay
    <3>3. th[u].x \in Xact => (Committed(th[u].x) => Committed(th[u].x)')
      BY <1>1, <3>1 DEF Committed
    <3>4. \A v \in DOMAIN version : version'[v].oldV = version[v].oldV
      BY <1>1
    <3>5. timestampGen <= timestampGen' /\ timestampGen' \in Nat
      BY <1>1, ClockType
    <3> QED
      BY <1>6, <3>1, <3>2, <3>3, <3>4, <3>5, WayKept DEF SeenOn
  <2> QED
    BY <2>1, <2>2
<1>11. \A v \in DOMAIN version :
           /\ ~version[v].valid => ~version'[v].valid
           /\ version'[v].xactid \in {version[v].xactid, xact[Writer(v)].commitTS}
  BY <1>1
<1> QED
  BY <1>4, <1>6, <1>8, <1>9, <1>10, <1>11, Steady

LEMMA UnchainWell ==
  ASSUME IInv, VInv, IInv', NEW t \in Thread, Unchain(t)
  PROVE  VInv'
<1>0. th[t].pc = "unchain" /\ th[t].todo # <<>> /\ "unchain" \in Uncommitted
  BY DEF Unchain, At, Uncommitted
<1>1. /\ version' = version /\ xact' = xact /\ timestampGen' = timestampGen /\ reads' = reads /\ overlooked' = overlooked
      /\ th' = [th EXCEPT ![t].todo = Tail(@)] /\ RemoveFromVersionChain(Head(th[t].todo))
  BY DEF Unchain, managerVars, ghostVars, RemoveFromVersionChain
<1>2. /\ \A u \in Thread \ {t} : th'[u] = th[u]
      /\ th'[t].x = th[t].x /\ th'[t].pc = th[t].pc
  BY <1>0, <1>1, ShorterTodo
<1>3. PICK x \in Xact : x = th[t].x /\ Begun(x) /\ ~Committed(x)
  BY <1>0, ThreadFacts
<1>4. PICK q \in Seq(DOMAIN version) : q = th[t].todo /\ q # <<>> /\ Undoable(q, x) /\ th'[t].todo = Tail(q)
  <2>1. PICK w \in ThreadType, s \in {Tail(th[t].todo)} : w = th[t] /\ th \in [Thread -> ThreadType] /\ OnTheWay(t)
    BY DEF IInv, ManagerTypes, VInv
  <2>2. th' = [th EXCEPT ![t] = [w EXCEPT !.todo = s]]
    BY <1>1, <2>1
  <2> QED
    BY <1>0, <1>3, <2>1, <2>2 DEF ThreadType, OnTheWay
<1>5. PICK v \in DOMAIN version : v = Head(q)
  BY <1>4
<1>6. /\ Writer(v) = x /\ Elems(q) = {v} \cup Elems(Tail(q)) /\ Undoable(Tail(q), x)
      /\ LET o == version[v].oldV IN o # Null /\ Writer(o) = x => o \in Elems(Tail(q))
  BY <1>4, <1>5, UndoableTail
<1>7. \A u \in Thread : th'[u].x = th[u].x /\ th'[u].pc = th[u].pc
  BY <1>2
<1>8. /\ \A y : (Committed(y)' <=> Committed(y)) /\ (Standing(y)' <=> Standing(y)) /\ (Failed(y)' <=> Failed(y))
      /\ \A y \in Xact : Onward(y)
      /\ SeenOn /\ Apart' /\ ReadsRight' /\ (\A m : Seen(m)' <=> Seen(m))
      /\ \A y \in Xact : Logged(y)'
      /\ \A u : Below(u)' = Below(u)
  BY <1>1, <1>7, OnTheSpot
<1>9. PICK e \in DOMAIN entry : e = version[v].entry
  BY VersionFacts
<1>10. Failed(x) /\ ~Standing(x)
  <2>1. \A u \in Thread : th[u].x = x => u = t
    BY <1>3, OtherXact
  <2> QED
    BY <1>0, <1>3, <2>1 DEF Failed, Standing
<1>11. \A u \in Thread : OnTheWay(u)'
  <2> SUFFICES ASSUME NEW u \in Thread PROVE OnTheWay(u)'
    OBVIOUS
  <2>1. CASE u = t
    <3>1. Undoable(th[t].todo, th[t].x)'
      BY <1>1, <1>2, <1>3, <1>4, <1>6 DEF Undoable
    <3> QED
      BY <1>0, <1>2, <2>1, <3>1 DEF OnTheWay
  <2>2. CASE u # t
    <3>1. OnTheWay(u) /\ th'[u] = th[u]
      BY <1>2, <2>2 DEF VInv
    <3>2. th[u].pc = "supersede" => version'[th[u].found].valid
      BY <1>1, <3>1 DEF OnTheWay
    <3>3. th[u].x \in Xact => (Committed(th[u].x) => Committed(th[u].x)')
      BY <1>1, <3>1 DEF Committed
    <3>4. \A w \in DOMAIN version : version'[w].oldV = version[w].oldV
      BY <1>1
    <3>5. timestampGen <= timestampGen' /\ timestampGen' \in Nat
      BY <1>1, ClockType
    <3> QED
      BY <1>8, <3>1, <3>2, <3>3, <3>4, <3>5, WayKept DEF SeenOn
  <2> QED
    BY <2>1, <2>2
<1>12. ASSUME NEW d \in DOMAIN entry \ removed, NewestOf(d) # v, NewestOf(d)' = NewestOf(d) PROVE Topped(d)'
  <2>1. PICK h \in DOMAIN version : h = NewestOf(d) /\ h = NewestOf(d)' /\ h # v
    BY <1>12, Newest
  <2>2. Topped(d)
    BY DEF VInv
  <2>3. ASSUME NEW u \in Thread, th[u].x = Writer(h), th[u].pc = "unchain" => h \in Elems(th[u].todo)
        PROVE  Topped(d)'
    <3>1. th'[u].pc = "unchain" => h \in Elems(th'[u].todo)
      BY <1>2, <1>4, <1>6, <2>1, <2>3
    <3> QED
      BY <1>7, <2>1, <2>3, <3>1 DEF Topped
  <2> QED
    BY <1>8, <2>1, <2>2, <2>3 DEF Topped
<1>13. \A d \in DOMAIN entry : NewestOf(d) = v => d = e
  BY <1>9 DEF VInv, Chains, Founds
<1>14. Follows(v) /\ Founds(e)
  BY DEF VInv, Chains
<1>15. CASE version[v].oldV = Null
  <2>1. removed' = removed \cup {e} /\ entry' = entry /\ e = v
    BY <1>1, <1>4, <1>5, <1>9, <1>14, <1>15 DEF RemoveFromVersionChain, RemoveEntry, Follows
  <2>2. SameChains /\ removed \subseteq removed' /\ \A d : NewestOf(d)' = NewestOf(d)
    BY <1>1, <2>1 DEF SameChains, NewestOf
  <2>3. \A d \in removed' \ removed : Gone(d)'
    BY <1>6, <1>8, <1>10, <2>1 DEF Gone
  <2>4. \A d \in DOMAIN entry \ removed' : Topped(d)'
    BY <1>12, <1>13, <2>1, <2>2
  <2>5. \A u \in DOMAIN version :
           /\ ~version[u].valid => ~version'[u].valid
           /\ version'[u].xactid \in {version[u].xactid, xact[Writer(u)].commitTS}
    BY <1>1
  <2> QED
    BY <1>8, <1>11, <2>2, <2>3, <2>4, <2>5, Steady
<1>16. CASE version[v].oldV # Null
  <2>1. PICK o \in DOMAIN version :
          /\ o = version[v].oldV /\ o # Null /\ version[o].entry = e
          /\ Writer(o) = x => o \in Elems(Tail(q))
          /\ Writer(o) = x \/ Committed(Writer(o))
    BY <1>6, <1>9, <1>14, <1>16, Under DEF Follows
  <2>2. removed' = removed /\ entry' = [entry EXCEPT ![e].head = IF @ = v THEN o ELSE @]
    BY <1>1, <1>4, <1>5, <1>9, <1>16, <2>1 DEF RemoveFromVersionChain
  <2>3. PICK h \in DOMAIN version : h = NewestOf(e)
    BY Newest
  <2>4. /\ DOMAIN entry' = DOMAIN entry
        /\ NewestOf(e)' = (IF h = v THEN o ELSE h)
        /\ \A d \in DOMAIN entry \ {e} : NewestOf(d)' = NewestOf(d)
    <3>1. PICK w \in [key : Key, head : DOMAIN version] :
            w = entry[e] /\ w.head = h /\ entry \in [DOMAIN entry -> [key : Key, head : DOMAIN version]]
      BY <2>3 DEF IInv, StoreTypes, NewestOf
    <3>2. entry' = [entry EXCEPT ![e] = [w EXCEPT !.head = IF h = v THEN o ELSE h]]
      BY <2>2, <3>1
    <3> QED
      BY <3>1, <3>2 DEF NewestOf
  <2>5. Chains'
    <3>1. \A d \in DOMAIN entry' : Founds(d)'
      <4> SUFFICES ASSUME NEW d \in DOMAIN entry PROVE Founds(d)'
        BY <2>4
      <4>1. Founds(d)
        BY DEF VInv, Chains
      <4>2. CASE d = e
        BY <1>1, <2>1, <2>3, <2>4, <4>1, <4>2 DEF Founds
      <4>3. CASE d # e
        BY <1>1, <2>4, <4>1, <4>3 DEF Founds
      <4> QED
        BY <4>2, <4>3
    <3> QED
      BY <1>1, <3>1 DEF VInv, Chains, Follows
  <2>6. ASSUME NEW u \in DOMAIN version, Standing(Writer(u)) PROVE OnChain(u)'
    <3>1. OnChain(u) /\ u # v
      BY <1>6, <1>10, <2>6 DEF VInv, Reachable
    <3>2. CASE version[u].entry = e /\ h = v
      <4>1. u \in Below(v)
        BY <2>3, <3>1, <3>2 DEF OnChain
      <4>2. u \in Below(o)
        BY <2>1, <3>1, <4>1, BelowStep
      <4>3. u \in Below(o)' /\ NewestOf(e)' = o /\ version'[u].entry = e
        BY <1>1, <1>8, <2>4, <3>2, <4>2
      <4>4. PICK n : n = NewestOf(e)' /\ n = o
        BY <4>3
      <4> QED
        BY <4>3, <1>1, <3>2 DEF OnChain, NewestOf, Below, Shut
    <3>3. CASE ~(version[u].entry = e /\ h = v)
      <4>1. PICK d \in DOMAIN entry : d = version[u].entry
        BY VersionFacts
      <4>2. PICK n : n = NewestOf(d) /\ n = NewestOf(d)' /\ u \in Below(n)
        BY <2>3, <2>4, <3>1, <3>3, <4>1 DEF OnChain
      <4> QED
        BY <1>1, <4>1, <4>2 DEF OnChain, NewestOf, Below, Shut
    <3> QED
      BY <3>2, <3>3
  <2>7. Reachable'
    BY <1>1, <1>8, <2>6 DEF Reachable
  <2>8. ASSUME NEW d \in DOMAIN entry \ removed PROVE Topped(d)'
    <3>1. CASE d = e /\ h = v
      <4>1. NewestOf(d)' = o
        BY <2>4, <3>1
      <4>2. CASE Committed(Writer(o))
        BY <1>8, <4>1, <4>2 DEF Topped
      <4>3. CASE Writer(o) = x
        BY <1>2, <1>3, <1>4, <2>1, <4>1, <4>3 DEF Topped
      <4> QED
        BY <2>1, <4>2, <4>3
    <3>2. CASE ~(d = e /\ h = v)
      BY <1>12, <1>13, <2>3, <2>4, <3>2
    <3> QED
      BY <3>1, <3>2
  <2>9. ASSUME NEW d \in DOMAIN entry PROVE Founded(d)'
    BY <1>1, <1>8 DEF VInv, Founded
  <2>10. ASSUME NEW d \in removed PROVE Gone(d)'
    <3>1. Gone(d) /\ d \in DOMAIN entry
      BY DEF VInv, Gone
    <3>2. CASE Failed(Writer(d))
      BY <1>8, <2>4, <3>1, <3>2 DEF Gone
    <3>3. CASE Buried(d)
      <4>1. NewestOf(d) # v
        BY <1>3, <1>6, <3>3 DEF Buried
      <4>2. PICK n : n = NewestOf(d) /\ n = NewestOf(d)'
        BY <1>13, <2>3, <2>4, <3>1, <4>1
      <4>3. Seen(xact[Writer(n)].commitTS)'
        <5>1. PICK c : c = xact[Writer(n)].commitTS
          OBVIOUS
        <5>2. Seen(c)'
          BY <1>8, <3>3, <4>2, <5>1 DEF Buried
        <5> QED
          BY <1>1, <5>1, <5>2 DEF Seen
      <4>4. Buried(d)'
        BY <1>1, <1>8, <3>3, <4>2, <4>3 DEF Buried
      <4> QED
        BY <2>4, <3>1, <4>4 DEF Gone
    <3> QED
      BY <3>1, <3>2, <3>3 DEF Gone
  <2> QED
    BY <1>8, <1>11, <2>2, <2>4, <2>5, <2>7, <2>8, <2>9, <2>10 DEF VInv
<1> QED
  BY <1>15, <1>16

-----------------------------------------------------------------------------
(* A version of x goes on top of o, the newest one of e, or starts e.      *)

Tops(x, e, o) ==
  LET n == NewVersion(x)
  IN  /\ DOMAIN version' = DOMAIN version \cup {n} /\ \A v \in DOMAIN version : version'[v] = version[v]
      /\ version'[n].entry = e /\ version'[n].oldV = o
      /\ DOMAIN entry' = DOMAIN entry \cup {e} /\ removed' = removed
      /\ NewestOf(e)' = n /\ \A d \in DOMAIN entry \ {e} : NewestOf(d)' = NewestOf(d)
      /\ \/ o = Null /\ e = n
         \/ o # Null /\ e \in DOMAIN entry \ removed /\ o = NewestOf(e) /\ MayFollow(x, o)

(* What follows for the versions.                                          *)
Topping(n, x, e, o) ==
  /\ n \notin DOMAIN version /\ n # Null /\ Writer(n) = x
  /\ DOMAIN version' = DOMAIN version \cup {n} /\ \A v \in DOMAIN version : version'[v] = version[v]
  /\ version'[n].entry = e /\ version'[n].oldV = o
  /\ DOMAIN entry' = DOMAIN entry \cup {e} /\ removed' = removed
  /\ NewestOf(e)' = n /\ \A d \in DOMAIN entry \ {e} : NewestOf(d)' = NewestOf(d)
  /\ \/ o = Null /\ e = n
     \/ /\ o \in DOMAIN version /\ o # Null /\ e \in DOMAIN entry \ removed /\ o = NewestOf(e)
        /\ version[o].entry = e /\ MayFollow(x, o)
        /\ Writer(o) = x => o[2] < n[2]

LEMMA ToppingFacts ==
  ASSUME IInv, VInv, NEW x \in Xact \ {Loader}, NEW e, NEW o, Tops(x, e, o)
  PROVE  Topping(NewVersion(x), x, e, o)
<1>1. PICK m \in Nat : Versions(x) = {<<x, i>> : i \in 1..m} /\ NewVersion(x) = <<x, m + 1>>
  BY Fresh
<1>2. PICK n : n = NewVersion(x) /\ n = <<x, m + 1>> /\ n \notin DOMAIN version /\ Writer(n) = x
  BY <1>1, Fresh
<1>3. n # Null
  BY <1>2 DEF Null
<1>4. ASSUME o # Null, e \in DOMAIN entry, o = NewestOf(e)
      PROVE  o \in DOMAIN version /\ version[o].entry = e /\ (Writer(o) = x => o[2] < n[2])
  <2>1. o \in DOMAIN version /\ version[o].entry = e
    BY <1>4, Newest DEF VInv, Chains, Founds
  <2>2. ASSUME Writer(o) = x PROVE o[2] < n[2]
    <3>1. o \in Versions(x)
      BY <2>1, <2>2 DEF Versions
    <3>2. PICK i \in 1..m : o = <<x, i>>
      BY <1>1, <3>1
    <3>3. o[2] = i /\ n[2] = m + 1 /\ i < m + 1
      BY <1>2, <3>2
    <3> QED
      BY <3>3
  <2> QED
    BY <2>1, <2>2
<1> QED
  BY <1>2, <1>3, <1>4 DEF Tops, Topping

LEMMA ToppedChains ==
  ASSUME IInv, VInv, NEW x \in Xact \ {Loader}, NEW n, NEW e, NEW o, Topping(n, x, e, o)
  PROVE  Chains' /\ OnChain(n)' /\ \A w \in DOMAIN version : OnChain(w) => OnChain(w)'
<1>0. /\ n \notin DOMAIN version /\ n # Null /\ Writer(n) = x /\ x # Loader
      /\ DOMAIN version' = DOMAIN version \cup {n} /\ \A v \in DOMAIN version : version'[v] = version[v]
      /\ version'[n].entry = e /\ version'[n].oldV = o
      /\ DOMAIN entry' = DOMAIN entry \cup {e}
      /\ NewestOf(e)' = n /\ \A d \in DOMAIN entry \ {e} : NewestOf(d)' = NewestOf(d)
  BY DEF Topping
<1>1. \/ o = Null /\ e = n
      \/ /\ o \in DOMAIN version /\ o # Null /\ e \in DOMAIN entry /\ o = NewestOf(e)
         /\ version[o].entry = e /\ (Writer(o) = x => o[2] < n[2])
  BY DEF Topping
<1>2. /\ DOMAIN entry \subseteq DOMAIN version
      /\ \A v \in DOMAIN version : version[v].entry \in DOMAIN entry /\ version[v].oldV \in DOMAIN version \cup {Null}
      /\ Chains
  BY VersionFacts DEF IInv, StoreTypes, VInv
<1>3. ASSUME NEW d \in DOMAIN entry' PROVE Founds(d)'
  <2>1. CASE d = e
    <3>1. version'[e].entry = e
      BY <1>0, <1>1, <1>2 DEF Chains, Founds
    <3>2. PICK h : h = NewestOf(d)' /\ h = n
      BY <1>0, <2>1
    <3> QED
      BY <1>0, <2>1, <3>1, <3>2 DEF Founds
  <2>2. CASE d # e
    <3>1. PICK h \in DOMAIN version : h = NewestOf(d) /\ h = NewestOf(d)' /\ d \in DOMAIN version
      BY <1>0, <1>2, <2>2, Newest
    <3> QED
      BY <1>0, <1>2, <2>2, <3>1 DEF Chains, Founds
  <2> QED
    BY <2>1, <2>2
<1>4. ASSUME NEW v \in DOMAIN version PROVE Follows(v)'
  <2>1. Follows(v)
    BY <1>2 DEF Chains
  <2> QED
    BY <1>0, <1>2, <2>1 DEF Follows
<1>5. Follows(n)'
  BY <1>0, <1>1 DEF Follows
<1>6. Chains'
  <2>1. Null \notin DOMAIN version'
    BY <1>0, <1>2 DEF Chains
  <2> QED
    BY <1>0, <1>3, <1>4, <1>5, <2>1 DEF Chains
<1>7. ASSUME NEW z \in DOMAIN version, NEW w \in Below(z) PROVE w \in Below(z)'
  <2> SUFFICES ASSUME NEW S \in SUBSET DOMAIN version', z \in S, Shut(S)' PROVE w \in S
    BY <1>0 DEF Below
  <2>1. PICK R : R = S \cap DOMAIN version
    OBVIOUS
  <2>2. Shut(R)
    BY <1>0, <1>2, <2>1 DEF Shut
  <2> QED
    BY <2>1, <2>2 DEF Below
<1>8. OnChain(n)'
  <2>1. PICK h : h = NewestOf(version[n].entry)' /\ h = n
    BY <1>0
  <2>2. n \in Below(h)'
    BY <1>0, <2>1 DEF Below
  <2> QED
    BY <2>1, <2>2 DEF OnChain, Below, Shut
<1>9. ASSUME NEW w \in DOMAIN version, OnChain(w) PROVE OnChain(w)'
  <2>1. PICK d \in DOMAIN entry : d = version[w].entry /\ d = version'[w].entry
    BY <1>0, <1>2
  <2>2. PICK h \in DOMAIN version : h = NewestOf(d) /\ w \in Below(h)
    BY <1>9, <2>1, Newest DEF OnChain
  <2>3. w \in Below(h)'
    BY <1>7, <2>2
  <2>4. PICK g : g = NewestOf(d)'
    OBVIOUS
  <2>5. w \in Below(g)'
    <3>1. CASE d = e
      <4>1. g = n /\ o = h /\ version'[n].oldV = h /\ h # Null
        BY <1>0, <1>1, <1>2, <2>2, <2>4, <3>1
      <4>2. ASSUME NEW S \in SUBSET DOMAIN version', n \in S, Shut(S)' PROVE w \in S
        <5>1. h \in S
          BY <4>1, <4>2 DEF Shut
        <5> QED
          BY <2>3, <4>2, <5>1 DEF Below
      <4> QED
        BY <1>0, <4>1, <4>2 DEF Below
    <3>2. CASE d # e
      BY <1>0, <2>2, <2>3, <2>4, <3>2
    <3> QED
      BY <3>1, <3>2
  <2> QED
    BY <2>1, <2>4, <2>5 DEF OnChain, NewestOf, Below, Shut
<1> QED
  BY <1>6, <1>8, <1>9

LEMMA ToppedLogged ==
  ASSUME IInv, VInv, NEW x \in Xact \ {Loader}, NEW n, n = NewVersion(x), NEW e, NEW o, Topping(n, x, e, o),
         Logs(x), Standing(x), ~Committed(x), \A y \in Xact : Standing(y)' => Standing(y), NEW y \in Xact
  PROVE  Logged(y)'
<1>0. /\ n \notin DOMAIN version /\ Writer(n) = x
      /\ DOMAIN version' = DOMAIN version \cup {n} /\ \A v \in DOMAIN version : version'[v] = version[v]
      /\ version'[n].oldV = o
  BY DEF Topping
<1>1. PICK s \in Seq(DOMAIN version) : s = xact[y].undo
  BY XactTypes
<1>2. Undoable(s, y) /\ (Standing(y) /\ y # Loader => \A v \in DOMAIN version : Writer(v) = y => v \in Elems(s))
  BY <1>1 DEF VInv, Logged
<1>3. CASE y # x
  <2>1. xact'[y].undo = s
    BY <1>1, <1>3 DEF Logs
  <2>2. Undoable(s, y)'
    BY <1>0, <1>2, UndoableSame
  <2>3. Undoable(xact[y].undo, y)'
    BY <2>1, <2>2 DEF Undoable
  <2>4. (Standing(y) /\ y # Loader => \A v \in DOMAIN version : Writer(v) = y => v \in Elems(xact[y].undo))'
    BY <1>0, <1>2, <1>3, <2>1
  <2> QED
    BY <2>3, <2>4 DEF Logged
<1>4. CASE y = x
  <2>1. PICK q : q = <<n>> \o s /\ q = xact'[y].undo
    BY <1>1, <1>4 DEF Logs
  <2>2. /\ DOMAIN q = 1..(Len(s) + 1) /\ DOMAIN s = 1..Len(s) /\ Len(s) \in Nat
        /\ q[1] = n /\ \A i \in 1..Len(s) : q[i + 1] = s[i] /\ s[i] \in DOMAIN version
    BY <2>1
  <2>3. \A v \in DOMAIN version : Writer(v) = x => v \in Elems(s)
    BY <1>2, <1>4
  <2>4. \A v \in Elems(s) : \E j \in DOMAIN q : 1 < j /\ q[j] = v
    <3> SUFFICES ASSUME NEW i \in DOMAIN s PROVE \E j \in DOMAIN q : 1 < j /\ q[j] = s[i]
      BY DEF Elems
    <3>1. i + 1 \in DOMAIN q /\ 1 < i + 1 /\ q[i + 1] = s[i]
      BY <2>2
    <3> QED
      BY <3>1
  <2>5. Undoable(q, x)'
    <3> SUFFICES ASSUME NEW i \in DOMAIN q
                 PROVE  /\ Writer(q[i]) = x
                        /\ LET u == version'[q[i]].oldV
                           IN  u # Null /\ Writer(u) = x => \E j \in DOMAIN q : i < j /\ q[j] = u
      BY DEF Undoable
    <3>1. CASE i = 1
      <4>1. o # Null => o \in DOMAIN version
        BY DEF Topping
      <4> QED
        BY <1>0, <2>2, <2>3, <2>4, <3>1, <4>1
    <3>2. CASE i # 1
      <4>1. PICK k \in 1..Len(s) : i = k + 1 /\ q[i] = s[k] /\ version'[s[k]].oldV = version[s[k]].oldV
        <5>1. i - 1 \in 1..Len(s) /\ i = (i - 1) + 1
          BY <2>2, <3>2
        <5> QED
          BY <1>0, <2>2, <5>1
      <4>2. PICK u : u = version[s[k]].oldV
        OBVIOUS
      <4>3. Writer(s[k]) = x /\ (u # Null /\ Writer(u) = x => \E j \in DOMAIN s : k < j /\ s[j] = u)
        BY <1>2, <1>4, <2>2, <4>2 DEF Undoable
      <4>4. ASSUME NEW j \in DOMAIN s, k < j, s[j] = u PROVE \E l \in DOMAIN q : i < l /\ q[l] = u
        <5>1. j + 1 \in DOMAIN q /\ i < j + 1 /\ q[j + 1] = u
          BY <2>2, <4>1, <4>4
        <5> QED
          BY <5>1
      <4> QED
        BY <4>1, <4>2, <4>3, <4>4
    <3> QED
      BY <3>1, <3>2
  <2>6. Undoable(xact[y].undo, y)'
    BY <1>4, <2>1, <2>5 DEF Undoable
  <2>7. \A v \in DOMAIN version' : Writer(v) = x => v \in Elems(q)
    <3>1. n \in Elems(q)
      BY <2>2 DEF Elems
    <3>2. \A v \in Elems(s) : v \in Elems(q)
      BY <2>4 DEF Elems
    <3> QED
      BY <1>0, <2>3, <3>1, <3>2
  <2>8. (\A v \in DOMAIN version : Writer(v) = y => v \in Elems(xact[y].undo))'
    BY <1>4, <2>1, <2>7 DEF Elems
  <2> QED
    BY <2>6, <2>8 DEF Logged
<1> QED
  BY <1>3, <1>4

(* No transaction begins, ends or changes its thread.                      *)
LEMMA WorkingOnward ==
  ASSUME IInv, SameTimes, overlooked' = overlooked,
         \A u \in Thread : th'[u].x = th[u].x /\ (th'[u].pc = "unchain" <=> th[u].pc = "unchain")
  PROVE  /\ \A y \in Xact : /\ Standing(y)' <=> Standing(y)
                            /\ Failed(y)' <=> Failed(y)
                            /\ Committed(y)' <=> Committed(y)
                            /\ Begun(y)' <=> Begun(y)
         /\ \A m : Seen(m) => Seen(m)'
<1>1. \A y \in Xact : (Begun(y)' <=> Begun(y)) /\ (Committed(y)' <=> Committed(y))
  BY TimesSame
<1>2. \A y \in Xact : Running(y)' => Running(y)
  BY <1>1 DEF Running, Committed
<1>3. \A y \in Xact : (Standing(y)' <=> Standing(y)) /\ (Failed(y)' <=> Failed(y))
  BY <1>1 DEF Standing, Failed
<1> QED
  BY <1>1, <1>2, <1>3, SeenSame

LEMMA OnTopWell ==
  ASSUME IInv, VInv, IInv', NEW t \in Thread, th[t].pc \in Working, NEW x, x = th[t].x,
         NEW e, NEW o, Tops(x, e, o), Logs(x),
         \A u \in Thread \ {t} : th'[u] = th[u], th'[t].x = x, th'[t].pc \in {"run", "slice"},
         timestampGen' = timestampGen, overlooked' = overlooked, ReadsWell
  PROVE  VInv'
<1>0. x \in Xact \ {Loader} /\ ~Committed(x) /\ Begun(x) /\ th[t].pc # "unchain"
  BY CallFacts, ThreadFacts DEF Working
<1>1. PICK n : n = NewVersion(x) /\ Topping(n, x, e, o)
  BY <1>0, ToppingFacts
<1>2. /\ n \notin DOMAIN version /\ n # Null /\ Writer(n) = x
      /\ DOMAIN version' = DOMAIN version \cup {n} /\ \A v \in DOMAIN version : version'[v] = version[v]
      /\ version'[n].entry = e /\ version'[n].oldV = o
      /\ DOMAIN entry' = DOMAIN entry \cup {e} /\ removed' = removed
      /\ NewestOf(e)' = n /\ \A d \in DOMAIN entry \ {e} : NewestOf(d)' = NewestOf(d)
  BY <1>1 DEF Topping
<1>3. \/ o = Null /\ e = n
      \/ /\ o \in DOMAIN version /\ o # Null /\ e \in DOMAIN entry \ removed /\ o = NewestOf(e)
         /\ version[o].entry = e /\ MayFollow(x, o)
  BY <1>1 DEF Topping
<1>4. SameTimes
  BY DEF Logs, SameTimes
<1>5. \A u \in Thread : th'[u].x = th[u].x /\ (th'[u].pc = "unchain" <=> th[u].pc = "unchain")
  BY <1>0
<1>6. /\ \A y \in Xact : /\ Standing(y)' <=> Standing(y)
                         /\ Failed(y)' <=> Failed(y)
                         /\ Committed(y)' <=> Committed(y)
                         /\ Begun(y)' <=> Begun(y)
      /\ \A m : Seen(m) => Seen(m)'
  BY <1>4, <1>5, WorkingOnward
<1>7. Standing(x)
  BY <1>0 DEF Standing
<1>8. /\ \A v \in DOMAIN version : Writer(v) \in Xact
      /\ DOMAIN entry \subseteq DOMAIN version
      /\ \A v \in DOMAIN version : version[v].entry \in DOMAIN entry /\ version[v].oldV \in DOMAIN version \cup {Null}
  BY VersionFacts DEF IInv, StoreTypes
<1>9. Chains' /\ OnChain(n)' /\ \A w \in DOMAIN version : OnChain(w) => OnChain(w)'
  BY <1>0, <1>1, ToppedChains
<1>10. Reachable'
  BY <1>2, <1>6, <1>8, <1>9 DEF VInv, Reachable
<1>11. Apart'
  BY <1>0, <1>2, <1>4, <1>8, ApartSame DEF VInv
<1>12. ReadsRight'
  <2>1. \A z \in Xact : xact'[z].startTS \in Nat /\ xact'[z].commitTS \in Nat
    BY <1>4, XactTypes DEF SameTimes
  <2>2. Later(n)
    <3>1. xact'[x].commitTS = Never
      BY <1>0, <1>4 DEF SameTimes, Committed
    <3> QED
      BY <1>2, <3>1, ClockBound DEF Later
  <2>3. \A u \in DOMAIN version : xact'[Writer(u)].commitTS = xact[Writer(u)].commitTS
    BY <1>4, <1>8 DEF SameTimes
  <2>4. ReadsRight
    BY DEF VInv
  <2>5. \A u \in DOMAIN version' : Writer(u) \in Xact
    BY <1>0, <1>2, <1>8
  <2>6. \A u \in DOMAIN version' : Later(u) \/ (u \in DOMAIN version /\ xact'[Writer(u)].commitTS = xact[Writer(u)].commitTS)
    BY <1>2, <2>2, <2>3
  <2> QED
    BY <1>2, <1>4, <2>1, <2>3, <2>4, <2>5, <2>6, ReadsOn DEF ReadsWell, SameTimes
<1>13. \A y \in Xact : Logged(y)'
  BY <1>0, <1>1, <1>6, <1>7, ToppedLogged
<1>14. ASSUME NEW d \in DOMAIN entry' \ removed' PROVE Topped(d)'
  <2>1. CASE d = e
    <3>1. PICK h : h = NewestOf(d)' /\ h = n
      BY <1>2, <2>1
    <3> QED
      BY <1>0, <1>2, <1>5, <3>1 DEF Topped
  <2>2. CASE d # e
    <3>1. PICK h \in DOMAIN version : h = NewestOf(d) /\ h = NewestOf(d)' /\ Writer(h) \in Xact
      BY <1>2, <1>8, <2>2, Newest
    <3>2. Topped(d)
      BY <1>2, <2>2 DEF VInv
    <3>3. ASSUME NEW u \in Thread, th[u].x = Writer(h), th[u].pc = "unchain" => h \in Elems(th[u].todo)
          PROVE  Topped(d)'
      <4>1. th'[u].pc = "unchain" => h \in Elems(th'[u].todo)
        BY <1>5, <3>3
      <4> QED
        BY <1>5, <3>1, <3>3, <4>1 DEF Topped
    <3> QED
      BY <1>6, <3>1, <3>2, <3>3 DEF Topped
  <2> QED
    BY <2>1, <2>2
<1>15. ASSUME NEW d \in DOMAIN entry' PROVE Founded(d)'
  <2>1. CASE d \in DOMAIN entry
    <3>1. Founded(d) /\ Writer(d) \in Xact
      BY <1>8, <2>1 DEF VInv
    <3>2. d = e /\ ~Committed(Writer(d)) => Writer(n) = Writer(d)
      <4> SUFFICES ASSUME d = e, ~Committed(Writer(d)) PROVE Writer(n) = Writer(d)
        OBVIOUS
      <4>1. o \in DOMAIN version /\ version[o].entry = e /\ MayFollow(x, o)
        BY <1>2, <1>3, <1>8, <2>1
      <4>2. Writer(o) = Writer(d)
        BY <3>1, <4>1 DEF Founded
      <4>3. Writer(o) = x
        BY <1>0, <4>1, <4>2, FollowedCommitted
      <4> QED
        BY <1>2, <4>2, <4>3
    <3> QED
      BY <1>2, <1>6, <3>1, <3>2 DEF Founded
  <2>2. CASE d \notin DOMAIN entry
    <3>1. d = e /\ d = n
      BY <1>2, <1>3, <2>2
    <3>2. \A v \in DOMAIN version : version'[v].entry # d
      BY <1>2, <1>8, <2>2
    <3> QED
      BY <1>2, <3>1, <3>2 DEF Founded
  <2> QED
    BY <2>1, <2>2
<1>16. ASSUME NEW d \in removed' PROVE Gone(d)'
  <2>1. Gone(d) /\ d \in DOMAIN entry /\ d \in removed
    BY <1>2 DEF VInv, Gone
  <2>2. d # e
    BY <1>2, <1>3, <1>8, <2>1
  <2>3. Writer(d) \in Xact
    BY <1>8, <2>1
  <2>4. CASE Failed(Writer(d))
    BY <1>2, <1>6, <2>1, <2>3, <2>4 DEF Gone
  <2>5. CASE Buried(d)
    <3>1. PICK h \in DOMAIN version : h = NewestOf(d) /\ h = NewestOf(d)' /\ Writer(h) \in Xact
      BY <1>2, <1>8, <2>1, <2>2, Newest
    <3>2. PICK c : c = xact[Writer(h)].commitTS /\ c = xact'[Writer(h)].commitTS
      BY <1>4, <3>1 DEF SameTimes
    <3>3. Seen(c)'
      BY <1>6, <2>5, <3>1, <3>2 DEF Buried
    <3>4. Seen(xact[Writer(h)].commitTS)'
      BY <3>2, <3>3 DEF Seen
    <3>5. Buried(d)'
      BY <1>2, <1>6, <2>5, <3>1, <3>2, <3>4 DEF Buried
    <3> QED
      BY <1>2, <2>1, <3>5 DEF Gone
  <2> QED
    BY <2>1, <2>4, <2>5 DEF Gone
<1>17. ASSUME NEW u \in Thread PROVE OnTheWay(u)'
  <2>1. CASE u = t
    BY <2>1 DEF OnTheWay
  <2>2. CASE u # t
    <3>1. OnTheWay(u) /\ th'[u] = th[u]
      BY <2>2 DEF VInv
    <3>2. th[u].pc = "supersede" => version'[th[u].found].valid
      BY <1>2, <3>1 DEF OnTheWay, IInv, Writes
    <3>3. th[u].x \in Xact => (Committed(th[u].x) => Committed(th[u].x)')
      BY <1>4, <3>1 DEF SameTimes, Committed
    <3>4. \A w \in DOMAIN version : version'[w].oldV = version[w].oldV
      BY <1>2
    <3>5. timestampGen <= timestampGen' /\ timestampGen' \in Nat
      BY ClockType
    <3> QED
      BY <1>6, <3>1, <3>2, <3>3, <3>4, <3>5, WayKept
  <2> QED
    BY <2>1, <2>2
<1> QED
  BY <1>9, <1>10, <1>11, <1>12, <1>13, <1>14, <1>15, <1>16, <1>17 DEF VInv

(* The newest version of an entry that is written over is in the lists.    *)
LEMMA StillListed ==
  ASSUME IInv, VInv, NEW t \in Thread, th[t].pc \in Working, NEW e \in DOMAIN entry, NEW v, v = NewestOf(e),
         MayFollow(th[t].x, v), version[v].valid
  PROVE  e \in DOMAIN entry \ removed /\ v \in DOMAIN version /\ version[v].entry = e
<1>1. PICK x \in Xact : x = th[t].x /\ th[t].pc # "unchain"
  BY CallFacts DEF Working
<1>2. v \in DOMAIN version /\ version[v].entry = e
  BY Newest DEF VInv, Chains, Founds
<1>3. ASSUME e \in removed PROVE FALSE
  <2>1. (Failed(Writer(e)) \/ Buried(e)) /\ Founded(e)
    BY <1>3 DEF VInv, Gone
  <2>2. CASE Failed(Writer(e))
    <3>1. ~Committed(Writer(v)) /\ Writer(v) = Writer(e)
      BY <1>2, <2>1, <2>2 DEF Failed, Founded
    <3>2. Writer(v) = x
      BY <1>1, <1>2, <3>1, FollowedCommitted
    <3> QED
      BY <1>1, <2>2, <3>1, <3>2 DEF Failed
  <2>3. CASE Buried(e)
    BY <2>3 DEF Buried
  <2> QED
    BY <2>1, <2>2, <2>3
<1> QED
  BY <1>2, <1>3

LEMMA SupersedeTops ==
  ASSUME IInv, NEW x \in Xact \ {Loader}, NEW e \in DOMAIN entry \ removed, NEW v \in DOMAIN version,
         v = NewestOf(e), version[v].entry = e, v # Null, MayFollow(x, v), Supersede(x, v)
  PROVE  Tops(x, e, v)
<1>1. PICK n : n = NewVersion(x) /\ n \notin DOMAIN version
  BY Fresh
<1>2. PICK w \in VersionType, r \in {[version[v] EXCEPT !.oldV = v, !.xactid = Never]} : w = version[v]
  BY VersionFacts
<1>3. r.entry = e /\ r.oldV = v
  BY <1>2 DEF VersionType
<1>4. version' = With(version, n, r) /\ entry' = [entry EXCEPT ![e].head = n] /\ removed' = removed
  BY <1>1, <1>2 DEF Supersede
<1>5. /\ DOMAIN version' = DOMAIN version \cup {n} /\ version'[n] = r
      /\ \A u \in DOMAIN version : version'[u] = version[u]
  BY <1>1, <1>4 DEF With
<1>6. /\ DOMAIN entry' = DOMAIN entry \cup {e} /\ NewestOf(e)' = n
      /\ \A d \in DOMAIN entry \ {e} : NewestOf(d)' = NewestOf(d)
  <2>1. PICK z \in [key : Key, head : DOMAIN version] :
          z = entry[e] /\ entry \in [DOMAIN entry -> [key : Key, head : DOMAIN version]]
    BY DEF IInv, StoreTypes
  <2>2. entry' = [entry EXCEPT ![e] = [z EXCEPT !.head = n]]
    BY <1>4, <2>1
  <2> QED
    BY <2>1, <2>2 DEF NewestOf
<1> QED
  BY <1>1, <1>3, <1>4, <1>5, <1>6 DEF Tops

LEMMA InsertTops ==
  ASSUME IInv, NEW x \in Xact \ {Loader}, NEW k \in Key, InsertEntry(x, k), NEW n, n = NewVersion(x)
  PROVE  Tops(x, n, Null)
<1>1. n \notin DOMAIN version /\ n \notin DOMAIN entry
  BY Fresh DEF IInv, StoreTypes
<1>2. PICK r, z : r = [entry |-> n, oldV |-> Null, xactid |-> Never, valid |-> TRUE] /\ z = [key |-> k, head |-> n]
  OBVIOUS
<1>3. version' = With(version, n, r) /\ entry' = With(entry, n, z) /\ removed' = removed
  BY <1>1, <1>2 DEF InsertEntry
<1>4. r.entry = n /\ r.oldV = Null /\ z.head = n
  BY <1>2
<1>5. /\ DOMAIN version' = DOMAIN version \cup {n} /\ version'[n] = r
      /\ \A u \in DOMAIN version : version'[u] = version[u]
  BY <1>1, <1>3 DEF With
<1>6. /\ DOMAIN entry' = DOMAIN entry \cup {n} /\ NewestOf(n)' = n
      /\ \A d \in DOMAIN entry \ {n} : NewestOf(d)' = NewestOf(d)
  BY <1>1, <1>3, <1>4 DEF With, NewestOf
<1> QED
  BY <1>1, <1>3, <1>4, <1>5, <1>6 DEF Tops

(* What a write of x reads of the version it takes the place of.           *)
LEMMA ReadsHead ==
  ASSUME IInv, VInv, NEW t \in Thread, th[t].pc \in Working, NEW x, x = th[t].x, NEW v \in DOMAIN version,
         NewestOf(version[v].entry) = v, MayFollow(x, v),
         reads' = [reads EXCEPT ![x] = @ \cup {u \in {v} : Writer(u) # x}]
  PROVE  ReadsWell
<1>1. x \in Xact /\ Begun(x) /\ ~Committed(x)
  BY CallFacts, ThreadFacts DEF Working
<1>2. PICK W \in SUBSET DOMAIN version : W = {u \in {v} : Writer(u) # x}
  OBVIOUS
<1>3. \A u \in W : Snapshot(x, u)
  BY <1>1, <1>2, ReadingHead
<1>4. reads' = [reads EXCEPT ![x] = @ \cup W]
  BY <1>2
<1> QED
  BY <1>1, <1>3, <1>4, ReadMore

LEMMA SupersedeFoundWell ==
  ASSUME IInv, VInv, IInv', NEW t \in Thread, SupersedeFound(t)
  PROVE  VInv'
<1>0. th[t].pc = "supersede" /\ th[t].pc \in Working
  BY DEF SupersedeFound, At, Working
<1>1. PICK x \in Xact \ {Loader} : x = th[t].x
  BY <1>0, CallFacts
<1>2. PICK v \in DOMAIN version : v = th[t].found /\ MayFollow(x, v) /\ version[v].valid
  BY <1>0, <1>1 DEF IInv, Writes, VInv, OnTheWay
<1>3. CASE Conflict(t)
  BY <1>0, <1>3, CallsWell
<1>4. ASSUME NewestOf(version[v].entry) = v, Supersede(x, v),
             xact' = [xact EXCEPT ![x].undo = <<NewVersion(x)>> \o @, ![x].preds = @ \cup {GetPred(KeyOf(v))}],
             reads' = [reads EXCEPT ![x] = @ \cup {u \in {v} : Writer(u) # x}],
             Called(t, "run"), UNCHANGED <<managerVars, crashed, overlooked>>
      PROVE  VInv'
  <2>1. PICK e \in DOMAIN entry : e = version[v].entry
    BY VersionFacts
  <2>2. e \in DOMAIN entry \ removed /\ v # Null
    BY <1>0, <1>1, <1>2, <1>4, <2>1, StillListed DEF VInv, Chains
  <2>3. Tops(x, e, v)
    BY <1>2, <1>4, <2>1, <2>2, SupersedeTops
  <2>4. Logs(x)
    <3>1. GetPred(KeyOf(v)) \in Pred
      BY Predicates DEF IInv, StoreTypes, VersionType, KeyOf
    <3>2. PICK p \in Pred, u \in {<<NewVersion(x)>> \o xact[x].undo} : p = GetPred(KeyOf(v)) /\ u = <<NewVersion(x)>> \o xact[x].undo
      BY <3>1
    <3>3. xact' = [xact EXCEPT ![x].undo = u, ![x].preds = @ \cup {p}]
      BY <1>4, <3>2
    <3>4. DOMAIN version' = DOMAIN version \cup {NewVersion(x)}
      BY <2>3 DEF Tops
    <3> QED
      BY <3>2, <3>3, <3>4, Logging
  <2>5. ReadsWell
    BY <1>0, <1>1, <1>2, <1>4, ReadsHead
  <2>6. (\A u \in Thread \ {t} : th'[u] = th[u]) /\ th'[t].x = x /\ th'[t].pc = "run"
    BY <1>0, <1>1, <1>4, Calling
  <2>7. timestampGen' = timestampGen /\ overlooked' = overlooked
    BY <1>4 DEF managerVars
  <2> QED
    BY <1>0, <1>1, <2>3, <2>4, <2>5, <2>6, <2>7, OnTopWell
<1> QED
  BY <1>1, <1>2, <1>3, <1>4 DEF SupersedeFound

LEMMA NextRowWell ==
  ASSUME IInv, VInv, IInv', NEW t \in Thread, NextRow(t)
  PROVE  VInv'
<1>0. th[t].pc = "slice" /\ th[t].pc \in Working /\ th[t].todo # <<>>
  BY DEF NextRow, At, Working
<1>1. PICK x \in Xact \ {Loader} : x = th[t].x
  BY <1>0, CallFacts
<1>2. PICK e, v : e = Head(th[t].todo) /\ v = NewestOf(e)
  OBVIOUS
<1>3. CASE Conflict(t)
  BY <1>0, <1>3, CallsWell
<1>4. ASSUME IsVisible(x, v), version[v].valid, Supersede(x, v),
             xact' = [xact EXCEPT ![x].undo = <<NewVersion(x)>> \o @],
             reads' = [reads EXCEPT ![x] = @ \cup {u \in {v} : Writer(u) # x}],
             th' = [th EXCEPT ![t].todo = Tail(@)], UNCHANGED <<managerVars, crashed, overlooked>>
      PROVE  VInv'
  <2>1. /\ e \in DOMAIN entry /\ (\A u \in Thread \ {t} : th'[u] = th[u])
        /\ th'[t].x = x /\ th'[t].pc = "slice"
    BY <1>0, <1>1, <1>2, <1>4, Passing
  <2>2. v \in DOMAIN version /\ MayFollow(x, v)
    BY <1>2, <1>4, <2>1, Newest, Visible
  <2>3. e \in DOMAIN entry \ removed /\ version[v].entry = e /\ v # Null
    BY <1>0, <1>1, <1>2, <1>4, <2>1, <2>2, StillListed DEF VInv, Chains
  <2>4. Tops(x, e, v)
    BY <1>2, <1>4, <2>2, <2>3, SupersedeTops
  <2>5. Logs(x)
    <3>1. DOMAIN version' = DOMAIN version \cup {NewVersion(x)}
      BY <2>4 DEF Tops
    <3> QED
      BY <1>4, <3>1, Logging
  <2>6. ReadsWell
    BY <1>0, <1>1, <1>2, <1>4, <2>2, <2>3, ReadsHead
  <2>7. timestampGen' = timestampGen /\ overlooked' = overlooked
    BY <1>4 DEF managerVars
  <2> QED
    BY <1>0, <1>1, <2>1, <2>4, <2>5, <2>6, <2>7, OnTopWell
<1>5. ASSUME th' = [th EXCEPT ![t].todo = Tail(@)],
             UNCHANGED <<storeVars, xact, managerVars, crashed, ghostVars>>
      PROVE  VInv'
  <2>1. (\A u \in Thread \ {t} : th'[u] = th[u]) /\ th'[t].x = th[t].x /\ th'[t].pc = "slice"
    BY <1>0, <1>5, Passing
  <2>2. /\ StillVersions /\ xact' = xact /\ timestampGen' = timestampGen
        /\ overlooked' = overlooked /\ reads' = reads
    BY <1>5 DEF storeVars, managerVars, ghostVars, StillVersions
  <2> QED
    BY <1>0, <2>1, <2>2, XactSame, ReadsSame, ClockType, EasyStep
<1> QED
  <2>1. \/ Conflict(t)
        \/ /\ IsVisible(x, v) /\ version[v].valid /\ Supersede(x, v)
           /\ xact' = [xact EXCEPT ![x].undo = <<NewVersion(x)>> \o @]
           /\ reads' = [reads EXCEPT ![x] = @ \cup {u \in {v} : Writer(u) # x}]
           /\ th' = [th EXCEPT ![t].todo = Tail(@)] /\ UNCHANGED <<managerVars, crashed, overlooked>>
        \/ /\ th' = [th EXCEPT ![t].todo = Tail(@)]
           /\ UNCHANGED <<storeVars, xact, managerVars, crashed, ghostVars>>
    BY <1>1, <1>2 DEF NextRow
  <2> QED
    BY <1>3, <1>4, <1>5, <2>1

LEMMA InsertWell ==
  ASSUME IInv, VInv, IInv', NEW t \in Thread, NEW k \in Key, Insert(t, k)
  PROVE  VInv'
<1>0. th[t].pc \in Working
  BY DEF Insert, Calls, At, Working
<1>1. PICK x \in Xact \ {Loader} : x = th[t].x
  BY <1>0, CallFacts
<1>2. CASE Conflict(t)
  BY <1>0, <1>2, CallsWell
<1>3. ASSUME InsertEntry(x, k), xact' = [xact EXCEPT ![x].undo = <<NewVersion(x)>> \o @],
             Called(t, "run"), UNCHANGED <<managerVars, crashed, ghostVars>>
      PROVE  VInv'
  <2>0. PICK n : n = NewVersion(x)
    OBVIOUS
  <2>1. Tops(x, n, Null)
    BY <1>3, <2>0, InsertTops
  <2>2. Logs(x)
    <3>1. DOMAIN version' = DOMAIN version \cup {NewVersion(x)}
      BY <2>1 DEF Tops
    <3> QED
      BY <1>3, <3>1, Logging
  <2>3. (\A u \in Thread \ {t} : th'[u] = th[u]) /\ th'[t].x = x /\ th'[t].pc = "run"
    BY <1>0, <1>1, <1>3, Calling
  <2>4. timestampGen' = timestampGen /\ overlooked' = overlooked /\ reads' = reads
    BY <1>3 DEF managerVars, ghostVars
  <2> QED
    BY <1>0, <1>1, <2>1, <2>2, <2>3, <2>4, ReadsSame, OnTopWell
<1> QED
  BY <1>1, <1>2, <1>3 DEF Insert

-----------------------------------------------------------------------------
(* The initial states, all steps, and what the invariant gives.            *)

LEMMA InitVInv ==
  ASSUME Init
  PROVE  VInv
<1>1. IInv
  BY InitIInv
<1> DEFINE L == {Loaded(k) : k \in Present}
<1>2. /\ DOMAIN version = L /\ DOMAIN entry = L
      /\ \A v \in L : /\ version[v].entry = v /\ version[v].oldV = Null
                      /\ version[v].xactid = 1 /\ version[v].valid
                      /\ NewestOf(v) = v /\ Writer(v) = Loader /\ v # Null
  BY DEF Init, Loaded, Writer, NewestOf, Null
<1>3. Loader \in Xact /\ Never \in Nat /\ 2 < Never
  <2>1. MaxXacts \in Nat /\ MaxXacts >= 1 /\ Never \in Nat /\ 2 * MaxXacts < Never
    BY TransactionAssumption
  <2> QED
    BY <2>1, XactFacts DEF Loader, NoXact
<1>4. /\ xact[Loader].startTS = 0 /\ xact[Loader].commitTS = 1 /\ xact[Loader].undo = rows
      /\ \A x \in Xact \ {Loader} : xact[x].startTS = Never /\ xact[x].commitTS = Never /\ xact[x].undo = <<>>
  BY <1>3 DEF Init, Transaction
<1>5. \A t \in Thread : th[t].pc = "idle"
  BY IdleType DEF Init
<1>6. Begun(Loader) /\ Committed(Loader) /\ \A x \in Xact \ {Loader} : ~Begun(x) /\ ~Committed(x)
  BY <1>3, <1>4 DEF Begun, Committed
<1>7. \A i \in DOMAIN rows : rows[i] \in L
  BY <1>1, <1>2 DEF IInv, StoreTypes
<1> HIDE DEF L
<1>8. Chains
  BY <1>2 DEF Chains, Founds, Follows
<1>9. Reachable
  <2> SUFFICES ASSUME NEW v \in L PROVE OnChain(v)
    BY <1>2 DEF Reachable
  <2>1. v \in Below(v) /\ version[v].entry = v /\ NewestOf(v) = v
    BY <1>2, BelowSelf
  <2> QED
    BY <2>1 DEF OnChain
<1>10. Apart
  BY <1>2, <1>4, <1>6 DEF Apart
<1>11. ReadsRight
  <2>1. \A x \in Xact : reads[x] = {}
    BY DEF Init
  <2>2. reads \in [Xact -> SUBSET DOMAIN version]
    BY DEF Init
  <2> QED
    BY <2>1, <2>2 DEF ReadsRight, ReadsAreSnapshot
<1>12. ASSUME NEW x \in Xact PROVE Logged(x)
  <2>1. CASE x = Loader
    <3>1. xact[x].undo = rows
      BY <1>4, <2>1
    <3>2. Undoable(xact[x].undo, x)
      BY <1>2, <1>7, <2>1, <3>1 DEF Undoable
    <3> QED
      BY <2>1, <3>2 DEF Logged
  <2>2. CASE x # Loader
    <3>1. xact[x].undo = <<>> /\ \A v \in DOMAIN version : Writer(v) # x
      BY <1>2, <1>4, <2>2
    <3> QED
      BY <3>1 DEF Logged, Undoable
  <2> QED
    BY <2>1, <2>2
<1>13. /\ \A e \in DOMAIN entry : Topped(e) /\ Founded(e)
       /\ removed = {}
  <2>1. \A e \in DOMAIN entry : Topped(e)
    BY <1>2, <1>6 DEF Topped
  <2>2. \A e \in DOMAIN entry : Founded(e)
    BY <1>2, <1>6 DEF Founded
  <2> QED
    BY <2>1, <2>2 DEF Init
<1>14. \A t \in Thread : OnTheWay(t)
  BY <1>5 DEF OnTheWay
<1> QED
  BY <1>8, <1>9, <1>10, <1>11, <1>12, <1>13, <1>14 DEF VInv

LEMMA NextVInv ==
  ASSUME IInv, VInv, IInv', [Next]_vars
  PROVE  VInv'
<1>1. CASE UNCHANGED vars
  <2>1. /\ StillVersions /\ xact' = xact /\ th' = th /\ timestampGen' = timestampGen
        /\ overlooked' = overlooked /\ reads' = reads
    BY <1>1 DEF vars, storeVars, managerVars, ghostVars, StillVersions
  <2> QED
    BY <2>1, NothingMoves
<1>2. ASSUME NEW t \in Thread, Operations(t) PROVE VInv'
  <2>1. ASSUME NEW k \in Key, Get(t, k) \/ GetForUpdate(t, k) \/ Insert(t, k) PROVE VInv'
    BY <2>1, GetWell, GetForUpdateWell, InsertWell
  <2>2. ASSUME NEW s, SliceNoUpdate(t, s) \/ SliceForUpdate(t, s) PROVE VInv'
    BY <2>2, SliceNoUpdateWell, SliceForUpdateWell
  <2>3. CASE SupersedeFound(t) \/ Delete(t) \/ Foreach(t) \/ NextRow(t) \/ SliceDone(t)
    BY <2>3, SupersedeFoundWell, DeleteWell, ForeachWell, NextRowWell, SliceDoneWell
  <2> QED
    BY <1>2, <2>1, <2>2, <2>3 DEF Operations
<1>3. ASSUME NEW t \in Thread, Commit(t) PROVE VInv'
  <2>1. CASE CommitReadOnly(t) \/ ValidateAndCommit(t) \/ Validate(t) \/ TryLock(t) \/ Push(t)
    BY <2>1, CommitReadOnlyWell, ValidateAndCommitWell, ValidateWell, TryLockWell, PushWell
  <2>2. CASE DrawCommitTS(t) \/ StoreCommitTS(t) \/ StampVersions(t) \/ ClearActive(t)
    BY <2>2, DrawWell, StoreWell, StampWell, ClearWell
  <2> QED
    BY <1>3, <2>1, <2>2 DEF Commit
<1>4. ASSUME NEW t \in Thread, GarbageCollect(t) PROVE VInv'
  BY <1>4, CollectWell, ScanWell, CutWell, SweepWell, CollectedWell DEF GarbageCollect
<1>5. ASSUME NEW t \in Thread, Begin(t) \/ PublishStart(t) \/ Abort(t) \/ Rollback(t) \/ Unchain(t) \/ RolledBack(t)
      PROVE  VInv'
  BY <1>5, BeginWell, PublishWell, AbortWell, RollbackWell, UnchainWell, RolledBackWell
<1> QED
  BY <1>1, <1>2, <1>3, <1>4, <1>5 DEF Next, Ended

(* MultiHashMapMV, TransactionManager: in every reachable state the        *)
(* versions of an entry form a chain on which whatever has committed or    *)
(* may still commit stands in order, a transaction's undo buffer has all   *)
(* it wrote, and an entry is out of the lists only when nobody needs it.   *)
THEOREM VersionInvariant == Spec => []VInv
<1>1. Init => VInv
  BY InitVInv
<1>2. IInv /\ IInv' /\ VInv /\ [Next]_vars => VInv'
  BY NextVInv
<1> QED
  BY <1>1, <1>2, ManagerInvariant, PTL DEF Spec

(* Version::isVisible, TransactionManager::begin and commit: what a        *)
(* transaction reads of others is what had been committed when it began,   *)
(* however its reads fall between the steps of their commits.              *)
THEOREM ReadsSeeSnapshots == Spec => []ReadsAreSnapshot
<1>1. VInv => ReadsAreSnapshot
  BY DEF VInv, ReadsRight
<1> QED
  BY <1>1, VersionInvariant, PTL

(* TransactionManager::rollback: once a transaction has ended without      *)
(* committing, no entry that can be found has a version of it on top.      *)
THEOREM RollbackLeavesNothing == Spec => []RolledBackLeaveNothing
<1>1. IInv /\ VInv => RolledBackLeaveNothing
  BY RolledBackNothing
<1> QED
  BY <1>1, ManagerInvariant, VersionInvariant, PTL

(* TransactionManager::garbageCollect: an entry out of the lists holds no  *)
(* row for a running transaction that no collector overlooked.             *)
THEOREM CollectedStayUnseen == Spec => []CollectedAreUnseen
<1>1. IInv /\ VInv => CollectedAreUnseen
  BY CollectedUnseen
<1> QED
  BY <1>1, ManagerInvariant, VersionInvariant, PTL

=============================================================================
