------------------------- MODULE ApplicationProofs -------------------------
(***************************************************************************)
(* The multiplexers of the driver, for any relations, file sizes, batch    *)
(* sizes and number of runs: they never call a finished dispatcher, never  *)
(* forget an unfinished one, and take turns evenly; and the reader of the  *)
(* files keeps every cell at its place, for any text.                      *)
(***************************************************************************)
EXTENDS MCApplication, SequenceTheorems, FunctionTheorems, FiniteSums

Processing == {"init", "tables", "streams"}

MuxType(mux) ==
  /\ mux \in [v : Seq(Relation), idx : Nat, active : Nat]
  /\ mux.active <= Len(mux.v)

(* The relations that have a dispatcher.                                   *)
Created == {Order[i] : i \in 1..reg}

Types ==
  /\ file \in [Relation -> Nat]
  /\ size \in [Relation -> Nat]
  /\ it \in [Relation -> Nat]
  /\ turns \in [Relation -> Nat]
  /\ reg \in 0..Len(Order)

(* While a run is under way.                                               *)
MuxesSound ==
  stage \in Processing =>
    /\ MuxType(tables) /\ MuxType(streams)
    /\ \A r \in Created : it[r] <= size[r]
    /\ Sound(tables, Static \cap Created, it, size)
    /\ Sound(streams, Dynamic \cap Created, it, size)

(* While the dispatchers are made, the vectors hold the unfinished ones    *)
(* only; the streams have had no turn before their stage.                  *)
Filling ==
  /\ stage = "init" => tables.idx = 0 /\ tables.active = Len(tables.v)
  /\ stage = "init" => streams.active = Len(streams.v)
  /\ stage \in {"init", "tables"} =>
       streams.idx = 0 /\ \A r \in Dynamic : turns[r] = 0
  /\ stage \in {"tables", "streams"} => reg = Len(Order)

(* In round k + 1, the unfinished streams before the turn have had it.     *)
Rounds(mux, S, tr) ==
  \E k \in Nat :
    /\ \A i \in 1..mux.active : tr[mux.v[i]] = IF i <= mux.idx THEN k + 1 ELSE k
    /\ \A r \in S : tr[r] <= k + 1

IInv ==
  /\ Types
  /\ MuxesSound
  /\ Filling
  /\ stage = "streams" => Rounds(streams, Dynamic, turns)

-----------------------------------------------------------------------------

(* A dispatcher's next moves its own iterator on, and not past the end.    *)
LEMMA AdvanceFacts ==
  ASSUME NEW its \in [Relation -> Nat], NEW sz \in [Relation -> Nat],
         NEW r \in Relation, its[r] <= sz[r]
  PROVE  LET moved == Advance(r, its, sz)
         IN  /\ moved \in [Relation -> Nat]
             /\ moved[r] <= sz[r]
             /\ \A s \in Relation \ {r} : moved[s] = its[s]
<1>1. BatchSize(r, its, sz) \in Nat /\ BatchSize(r, its, sz) <= sz[r] - its[r]
  BY BatchAssumption DEF BatchSize
<1> QED
  BY <1>1 DEF Advance

(* The dispatcher whose turn it is, is one of the unfinished.              *)
LEMMA TurnUnfinished ==
  ASSUME NEW S \in SUBSET Relation, NEW mux, MuxType(mux), NEW its, NEW sz,
         Sound(mux, S, its, sz), MuxHasNext(mux)
  PROVE  /\ mux.idx < mux.active
         /\ Turn(mux) \in S
         /\ HasNext(Turn(mux), its, sz)
<1>1. mux.active \in Nat /\ mux.idx \in Nat /\ mux.active > 0
  BY DEF MuxType, MuxHasNext
<1>2. mux.idx < mux.active
  BY <1>1 DEF Sound
<1>3. mux.idx + 1 \in 1..mux.active
  BY <1>1, <1>2
<1>4. Turn(mux) \in Unfinished(S, its, sz)
  BY <1>3 DEF Turn, Sound
<1> QED
  BY <1>2, <1>4 DEF Unfinished

(* What Multiplexer::next leaves: the same dispatchers in front, but the   *)
(* one that ended, and the turn of the one behind it.                      *)
LEMMA MuxNextShape ==
  ASSUME NEW mux, MuxType(mux), mux.idx < mux.active, NEW its, NEW sz
  PROVE  LET next == MuxNext(mux, its, sz)
         IN  /\ MuxType(next)
             /\ next.idx < next.active \/ (next.idx = 0 /\ next.active = 0)
             /\ HasNext(Turn(mux), its, sz) =>
                  /\ next.v = mux.v
                  /\ next.active = mux.active
                  /\ next.idx = IF mux.idx + 1 >= mux.active THEN 0 ELSE mux.idx + 1
             /\ ~HasNext(Turn(mux), its, sz) =>
                  /\ next.active = mux.active - 1
                  /\ \A i \in 1..next.active :
                       next.v[i] = mux.v[IF i <= mux.idx THEN i ELSE i + 1]
                  /\ next.idx = IF mux.idx >= next.active THEN 0 ELSE mux.idx
<1>1. /\ mux \in [v : Seq(Relation), idx : Nat, active : Nat]
      /\ mux.v \in Seq(Relation) /\ mux.idx \in Nat /\ mux.active \in Nat
      /\ Len(mux.v) \in Nat /\ mux.active <= Len(mux.v)
  BY DEF MuxType
<1> DEFINE kept == Retire(mux.v, mux.idx, mux.active)
<1>2. kept \in Seq(Relation) /\ Len(kept) = Len(mux.v)
  <2>1. DOMAIN mux.v = 1..Len(mux.v) /\ \A i \in 1..Len(mux.v) : mux.v[i] \in Relation
    BY <1>1
  <2>2. \A i \in 1..Len(mux.v) : kept[i] \in Relation
    BY <1>1, <2>1 DEF Retire
  <2>3. kept \in [1..Len(mux.v) -> Relation]
    BY <2>1, <2>2 DEF Retire
  <2> QED
    BY <1>1, <2>3
<1>3. \A i \in 1..mux.active - 1 : kept[i] = mux.v[IF i <= mux.idx THEN i ELSE i + 1]
  BY <1>1 DEF Retire
<1>4. CASE HasNext(Turn(mux), its, sz)
  <2> DEFINE moved == [mux EXCEPT !.idx = mux.idx + 1]
  <2>1. /\ moved \in [v : Seq(Relation), idx : Nat, active : Nat]
        /\ moved.v = mux.v /\ moved.active = mux.active /\ moved.idx = mux.idx + 1
    BY <1>1
  <2>2. MuxNext(mux, its, sz) = Wrap(moved)
    BY <1>4 DEF MuxNext
  <2> HIDE DEF moved
  <2>3. CASE mux.idx + 1 >= mux.active
    <3> DEFINE wrapped == [moved EXCEPT !.idx = 0]
    <3>1. /\ wrapped \in [v : Seq(Relation), idx : Nat, active : Nat]
          /\ wrapped.v = mux.v /\ wrapped.active = mux.active /\ wrapped.idx = 0
      BY <2>1
    <3>2. MuxNext(mux, its, sz) = wrapped
      BY <2>1, <2>2, <2>3 DEF Wrap
    <3> HIDE DEF wrapped
    <3> QED
      BY <1>1, <1>4, <2>3, <3>1, <3>2 DEF MuxType
  <2>4. CASE ~(mux.idx + 1 >= mux.active)
    <3>1. MuxNext(mux, its, sz) = moved
      BY <2>1, <2>2, <2>4 DEF Wrap
    <3> QED
      BY <1>1, <1>4, <2>1, <2>4, <3>1 DEF MuxType
  <2> QED
    BY <2>3, <2>4
<1>5. CASE ~HasNext(Turn(mux), its, sz)
  <2> DEFINE short == [mux EXCEPT !.v = kept, !.active = mux.active - 1]
  <2>1. MuxNext(mux, its, sz) = Wrap(short)
    BY <1>5 DEF MuxNext
  <2> HIDE DEF kept
  <2>2. mux.active - 1 \in Nat
    BY <1>1
  <2>3. /\ short \in [v : Seq(Relation), idx : Nat, active : Nat]
        /\ short.v = kept /\ short.active = mux.active - 1 /\ short.idx = mux.idx
    BY <1>1, <1>2, <2>2
  <2> HIDE DEF short
  <2>4. CASE mux.idx >= mux.active - 1
    <3> DEFINE wrapped == [short EXCEPT !.idx = 0]
    <3>1. /\ wrapped \in [v : Seq(Relation), idx : Nat, active : Nat]
          /\ wrapped.v = kept /\ wrapped.active = mux.active - 1 /\ wrapped.idx = 0
      BY <2>3
    <3>2. MuxNext(mux, its, sz) = wrapped
      BY <2>1, <2>3, <2>4 DEF Wrap
    <3> HIDE DEF wrapped
    <3> QED
      BY <1>1, <1>2, <1>3, <1>5, <2>2, <2>4, <3>1, <3>2 DEF MuxType
  <2>5. CASE ~(mux.idx >= mux.active - 1)
    <3>1. MuxNext(mux, its, sz) = short
      BY <2>1, <2>3, <2>5 DEF Wrap
    <3> QED
      BY <1>1, <1>2, <1>3, <1>5, <2>2, <2>3, <2>5, <3>1 DEF MuxType
  <2> QED
    BY <2>4, <2>5
<1> QED
  BY <1>4, <1>5

(* The unfinished dispatchers stay the active ones.                        *)
LEMMA MuxNextSound ==
  ASSUME NEW S \in SUBSET Relation, NEW mux, MuxType(mux), MuxHasNext(mux),
         NEW its \in [Relation -> Nat], NEW sz \in [Relation -> Nat],
         \A r \in S : its[r] <= sz[r], Sound(mux, S, its, sz),
         NEW moved, moved = Advance(Turn(mux), its, sz)
  PROVE  /\ MuxType(MuxNext(mux, moved, sz))
         /\ Sound(MuxNext(mux, moved, sz), S, moved, sz)
<1> DEFINE t == Turn(mux)
           next == MuxNext(mux, moved, sz)
           Kept(m) == {m.v[i] : i \in 1..m.active}
<1>1. mux.idx < mux.active /\ t \in S /\ HasNext(t, its, sz)
  BY TurnUnfinished
<1>2. /\ moved \in [Relation -> Nat] /\ moved[t] <= sz[t]
      /\ \A r \in Relation \ {t} : moved[r] = its[r]
  BY <1>1, AdvanceFacts
<1>3. /\ mux.idx \in Nat /\ mux.active \in Nat /\ t = mux.v[mux.idx + 1]
  BY DEF MuxType, Turn
<1>4. \A r \in S \ {t} : HasNext(r, moved, sz) <=> HasNext(r, its, sz)
  BY <1>2 DEF HasNext
<1>5. Kept(mux) = Unfinished(S, its, sz)
  BY DEF Sound
<1>6. \A i, j \in 1..mux.active : mux.v[i] = mux.v[j] => i = j
  BY DEF Sound
<1>7. CASE HasNext(t, moved, sz)
  <2>1. next.v = mux.v /\ next.active = mux.active
    BY <1>1, <1>7, MuxNextShape
  <2>2. Unfinished(S, moved, sz) = Unfinished(S, its, sz)
    BY <1>1, <1>4, <1>7 DEF Unfinished
  <2> QED
    BY <1>1, <1>5, <1>6, <2>1, <2>2, MuxNextShape DEF Sound
<1>8. CASE ~HasNext(t, moved, sz)
  <2>1. /\ next.active = mux.active - 1
        /\ \A i \in 1..next.active : next.v[i] = mux.v[IF i <= mux.idx THEN i ELSE i + 1]
    BY <1>1, <1>8, MuxNextShape
  <2>2. Unfinished(S, moved, sz) = Unfinished(S, its, sz) \ {t}
    BY <1>1, <1>4, <1>8 DEF Unfinished
  <2>3. Kept(next) = Kept(mux) \ {t}
    <3>1. ASSUME NEW i \in 1..next.active
          PROVE  next.v[i] \in Kept(mux) \ {t}
      <4> DEFINE k == IF i <= mux.idx THEN i ELSE i + 1
      <4>1. k \in 1..mux.active /\ k # mux.idx + 1
        BY <1>1, <1>3, <2>1
      <4> HIDE DEF k
      <4>2. mux.idx + 1 \in 1..mux.active
        BY <1>1, <1>3
      <4>3. next.v[i] = mux.v[k]
        BY <2>1 DEF k
      <4> QED
        BY <1>3, <1>6, <4>1, <4>2, <4>3
    <3>2. ASSUME NEW k \in 1..mux.active, mux.v[k] # t
          PROVE  mux.v[k] \in Kept(next)
      <4>1. k # mux.idx + 1
        BY <1>3, <3>2
      <4> DEFINE i == IF k <= mux.idx THEN k ELSE k - 1
      <4>2. i \in 1..next.active /\ (IF i <= mux.idx THEN i ELSE i + 1) = k
        BY <1>1, <1>3, <2>1, <4>1
      <4> HIDE DEF i
      <4>3. next.v[i] = mux.v[k]
        BY <2>1, <4>2
      <4> QED
        BY <4>2, <4>3
    <3> QED
      BY <3>1, <3>2
  <2>4. \A i, j \in 1..next.active : next.v[i] = next.v[j] => i = j
    <3> SUFFICES ASSUME NEW i \in 1..next.active, NEW j \in 1..next.active,
                        next.v[i] = next.v[j]
                 PROVE  i = j
      OBVIOUS
    <3> DEFINE at(k) == IF k <= mux.idx THEN k ELSE k + 1
    <3>1. at(i) \in 1..mux.active /\ at(j) \in 1..mux.active /\ i \in Nat /\ j \in Nat
      BY <1>1, <1>3, <2>1
    <3>2. mux.v[at(i)] = mux.v[at(j)]
      BY <2>1
    <3>3. at(i) = at(j)
      BY <1>6, <3>1, <3>2
    <3> QED
      BY <1>3, <3>1, <3>3
  <2> QED
    BY <1>1, <1>5, <2>2, <2>3, <2>4, MuxNextShape DEF Sound
<1> QED
  BY <1>7, <1>8

(* A turn of the multiplexer keeps its round: the dispatchers in front of  *)
(* the turn have had one turn more than those from it on.                  *)
LEMMA MuxNextRounds ==
  ASSUME NEW S \in SUBSET Relation, NEW mux, MuxType(mux), MuxHasNext(mux),
         NEW its, NEW sz, Sound(mux, S, its, sz), NEW moved,
         NEW tr \in [Relation -> Nat], Rounds(mux, S, tr)
  PROVE  Rounds(MuxNext(mux, moved, sz), S, [tr EXCEPT ![Turn(mux)] = tr[Turn(mux)] + 1])
<1> DEFINE t == Turn(mux)
           next == MuxNext(mux, moved, sz)
           up == [tr EXCEPT ![t] = tr[t] + 1]
<1>1. mux.idx < mux.active /\ t \in S
  BY TurnUnfinished
<1>2. mux.idx \in Nat /\ mux.active \in Nat /\ t = mux.v[mux.idx + 1]
  BY DEF MuxType, Turn
<1>3. PICK k \in Nat : /\ \A i \in 1..mux.active :
                            tr[mux.v[i]] = IF i <= mux.idx THEN k + 1 ELSE k
                       /\ \A r \in S : tr[r] <= k + 1
  BY DEF Rounds
<1>4. \A i, j \in 1..mux.active : mux.v[i] = mux.v[j] => i = j
  BY DEF Sound
<1>5. \A i \in 1..mux.active : mux.v[i] \in S
  BY DEF Sound, Unfinished
<1>6. tr[t] = k
  BY <1>1, <1>2, <1>3
<1>7. \A r \in S : up[r] \in Nat /\ up[r] <= k + 1
  BY <1>1, <1>3, <1>6
<1>8. \A i \in 1..mux.active : up[mux.v[i]] = IF i <= mux.idx + 1 THEN k + 1 ELSE k
  <2> TAKE i \in 1..mux.active
  <2>1. CASE i = mux.idx + 1
    BY <1>1, <1>2, <1>6, <2>1
  <2>2. CASE i # mux.idx + 1
    <3>1. mux.v[i] # t
      BY <1>1, <1>2, <1>4, <2>2
    <3>2. up[mux.v[i]] = tr[mux.v[i]]
      BY <1>5, <3>1
    <3> QED
      BY <1>2, <1>3, <2>2, <3>2
  <2> QED
    BY <2>1, <2>2
<1>9. next.active \in Nat /\ next.idx \in Nat
  BY <1>1, MuxNextShape DEF MuxType
<1> HIDE DEF up
<1>10. \/ \A i \in 1..next.active : up[next.v[i]] = IF i <= next.idx THEN k + 1 ELSE k
       \/ next.idx = 0 /\ \A i \in 1..next.active : up[next.v[i]] = k + 1
  <2>1. CASE HasNext(t, moved, sz)
    BY <1>1, <1>2, <1>8, <2>1, MuxNextShape
  <2>2. CASE ~HasNext(t, moved, sz)
    <3>1. /\ next.active = mux.active - 1
          /\ \A i \in 1..next.active : next.v[i] = mux.v[IF i <= mux.idx THEN i ELSE i + 1]
          /\ next.idx = IF mux.idx >= next.active THEN 0 ELSE mux.idx
      BY <1>1, <2>2, MuxNextShape
    <3> HIDE DEF next
    <3>2. \A i \in 1..next.active : up[next.v[i]] = IF i <= mux.idx THEN k + 1 ELSE k
      <4> TAKE i \in 1..next.active
      <4>1. CASE i <= mux.idx
        BY <1>1, <1>2, <1>8, <3>1, <4>1
      <4>2. CASE ~(i <= mux.idx)
        <5>1. i + 1 \in 1..mux.active /\ ~(i + 1 <= mux.idx + 1)
          BY <1>1, <1>2, <3>1, <4>2
        <5>2. up[mux.v[i + 1]] = k
          BY <1>8, <5>1
        <5> QED
          BY <3>1, <4>2, <5>2
      <4> QED
        BY <4>1, <4>2
    <3> QED
      BY <1>1, <1>2, <3>1, <3>2
  <2> QED
    BY <2>1, <2>2
<1>11. CASE \A i \in 1..next.active : up[next.v[i]] = IF i <= next.idx THEN k + 1 ELSE k
  BY <1>7, <1>11 DEF Rounds, up
<1>12. CASE next.idx = 0 /\ \A i \in 1..next.active : up[next.v[i]] = k + 1
  <2>1. \A i \in 1..next.active :
          up[next.v[i]] = IF i <= next.idx THEN (k + 1) + 1 ELSE k + 1
    BY <1>9, <1>12
  <2>2. \A r \in S : up[r] <= (k + 1) + 1
    BY <1>7
  <2> QED
    BY <2>1, <2>2 DEF Rounds, up
<1> QED
  BY <1>10, <1>11, <1>12

-----------------------------------------------------------------------------

(* Soundness of a multiplexer depends on the iterators of its relations.   *)
LEMMA SoundElsewhere ==
  ASSUME NEW S \in SUBSET Relation, NEW mux, NEW its, NEW sz, NEW moved,
         \A r \in S : moved[r] = its[r], Sound(mux, S, its, sz)
  PROVE  Sound(mux, S, moved, sz)
<1>1. Unfinished(S, moved, sz) = Unfinished(S, its, sz)
  BY DEF Unfinished, HasNext
<1> QED
  BY <1>1 DEF Sound

(* add_dispatcher on a vector of unfinished dispatchers only.              *)
LEMMA AddDispatcherSound ==
  ASSUME NEW S \in SUBSET Relation, NEW r \in Relation, r \notin S,
         NEW mux, MuxType(mux), mux.idx = 0, mux.active = Len(mux.v),
         NEW its, NEW sz, Sound(mux, S, its, sz),
         NEW more, more = AddDispatcher(mux, r, its, sz)
  PROVE  /\ MuxType(more)
         /\ more.idx = 0 /\ more.active = Len(more.v)
         /\ Sound(more, S \cup {r}, its, sz)
<1>1. /\ mux \in [v : Seq(Relation), idx : Nat, active : Nat]
      /\ mux.v \in Seq(Relation) /\ mux.active \in Nat /\ Len(mux.v) = mux.active
  BY DEF MuxType
<1>2. CASE HasNext(r, its, sz)
  <2> DEFINE n == mux.active + 1
             longer == Append(mux.v, r)
  <2>1. more = [mux EXCEPT !.v = longer, !.active = n]
    BY <1>2 DEF AddDispatcher
  <2>2. /\ longer \in Seq(Relation) /\ Len(longer) = n /\ n \in Nat
        /\ \A i \in 1..mux.active : longer[i] = mux.v[i]
        /\ longer[n] = r
        /\ 1..n = (1..mux.active) \cup {n} /\ n \notin 1..mux.active
    BY <1>1
  <2> HIDE DEF longer, n
  <2>3. /\ more \in [v : Seq(Relation), idx : Nat, active : Nat]
        /\ more.v = longer /\ more.active = n /\ more.idx = 0
    BY <1>1, <2>1, <2>2
  <2>4. Unfinished(S \cup {r}, its, sz) = Unfinished(S, its, sz) \cup {r}
    BY <1>2 DEF Unfinished
  <2>5. {mux.v[i] : i \in 1..mux.active} = Unfinished(S, its, sz)
    BY DEF Sound
  <2>6. {longer[i] : i \in 1..n} = {mux.v[i] : i \in 1..mux.active} \cup {r}
    BY <2>2
  <2>7. \A i, j \in 1..n : longer[i] = longer[j] => i = j
    <3>1. \A i, j \in 1..mux.active : mux.v[i] = mux.v[j] => i = j
      BY DEF Sound
    <3>2. \A i \in 1..mux.active : mux.v[i] # r
      BY <2>5 DEF Unfinished
    <3> QED
      BY <2>2, <3>1, <3>2
  <2>8. 0 < n
    BY <1>1 DEF n
  <2>9. Sound(more, S \cup {r}, its, sz)
    <3>1. {more.v[i] : i \in 1..more.active} = Unfinished(S \cup {r}, its, sz)
      <4>1. {more.v[i] : i \in 1..more.active} = {longer[i] : i \in 1..n}
        BY <2>3
      <4> QED
        BY <2>4, <2>5, <2>6, <4>1
    <3>2. \A i, j \in 1..more.active : more.v[i] = more.v[j] => i = j
      BY <2>3, <2>7
    <3>3. more.idx < more.active
      BY <2>3, <2>8
    <3> QED
      BY <3>1, <3>2, <3>3 DEF Sound
  <2> QED
    BY <2>2, <2>3, <2>9 DEF MuxType
<1>3. CASE ~HasNext(r, its, sz)
  <2>1. more = mux
    BY <1>3 DEF AddDispatcher
  <2>2. Unfinished(S \cup {r}, its, sz) = Unfinished(S, its, sz)
    BY <1>3 DEF Unfinished
  <2> QED
    BY <2>1, <2>2 DEF Sound
<1> QED
  BY <1>2, <1>3

LEMMA EmptyMuxSound ==
  ASSUME NEW its, NEW sz
  PROVE  /\ MuxType(EmptyMux) /\ Sound(EmptyMux, {}, its, sz)
         /\ EmptyMux.idx = 0 /\ EmptyMux.active = 0 /\ Len(EmptyMux.v) = 0
<1>1. EmptyMux.v = <<>> /\ EmptyMux.idx = 0 /\ EmptyMux.active = 0
  BY DEF EmptyMux
<1>2. EmptyMux \in [v : Seq(Relation), idx : Nat, active : Nat]
  BY DEF EmptyMux
<1> QED
  BY <1>1, <1>2 DEF MuxType, Sound, Unfinished

(* What a call of a dispatcher does to the iterators and the history.      *)
LEMMA DispatchFacts ==
  ASSUME Types, NEW r \in Relation, it[r] <= size[r], Dispatch(r)
  PROVE  /\ it' = Advance(r, it, size) /\ it' \in [Relation -> Nat]
         /\ it'[r] <= size[r] /\ \A s \in Relation \ {r} : it'[s] = it[s]
         /\ turns' = [turns EXCEPT ![r] = turns[r] + 1] /\ turns' \in [Relation -> Nat]
<1>1. /\ it \in [Relation -> Nat] /\ size \in [Relation -> Nat] /\ turns \in [Relation -> Nat]
      /\ it' = Advance(r, it, size)
      /\ turns' = [turns EXCEPT ![r] = turns[r] + 1]
  BY DEF Types, Dispatch
<1>2. turns' \in [Relation -> Nat]
  BY <1>1
<1> QED
  BY <1>1, <1>2, AdvanceFacts

LEMMA AllCreated ==
  ASSUME reg = Len(Order)
  PROVE  Created = Relation
BY ApplicationAssumption DEF Created

-----------------------------------------------------------------------------

LEMMA InitHolds == AppInit => IInv
BY DEF AppInit, IInv, Types, MuxesSound, Filling, Processing, ForAll

LEMMA InitDispatcherKeeps ==
  ASSUME IInv, InitDispatcher
  PROVE  IInv'
<1> DEFINE r == Order[reg + 1]
<1>1. /\ stage = "init" /\ stage' = "init" /\ reg < Len(Order) /\ reg' = reg + 1
      /\ it' = [it EXCEPT ![r] = 0]
      /\ UNCHANGED <<file, size, turns>>
  BY DEF InitDispatcher, CreateDispatcher
<1>2. reg \in Nat /\ Len(Order) \in Nat /\ reg + 1 \in 1..Len(Order)
  <2>1. reg \in 0..Len(Order)
    BY DEF IInv, Types
  <2>2. Len(Order) \in Nat
    BY ApplicationAssumption
  <2> QED
    BY <1>1, <2>1, <2>2
<1>3. r \in Relation
  BY <1>2, ApplicationAssumption
<1>4. Created \in SUBSET Relation /\ Created' = Created \cup {r} /\ r \notin Created
  <2>1. \A i \in 1..reg : i \in DOMAIN Order /\ i # reg + 1
    BY <1>2, ApplicationAssumption
  <2>2. reg + 1 \in DOMAIN Order /\ 1..reg + 1 = (1..reg) \cup {reg + 1}
    BY <1>2, ApplicationAssumption
  <2>3. r \notin Created
    BY <2>1, <2>2, ApplicationAssumption DEF Created
  <2>4. Created' = Created \cup {r}
    BY <1>1, <2>2 DEF Created
  <2>5. Created \in SUBSET Relation
    BY <2>1, ApplicationAssumption DEF Created
  <2> QED
    BY <2>3, <2>4, <2>5
<1>5. Types'
  BY <1>1, <1>2, <1>3 DEF IInv, Types
<1>6. /\ it'[r] = 0 /\ \A s \in Created : it'[s] = it[s]
  BY <1>1, <1>3, <1>4 DEF IInv, Types
<1>7. \A s \in Created' : it'[s] <= size'[s]
  <2>1. \A s \in Created : it[s] <= size[s]
    BY <1>1 DEF IInv, MuxesSound, Processing
  <2>2. 0 <= size[r]
    BY <1>3 DEF IInv, Types
  <2> QED
    BY <1>1, <1>4, <1>6, <2>1, <2>2
<1>8. /\ MuxType(tables) /\ MuxType(streams)
      /\ Sound(tables, Static \cap Created, it', size)
      /\ Sound(streams, Dynamic \cap Created, it', size)
      /\ tables.idx = 0 /\ tables.active = Len(tables.v)
      /\ streams.idx = 0 /\ streams.active = Len(streams.v)
  <2>1. /\ MuxType(tables) /\ MuxType(streams)
        /\ Sound(tables, Static \cap Created, it, size)
        /\ Sound(streams, Dynamic \cap Created, it, size)
    BY <1>1 DEF IInv, MuxesSound, Processing
  <2>2. Sound(tables, Static \cap Created, it', size)
    BY <1>4, <1>6, <2>1, SoundElsewhere
  <2>3. Sound(streams, Dynamic \cap Created, it', size)
    BY <1>4, <1>6, <2>1, SoundElsewhere
  <2> QED
    BY <1>1, <2>1, <2>2, <2>3 DEF IInv, Filling
<1> HIDE DEF r
<1>9. CASE r \in Static
  <2>1. tables' = AddDispatcher(tables, r, it', size) /\ streams' = streams
    BY <1>9 DEF InitDispatcher, CreateDispatcher, r
  <2>2. /\ Static \cap Created' = (Static \cap Created) \cup {r}
        /\ Dynamic \cap Created' = Dynamic \cap Created
    BY <1>4, <1>9 DEF Dynamic
  <2>3. /\ MuxType(tables') /\ tables'.idx = 0 /\ tables'.active = Len(tables'.v)
        /\ Sound(tables', (Static \cap Created) \cup {r}, it', size)
    <3> DEFINE S == Static \cap Created
    <3>1. S \in SUBSET Relation /\ r \notin S
      BY <1>4
    <3>2. /\ MuxType(tables) /\ tables.idx = 0 /\ tables.active = Len(tables.v)
          /\ Sound(tables, S, it', size) /\ tables' = AddDispatcher(tables, r, it', size)
      BY <1>8, <2>1
    <3> HIDE DEF S
    <3>3. /\ MuxType(tables') /\ tables'.idx = 0 /\ tables'.active = Len(tables'.v)
          /\ Sound(tables', S \cup {r}, it', size)
      BY <1>3, <3>1, <3>2, AddDispatcherSound
    <3> QED
      BY <3>3 DEF S
  <2>4. MuxesSound'
    BY <1>1, <1>7, <1>8, <2>1, <2>2, <2>3 DEF MuxesSound
  <2> QED
    BY <1>1, <1>5, <1>8, <2>1, <2>3, <2>4 DEF IInv, Filling, Dynamic
<1>10. CASE r \notin Static
  <2>1. streams' = AddDispatcher(streams, r, it', size) /\ tables' = tables
    BY <1>10 DEF InitDispatcher, CreateDispatcher, r
  <2>2. /\ Dynamic \cap Created' = (Dynamic \cap Created) \cup {r}
        /\ Static \cap Created' = Static \cap Created
    BY <1>3, <1>4, <1>10 DEF Dynamic
  <2>3. /\ MuxType(streams') /\ streams'.idx = 0 /\ streams'.active = Len(streams'.v)
        /\ Sound(streams', (Dynamic \cap Created) \cup {r}, it', size)
    <3> DEFINE S == Dynamic \cap Created
    <3>1. S \in SUBSET Relation /\ r \notin S
      BY <1>4
    <3>2. /\ MuxType(streams) /\ streams.idx = 0 /\ streams.active = Len(streams.v)
          /\ Sound(streams, S, it', size) /\ streams' = AddDispatcher(streams, r, it', size)
      BY <1>8, <2>1
    <3> HIDE DEF S
    <3>3. /\ MuxType(streams') /\ streams'.idx = 0 /\ streams'.active = Len(streams'.v)
          /\ Sound(streams', S \cup {r}, it', size)
      BY <1>3, <3>1, <3>2, AddDispatcherSound
    <3> QED
      BY <3>3 DEF S
  <2>4. MuxesSound'
    BY <1>1, <1>7, <1>8, <2>1, <2>2, <2>3 DEF MuxesSound
  <2> QED
    BY <1>1, <1>5, <1>8, <2>1, <2>3, <2>4 DEF IInv, Filling, Dynamic
<1> QED
  BY <1>9, <1>10

LEMMA TableNextKeeps ==
  ASSUME IInv, TableNext
  PROVE  IInv'
<1> DEFINE r == Turn(tables)
<1>1. /\ stage = "tables" /\ MuxHasNext(tables) /\ Dispatch(r)
      /\ tables' = MuxNext(tables, it', size)
      /\ UNCHANGED <<file, stage, reg, size, streams>>
  BY DEF TableNext
<1>2. /\ Types /\ reg = Len(Order)
      /\ MuxType(tables) /\ MuxType(streams)
      /\ \A s \in Created : it[s] <= size[s]
      /\ Sound(tables, Static \cap Created, it, size)
      /\ Sound(streams, Dynamic \cap Created, it, size)
      /\ streams.idx = 0 /\ \A s \in Dynamic : turns[s] = 0
  BY <1>1 DEF IInv, MuxesSound, Processing, Filling
<1>3. Created = Relation /\ Created' = Relation
  BY <1>1, <1>2, AllCreated DEF Created
<1>4. /\ Static \in SUBSET Relation /\ Dynamic \in SUBSET Relation
      /\ Static \cap Created = Static /\ Dynamic \cap Created = Dynamic
  BY <1>3, ApplicationAssumption DEF Dynamic
<1>5. /\ Sound(tables, Static, it, size) /\ Sound(streams, Dynamic, it, size)
  BY <1>2, <1>4
<1>6. r \in Static
  BY <1>1, <1>2, <1>4, <1>5, TurnUnfinished
<1>7. /\ it' = Advance(r, it, size) /\ it' \in [Relation -> Nat]
      /\ it'[r] <= size[r] /\ \A s \in Relation \ {r} : it'[s] = it[s]
      /\ turns' = [turns EXCEPT ![r] = turns[r] + 1] /\ turns' \in [Relation -> Nat]
  BY <1>1, <1>2, <1>3, <1>4, <1>6, DispatchFacts
<1>8. Types'
  BY <1>1, <1>2, <1>7 DEF Types
<1>9. MuxType(tables') /\ Sound(tables', Static, it', size)
  <2>1. /\ it \in [Relation -> Nat] /\ size \in [Relation -> Nat]
        /\ \A s \in Static : it[s] <= size[s]
    BY <1>2, <1>3, <1>4 DEF Types
  <2> QED
    BY <1>1, <1>2, <1>4, <1>5, <1>7, <2>1, MuxNextSound
<1>10. Sound(streams', Dynamic, it', size)
  <2>1. \A s \in Dynamic : it'[s] = it[s]
    BY <1>6, <1>7 DEF Dynamic
  <2> QED
    BY <1>1, <1>4, <1>5, <2>1, SoundElsewhere
<1>11. \A s \in Created' : it'[s] <= size'[s]
  BY <1>1, <1>2, <1>3, <1>7
<1>12. MuxesSound'
  <2>1. Static \cap Created' = Static /\ Dynamic \cap Created' = Dynamic
    BY <1>3, <1>4
  <2>2. /\ Sound(tables', Static \cap Created', it', size')
        /\ Sound(streams', Dynamic \cap Created', it', size')
    BY <1>1, <1>9, <1>10, <2>1
  <2> QED
    BY <1>1, <1>2, <1>9, <1>11, <2>2 DEF MuxesSound
<1>13. \A s \in Dynamic : turns'[s] = 0
  BY <1>2, <1>6, <1>7 DEF Types, Dynamic
<1> QED
  BY <1>1, <1>2, <1>8, <1>12, <1>13 DEF IInv, Filling, Dynamic

LEMMA StreamNextKeeps ==
  ASSUME IInv, StreamNext
  PROVE  IInv'
<1> DEFINE r == Turn(streams)
<1>1. /\ stage = "streams" /\ MuxHasNext(streams) /\ Dispatch(r)
      /\ streams' = MuxNext(streams, it', size)
      /\ UNCHANGED <<file, stage, reg, size, tables>>
  BY DEF StreamNext
<1>2. /\ Types /\ reg = Len(Order)
      /\ MuxType(tables) /\ MuxType(streams)
      /\ \A s \in Created : it[s] <= size[s]
      /\ Sound(tables, Static \cap Created, it, size)
      /\ Sound(streams, Dynamic \cap Created, it, size)
      /\ Rounds(streams, Dynamic, turns)
  BY <1>1 DEF IInv, MuxesSound, Processing, Filling
<1>3. Created = Relation /\ Created' = Relation
  BY <1>1, <1>2, AllCreated DEF Created
<1>4. /\ Static \in SUBSET Relation /\ Dynamic \in SUBSET Relation
      /\ Static \cap Created = Static /\ Dynamic \cap Created = Dynamic
  BY <1>3, ApplicationAssumption DEF Dynamic
<1>5. /\ Sound(tables, Static, it, size) /\ Sound(streams, Dynamic, it, size)
  BY <1>2, <1>4
<1>6. r \in Dynamic
  BY <1>1, <1>2, <1>4, <1>5, TurnUnfinished
<1>7. /\ it' = Advance(r, it, size) /\ it' \in [Relation -> Nat]
      /\ it'[r] <= size[r] /\ \A s \in Relation \ {r} : it'[s] = it[s]
      /\ turns' = [turns EXCEPT ![r] = turns[r] + 1] /\ turns' \in [Relation -> Nat]
  BY <1>1, <1>2, <1>3, <1>4, <1>6, DispatchFacts
<1>8. Types'
  BY <1>1, <1>2, <1>7 DEF Types
<1>9. MuxType(streams') /\ Sound(streams', Dynamic, it', size)
  <2>1. /\ it \in [Relation -> Nat] /\ size \in [Relation -> Nat]
        /\ \A s \in Dynamic : it[s] <= size[s]
    BY <1>2, <1>3, <1>4 DEF Types
  <2> QED
    BY <1>1, <1>2, <1>4, <1>5, <1>7, <2>1, MuxNextSound
<1>10. Sound(tables', Static, it', size)
  <2>1. \A s \in Static : it'[s] = it[s]
    BY <1>4, <1>6, <1>7 DEF Dynamic
  <2> QED
    BY <1>1, <1>4, <1>5, <2>1, SoundElsewhere
<1>11. \A s \in Created' : it'[s] <= size'[s]
  BY <1>1, <1>2, <1>3, <1>7
<1>12. MuxesSound'
  <2>1. Static \cap Created' = Static /\ Dynamic \cap Created' = Dynamic
    BY <1>3, <1>4
  <2>2. /\ Sound(tables', Static \cap Created', it', size')
        /\ Sound(streams', Dynamic \cap Created', it', size')
    BY <1>1, <1>9, <1>10, <2>1
  <2> QED
    BY <1>1, <1>2, <1>9, <1>11, <2>2 DEF MuxesSound
<1>13. Rounds(streams', Dynamic, turns')
  <2>1. turns \in [Relation -> Nat]
    BY <1>2 DEF Types
  <2> QED
    BY <1>1, <1>2, <1>4, <1>5, <1>7, <2>1, MuxNextRounds
<1>14. Rounds(streams, Dynamic, turns)'
  BY <1>13 DEF Dynamic
<1> QED
  BY <1>1, <1>2, <1>8, <1>12, <1>14 DEF IInv, Filling

(* The steps between runs and stages.                                      *)
LEMMA StageStepsKeep ==
  ASSUME IInv,
         \/ Load \/ BeginRun \/ BeginProcessing \/ SystemReady
         \/ GiveUp \/ StreamsDone \/ EndRun \/ Finish \/ UNCHANGED appVars
  PROVE  IInv'
<1>1. CASE Load
  BY <1>1 DEF Load, IInv, Types, MuxesSound, Processing, Filling
<1>2. CASE BeginRun
  <2>1. /\ stage' = "init" /\ reg' = 0 /\ tables' = EmptyMux /\ streams' = EmptyMux
        /\ turns' = ForAll(0) /\ UNCHANGED <<file, size, it>>
    BY <1>2 DEF BeginRun
  <2>2. Created' = {}
    BY <2>1 DEF Created
  <2>3. Types'
    <3>1. Len(Order) \in Nat
      BY ApplicationAssumption
    <3> QED
      BY <2>1, <3>1 DEF IInv, Types, ForAll
  <2>4. MuxesSound'
    <3>1. Static \cap Created' = {} /\ Dynamic \cap Created' = {}
      BY <2>2
    <3>2. /\ Sound(tables', Static \cap Created', it', size')
          /\ Sound(streams', Dynamic \cap Created', it', size')
          /\ MuxType(tables') /\ MuxType(streams')
      BY <2>1, <3>1, EmptyMuxSound
    <3> QED
      BY <2>2, <3>2 DEF MuxesSound
  <2>5. Filling'
    <3>1. \A r \in Dynamic : turns'[r] = 0
      BY <2>1 DEF ForAll, Dynamic
    <3> QED
      BY <2>1, <3>1, EmptyMuxSound DEF Filling, Dynamic
  <2> QED
    BY <2>1, <2>3, <2>4, <2>5 DEF IInv
<1>3. CASE BeginProcessing
  <2>1. /\ stage = "init" /\ stage' = "tables" /\ reg = Len(Order)
        /\ UNCHANGED <<file, reg, size, it, tables, streams, turns>>
    BY <1>3 DEF BeginProcessing
  <2>2. Created' = Created
    BY <2>1 DEF Created
  <2>3. MuxesSound'
    BY <2>1, <2>2 DEF IInv, MuxesSound, Processing
  <2> QED
    BY <2>1, <2>3 DEF IInv, Types, Filling, Dynamic
<1>4. CASE SystemReady
  <2>1. /\ stage = "tables" /\ stage' = "streams"
        /\ UNCHANGED <<file, reg, size, it, tables, streams, turns>>
    BY <1>4 DEF SystemReady
  <2>2. Created' = Created
    BY <2>1 DEF Created
  <2>3. MuxesSound'
    BY <2>1, <2>2 DEF IInv, MuxesSound, Processing
  <2>4. Rounds(streams, Dynamic, turns)
    <3>1. streams.idx = 0 /\ MuxType(streams) /\ \A r \in Dynamic : turns[r] = 0
      BY <2>1 DEF IInv, Filling, MuxesSound, Processing
    <3>2. Created = Relation /\ Dynamic \subseteq Relation
      BY <2>1, AllCreated DEF IInv, Filling, Dynamic
    <3>3. Sound(streams, Dynamic \cap Created, it, size)
      BY <2>1 DEF IInv, MuxesSound, Processing
    <3>4. \A i \in 1..streams.active : streams.v[i] \in Dynamic
      BY <3>3 DEF Sound, Unfinished
    <3>5. \A i \in 1..streams.active :
            turns[streams.v[i]] = IF i <= streams.idx THEN 0 + 1 ELSE 0
      BY <3>1, <3>4
    <3>6. \A r \in Dynamic : turns[r] <= 0 + 1
      BY <3>1
    <3> QED
      BY <3>5, <3>6 DEF Rounds
  <2>5. Rounds(streams, Dynamic, turns)'
    BY <2>1, <2>4 DEF Dynamic
  <2> QED
    BY <2>1, <2>3, <2>5 DEF IInv, Types, Filling
<1>5. CASE GiveUp \/ StreamsDone \/ EndRun \/ Finish
  <2>1. stage' \in {"exited", "end", "run", "done"}
    BY <1>5 DEF GiveUp, StreamsDone, EndRun, Finish
  <2>2. Types'
    BY <1>5 DEF GiveUp, StreamsDone, EndRun, Finish, IInv, Types, ForAll
  <2> QED
    BY <2>1, <2>2 DEF IInv, MuxesSound, Processing, Filling
<1>6. CASE UNCHANGED appVars
  <2>1. Created' = Created /\ Dynamic' = Dynamic
    BY <1>6 DEF appVars, Created, Dynamic
  <2>2. UNCHANGED <<file, stage, size, it, turns, reg, tables, streams>>
    BY <1>6 DEF appVars
  <2>3. MuxesSound'
    BY <2>1, <2>2 DEF IInv, MuxesSound
  <2>4. stage' = "streams" => Rounds(streams, Dynamic, turns)'
    BY <2>1, <2>2 DEF IInv
  <2> QED
    BY <2>1, <2>2, <2>3, <2>4 DEF IInv, Types, Filling
<1> QED
  BY <1>1, <1>2, <1>3, <1>4, <1>5, <1>6

LEMMA Invariance == AppSpec => []IInv
<1>1. IInv /\ [AppNext]_appVars => IInv'
  BY InitDispatcherKeeps, TableNextKeeps, StreamNextKeeps, StageStepsKeep DEF AppNext
<1> QED
  BY <1>1, InitHolds, PTL DEF AppSpec

-----------------------------------------------------------------------------

(* Multiplexer::next always calls a dispatcher that has tuples left, and   *)
(* no dispatcher with tuples left drops out of its multiplexer.            *)
THEOREM NeverPastEnd == AppSpec => []ActiveAreUnfinished
<1>1. IInv => ActiveAreUnfinished
  <2> SUFFICES ASSUME IInv, stage \in {"tables", "streams"}
               PROVE  Sound(tables, Static, it, size) /\ Sound(streams, Dynamic, it, size)
    BY DEF ActiveAreUnfinished
  <2>1. Created = Relation
    BY AllCreated DEF IInv, Filling
  <2>2. Static \cap Created = Static /\ Dynamic \cap Created = Dynamic
    BY <2>1, ApplicationAssumption DEF Dynamic
  <2>3. /\ Sound(tables, Static \cap Created, it, size)
        /\ Sound(streams, Dynamic \cap Created, it, size)
    BY DEF IInv, MuxesSound, Processing
  <2> QED
    BY <2>2, <2>3
<1> QED
  BY <1>1, Invariance, PTL

(* No stream with tuples left is ever two turns behind another stream,     *)
(* whatever the lengths of the streams and the sizes of their batches.     *)
THEOREM RoundRobin == AppSpec => []BalancedStreams
<1>1. IInv => BalancedStreams
  <2> SUFFICES ASSUME IInv, stage = "streams",
                      NEW r \in Unfinished(Dynamic, it, size), NEW s \in Dynamic
               PROVE  turns[s] <= turns[r] + 1
    BY DEF BalancedStreams
  <2>1. Created = Relation
    BY AllCreated DEF IInv, Filling
  <2>2. Dynamic \cap Created = Dynamic
    BY <2>1 DEF Dynamic
  <2>3. Sound(streams, Dynamic, it, size) /\ MuxType(streams)
    BY <2>2 DEF IInv, MuxesSound, Processing
  <2>4. PICK k \in Nat : /\ \A i \in 1..streams.active :
                              turns[streams.v[i]] = IF i <= streams.idx THEN k + 1 ELSE k
                         /\ \A q \in Dynamic : turns[q] <= k + 1
    BY DEF IInv, Rounds
  <2>5. PICK i \in 1..streams.active : r = streams.v[i]
    BY <2>3 DEF Sound
  <2>6. turns[r] = k \/ turns[r] = k + 1
    BY <2>4, <2>5
  <2>7. turns[s] \in Nat /\ turns[s] <= k + 1
    BY <2>4 DEF IInv, Types, Dynamic
  <2> QED
    BY <2>6, <2>7
<1> QED
  BY <1>1, Invariance, PTL

-----------------------------------------------------------------------------

UpTo(n) == [k \in 1..n |-> k]

LEMMA UpToExtends ==
  ASSUME NEW a \in Nat, NEW b \in Nat
  PROVE  UpTo(a) \o [k \in 1..b |-> a + k] = UpTo(a + b)
<1> DEFINE more == [k \in 1..b |-> a + k]
<1>1. UpTo(a) \in Seq(Nat) /\ Len(UpTo(a)) = a /\ \A k \in 1..a : UpTo(a)[k] = k
  BY DEF UpTo
<1>2. more \in Seq(Nat) /\ Len(more) = b /\ \A k \in 1..b : more[k] = a + k
  OBVIOUS
<1> HIDE DEF more
<1>3. /\ UpTo(a) \o more \in Seq(Nat) /\ Len(UpTo(a) \o more) = a + b
      /\ \A k \in 1..a + b : (UpTo(a) \o more)[k] = k
  <2>1. UpTo(a) \o more \in Seq(Nat) /\ Len(UpTo(a) \o more) = a + b
    BY <1>1, <1>2
  <2>2. ASSUME NEW k \in 1..a + b
        PROVE  (UpTo(a) \o more)[k] = k
    <3>1. CASE k <= a
      BY <1>1, <1>2, <3>1
    <3>2. CASE ~(k <= a)
      <4>1. k - a \in 1..b
        BY <3>2
      <4>2. (UpTo(a) \o more)[k] = more[k - a]
        BY <1>1, <1>2, <3>2
      <4> QED
        BY <1>2, <4>1, <4>2
    <3> QED
      BY <3>1, <3>2
  <2> QED
    BY <2>1, <2>2
<1>4. UpTo(a + b) \in Seq(Nat) /\ Len(UpTo(a + b)) = a + b
      /\ \A k \in 1..a + b : UpTo(a + b)[k] = k
  BY DEF UpTo
<1> QED
  BY <1>3, <1>4, SeqEqual DEF more

(* What the data_t of the current run has got so far.                      *)
Delivered ==
  /\ stage \notin {"load", "done"} => size = file
  /\ stage \in Processing \cup {"end"} =>
       \A r \in Created : func[r] = run /\ got[r] = UpTo(it[r])
  /\ stage = "init" => \A r \in Relation : got[r] = <<>>
  /\ stage = "init" => \A r \in Created : it[r] = 0
  /\ stage = "tables" => \A r \in Dynamic : it[r] = 0
  /\ stage \in {"streams", "end"} => \A r \in Static : it[r] = size[r]
  /\ stage = "end" => reg = Len(Order) /\ \A r \in Dynamic : it[r] = size[r]

HistoryTypes ==
  /\ run \in Nat
  /\ func \in [Relation -> Nat]
  /\ got \in [Relation -> Seq(Nat)]

DInv == IInv /\ HistoryTypes /\ Delivered

LEMMA DispatchDelivers ==
  ASSUME Types, HistoryTypes, NEW r \in Relation, it[r] <= size[r], Dispatch(r),
         func[r] = run, got[r] = UpTo(it[r])
  PROVE  /\ got' \in [Relation -> Seq(Nat)] /\ got'[r] = UpTo(it'[r])
         /\ \A s \in Relation \ {r} : got'[s] = got[s]
<1> DEFINE a == it[r]
           b == BatchSize(r, it, size)
<1>1. a \in Nat /\ b \in Nat
  BY BatchAssumption DEF BatchSize, Types
<1>2. it'[r] = a + b
  BY DEF Dispatch, Advance, Types
<1>3. got' = [got EXCEPT ![r] = UpTo(a) \o [k \in 1..b |-> a + k]]
  BY DEF Dispatch, HistoryTypes
<1> HIDE DEF a, b
<1>4. UpTo(a) \o [k \in 1..b |-> a + k] = UpTo(a + b)
  BY <1>1, UpToExtends
<1>5. UpTo(a + b) \in Seq(Nat)
  <2>1. UpTo(a + b) \in [1..a + b -> Nat] /\ a + b \in Nat
    BY <1>1 DEF UpTo
  <2> QED
    BY <2>1
<1> QED
  BY <1>2, <1>3, <1>4, <1>5 DEF HistoryTypes

(* A multiplexer that says it is through has no unfinished dispatcher.     *)
LEMMA ThroughMeansDone ==
  ASSUME NEW S \in SUBSET Relation, NEW mux, MuxType(mux), ~MuxHasNext(mux),
         NEW its, NEW sz, Sound(mux, S, its, sz)
  PROVE  \A r \in S : its[r] = sz[r]
<1>1. mux.active = 0
  BY DEF MuxType, MuxHasNext
<1>2. Unfinished(S, its, sz) = {}
  BY <1>1 DEF Sound
<1> QED
  BY <1>2 DEF Unfinished, HasNext

LEMMA DeliveryInit == AppInit => DInv
<1>1. AppInit => HistoryTypes /\ Delivered
  BY DEF AppInit, HistoryTypes, Delivered, Processing, ForAll
<1> QED
  BY <1>1, InitHolds DEF DInv

LEMMA InitDispatcherDelivers ==
  ASSUME DInv, InitDispatcher
  PROVE  HistoryTypes' /\ Delivered'
<1> DEFINE r == Order[reg + 1]
<1>1. /\ stage = "init" /\ stage' = "init" /\ reg < Len(Order) /\ reg' = reg + 1
      /\ it' = [it EXCEPT ![r] = 0] /\ func' = [func EXCEPT ![r] = run]
      /\ UNCHANGED <<file, run, size, got>>
  BY DEF InitDispatcher, CreateDispatcher
<1>2. reg \in Nat /\ Len(Order) \in Nat /\ reg + 1 \in 1..Len(Order)
  <2>1. reg \in 0..Len(Order)
    BY DEF DInv, IInv, Types
  <2>2. Len(Order) \in Nat
    BY ApplicationAssumption
  <2> QED
    BY <1>1, <2>1, <2>2
<1>3. r \in Relation
  BY <1>2, ApplicationAssumption
<1>4. Created' = Created \cup {r} /\ Created \subseteq Relation
  <2>1. 1..reg + 1 = (1..reg) \cup {reg + 1} /\ \A i \in 1..reg : i \in DOMAIN Order
    BY <1>2, ApplicationAssumption
  <2> QED
    BY <1>1, <2>1, ApplicationAssumption DEF Created
<1> HIDE DEF r
<1>5. /\ it \in [Relation -> Nat] /\ func \in [Relation -> Nat] /\ run \in Nat
      /\ got \in [Relation -> Seq(Nat)] /\ size = file
      /\ \A s \in Relation : got[s] = <<>>
      /\ \A s \in Created : func[s] = run /\ it[s] = 0
  BY <1>1 DEF DInv, IInv, Types, HistoryTypes, Delivered, Processing
<1>6. UpTo(0) = <<>>
  BY DEF UpTo
<1>7. \A s \in Created' : func'[s] = run' /\ it'[s] = 0 /\ got'[s] = UpTo(it'[s])
  BY <1>1, <1>3, <1>4, <1>5, <1>6
<1> QED
  BY <1>1, <1>3, <1>5, <1>7 DEF HistoryTypes, Delivered

LEMMA TableNextDelivers ==
  ASSUME DInv, TableNext
  PROVE  HistoryTypes' /\ Delivered'
<1> DEFINE r == Turn(tables)
<1>1. /\ stage = "tables" /\ MuxHasNext(tables) /\ Dispatch(r)
      /\ UNCHANGED <<file, stage, run, reg, size, func>>
  BY DEF TableNext
<1>2. /\ Types /\ HistoryTypes /\ MuxType(tables)
      /\ Sound(tables, Static \cap Created, it, size)
      /\ \A s \in Created : it[s] <= size[s] /\ func[s] = run /\ got[s] = UpTo(it[s])
      /\ \A s \in Dynamic : it[s] = 0
      /\ size = file
  BY <1>1 DEF DInv, IInv, MuxesSound, Processing, Delivered
<1>3. Created = Relation /\ Created' = Relation
  BY <1>1, AllCreated DEF DInv, IInv, Filling, Created
<1>4. r \in Static /\ r \in Relation
  BY <1>1, <1>2, <1>3, ApplicationAssumption, TurnUnfinished
<1>5. /\ it' \in [Relation -> Nat] /\ \A s \in Relation \ {r} : it'[s] = it[s]
  BY <1>1, <1>2, <1>3, <1>4, DispatchFacts
<1>6. /\ got' \in [Relation -> Seq(Nat)] /\ got'[r] = UpTo(it'[r])
      /\ \A s \in Relation \ {r} : got'[s] = got[s]
  BY <1>1, <1>2, <1>3, <1>4, DispatchDelivers
<1>7. \A s \in Created' : func'[s] = run' /\ got'[s] = UpTo(it'[s])
  <2> SUFFICES ASSUME NEW s \in Relation
               PROVE  func'[s] = run' /\ got'[s] = UpTo(it'[s])
    BY <1>3
  <2>1. func'[s] = run'
    BY <1>1, <1>2, <1>3
  <2>2. CASE s = r
    BY <1>6, <2>1, <2>2
  <2>3. CASE s # r
    BY <1>2, <1>3, <1>5, <1>6, <2>1, <2>3
  <2> QED
    BY <2>2, <2>3
<1>8. \A s \in Dynamic : it'[s] = 0
  BY <1>2, <1>4, <1>5 DEF Dynamic
<1> HIDE DEF r
<1> QED
  BY <1>1, <1>2, <1>6, <1>7, <1>8 DEF HistoryTypes, Delivered, Dynamic

LEMMA StreamNextDelivers ==
  ASSUME DInv, StreamNext
  PROVE  HistoryTypes' /\ Delivered'
<1> DEFINE r == Turn(streams)
<1>1. /\ stage = "streams" /\ MuxHasNext(streams) /\ Dispatch(r)
      /\ UNCHANGED <<file, stage, run, reg, size, func>>
  BY DEF StreamNext
<1>2. /\ Types /\ HistoryTypes /\ MuxType(streams)
      /\ Sound(streams, Dynamic \cap Created, it, size)
      /\ \A s \in Created : it[s] <= size[s] /\ func[s] = run /\ got[s] = UpTo(it[s])
      /\ \A s \in Static : it[s] = size[s]
      /\ size = file
  BY <1>1 DEF DInv, IInv, MuxesSound, Processing, Delivered
<1>3. Created = Relation /\ Created' = Relation
  BY <1>1, AllCreated DEF DInv, IInv, Filling, Created
<1>4. r \in Dynamic /\ r \in Relation
  <2>1. Dynamic \in SUBSET Relation /\ Dynamic \cap Created = Dynamic
    BY <1>3 DEF Dynamic
  <2> QED
    BY <1>1, <1>2, <2>1, TurnUnfinished
<1>5. /\ it' \in [Relation -> Nat] /\ \A s \in Relation \ {r} : it'[s] = it[s]
  BY <1>1, <1>2, <1>3, <1>4, DispatchFacts
<1>6. /\ got' \in [Relation -> Seq(Nat)] /\ got'[r] = UpTo(it'[r])
      /\ \A s \in Relation \ {r} : got'[s] = got[s]
  BY <1>1, <1>2, <1>3, <1>4, DispatchDelivers
<1>7. \A s \in Created' : func'[s] = run' /\ got'[s] = UpTo(it'[s])
  <2> SUFFICES ASSUME NEW s \in Relation
               PROVE  func'[s] = run' /\ got'[s] = UpTo(it'[s])
    BY <1>3
  <2>1. func'[s] = run'
    BY <1>1, <1>2, <1>3
  <2>2. CASE s = r
    BY <1>6, <2>1, <2>2
  <2>3. CASE s # r
    BY <1>2, <1>3, <1>5, <1>6, <2>1, <2>3
  <2> QED
    BY <2>2, <2>3
<1>8. \A s \in Static : it'[s] = size'[s]
  BY <1>1, <1>2, <1>4, <1>5, ApplicationAssumption DEF Dynamic
<1> HIDE DEF r
<1> QED
  BY <1>1, <1>2, <1>6, <1>7, <1>8 DEF HistoryTypes, Delivered

LEMMA StageStepsDeliver ==
  ASSUME DInv,
         \/ Load \/ BeginRun \/ BeginProcessing \/ SystemReady
         \/ GiveUp \/ StreamsDone \/ EndRun \/ Finish \/ UNCHANGED appVars
  PROVE  HistoryTypes' /\ Delivered'
<1>1. CASE Load
  BY <1>1 DEF Load, DInv, HistoryTypes, Delivered, Processing
<1>2. CASE BeginRun
  <2>1. /\ stage = "run" /\ stage' = "init" /\ reg' = 0 /\ run' = run + 1
        /\ got' = ForAll(<<>>) /\ UNCHANGED <<file, size, it, func>>
    BY <1>2 DEF BeginRun
  <2>2. Created' = {}
    BY <2>1 DEF Created
  <2>3. got' \in [Relation -> Seq(Nat)] /\ \A r \in Relation : got'[r] = <<>>
    BY <2>1 DEF ForAll
  <2> QED
    BY <2>1, <2>2, <2>3 DEF DInv, HistoryTypes, Delivered
<1>3. CASE BeginProcessing
  <2>1. /\ stage = "init" /\ stage' = "tables" /\ reg = Len(Order)
        /\ UNCHANGED <<file, run, reg, size, it, func, got>>
    BY <1>3 DEF BeginProcessing
  <2>2. Created' = Created /\ Created = Relation
    BY <2>1, AllCreated DEF Created
  <2> QED
    BY <2>1, <2>2 DEF DInv, HistoryTypes, Delivered, Processing, Dynamic
<1>4. CASE SystemReady
  <2>1. /\ stage = "tables" /\ stage' = "streams" /\ ~MuxHasNext(tables)
        /\ UNCHANGED <<file, run, reg, size, it, func, got>>
    BY <1>4 DEF SystemReady
  <2>2. Created' = Created /\ Created = Relation
    BY <2>1, AllCreated DEF Created, DInv, IInv, Filling
  <2>3. MuxType(tables) /\ Sound(tables, Static \cap Created, it, size)
    BY <2>1 DEF DInv, IInv, MuxesSound, Processing
  <2>4. Static \in SUBSET Relation /\ Static \cap Created = Static
    BY <2>2, ApplicationAssumption
  <2>5. \A r \in Static : it[r] = size[r]
    BY <2>1, <2>3, <2>4, ThroughMeansDone
  <2> QED
    BY <2>1, <2>2, <2>5 DEF DInv, HistoryTypes, Delivered, Processing
<1>5. CASE StreamsDone
  <2>1. /\ stage = "streams" /\ stage' = "end" /\ ~MuxHasNext(streams)
        /\ UNCHANGED <<file, run, reg, size, it, func, got>>
    BY <1>5 DEF StreamsDone
  <2>2. reg = Len(Order) /\ Created' = Created /\ Created = Relation
    BY <2>1, AllCreated DEF Created, DInv, IInv, Filling
  <2>3. MuxType(streams) /\ Sound(streams, Dynamic \cap Created, it, size)
    BY <2>1 DEF DInv, IInv, MuxesSound, Processing
  <2>4. \A r \in Dynamic : it[r] = size[r]
    <3>1. Dynamic \in SUBSET Relation /\ Dynamic \cap Created = Dynamic
      BY <2>2 DEF Dynamic
    <3> QED
      BY <2>1, <2>3, <3>1, ThroughMeansDone
  <2> QED
    BY <2>1, <2>2, <2>4 DEF DInv, HistoryTypes, Delivered, Processing, Dynamic
<1>6. CASE GiveUp \/ EndRun
  BY <1>6 DEF GiveUp, EndRun, DInv, HistoryTypes, Delivered, Processing
<1>7. CASE Finish
  BY <1>7 DEF Finish, DInv, HistoryTypes, Delivered, Processing
<1>8. CASE UNCHANGED appVars
  <2>1. Created' = Created
    BY <1>8 DEF appVars, Created
  <2> QED
    BY <1>8, <2>1 DEF appVars, DInv, HistoryTypes, Delivered, Dynamic
<1> QED
  BY <1>1, <1>2, <1>3, <1>4, <1>5, <1>6, <1>7, <1>8

LEMMA DeliveryInvariance == AppSpec => []DInv
<1>1. DInv /\ [AppNext]_appVars => DInv'
  <2>1. DInv /\ [AppNext]_appVars => IInv'
    BY InitDispatcherKeeps, TableNextKeeps, StreamNextKeeps, StageStepsKeep
       DEF AppNext, DInv
  <2>2. DInv /\ [AppNext]_appVars => HistoryTypes' /\ Delivered'
    BY InitDispatcherDelivers, TableNextDelivers, StreamNextDelivers, StageStepsDeliver
       DEF AppNext
  <2> QED
    BY <2>1, <2>2 DEF DInv
<1> QED
  BY <1>1, DeliveryInit, PTL DEF AppSpec

(* At the end of every run its data_t has got every tuple of every file,   *)
(* once and in order, whatever the files, the batches and the turns.       *)
THEOREM EveryTupleOnce == AppSpec => []AllDelivered
<1>1. DInv => AllDelivered
  <2> SUFFICES ASSUME DInv, stage = "end", NEW r \in Relation
               PROVE  got[r] = [k \in 1..file[r] |-> k]
    BY DEF AllDelivered
  <2>1. Created = Relation
    BY AllCreated DEF DInv, Delivered
  <2>2. it[r] = file[r]
    BY DEF DInv, Delivered, Dynamic
  <2> QED
    BY <2>1, <2>2 DEF DInv, Delivered, UpTo
<1> QED
  BY <1>1, DeliveryInvariance, PTL

(* No stream tuple arrives before the SYSTEM READY trigger and no table    *)
(* tuple after it.                                                         *)
THEOREM TablesBeforeStreams == AppSpec => []TablesFirst
<1>1. DInv => TablesFirst
  <2> SUFFICES ASSUME DInv
               PROVE  TablesFirst
    OBVIOUS
  <2>1. ASSUME stage = "tables", NEW r \in Dynamic
        PROVE  got[r] = <<>>
    <3>1. Created = Relation
      BY <2>1, AllCreated DEF DInv, IInv, Filling
    <3>2. got[r] = UpTo(0)
      BY <2>1, <3>1 DEF DInv, Delivered, Processing, Dynamic
    <3> QED
      BY <3>2 DEF UpTo
  <2>2. ASSUME stage = "streams", NEW r \in Static
        PROVE  Len(got[r]) = file[r]
    <3>1. Created = Relation
      BY <2>2, AllCreated DEF DInv, IInv, Filling
    <3>2. r \in Relation /\ file[r] \in Nat
      BY ApplicationAssumption DEF DInv, IInv, Types
    <3>3. got[r] = UpTo(file[r])
      BY <2>2, <3>1, <3>2 DEF DInv, Delivered, Processing
    <3> QED
      BY <3>2, <3>3 DEF UpTo
  <2> QED
    BY <2>1, <2>2 DEF TablesFirst
<1> QED
  BY <1>1, DeliveryInvariance, PTL

-----------------------------------------------------------------------------
(***************************************************************************)
(* The snapshots of a run.                                                 *)
(***************************************************************************)

(* The snapshots come in order and the interval apart, all or all but the  *)
(* last.                                                                   *)
Ascending == \A i \in 1..Len(snaps) - 1 : snaps[i] < snaps[i + 1]
Spaced == \A i \in 1..Len(snaps) - 1 : snaps[i + 1] >= snaps[i] + Interval
SpacedButLast == \A i \in 1..Len(snaps) - 2 : snaps[i + 1] >= snaps[i] + Interval

(* next_snapshot is the interval after the last snapshot, which there is   *)
(* as soon as a tuple was processed; the last one of all may be nearer.    *)
SnapshotsKept ==
  /\ tN \in Nat /\ nextSnap \in Nat /\ snaps \in Seq(Nat)
  /\ ~compiled => snaps = <<>>
  /\ stage \in {"init", "tables"} => snaps = <<>> /\ tN = 0
  /\ stage = "streams" =>
       /\ snaps = <<>> => nextSnap = 0 /\ (compiled => tN = 0)
       /\ snaps # <<>> =>
            nextSnap = snaps[Len(snaps)] + Interval /\ snaps[Len(snaps)] <= tN
       /\ Spaced
  /\ stage = "end" /\ compiled /\ Interval # 0 =>
       snaps # <<>> /\ snaps[Len(snaps)] = tN
  /\ Ascending
  /\ SpacedButLast

SInv == IInv /\ SnapshotsKept

(* A snapshot later than all before it may be added at the end.            *)
LEMMA SnapshotAppended ==
  ASSUME SnapshotsKept, NEW n \in Nat, snaps' = Append(snaps, n),
         snaps # <<>> => snaps[Len(snaps)] < n, Spaced
  PROVE  /\ snaps' \in Seq(Nat) /\ snaps' # <<>> /\ snaps'[Len(snaps')] = n
         /\ Ascending' /\ SpacedButLast'
         /\ (snaps # <<>> => n >= snaps[Len(snaps)] + Interval) => Spaced'
<1> DEFINE m == Len(snaps)
<1>1. /\ m \in Nat /\ snaps \in Seq(Nat) /\ Interval \in Nat
      /\ \A i \in 1..m : snaps[i] \in Nat
  BY ApplicationAssumption DEF SnapshotsKept
<1>2. /\ snaps' \in Seq(Nat) /\ Len(snaps') = m + 1 /\ snaps'[m + 1] = n
      /\ \A i \in 1..m : snaps'[i] = snaps[i]
  BY <1>1
<1>3. m > 0 => snaps # <<>>
  BY <1>1
<1> HIDE DEF m
<1>4. m = Len(snaps)
  BY DEF m
<1>5. Ascending'
  <2> SUFFICES ASSUME NEW i \in 1..m
               PROVE  snaps'[i] < snaps'[i + 1]
    BY <1>1, <1>2 DEF Ascending
  <2>1. CASE i = m
    BY <1>1, <1>2, <1>3, <1>4, <2>1
  <2>2. CASE i # m
    <3>1. i \in 1..m - 1 /\ i + 1 \in 1..m
      BY <1>1, <2>2
    <3> QED
      BY <1>2, <1>4, <3>1 DEF SnapshotsKept, Ascending
  <2> QED
    BY <2>1, <2>2
<1>6. \A i \in 1..m - 1 : snaps'[i + 1] >= snaps'[i] + Interval
  <2> SUFFICES ASSUME NEW i \in 1..m - 1
               PROVE  snaps'[i + 1] >= snaps'[i] + Interval
    OBVIOUS
  <2>1. i \in 1..m /\ i + 1 \in 1..m /\ i \in 1..m - 1
    BY <1>1
  <2> QED
    BY <1>2, <1>4, <2>1 DEF Spaced, SpacedButLast
<1>7. SpacedButLast'
  BY <1>1, <1>2, <1>6 DEF Spaced, SpacedButLast
<1>8. ASSUME snaps # <<>> => n >= snaps[Len(snaps)] + Interval
      PROVE  Spaced'
  <2>1. ASSUME NEW i \in 1..m
        PROVE  snaps'[i + 1] >= snaps'[i] + Interval
    <3>1. CASE i = m
      BY <1>1, <1>2, <1>3, <1>4, <1>8, <3>1
    <3>2. CASE i # m
      <4>1. i \in 1..m - 1
        BY <1>1, <3>2
      <4> QED
        BY <1>6, <4>1
    <3> QED
      BY <3>1, <3>2
  <2>2. Len(snaps') - 1 = m
    BY <1>1, <1>2
  <2>3. \A i \in 1..Len(snaps') - 1 : snaps'[i + 1] >= snaps'[i] + Interval
    BY <2>1, <2>2
  <2> QED
    BY <2>3 DEF Spaced
<1> QED
  BY <1>1, <1>2, <1>4, <1>5, <1>7, <1>8

LEMMA StreamNextSnapshots ==
  ASSUME SInv, StreamNext
  PROVE  SnapshotsKept'
<1> DEFINE r == Turn(streams)
<1>1. PICK b : b = BatchSize(r, it, size)
  OBVIOUS
<1>2. /\ stage = "streams" /\ stage' = "streams" /\ MuxHasNext(streams)
      /\ UNCHANGED compiled
      /\ tN' = tN + b
      /\ IF compiled /\ tN' >= nextSnap
         THEN /\ snaps' = Append(snaps, tN')
              /\ nextSnap' = tN' + Interval
         ELSE UNCHANGED <<snaps, nextSnap>>
  BY <1>1 DEF StreamNext
<1>3. b \in Nat /\ b > 0
  <2>1. /\ Types /\ MuxType(streams)
        /\ Sound(streams, Dynamic \cap Created, it, size)
        /\ \A s \in Created : it[s] <= size[s]
    BY <1>2 DEF SInv, IInv, MuxesSound, Processing
  <2>2. Created = Relation
    BY <1>2, AllCreated DEF SInv, IInv, Filling
  <2>3. Dynamic \in SUBSET Relation /\ Dynamic \cap Created = Dynamic
    BY <2>2 DEF Dynamic
  <2>4. r \in Relation /\ HasNext(r, it, size)
    BY <1>2, <2>1, <2>3, TurnUnfinished
  <2>5. it[r] \in Nat /\ size[r] \in Nat /\ it[r] <= size[r] /\ Batch[r] \in Nat \ {0}
    BY <2>1, <2>2, <2>4, BatchAssumption DEF Types
  <2> QED
    BY <1>1, <2>4, <2>5 DEF BatchSize, HasNext
<1>4. /\ tN \in Nat /\ nextSnap \in Nat /\ Interval \in Nat
      /\ snaps = <<>> => nextSnap = 0 /\ (compiled => tN = 0)
      /\ snaps # <<>> =>
            nextSnap = snaps[Len(snaps)] + Interval /\ snaps[Len(snaps)] <= tN
      /\ snaps \in Seq(Nat)
      /\ ~compiled => snaps = <<>>
      /\ Spaced /\ SnapshotsKept
  BY <1>2, ApplicationAssumption DEF SInv, SnapshotsKept
<1>5. snaps # <<>> => snaps[Len(snaps)] \in Nat
  BY <1>4
<1>6. tN' \in Nat
  BY <1>2, <1>3, <1>4
<1>7. CASE compiled /\ tN' >= nextSnap
  <2>1. PICK n \in Nat : n = tN'
    BY <1>6
  <2>2. snaps' = Append(snaps, n) /\ nextSnap' = n + Interval /\ n = tN + b /\ n >= nextSnap
    BY <1>2, <1>7, <2>1
  <2>3. snaps # <<>> => snaps[Len(snaps)] < n /\ n >= snaps[Len(snaps)] + Interval
    <3> SUFFICES ASSUME snaps # <<>>
                 PROVE  snaps[Len(snaps)] < n /\ n >= snaps[Len(snaps)] + Interval
      OBVIOUS
    <3>1. PICK l : l = snaps[Len(snaps)]
      OBVIOUS
    <3>2. l \in Nat /\ l <= tN /\ nextSnap = l + Interval
      BY <1>4, <1>5, <3>1
    <3> QED
      BY <1>3, <1>4, <2>2, <3>1, <3>2
  <2>4. /\ snaps' \in Seq(Nat) /\ snaps' # <<>> /\ snaps'[Len(snaps')] = n
        /\ Ascending' /\ SpacedButLast' /\ Spaced'
    BY <1>4, <2>2, <2>3, SnapshotAppended
  <2>5. nextSnap' \in Nat
    BY <1>4, <2>2
  <2> QED
    BY <1>2, <1>6, <1>7, <2>1, <2>2, <2>4, <2>5 DEF SnapshotsKept
<1>8. CASE ~(compiled /\ tN' >= nextSnap)
  <2>1. UNCHANGED <<snaps, nextSnap>>
    BY <1>2, <1>8
  <2>2. snaps = <<>> => ~compiled
    BY <1>4, <1>6, <1>8
  <2>3. snaps # <<>> => snaps[Len(snaps)] <= tN'
    BY <1>2, <1>3, <1>4, <1>5
  <2>4. Ascending' /\ Spaced' /\ SpacedButLast'
    BY <1>4, <2>1 DEF SnapshotsKept, Ascending, Spaced, SpacedButLast
  <2> QED
    BY <1>2, <1>4, <1>6, <2>1, <2>2, <2>3, <2>4 DEF SnapshotsKept
<1> QED
  BY <1>7, <1>8

LEMMA StreamsDoneSnapshots ==
  ASSUME SInv, StreamsDone
  PROVE  SnapshotsKept'
<1>1. /\ stage = "streams" /\ stage' = "end" /\ UNCHANGED <<compiled, tN, nextSnap>>
      /\ snaps' = IF compiled /\ nextSnap # tN + Interval THEN Append(snaps, tN) ELSE snaps
  BY DEF StreamsDone
<1>2. /\ tN \in Nat /\ nextSnap \in Nat /\ Interval \in Nat
      /\ snaps = <<>> => nextSnap = 0 /\ (compiled => tN = 0)
      /\ snaps # <<>> =>
            nextSnap = snaps[Len(snaps)] + Interval /\ snaps[Len(snaps)] <= tN
      /\ snaps \in Seq(Nat)
      /\ ~compiled => snaps = <<>>
      /\ Spaced /\ SnapshotsKept
  BY <1>1, ApplicationAssumption DEF SInv, SnapshotsKept
<1>3. snaps # <<>> => snaps[Len(snaps)] \in Nat
  BY <1>2
<1>4. CASE compiled /\ nextSnap # tN + Interval
  <2>1. PICK n \in Nat : n = tN
    BY <1>2
  <2>2. snaps' = Append(snaps, n)
    BY <1>1, <1>4, <2>1
  <2>3. snaps # <<>> => snaps[Len(snaps)] < n
    BY <1>2, <1>3, <1>4, <2>1
  <2>4. /\ snaps' \in Seq(Nat) /\ snaps' # <<>> /\ snaps'[Len(snaps')] = n
        /\ Ascending' /\ SpacedButLast'
    BY <1>2, <2>2, <2>3, SnapshotAppended
  <2> QED
    BY <1>1, <1>2, <1>4, <2>1, <2>4 DEF SnapshotsKept
<1>5. CASE ~(compiled /\ nextSnap # tN + Interval)
  <2>1. snaps' = snaps
    BY <1>1, <1>5
  <2>2. compiled /\ Interval # 0 => snaps # <<>>
    BY <1>2, <1>5
  <2>3. compiled /\ snaps # <<>> => snaps[Len(snaps)] = tN
    BY <1>2, <1>3, <1>5
  <2>4. Ascending' /\ SpacedButLast'
    BY <1>2, <2>1 DEF SnapshotsKept, Ascending, Spaced, SpacedButLast
  <2> QED
    BY <1>1, <1>2, <2>1, <2>2, <2>3, <2>4 DEF SnapshotsKept
<1> QED
  BY <1>4, <1>5

LEMMA OtherStepsSnapshots ==
  ASSUME SInv,
         \/ Load \/ BeginRun \/ InitDispatcher \/ BeginProcessing \/ TableNext
         \/ SystemReady \/ GiveUp \/ EndRun \/ Finish \/ UNCHANGED appVars
  PROVE  SnapshotsKept'
<1> USE DEF SInv, SnapshotsKept, Ascending, Spaced, SpacedButLast
<1>1. CASE Load
  BY <1>1 DEF Load
<1>2. CASE BeginRun
  BY <1>2 DEF BeginRun
<1>3. CASE InitDispatcher
  BY <1>3 DEF InitDispatcher
<1>4. CASE BeginProcessing
  BY <1>4 DEF BeginProcessing
<1>5. CASE TableNext
  BY <1>5 DEF TableNext
<1>6. CASE SystemReady
  BY <1>6 DEF SystemReady
<1>7. CASE GiveUp
  BY <1>7 DEF GiveUp
<1>8. CASE EndRun
  BY <1>8 DEF EndRun
<1>9. CASE Finish
  BY <1>9 DEF Finish
<1>10. CASE UNCHANGED appVars
  BY <1>10 DEF appVars
<1> QED
  BY <1>1, <1>2, <1>3, <1>4, <1>5, <1>6, <1>7, <1>8, <1>9, <1>10

LEMMA SnapshotInvariance == AppSpec => []SInv
<1>1. AppInit => SInv
  <2>1. AppInit => SnapshotsKept
    BY DEF AppInit, SnapshotsKept, Ascending, Spaced, SpacedButLast
  <2> QED
    BY <2>1, InitHolds DEF SInv
<1>2. SInv /\ [AppNext]_appVars => SInv'
  <2>1. SInv /\ [AppNext]_appVars => IInv'
    BY InitDispatcherKeeps, TableNextKeeps, StreamNextKeeps, StageStepsKeep
       DEF AppNext, SInv
  <2>2. SInv /\ [AppNext]_appVars => SnapshotsKept'
    BY StreamNextSnapshots, StreamsDoneSnapshots, OtherStepsSnapshots DEF AppNext
  <2> QED
    BY <2>1, <2>2 DEF SInv
<1> QED
  BY <1>1, <1>2, PTL DEF AppSpec

(* Compiled with a positive SNAPSHOT_INTERVAL, every run takes its         *)
(* snapshots in order, the interval apart but for the last, and that one   *)
(* shows the final state; compiled without, it takes none.  (An interval   *)
(* of 0 and no stream tuples leave no snapshot: next_snapshot is tN.)      *)
THEOREM SnapshotsInOrder ==
  ASSUME Interval # 0
  PROVE  AppSpec => []SnapshotsAsCompiled
<1>1. SInv => SnapshotsAsCompiled
  <2> SUFFICES ASSUME SInv PROVE SnapshotsAsCompiled
    OBVIOUS
  <2>1. \A i \in 1..Len(snaps) - 2 : snaps[i + 1] >= snaps[i] + Interval
    BY DEF SInv, SnapshotsKept, SpacedButLast
  <2>2. \A i \in 1..Len(snaps) - 1 : snaps[i] < snaps[i + 1]
    BY DEF SInv, SnapshotsKept, Ascending
  <2>3. /\ compiled /\ stage = "end" => snaps # <<>> /\ snaps[Len(snaps)] = tN
        /\ ~compiled => snaps = <<>>
    BY DEF SInv, SnapshotsKept
  <2> QED
    BY <2>1, <2>2, <2>3 DEF SnapshotsAsCompiled
<1> QED
  BY <1>1, SnapshotInvariance, PTL

-----------------------------------------------------------------------------
(* The largest of some numbers.                                            *)
LEMMA LargestNumber ==
  ASSUME NEW n \in Nat, NEW T \in SUBSET (1..n), T # {}
  PROVE  Max(T) \in T /\ \A y \in T : Max(T) >= y
<1> DEFINE B == {k \in Nat : \A y \in T : y <= k}
<1>1. B # {} /\ B \in SUBSET Nat
  <2>1. n \in B
    OBVIOUS
  <2> QED
    BY <2>1
<1>2. PICK k \in B : \A m \in B : k <= m
  BY <1>1, LeastNumber
<1>3. k \in T
  <2> SUFFICES ASSUME k \notin T PROVE FALSE
    OBVIOUS
  <2>1. \A y \in T : y <= k - 1 /\ y >= 1
    BY <1>2
  <2>2. PICK y \in T : TRUE
    OBVIOUS
  <2>3. k \in Nat /\ y >= 1 /\ y <= k - 1 /\ y \in Nat
    BY <2>1
  <2>4. k - 1 \in B
    BY <2>1, <2>3
  <2> QED
    BY <1>2, <2>3, <2>4
<1>4. \E x \in T : \A y \in T : x >= y
  BY <1>2, <1>3
<1> QED
  BY <1>4, Zenon DEF Max

(* The states of the fold in Pieces: one character at a time.              *)
Taken(t, separator, st) ==
  /\ st[0] = [all |-> <<>>, next |-> <<>>]
  /\ \A n \in 1 .. Len(t) : st[n] = TakeOne(st[n - 1], t[n], separator)
  /\ Pieces(t, separator) = IF st[Len(t)].next = <<>> THEN st[Len(t)].all
                            ELSE Append(st[Len(t)].all, st[Len(t)].next)

LEMMA PiecesTaken ==
  ASSUME NEW Char, NEW t \in Seq(Char), NEW separator
  PROVE  \E st : Taken(t, separator, st)
<1> DEFINE base == [all |-> <<>>, next |-> <<>>]
           V == [all : Seq(Seq(Char)), next : Seq(Char)]
           S == 1 .. Len(t)
           Pick == [T \in SUBSET S |-> Max(T)]
           Step == [T \in SUBSET S |-> [v \in V |-> IF T = {} THEN v ELSE TakeOne(v, t[Max(T)], separator)]]
           Rec(h) == [T \in SUBSET DOMAIN t |-> IF T = {} THEN base
                        ELSE TakeOne(h[T \ {Max(T)}], t[Max(T)], separator)]
           all == CHOOSE h : h = Rec(h)
<1>1. S = DOMAIN t /\ Len(t) \in Nat /\ IsFiniteSet(S)
  BY FS_Interval
<1>2. \A T \in SUBSET S : T # {} => Max(T) \in T /\ \A y \in T : Max(T) >= y
  BY <1>1, LargestNumber
<1>3. Step \in [SUBSET S -> [V -> V]]
  <2>1. ASSUME NEW T \in SUBSET S, T # {}, NEW v \in V
        PROVE  TakeOne(v, t[Max(T)], separator) \in V
    <3>3. Max(T) \in 1 .. Len(t)
      BY <1>2, <2>1
    <3>1. t[Max(T)] \in Char /\ v.all \in Seq(Seq(Char)) /\ v.next \in Seq(Char)
      BY <3>3, ElementOfSeq
    <3>2. <<>> \in Seq(Char) /\ Append(v.all, v.next) \in Seq(Seq(Char)) /\ Append(v.next, t[Max(T)]) \in Seq(Char)
      BY <3>1
    <3> QED
      BY <3>1, <3>2 DEF TakeOne
  <2> QED
    BY <2>1
<1>4. base \in V
  OBVIOUS
<1>5. PICK h \in [SUBSET S -> V] : SolvesPicked(h, S, base, Step, Pick)
  <2>1. \A T \in SUBSET S : T # {} => Pick[T] \in T
    BY <1>2
  <2> HIDE DEF Step, Pick, V, base, S
  <2> QED
    BY <1>1, <1>3, <1>4, <2>1, PickedRecursion
<1>6. ASSUME NEW T \in SUBSET S
      PROVE  h[T] = IF T = {} THEN base ELSE TakeOne(h[T \ {Max(T)}], t[Max(T)], separator)
  <2>1. h[T \ {Max(T)}] \in V
    OBVIOUS
  <2>2. h[T] = IF T = {} THEN base ELSE Step[T][h[T \ {Pick[T]}]]
    BY <1>5, <1>6 DEF SolvesPicked
  <2> HIDE DEF V
  <2> QED
    BY <2>1, <2>2
<1>7. h = Rec(h)
  <2> HIDE DEF base, V
  <2> QED
    BY <1>1, <1>6
<1>8. all = Rec(all)
  BY <1>7, Zenon
<1>9. Pieces(t, separator) = IF all[S].next = <<>> THEN all[S].all ELSE Append(all[S].all, all[S].next)
  <2>1. FoldLeft(LAMBDA s, c : TakeOne(s, c, separator), base, t) = all[DOMAIN t]
    BY Zenon DEF FoldLeft, MapThenFoldSet
  <2>2. Pieces(t, separator) = IF all[DOMAIN t].next = <<>> THEN all[DOMAIN t].all
                               ELSE Append(all[DOMAIN t].all, all[DOMAIN t].next)
    BY <2>1, Zenon DEF Pieces
  <2> QED
    BY <1>1, <2>2, Zenon
<1> DEFINE st == [n \in 0 .. Len(t) |-> all[1 .. n]]
<1> HIDE DEF all
<1>10. st[0] = base
  <2>1. 1 .. 0 = {} /\ {} \in SUBSET DOMAIN t /\ 0 \in 0 .. Len(t)
    BY <1>1
  <2> QED
    BY <1>8, <2>1
<1>11. ASSUME NEW n \in 1 .. Len(t)
       PROVE  st[n] = TakeOne(st[n - 1], t[n], separator)
  <2>5. n \in Nat /\ 1 <= n /\ n <= Len(t) /\ Len(t) \in Nat /\ DOMAIN t = 1 .. Len(t)
    BY <1>1
  <2> HIDE DEF S, st, V, Step, Pick
  <2>6. n \in 1 .. n /\ \A i \in 1 .. n : i \in DOMAIN t
    BY <2>5
  <2>7. n \in 0 .. Len(t) /\ n - 1 \in 0 .. Len(t)
    BY <2>5
  <2>1. 1 .. n \in SUBSET DOMAIN t /\ 1 .. n # {} /\ n \in 0 .. Len(t) /\ n - 1 \in 0 .. Len(t)
    BY <2>6, <2>7, Zenon
  <2>2. Max(1 .. n) = n
    <3>1. Max(1 .. n) \in 1 .. n /\ Max(1 .. n) >= n
      BY <1>1, <1>2, <2>1, <2>6
    <3> QED
      BY <2>5, <3>1
  <2>3. (1 .. n) \ {n} = 1 .. n - 1
    BY <1>1
  <2>4. all[1 .. n] = TakeOne(all[(1 .. n) \ {Max(1 .. n)}], t[Max(1 .. n)], separator)
    BY <1>8, <2>1
  <2> QED
    BY <2>1, <2>2, <2>3, <2>4 DEF st
<1>12. st[Len(t)] = all[S]
  BY <1>1
<1> HIDE DEF st
<1> QED
  BY <1>9, <1>10, <1>11, <1>12 DEF Taken

-----------------------------------------------------------------------------
(* The ends of the pieces of a text in their order.                        *)
Enumerates(m, E) ==
  /\ m \in Seq(Nat)
  /\ \A i, j \in 1 .. Len(m) : i < j => m[i] < m[j]
  /\ E = {m[i] : i \in 1 .. Len(m)}

LEMMA EndsInOrder ==
  ASSUME NEW m, NEW E, Enumerates(m, E)
  PROVE  Cardinality(E) = Len(m) /\ \A k \in 1 .. Len(m) : EndAt(E, k) = m[k]
<1>1. /\ Len(m) \in Nat
      /\ \A i \in 1 .. Len(m) : m[i] \in Nat
      /\ \A i, j \in 1 .. Len(m) : i < j => m[i] < m[j]
      /\ E = {m[i] : i \in 1 .. Len(m)}
  BY DEF Enumerates
<1> DEFINE First(k) == {m[i] : i \in 1 .. k}
<1>2. ASSUME NEW k \in 0 .. Len(m)
      PROVE  Cardinality(First(k)) = k
  <2> DEFINE f == [i \in 1 .. k |-> m[i]]
  <2>1. \A i \in 1 .. k : i \in 1 .. Len(m)
    BY <1>1
  <2>2. f \in [1 .. k -> First(k)] /\ \A y \in First(k) : \E i \in 1 .. k : f[i] = y
    OBVIOUS
  <2>3. ASSUME NEW i \in 1 .. k, NEW j \in 1 .. k, f[i] = f[j]
        PROVE  i = j
    <3>1. m[i] = m[j] /\ m[i] \in Nat
      BY <1>1, <2>1, <2>3
    <3> QED
      BY <1>1, <2>1, <3>1
  <2>4. f \in Bijection(1 .. k, First(k))
    <3> HIDE DEF f
    <3> QED
      BY <2>2, <2>3, Fun_IsBij
  <2>5. ExistsBijection(1 .. k, First(k))
    BY <2>4 DEF ExistsBijection
  <2> QED
    BY <2>5, FS_CountingElements
<1>3. ASSUME NEW k \in 1 .. Len(m)
      PROVE  Cardinality({j \in E : j < m[k]}) = k - 1
  <2>1. k - 1 \in 0 .. Len(m)
    BY <1>1
  <2>2. {j \in E : j < m[k]} = First(k - 1)
    <3>1. ASSUME NEW i \in 1 .. Len(m)
          PROVE  m[i] < m[k] <=> i \in 1 .. k - 1
      <4>1. CASE i < k
        BY <1>1, <4>1
      <4>2. CASE i = k
        BY <1>1, <4>2
      <4>3. CASE k < i
        <5>1. m[k] < m[i] /\ m[k] \in Nat /\ m[i] \in Nat
          BY <1>1, <4>3
        <5> QED
          BY <1>1, <4>3, <5>1
      <4> QED
        BY <1>1, <4>1, <4>2, <4>3
    <3>2. \A i \in 1 .. k - 1 : i \in 1 .. Len(m)
      BY <1>1
    <3> QED
      BY <1>1, <3>1, <3>2
  <2> QED
    BY <1>2, <2>1, <2>2
<1>4. ASSUME NEW k \in 1 .. Len(m)
      PROVE  EndAt(E, k) = m[k]
  <2>1. m[k] \in E /\ Cardinality({j \in E : j < m[k]}) = k - 1
    BY <1>1, <1>3
  <2>2. ASSUME NEW i \in E, Cardinality({j \in E : j < i}) = k - 1
        PROVE  i = m[k]
    <3>1. PICK l \in 1 .. Len(m) : i = m[l]
      BY <1>1
    <3>2. l - 1 = k - 1
      BY <1>3, <2>2, <3>1
    <3> QED
      BY <1>1, <3>1, <3>2
  <2> QED
    BY <2>1, <2>2 DEF EndAt
<1>5. Cardinality(E) = Len(m)
  <2>1. Len(m) \in 0 .. Len(m) /\ E = First(Len(m))
    BY <1>1
  <2> QED
    BY <1>2, <2>1
<1> QED
  BY <1>4, <1>5

Extends(p, m, n) ==
  /\ Len(p) = Len(m) + 1
  /\ \A k \in 1 .. Len(m) : p[k] = m[k]
  /\ p[Len(m) + 1] = n

LEMMA AppendIs ==
  ASSUME NEW S, NEW m \in Seq(S), NEW n \in S
  PROVE  Append(m, n) \in Seq(S) /\ Extends(Append(m, n), m, n)
BY DEF Extends

(* One end more.                                                           *)
LEMMA OneEndMore ==
  ASSUME NEW m, NEW E, Enumerates(m, E), NEW n \in Nat, \A i \in E : i < n
  PROVE  Enumerates(Append(m, n), E \cup {n}) /\ Extends(Append(m, n), m, n)
<1>1. /\ Len(m) \in Nat /\ m \in Seq(Nat)
      /\ \A i \in 1 .. Len(m) : m[i] \in Nat
      /\ \A i, j \in 1 .. Len(m) : i < j => m[i] < m[j]
      /\ E = {m[i] : i \in 1 .. Len(m)}
  BY DEF Enumerates
<1>2. PICK p : p = Append(m, n)
  OBVIOUS
<1>3. /\ p \in Seq(Nat) /\ Len(p) = Len(m) + 1
      /\ \A k \in 1 .. Len(m) : p[k] = m[k]
      /\ p[Len(m) + 1] = n
  BY <1>1, <1>2
<1>4. ASSUME NEW i \in 1 .. Len(p), NEW j \in 1 .. Len(p), i < j
      PROVE  p[i] < p[j]
  <2>1. i \in 1 .. Len(m) /\ p[i] = m[i] /\ m[i] \in E
    BY <1>1, <1>3, <1>4
  <2>2. CASE j \in 1 .. Len(m)
    BY <1>1, <1>3, <1>4, <2>1, <2>2
  <2>3. CASE j = Len(m) + 1
    BY <1>3, <2>1, <2>3
  <2> QED
    BY <1>1, <1>3, <2>2, <2>3
<1>5. E \cup {n} = {p[i] : i \in 1 .. Len(p)}
  <2>1. \A i \in 1 .. Len(p) : i \in 1 .. Len(m) \/ i = Len(m) + 1
    BY <1>1, <1>3
  <2>2. Len(m) + 1 \in 1 .. Len(p) /\ \A i \in 1 .. Len(m) : i \in 1 .. Len(p)
    BY <1>1, <1>3
  <2> QED
    BY <1>1, <1>3, <2>1, <2>2
<1>6. Enumerates(p, E \cup {n})
  BY <1>3, <1>4, <1>5 DEF Enumerates
<1> QED
  BY <1>2, <1>3, <1>6 DEF Extends

(* After n characters: the pieces between the ends so far, and what comes  *)
(* behind the last of them.                                                *)
EndsUpTo(t, separator, n) == {0} \cup {i \in 1 .. n : t[i] = separator}

ScannedTo(t, separator, n, s, m) ==
  /\ Enumerates(m, EndsUpTo(t, separator, n))
  /\ s.all = [k \in 1 .. Len(m) - 1 |-> SubSeq(t, m[k] + 1, m[k + 1] - 1)]
  /\ s.next = SubSeq(t, m[Len(m)] + 1, n)

EndsInPlace(t, separator, n, m) ==
  /\ m \in Seq(Nat) /\ Len(m) \in Nat \ {0}
  /\ \A k \in 1 .. Len(m) : m[k] \in 0 .. n /\ (m[k] = 0 \/ t[m[k]] = separator)
  /\ \A k \in 1 .. Len(m) - 1 : m[k] < m[k + 1]

LEMMA EndsFacts ==
  ASSUME NEW Char, NEW t \in Seq(Char), NEW separator, NEW n \in 0 .. Len(t), NEW s, NEW m,
         ScannedTo(t, separator, n, s, m)
  PROVE  EndsInPlace(t, separator, n, m)
<1>1. /\ m \in Seq(Nat) /\ \A i, j \in 1 .. Len(m) : i < j => m[i] < m[j]
      /\ EndsUpTo(t, separator, n) = {m[i] : i \in 1 .. Len(m)}
  BY DEF ScannedTo, Enumerates
<1>2. Len(m) \in Nat \ {0}
  <2>1. 0 \in EndsUpTo(t, separator, n)
    BY DEF EndsUpTo
  <2>2. \E i \in 1 .. Len(m) : m[i] = 0
    BY <1>1, <2>1
  <2> QED
    BY <1>1, <2>2
<1>3. ASSUME NEW k \in 1 .. Len(m)
      PROVE  m[k] \in 0 .. n /\ (m[k] = 0 \/ t[m[k]] = separator)
  <2>1. m[k] \in EndsUpTo(t, separator, n)
    BY <1>1
  <2> QED
    BY <2>1 DEF EndsUpTo
<1>4. ASSUME NEW k \in 1 .. Len(m) - 1
      PROVE  m[k] < m[k + 1]
  <2>1. k \in 1 .. Len(m) /\ k + 1 \in 1 .. Len(m) /\ k < k + 1
    BY <1>2
  <2> QED
    BY <1>1, <2>1
<1> QED
  BY <1>1, <1>2, <1>3, <1>4 DEF EndsInPlace

LEMMA ScanStep ==
  ASSUME NEW Char, NEW t \in Seq(Char), NEW separator, NEW n \in 1 .. Len(t), NEW s, NEW m,
         ScannedTo(t, separator, n - 1, s, m)
  PROVE  \E p : ScannedTo(t, separator, n, TakeOne(s, t[n], separator), p)
<1>1. n - 1 \in 0 .. Len(t) /\ n \in Nat /\ n >= 1 /\ n <= Len(t) /\ Len(t) \in Nat /\ t[n] \in Char
  OBVIOUS
<1>2. /\ m \in Seq(Nat) /\ Len(m) \in Nat \ {0}
      /\ \A k \in 1 .. Len(m) : m[k] \in 0 .. n - 1
      /\ \A k \in 1 .. Len(m) - 1 : m[k] < m[k + 1]
  <2>1. EndsInPlace(t, separator, n - 1, m)
    BY <1>1, EndsFacts
  <2> QED
    BY <2>1 DEF EndsInPlace
<1>3. Len(m) \in 1 .. Len(m) /\ m[Len(m)] \in 0 .. n - 1
  BY <1>2
<1>4. /\ s.all = [k \in 1 .. Len(m) - 1 |-> SubSeq(t, m[k] + 1, m[k + 1] - 1)]
      /\ s.next = SubSeq(t, m[Len(m)] + 1, n - 1)
      /\ Enumerates(m, EndsUpTo(t, separator, n - 1))
  BY DEF ScannedTo
<1>5. CASE t[n] = separator
  <2> DEFINE p == Append(m, n)
  <2>1. EndsUpTo(t, separator, n) = EndsUpTo(t, separator, n - 1) \cup {n}
    BY <1>1, <1>5 DEF EndsUpTo
  <2>2. \A i \in EndsUpTo(t, separator, n - 1) : i < n
    BY <1>1 DEF EndsUpTo
  <2>3. /\ Enumerates(p, EndsUpTo(t, separator, n)) /\ Len(p) = Len(m) + 1
        /\ \A k \in 1 .. Len(m) : p[k] = m[k]
        /\ p[Len(m) + 1] = n
    <3>1. Enumerates(p, EndsUpTo(t, separator, n)) /\ Extends(p, m, n)
      <4>1. PICK E : E = EndsUpTo(t, separator, n - 1)
        OBVIOUS
      <4>2. Enumerates(m, E) /\ n \in Nat /\ \A i \in E : i < n
        BY <1>1, <1>4, <2>2, <4>1
      <4>3. Enumerates(p, E \cup {n}) /\ Extends(p, m, n)
        BY <4>2, OneEndMore
      <4> QED
        BY <2>1, <4>1, <4>3
    <3> QED
      BY <3>1 DEF Extends
  <2> HIDE DEF p
  <2>4. TakeOne(s, t[n], separator) = [all |-> Append(s.all, s.next), next |-> <<>>]
    BY <1>5 DEF TakeOne
  <2>5. Append(s.all, s.next) = [k \in 1 .. Len(p) - 1 |-> SubSeq(t, p[k] + 1, p[k + 1] - 1)]
    <3> DEFINE a == [k \in 1 .. Len(m) - 1 |-> SubSeq(t, m[k] + 1, m[k + 1] - 1)]
               b == [k \in 1 .. Len(p) - 1 |-> SubSeq(t, p[k] + 1, p[k + 1] - 1)]
    <3>1. \A k \in 1 .. Len(m) - 1 : SubSeq(t, m[k] + 1, m[k + 1] - 1) \in Seq(Char)
      <4>1. ASSUME NEW k \in 1 .. Len(m) - 1
            PROVE  SubSeq(t, m[k] + 1, m[k + 1] - 1) \in Seq(Char)
        <5>1. k \in 1 .. Len(m) /\ k + 1 \in 1 .. Len(m)
          BY <1>2
        <5>2. m[k] \in 0 .. n - 1 /\ m[k + 1] \in 0 .. n - 1
          BY <1>2, <5>1
        <5>3. \A i \in m[k] + 1 .. m[k + 1] - 1 : t[i] \in Char
          BY <1>1, <5>2, ElementOfSeq
        <5> QED
          BY <5>2, <5>3, SubSeqProperties
      <4> QED
        BY <4>1
    <3>2. a \in Seq(Seq(Char)) /\ Len(a) = Len(m) - 1
      BY <1>2, <3>1
    <3>3. SubSeq(t, m[Len(m)] + 1, n - 1) \in Seq(Char)
      <4>1. \A i \in m[Len(m)] + 1 .. n - 1 : t[i] \in Char
        BY <1>1, <1>3, ElementOfSeq
      <4> QED
        BY <1>1, <1>3, <4>1, SubSeqProperties
    <3> DEFINE c == Append(a, SubSeq(t, m[Len(m)] + 1, n - 1))
    <3>4. /\ c \in Seq(Seq(Char)) /\ Len(c) = Len(m)
          /\ \A k \in 1 .. Len(m) - 1 : c[k] = a[k]
          /\ c[Len(m)] = SubSeq(t, m[Len(m)] + 1, n - 1)
      <4> HIDE DEF a
      <4>1. c \in Seq(Seq(Char)) /\ Extends(c, a, SubSeq(t, m[Len(m)] + 1, n - 1))
        BY <3>2, <3>3, AppendIs
      <4> HIDE DEF c
      <4> QED
        BY <1>2, <3>2, <4>1 DEF Extends
    <3>5. c = [k \in 1 .. Len(m) |-> c[k]]
      <4> HIDE DEF c
      <4> QED
        BY <3>4
    <3>6. ASSUME NEW k \in 1 .. Len(m)
          PROVE  c[k] = SubSeq(t, p[k] + 1, p[k + 1] - 1)
      <4>1. CASE k = Len(m)
        <5> HIDE DEF c
        <5> QED
          BY <1>2, <2>3, <3>4, <4>1
      <4>2. CASE k \in 1 .. Len(m) - 1
        <5>1. k + 1 \in 1 .. Len(m)
          BY <1>2, <4>2
        <5>2. p[k] = m[k] /\ p[k + 1] = m[k + 1]
          BY <2>3, <5>1
        <5>3. c[k] = a[k] /\ a[k] = SubSeq(t, m[k] + 1, m[k + 1] - 1)
          BY <3>4, <4>2
        <5> QED
          BY <5>2, <5>3
      <4>3. k = Len(m) \/ k \in 1 .. Len(m) - 1
        BY <1>2
      <4> QED
        BY <4>1, <4>2, <4>3
    <3>7. Len(p) - 1 = Len(m)
      BY <1>2, <2>3
    <3>8. c = b
      <4> HIDE DEF c
      <4> QED
        BY <3>5, <3>6, <3>7
    <3> QED
      BY <1>4, <3>8
  <2>6. SubSeq(t, p[Len(p)] + 1, n) = <<>>
    <3>1. p[Len(p)] = n
      BY <2>3
    <3> QED
      BY <1>1, <3>1, SubSeqEmpty
  <2>7. ScannedTo(t, separator, n, TakeOne(s, t[n], separator), p)
    <3>1. PICK v : v = TakeOne(s, t[n], separator)
      OBVIOUS
    <3>2. v.all = Append(s.all, s.next) /\ v.next = <<>>
      BY <2>4, <3>1
    <3>3. ScannedTo(t, separator, n, v, p)
      BY <2>3, <2>5, <2>6, <3>2, Zenon DEF ScannedTo
    <3> QED
      BY <3>1, <3>3
  <2> QED
    BY <2>7
<1>6. CASE t[n] # separator
  <2>1. EndsUpTo(t, separator, n) = EndsUpTo(t, separator, n - 1)
    BY <1>1, <1>6 DEF EndsUpTo
  <2>2. TakeOne(s, t[n], separator) = [all |-> s.all, next |-> Append(s.next, t[n])]
    BY <1>6 DEF TakeOne
  <2>3. Append(s.next, t[n]) = SubSeq(t, m[Len(m)] + 1, n)
    <3>1. m[Len(m)] + 1 \in 1 .. Len(t) /\ n \in m[Len(m)] + 1 .. Len(t)
      BY <1>1, <1>3
    <3>2. SubSeq(t, m[Len(m)] + 1, n) = SubSeq(t, m[Len(m)] + 1, n - 1) \o <<t[n]>>
      BY <3>1, SubSeqRecursiveSecond
    <3>3. \A i \in m[Len(m)] + 1 .. n - 1 : t[i] \in Char
      BY <1>1, <1>3, ElementOfSeq
    <3>4. SubSeq(t, m[Len(m)] + 1, n - 1) \in Seq(Char)
      BY <1>1, <1>3, <3>3, SubSeqProperties
    <3>5. \A u \in Seq(Char) : Append(u, t[n]) = u \o <<t[n]>>
      BY <1>1
    <3> QED
      BY <1>4, <3>2, <3>4, <3>5
  <2>4. ScannedTo(t, separator, n, TakeOne(s, t[n], separator), m)
    <3>1. PICK v : v = TakeOne(s, t[n], separator)
      OBVIOUS
    <3>2. v.all = s.all /\ v.next = Append(s.next, t[n])
      BY <2>2, <3>1
    <3>3. ScannedTo(t, separator, n, v, m)
      BY <1>4, <2>1, <2>3, <3>2, Zenon DEF ScannedTo
    <3> QED
      BY <3>1, <3>3
  <2> QED
    BY <2>4
<1> QED
  BY <1>5, <1>6

LEMMA ScanAll ==
  ASSUME NEW Char, NEW t \in Seq(Char), NEW separator, NEW st, Taken(t, separator, st),
         NEW n \in 0 .. Len(t)
  PROVE  \E m : ScannedTo(t, separator, n, st[n], m)
<1> DEFINE N == {i \in Nat : i <= Len(t) => \E m : ScannedTo(t, separator, i, st[i], m)}
<1>1. 0 \in N
  <2>1. <<0>> \in Seq(Nat) /\ Len(<<0>>) = 1 /\ <<0>>[1] = 0
    OBVIOUS
  <2>2. EndsUpTo(t, separator, 0) = {0}
    BY DEF EndsUpTo
  <2>3. Enumerates(<<0>>, {0})
    <3>1. \A i, j \in 1 .. 1 : ~(i < j)
      OBVIOUS
    <3>2. {0} = {<<0>>[i] : i \in 1 .. 1}
      BY <2>1
    <3> QED
      BY <2>1, <3>1, <3>2 DEF Enumerates
  <2>4. st[0] = [all |-> <<>>, next |-> <<>>]
    BY DEF Taken
  <2>5. SubSeq(t, 0 + 1, 0) = <<>>
    BY SubSeqEmpty
  <2>6. st[0].all = [k \in 1 .. Len(<<0>>) - 1 |-> SubSeq(t, <<0>>[k] + 1, <<0>>[k + 1] - 1)]
    <3>1. Len(<<0>>) - 1 = 0
      BY <2>1
    <3>2. [k \in 1 .. 0 |-> SubSeq(t, <<0>>[k] + 1, <<0>>[k + 1] - 1)] = <<>>
      OBVIOUS
    <3> QED
      BY <2>4, <3>1, <3>2
  <2>7. ScannedTo(t, separator, 0, st[0], <<0>>)
    <3>1. Enumerates(<<0>>, EndsUpTo(t, separator, 0))
      BY <2>2, <2>3
    <3>2. st[0].next = SubSeq(t, <<0>>[Len(<<0>>)] + 1, 0)
      BY <2>1, <2>4, <2>5
    <3> QED
      BY <2>6, <3>1, <3>2, Zenon DEF ScannedTo
  <2> QED
    BY <2>7
<1>2. ASSUME NEW i \in N
      PROVE  i + 1 \in N
  <2> SUFFICES ASSUME i + 1 <= Len(t)
               PROVE  \E m : ScannedTo(t, separator, i + 1, st[i + 1], m)
    OBVIOUS
  <2>1. i + 1 \in 1 .. Len(t) /\ i \in Nat /\ (i + 1) - 1 = i /\ i <= Len(t)
    OBVIOUS
  <2>2. PICK m : ScannedTo(t, separator, i, st[i], m)
    BY <2>1
  <2>3. st[i + 1] = TakeOne(st[i], t[i + 1], separator)
    BY <2>1 DEF Taken
  <2> QED
    BY <2>1, <2>2, <2>3, ScanStep
<1> HIDE DEF N
<1>3. N = Nat
  <2>1. N \in SUBSET Nat
    BY DEF N
  <2> QED
    BY <1>1, <1>2, <2>1, NumberInduction
<1> QED
  BY <1>3 DEF N

(* The first n characters, as a reader takes them apart.                   *)
LEMMA PrefixBetween ==
  ASSUME NEW Char, NEW t \in Seq(Char), NEW separator, NEW n \in 0 .. Len(t), NEW s, NEW m,
         ScannedTo(t, separator, n, s, m)
  PROVE  /\ s.all \in Seq(Seq(Char)) /\ s.next \in Seq(Char)
         /\ Between(SubSeq(t, 1, n), separator) = Append(s.all, s.next)
<1>1. n \in Nat /\ n <= Len(t) /\ Len(t) \in Nat /\ \A i \in 1 .. Len(t) : t[i] \in Char
  BY ElementOfSeq
<1>2. /\ m \in Seq(Nat) /\ Len(m) \in Nat \ {0}
      /\ \A k \in 1 .. Len(m) : m[k] \in 0 .. n
  <2>1. EndsInPlace(t, separator, n, m)
    BY EndsFacts
  <2> QED
    BY <2>1 DEF EndsInPlace
<1>3. Len(m) \in 1 .. Len(m) /\ m[Len(m)] \in 0 .. n
  BY <1>2
<1> DEFINE piece(a, b) == SubSeq(t, a + 1, b - 1)
           pieces == [k \in 1 .. Len(m) - 1 |-> piece(m[k], m[k + 1])]
           last == piece(m[Len(m)], n + 1)
<1>4. s.all = pieces /\ s.next = last /\ Enumerates(m, EndsUpTo(t, separator, n))
  <2>1. (n + 1) - 1 = n
    BY <1>1
  <2> QED
    BY <2>1 DEF ScannedTo
<1>5. ASSUME NEW a \in 0 .. n, NEW b \in 0 .. n + 1
      PROVE  piece(a, b) \in Seq(Char) /\ piece(a, b) = SubSeq(SubSeq(t, 1, n), a + 1, b - 1)
  <2> DEFINE u == SubSeq(t, 1, n)
  <2>1. \A i \in 1 .. n : t[i] \in Char
    BY <1>1
  <2>2. u \in Seq(Char) /\ Len(u) = n /\ \A i \in 1 .. n : u[i] = t[i]
    <3>1. /\ u \in Seq(Char) /\ Len(u) = IF 1 <= n THEN n - 1 + 1 ELSE 0
          /\ \A i \in 1 .. n - 1 + 1 : u[i] = t[1 + i - 1]
      BY <1>1, <2>1, SubSeqProperties
    <3> QED
      BY <1>1, <3>1
  <2> HIDE DEF u
  <2>3. \A i \in a + 1 .. b - 1 : i \in 1 .. n /\ t[i] \in Char /\ u[i] \in Char /\ u[i] = t[i]
    BY <1>1, <2>1, <2>2
  <2>4. a + 1 \in Int /\ b - 1 \in Int
    BY <1>1
  <2> DEFINE l == IF a + 1 <= b - 1 THEN (b - 1) - (a + 1) + 1 ELSE 0
  <2>5. /\ piece(a, b) \in Seq(Char) /\ Len(piece(a, b)) = l
        /\ \A i \in 1 .. (b - 1) - (a + 1) + 1 : piece(a, b)[i] = t[a + 1 + i - 1]
    BY <2>3, <2>4, SubSeqProperties
  <2>6. PICK v : v = SubSeq(u, a + 1, b - 1)
    OBVIOUS
  <2>7. /\ v \in Seq(Char) /\ Len(v) = l
        /\ \A i \in 1 .. (b - 1) - (a + 1) + 1 : v[i] = u[a + 1 + i - 1]
    BY <2>3, <2>4, <2>6, SubSeqProperties
  <2>8. PICK w : w = piece(a, b)
    OBVIOUS
  <2>9. ASSUME NEW i \in 1 .. Len(w)
        PROVE  w[i] = v[i]
    <3>1. i \in 1 .. (b - 1) - (a + 1) + 1 /\ a + 1 + i - 1 \in a + 1 .. b - 1
      BY <1>1, <2>5, <2>8
    <3> HIDE DEF piece
    <3> QED
      BY <2>3, <2>5, <2>7, <2>8, <3>1
  <2>10. w = v
    <3> HIDE DEF piece, l
    <3> QED
      BY <2>5, <2>7, <2>8, <2>9, SeqEqual
  <2> QED
    BY <2>5, <2>6, <2>8, <2>10 DEF u
<1> HIDE DEF piece
<1>6. ASSUME NEW k \in 1 .. Len(m) - 1
      PROVE  m[k] \in 0 .. n /\ m[k + 1] \in 0 .. n + 1
  <2>1. k \in 1 .. Len(m) /\ k + 1 \in 1 .. Len(m)
    BY <1>2
  <2> QED
    BY <1>1, <1>2, <2>1
<1>7. n + 1 \in 0 .. n + 1
  BY <1>1
<1>8. last \in Seq(Char)
  BY <1>3, <1>5, <1>7
<1>9. pieces \in Seq(Seq(Char)) /\ Len(pieces) = Len(m) - 1
  <2>1. \A k \in 1 .. Len(m) - 1 : piece(m[k], m[k + 1]) \in Seq(Char)
    BY <1>5, <1>6
  <2> QED
    BY <1>2, <2>1
<1>10. PICK p : p = Append(m, n + 1)
  OBVIOUS
<1>11. Ends(SubSeq(t, 1, n), separator) = EndsUpTo(t, separator, n) \cup {n + 1}
  <2>1. PICK u : u = SubSeq(t, 1, n)
    OBVIOUS
  <2>2. u \in Seq(Char) /\ Len(u) = n /\ \A i \in 1 .. n : u[i] = t[i]
    <3>1. \A i \in 1 .. n : t[i] \in Char
      BY <1>1
    <3>2. /\ u \in Seq(Char) /\ Len(u) = IF 1 <= n THEN n - 1 + 1 ELSE 0
          /\ \A i \in 1 .. n - 1 + 1 : u[i] = t[1 + i - 1]
      BY <1>1, <2>1, <3>1, SubSeqProperties
    <3> QED
      BY <1>1, <3>2
  <2>3. DOMAIN u = 1 .. n
    BY <2>2
  <2> QED
    BY <2>1, <2>2, <2>3 DEF Ends, EndsUpTo
<1>12. Enumerates(p, Ends(SubSeq(t, 1, n), separator)) /\ Extends(p, m, n + 1)
  <2>1. PICK E : E = EndsUpTo(t, separator, n)
    OBVIOUS
  <2>2. Enumerates(m, E) /\ n + 1 \in Nat /\ \A i \in E : i < n + 1
    BY <1>1, <1>4, <2>1 DEF EndsUpTo
  <2>3. Enumerates(p, E \cup {n + 1}) /\ Extends(p, m, n + 1)
    BY <1>10, <2>2, OneEndMore
  <2> QED
    BY <1>11, <2>1, <2>3
<1> DEFINE ends == Ends(SubSeq(t, 1, n), separator)
<1>13. Cardinality(ends) - 1 = Len(m) /\ \A k \in 1 .. Len(m) + 1 : EndAt(ends, k) = p[k]
  <2>1. PICK E : E = ends
    OBVIOUS
  <2>2. Cardinality(E) = Len(p) /\ \A k \in 1 .. Len(p) : EndAt(E, k) = p[k]
    BY <1>12, <2>1, EndsInOrder
  <2>3. Len(p) = Len(m) + 1
    BY <1>12 DEF Extends
  <2> QED
    BY <1>2, <2>1, <2>2, <2>3
<1>14. Between(SubSeq(t, 1, n), separator) =
         [k \in 1 .. Len(m) |-> SubSeq(SubSeq(t, 1, n), EndAt(ends, k) + 1, EndAt(ends, k + 1) - 1)]
  BY <1>13, Zenon DEF Between
<1> HIDE DEF ends
<1>15. PICK c : c = Append(pieces, last)
  OBVIOUS
<1>16. c \in Seq(Seq(Char)) /\ Extends(c, pieces, last)
  <2> HIDE DEF pieces, last
  <2> QED
    BY <1>8, <1>9, <1>15, AppendIs
<1>17. ASSUME NEW k \in 1 .. Len(m)
       PROVE  c[k] = SubSeq(SubSeq(t, 1, n), EndAt(ends, k) + 1, EndAt(ends, k + 1) - 1)
  <2>1. EndAt(ends, k) = m[k] /\ EndAt(ends, k + 1) = p[k + 1]
    <3>1. k \in 1 .. Len(m) + 1 /\ k + 1 \in 1 .. Len(m) + 1
      BY <1>2
    <3> QED
      BY <1>12, <1>13, <3>1 DEF Extends
  <2>2. CASE k = Len(m)
    <3>1. p[k + 1] = n + 1
      BY <1>12, <2>2 DEF Extends
    <3>2. c[k] = last
      <4> HIDE DEF pieces, last
      <4>1. Len(pieces) + 1 = k
        BY <1>2, <1>9, <2>2
      <4> QED
        BY <1>16, <4>1 DEF Extends
    <3>3. last = SubSeq(SubSeq(t, 1, n), m[Len(m)] + 1, (n + 1) - 1)
      BY <1>3, <1>5, <1>7
    <3> QED
      BY <2>1, <2>2, <3>1, <3>2, <3>3
  <2>3. CASE k \in 1 .. Len(m) - 1
    <3>1. p[k + 1] = m[k + 1]
      <4>1. k + 1 \in 1 .. Len(m)
        BY <1>2, <2>3
      <4> QED
        BY <1>12, <4>1 DEF Extends
    <3>2. c[k] = pieces[k]
      <4> HIDE DEF pieces, last
      <4> QED
        BY <1>9, <1>16, <2>3 DEF Extends
    <3>3. pieces[k] = SubSeq(SubSeq(t, 1, n), m[k] + 1, m[k + 1] - 1)
      BY <1>5, <1>6, <2>3
    <3> QED
      BY <2>1, <3>1, <3>2, <3>3
  <2>4. k = Len(m) \/ k \in 1 .. Len(m) - 1
    BY <1>2
  <2> QED
    BY <2>2, <2>3, <2>4
<1>18. Len(c) = Len(m)
  <2> HIDE DEF pieces, last
  <2> QED
    BY <1>2, <1>9, <1>16 DEF Extends
<1>19. c = [k \in 1 .. Len(m) |-> c[k]]
  BY <1>16, <1>18
<1>20. Between(SubSeq(t, 1, n), separator) = c
  BY <1>14, <1>17, <1>19
<1> QED
  BY <1>4, <1>8, <1>9, <1>15, <1>20

(* What getline reads is what lies between the separators, but for what    *)
(* would be behind a separator at the end.                                 *)
LEMMA PiecesAre ==
  ASSUME NEW Char, NEW t \in Seq(Char), NEW separator, t # <<>>
  PROVE  /\ Between(t, separator) \in Seq(Seq(Char))
         /\ Between(Front(t), separator) \in Seq(Seq(Char))
         /\ Last(t) # separator => Pieces(t, separator) = Between(t, separator)
         /\ Last(t) = separator =>
              /\ Pieces(t, separator) = Between(Front(t), separator)
              /\ Between(t, separator) = Append(Between(Front(t), separator), <<>>)
<1> DEFINE n == Len(t)
<1>1. n \in 1 .. Len(t) /\ n \in 0 .. Len(t) /\ n - 1 \in 0 .. Len(t)
  <2>1. Len(t) \in Nat \ {0}
    BY EmptySeq
  <2> QED
    BY <2>1
<1>2. SubSeq(t, 1, n) = t /\ Front(t) = SubSeq(t, 1, n - 1) /\ Last(t) = t[n]
  BY SubSeqFull DEF Front, Last
<1> HIDE DEF n
<1>3. PICK st : Taken(t, separator, st)
  BY PiecesTaken
<1>4. PICK m : ScannedTo(t, separator, n, st[n], m)
  BY <1>1, <1>3, ScanAll
<1>5. PICK p : ScannedTo(t, separator, n - 1, st[n - 1], p)
  BY <1>1, <1>3, ScanAll
<1>6. /\ st[n].all \in Seq(Seq(Char)) /\ st[n].next \in Seq(Char)
      /\ Between(t, separator) = Append(st[n].all, st[n].next)
  BY <1>1, <1>2, <1>4, PrefixBetween
<1>7. /\ st[n - 1].all \in Seq(Seq(Char)) /\ st[n - 1].next \in Seq(Char)
      /\ Between(Front(t), separator) = Append(st[n - 1].all, st[n - 1].next)
  BY <1>1, <1>2, <1>5, PrefixBetween
<1>8. Between(t, separator) \in Seq(Seq(Char)) /\ Between(Front(t), separator) \in Seq(Seq(Char))
  BY <1>6, <1>7, AppendIs
<1>9. /\ st[n] = TakeOne(st[n - 1], t[n], separator)
      /\ Pieces(t, separator) = IF st[n].next = <<>> THEN st[n].all ELSE Append(st[n].all, st[n].next)
  BY <1>1, <1>3 DEF Taken, n
<1>10. ASSUME t[n] = separator
       PROVE  st[n].all = Append(st[n - 1].all, st[n - 1].next) /\ st[n].next = <<>>
  BY <1>9, <1>10 DEF TakeOne
<1>11. ASSUME t[n] # separator
       PROVE  st[n].next # <<>>
  <2>1. st[n].next = Append(st[n - 1].next, t[n])
    BY <1>9, <1>11 DEF TakeOne
  <2>2. t[n] \in Char
    BY <1>1, ElementOfSeq
  <2>3. Extends(st[n].next, st[n - 1].next, t[n])
    BY <1>7, <2>1, <2>2, AppendIs
  <2>4. Len(st[n - 1].next) \in Nat /\ Len(<<>>) = 0
    BY <1>7
  <2>5. Len(st[n].next) # 0
    BY <2>3, <2>4 DEF Extends
  <2> QED
    BY <2>4, <2>5
<1>12. ASSUME Last(t) # separator
       PROVE  Pieces(t, separator) = Between(t, separator)
  BY <1>2, <1>6, <1>9, <1>11, <1>12
<1>13. ASSUME Last(t) = separator
       PROVE  /\ Pieces(t, separator) = Between(Front(t), separator)
              /\ Between(t, separator) = Append(Between(Front(t), separator), <<>>)
  <2>1. st[n].all = Between(Front(t), separator) /\ st[n].next = <<>>
    BY <1>2, <1>7, <1>10, <1>13
  <2> QED
    BY <1>6, <1>9, <2>1
<1> QED
  BY <1>8, <1>12, <1>13

(* The lines are what getline reads of the file, and none is blank.        *)
LEMMA LinesAre ==
  ASSUME NEW Char, NEW t \in Seq(Char), t # <<>>, NoBlankLines(t)
  PROVE  /\ Pieces(t, Newline) = Lines(t)
         /\ Lines(t) \in Seq(Seq(Char))
         /\ \A k \in DOMAIN Lines(t) : Lines(t)[k] # <<>>
<1> DEFINE n == IF Last(t) = Newline THEN Len(t) - 1 ELSE Len(t)
<1>1. Len(t) \in Nat \ {0} /\ Last(t) = t[Len(t)]
  BY EmptySeq DEF Last
<1>2. Lines(t) = Between(SubSeq(t, 1, n), Newline)
  BY SubSeqFull DEF Lines, Front
<1>3. Pieces(t, Newline) = Lines(t) /\ Lines(t) \in Seq(Seq(Char))
  <2>1. CASE Last(t) = Newline
    BY <2>1, PiecesAre DEF Lines
  <2>2. CASE Last(t) # Newline
    BY <2>2, PiecesAre DEF Lines
  <2> QED
    BY <2>1, <2>2
<1>4. n \in 0 .. Len(t)
  BY <1>1
<1>5. n # 0 /\ t[n] # Newline
  <2>1. CASE Last(t) = Newline
    <3>1. Len(t) \in DOMAIN t /\ t[Len(t)] = Newline
      BY <1>1, <2>1
    <3>2. Len(t) > 1 /\ t[Len(t) - 1] # Newline
      BY <3>1 DEF NoBlankLines
    <3>3. n = Len(t) - 1
      BY <2>1
    <3> HIDE DEF n
    <3> QED
      BY <1>1, <3>2, <3>3
  <2>2. CASE Last(t) # Newline
    BY <1>1, <2>2
  <2> QED
    BY <2>1, <2>2
<1> HIDE DEF n
<1>6. PICK st : Taken(t, Newline, st)
  BY PiecesTaken
<1>7. PICK m : ScannedTo(t, Newline, n, st[n], m)
  BY <1>4, <1>6, ScanAll
<1> DEFINE all == st[n].all
           next == st[n].next
<1>8. /\ all \in Seq(Seq(Char)) /\ next \in Seq(Char)
      /\ Lines(t) = Append(all, next)
  BY <1>2, <1>4, <1>7, PrefixBetween
<1>9. /\ m \in Seq(Nat) /\ Len(m) \in Nat \ {0}
      /\ \A k \in 1 .. Len(m) : m[k] \in 0 .. n /\ (m[k] = 0 \/ t[m[k]] = Newline)
      /\ \A k \in 1 .. Len(m) - 1 : m[k] < m[k + 1]
  <2>1. EndsInPlace(t, Newline, n, m)
    BY <1>4, <1>7, EndsFacts
  <2> QED
    BY <2>1 DEF EndsInPlace
<1>10. /\ all = [k \in 1 .. Len(m) - 1 |-> SubSeq(t, m[k] + 1, m[k + 1] - 1)]
       /\ next = SubSeq(t, m[Len(m)] + 1, n)
  BY <1>7 DEF ScannedTo
<1>11. ASSUME NEW a \in 0 .. n, NEW b \in 0 .. n, a < b
       PROVE  SubSeq(t, a + 1, b) # <<>>
  <2>1. \A i \in a + 1 .. b : t[i] \in Char
    BY <1>1, <1>4, ElementOfSeq
  <2>2. Len(SubSeq(t, a + 1, b)) = b - (a + 1) + 1
    BY <1>1, <1>4, <1>11, <2>1, SubSeqProperties
  <2>3. Len(SubSeq(t, a + 1, b)) > 0
    BY <1>1, <1>4, <1>11, <2>2
  <2> QED
    BY <2>3
<1>12. ASSUME NEW k \in 1 .. Len(m) - 1
       PROVE  SubSeq(t, m[k] + 1, m[k + 1] - 1) # <<>>
  <2>1. k \in 1 .. Len(m) /\ k + 1 \in 1 .. Len(m) /\ m[k] < m[k + 1]
    BY <1>9
  <2>2. /\ m[k] \in 0 .. n /\ m[k + 1] \in 1 .. n /\ t[m[k + 1]] = Newline
        /\ (m[k] = 0 \/ t[m[k]] = Newline)
    BY <1>9, <2>1
  <2>3. m[k + 1] \in DOMAIN t
    BY <1>1, <1>4, <2>2
  <2>4. m[k + 1] > 1 /\ t[m[k + 1] - 1] # Newline
    BY <2>2, <2>3 DEF NoBlankLines
  <2>5. m[k] # m[k + 1] - 1
    BY <2>2, <2>4
  <2>6. m[k + 1] - 1 \in 0 .. n /\ m[k] < m[k + 1] - 1
    BY <1>4, <2>1, <2>2, <2>5
  <2> QED
    BY <1>11, <2>2, <2>6
<1>13. next # <<>>
  <2>1. Len(m) \in 1 .. Len(m)
    BY <1>9
  <2>2. m[Len(m)] \in 0 .. n /\ m[Len(m)] # n
    BY <1>5, <1>9, <2>1
  <2>3. m[Len(m)] < n /\ n \in 0 .. n
    BY <1>4, <2>2
  <2> QED
    BY <1>10, <1>11, <2>2, <2>3
<1>14. ASSUME NEW k \in DOMAIN Lines(t)
       PROVE  Lines(t)[k] # <<>>
  <2> HIDE DEF all, next
  <2>1. Lines(t) \in Seq(Seq(Char)) /\ Extends(Lines(t), all, next)
    BY <1>8, AppendIs
  <2>2. Len(all) = Len(m) - 1
    BY <1>9, <1>10
  <2>3. k \in 1 .. Len(Lines(t)) /\ Len(Lines(t)) = Len(m)
    BY <1>9, <2>1, <2>2 DEF Extends
  <2>4. CASE k = Len(m)
    BY <1>13, <2>1, <2>2, <2>4, <1>9 DEF Extends
  <2>5. CASE k \in 1 .. Len(m) - 1
    <3>1. Lines(t)[k] = all[k]
      BY <2>1, <2>2, <2>5 DEF Extends
    <3>2. all[k] = SubSeq(t, m[k] + 1, m[k + 1] - 1)
      BY <1>10, <2>5
    <3> QED
      BY <1>12, <2>5, <3>1, <3>2
  <2>6. k = Len(m) \/ k \in 1 .. Len(m) - 1
    BY <1>9, <2>3
  <2> QED
    BY <2>4, <2>5, <2>6
<1> QED
  BY <1>3, <1>14

(* Every cell of a line is at its place in the row.                        *)
LEMMA RowIs ==
  ASSUME NEW Char, NEW line \in Seq(Char), line # <<>>, NEW delimiter
  PROVE  ReadNextRow(line, delimiter) =
           [k \in DOMAIN Between(line, delimiter) |->
              IF Between(line, delimiter)[k] = <<>> THEN Missing ELSE Between(line, delimiter)[k]]
<1> DEFINE W == Seq(Char) \cup {Missing}
           filled(b) == [k \in DOMAIN b |-> IF b[k] = <<>> THEN Missing ELSE b[k]]
<1>3. ASSUME NEW b \in Seq(Seq(Char))
      PROVE  filled(b) \in Seq(W) /\ Len(filled(b)) = Len(b)
  <2>1. Len(b) \in Nat /\ DOMAIN b = 1 .. Len(b)
    OBVIOUS
  <2>2. \A k \in 1 .. Len(b) : (IF b[k] = <<>> THEN Missing ELSE b[k]) \in W
    <3>1. \A k \in 1 .. Len(b) : b[k] \in Seq(Char)
      BY ElementOfSeq
    <3> QED
      BY <3>1
  <2>3. PICK f : f = filled(b)
    OBVIOUS
  <2>4. f \in [1 .. Len(b) -> W]
    BY <2>1, <2>2, <2>3
  <2>5. f \in Seq(W) /\ Len(f) = Len(b)
    <3> HIDE DEF W, filled
    <3>1. PICK n \in Nat : n = Len(b)
      BY <2>1
    <3>2. f \in [1 .. n -> W]
      BY <2>4, <3>1
    <3>3. f \in Seq(W)
      BY <3>2, SeqDef
    <3>4. DOMAIN f = 1 .. n /\ DOMAIN f = 1 .. Len(f) /\ Len(f) \in Nat
      BY <3>2, <3>3, LenProperties
    <3>5. Len(f) = n
      BY <3>4
    <3> QED
      BY <3>1, <3>3, <3>5
  <2> QED
    BY <2>3, <2>5
<1>1. CASE Last(line) # delimiter
  <2>1. Pieces(line, delimiter) = Between(line, delimiter) /\ Between(line, delimiter) \in Seq(Seq(Char))
    BY <1>1, PiecesAre
  <2>2. ReadNextRow(line, delimiter) = filled(Between(line, delimiter)) \o <<>>
    BY <1>1, <2>1 DEF ReadNextRow
  <2>4. filled(Between(line, delimiter)) \in Seq(W)
    BY <1>3, <2>1
  <2>5. filled(Between(line, delimiter)) \o <<>> = filled(Between(line, delimiter))
    <3> HIDE DEF filled, W
    <3> QED
      BY <2>4, ConcatEmptySeq
  <2> QED
    BY <2>2, <2>5
<1>2. CASE Last(line) = delimiter
  <2>1. PICK b \in Seq(Seq(Char)) : /\ b = Between(Front(line), delimiter)
                                    /\ Pieces(line, delimiter) = b
                                    /\ Between(line, delimiter) = Append(b, <<>>)
    BY <1>2, PiecesAre
  <2>2. ReadNextRow(line, delimiter) = filled(b) \o <<Missing>>
    BY <1>2, <2>1 DEF ReadNextRow
  <2>3. <<>> \in Seq(Char) /\ Len(b) \in Nat
    OBVIOUS
  <2>4. PICK c \in Seq(Seq(Char)) : c = Append(b, <<>>) /\ Extends(c, b, <<>>)
    BY <2>3, AppendIs
  <2>5. filled(b) \in Seq(W) /\ Len(filled(b)) = Len(b)
    BY <1>3
  <2>6. filled(c) \in Seq(W) /\ Len(filled(c)) = Len(c) /\ Len(c) = Len(b) + 1
    BY <1>3, <2>4 DEF Extends
  <2>7. <<Missing>> \in Seq(W) /\ Len(<<Missing>>) = 1 /\ <<Missing>>[1] = Missing
    OBVIOUS
  <2>8. PICK r : r = filled(b) \o <<Missing>>
    OBVIOUS
  <2>9. /\ r \in Seq(W) /\ Len(r) = Len(b) + 1
        /\ \A i \in 1 .. Len(b) + 1 : r[i] = IF i <= Len(b) THEN filled(b)[i] ELSE <<Missing>>[i - Len(b)]
    <3> HIDE DEF W, filled
    <3> QED
      BY <2>5, <2>7, <2>8, ConcatProperties
  <2>10. ASSUME NEW i \in 1 .. Len(r)
         PROVE  r[i] = filled(c)[i]
    <3>1. i \in DOMAIN c /\ DOMAIN b = 1 .. Len(b)
      BY <2>3, <2>4, <2>6, <2>9
    <3>2. CASE i = Len(b) + 1
      <4>1. r[i] = Missing
        <5>1. i \in 1 .. Len(b) + 1 /\ ~(i <= Len(b)) /\ i - Len(b) = 1
          BY <2>3, <3>2
        <5>2. r[i] = <<Missing>>[i - Len(b)]
          BY <2>9, <5>1
        <5> QED
          BY <2>7, <5>1, <5>2
      <4>2. c[i] = <<>>
        BY <2>4, <3>2 DEF Extends
      <4> QED
        BY <3>1, <4>1, <4>2
    <3>3. CASE i \in 1 .. Len(b)
      <4>1. r[i] = filled(b)[i]
        BY <2>3, <2>9, <3>3
      <4>2. c[i] = b[i]
        BY <2>4, <3>3 DEF Extends
      <4> QED
        BY <3>1, <3>3, <4>1, <4>2
    <3>4. i = Len(b) + 1 \/ i \in 1 .. Len(b)
      BY <2>3, <2>9
    <3> QED
      BY <3>2, <3>3, <3>4
  <2>11. r = filled(c)
    <3> HIDE DEF W, filled
    <3> QED
      BY <2>6, <2>9, <2>10, SeqEqual
  <2> QED
    BY <2>1, <2>2, <2>4, <2>8, <2>11
<1> QED
  BY <1>1, <1>2

(* Whatever the characters and the delimiter, a file without blank lines   *)
(* becomes one row for each line, with every cell at its place, "-1" where *)
(* it is empty, the last cell and an unended last line like the others     *)
(* (readFromFile, readNextRow).                                            *)
THEOREM ReaderKeepsCells ==
  ASSUME NEW Char, NEW t \in Seq(Char), NoBlankLines(t), NEW delimiter
  PROVE  ReadFromFile(<<t>>, delimiter) = RowsIn(t, delimiter)
<1>1. ReadFromFile(<<t>>, delimiter) =
        [i \in DOMAIN Pieces(t, Newline) |-> ReadNextRow(Pieces(t, Newline)[i], delimiter)]
  <2>1. <<t>> # <<>> /\ <<t>>[1] = t
    OBVIOUS
  <2> QED
    BY <2>1 DEF ReadFromFile
<1>2. CASE t = <<>>
  <2>1. PICK st : Taken(t, Newline, st)
    BY PiecesTaken
  <2>2. Pieces(t, Newline) = <<>>
    <3>1. Len(t) = 0 /\ st[0] = [all |-> <<>>, next |-> <<>>]
      BY <1>2, <2>1 DEF Taken
    <3> QED
      BY <2>1, <3>1 DEF Taken
  <2>3. Lines(t) = <<>>
    BY <1>2 DEF Lines
  <2>4. DOMAIN <<>> = {}
    OBVIOUS
  <2> QED
    BY <1>1, <2>2, <2>3, <2>4 DEF RowsIn
<1>3. CASE t # <<>>
  <2>1. /\ Pieces(t, Newline) = Lines(t)
        /\ \A i \in DOMAIN Lines(t) : Lines(t)[i] \in Seq(Char) /\ Lines(t)[i] # <<>>
    BY <1>3, LinesAre, ElementOfSeq
  <2> DEFINE row(b) == [k \in DOMAIN b |-> IF b[k] = <<>> THEN Missing ELSE b[k]]
  <2>2. ASSUME NEW i \in DOMAIN Lines(t)
        PROVE  ReadNextRow(Lines(t)[i], delimiter) = row(Between(Lines(t)[i], delimiter))
    BY <2>1, RowIs
  <2>3. RowsIn(t, delimiter) = [i \in DOMAIN Lines(t) |-> row(Between(Lines(t)[i], delimiter))]
    BY Zenon DEF RowsIn
  <2> HIDE DEF row
  <2> QED
    BY <1>1, <2>1, <2>2, <2>3
<1> QED
  BY <1>2, <1>3

(* The rows of the table are those of the lines of its file, each cell at  *)
(* its place (readNextRow, readFromFile).                                  *)
THEOREM RowsStayInPlace == MCSpec => []RowsKeepCells
<1>1. MCInit => text \in Files
  BY DEF MCInit
<1>2. text \in Files /\ [MCNext]_mcVars => (text \in Files)'
  BY DEF MCNext, mcVars
<1>3. text \in Files => RowsKeepCells
  <2> SUFFICES ASSUME text \in Files, text # <<>>
               PROVE  ReadFromFile(text, "|") = RowsIn(text[1], "|")
    BY DEF RowsKeepCells
  <2>1. PICK t \in SeqOf({"a", "|", Newline}, 4) : NoBlankLines(t) /\ text = <<t>>
    BY DEF Files
  <2>2. t \in Seq({"a", "|", Newline})
    <3>1. PICK C : C = {"a", "|", Newline}
      OBVIOUS
    <3>2. PICK m \in 0..4 : t \in [1..m -> C]
      BY <2>1, <3>1 DEF SeqOf
    <3>3. m \in Nat
      OBVIOUS
    <3>4. t \in Seq(C)
      BY <3>2, <3>3, SeqDef
    <3> QED
      BY <3>1, <3>4
  <2>3. ReadFromFile(<<t>>, "|") = RowsIn(t, "|")
    BY <2>1, <2>2, ReaderKeepsCells
  <2> QED
    BY <2>1, <2>3
<1> QED
  BY <1>1, <1>2, <1>3, PTL DEF MCSpec
=============================================================================
