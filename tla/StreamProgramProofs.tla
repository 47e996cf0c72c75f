------------------------ MODULE StreamProgramProofs ------------------------
(***************************************************************************)
(* A stream program, for any program, files and number of calls.           *)
(*                                                                         *)
(* The client and the thread that runs the program: the requests of one    *)
(* never meet those before, and every snapshot is what a whole number of   *)
(* events made (IInv). Here the events may be what any adaptor and any     *)
(* multiplexer makes of the files.                                         *)
(*                                                                         *)
(* The lines of the CSV files: each counts, once and with its sign, and    *)
(* without batches in its turn (CInv). The argument goes along the lines:  *)
(* every line that makes an event has its place in what is read (Traced),  *)
(* arranging the events keeps the changes they make (Tally) and, without   *)
(* batches, their order (OrderTraced), and the relations hold what the     *)
(* changes done so far make of them (NetIs).                               *)
(***************************************************************************)
EXTENDS StreamProgram, FiniteSums, SequenceTheorems

-----------------------------------------------------------------------------
(***************************************************************************)
(* The recursive functions, one step at a time.                            *)
(***************************************************************************)

AppliedBy(f, c, changes, n) ==
  f = [i \in 0..n |-> IF i = 0 THEN c ELSE Apply(f[i - 1], changes[i])]

LEMMA AppliedExists ==
  ASSUME NEW c, NEW changes, NEW n \in Nat
  PROVE  \E f : AppliedBy(f, c, changes, n)
<1> DEFINE N == {m \in Nat : \E f : AppliedBy(f, c, changes, m)}
<1>1. 0 \in N
  <2>1. AppliedBy([i \in 0..0 |-> c], c, changes, 0)
    BY DEF AppliedBy
  <2> QED
    BY <2>1
<1>2. ASSUME NEW m \in N
      PROVE  m + 1 \in N
  <2>1. PICK f : AppliedBy(f, c, changes, m)
    OBVIOUS
  <2> DEFINE g == [i \in 0..m + 1 |-> IF i = m + 1 THEN Apply(f[m], changes[m + 1]) ELSE f[i]]
  <2>2. m \in Nat
    OBVIOUS
  <2>3. ASSUME NEW i \in 0..m + 1
        PROVE  g[i] = IF i = 0 THEN c ELSE Apply(g[i - 1], changes[i])
    BY <2>1, <2>2 DEF AppliedBy
  <2>4. AppliedBy(g, c, changes, m + 1)
    BY <2>3 DEF AppliedBy
  <2> HIDE DEF g
  <2> QED
    BY <2>2, <2>4
<1>3. N = Nat
  <2> HIDE DEF N
  <2>1. N \in SUBSET Nat
    BY DEF N
  <2> QED
    BY <1>1, <1>2, <2>1, NumberInduction
<1> QED
  BY <1>3

LEMMA AppliedUnique ==
  ASSUME NEW c, NEW changes, NEW n \in Nat,
         NEW f, AppliedBy(f, c, changes, n), NEW g, AppliedBy(g, c, changes, n + 1)
  PROVE  f[n] = g[n]
<1> DEFINE N == {m \in Nat : m <= n => f[m] = g[m]}
<1>1. 0 \in N
  <2>1. f[0] = c /\ g[0] = c
    BY DEF AppliedBy
  <2> QED
    BY <2>1
<1>2. ASSUME NEW m \in N
      PROVE  m + 1 \in N
  <2> SUFFICES ASSUME m + 1 <= n
               PROVE  f[m + 1] = g[m + 1]
    OBVIOUS
  <2>1. m + 1 \in 0..n /\ m + 1 \in 0..n + 1 /\ m + 1 # 0 /\ (m + 1) - 1 = m
    OBVIOUS
  <2>2. f[m + 1] = Apply(f[m], changes[m + 1])
    BY <2>1 DEF AppliedBy
  <2>3. g[m + 1] = Apply(g[m], changes[m + 1])
    BY <2>1 DEF AppliedBy
  <2> QED
    BY <2>1, <2>2, <2>3
<1>3. N = Nat
  <2> HIDE DEF N
  <2>1. N \in SUBSET Nat
    BY DEF N
  <2> QED
    BY <1>1, <1>2, <2>1, NumberInduction
<1> QED
  BY <1>3

LEMMA AppliedIs ==
  ASSUME NEW c, NEW changes, NEW n \in Nat
  PROVE  \E f : AppliedBy(f, c, changes, n) /\ Applied(c, changes, n) = f[n]
<1> DEFINE Rec(f) == [i \in 0..n |-> IF i = 0 THEN c ELSE Apply(f[i - 1], changes[i])]
           all == CHOOSE f : f = Rec(f)
<1>1. \E f : f = Rec(f)
  <2>1. PICK f : AppliedBy(f, c, changes, n)
    BY AppliedExists
  <2>2. f = Rec(f)
    BY <2>1 DEF AppliedBy
  <2> HIDE DEF Rec
  <2> QED
    BY <2>2
<1>2. all = Rec(all)
  BY <1>1
<1>3. Applied(c, changes, n) = all[n]
  BY DEF Applied
<1> HIDE DEF all
<1> QED
  BY <1>2, <1>3 DEF AppliedBy

(* One change more.                                                        *)
LEMMA AppliedNext ==
  ASSUME NEW c, NEW changes, NEW n \in Nat
  PROVE  /\ Applied(c, changes, 0) = c
         /\ Applied(c, changes, n + 1) = Apply(Applied(c, changes, n), changes[n + 1])
<1>1. Applied(c, changes, 0) = c
  <2>1. PICK f : AppliedBy(f, c, changes, 0) /\ Applied(c, changes, 0) = f[0]
    BY AppliedIs
  <2> QED
    BY <2>1 DEF AppliedBy
<1>2. PICK f : AppliedBy(f, c, changes, n) /\ Applied(c, changes, n) = f[n]
  BY AppliedIs
<1>3. PICK g : AppliedBy(g, c, changes, n + 1) /\ Applied(c, changes, n + 1) = g[n + 1]
  BY AppliedIs
<1>4. f[n] = g[n]
  BY <1>2, <1>3, AppliedUnique
<1>5. g[n + 1] = Apply(g[n], changes[n + 1])
  <2>1. n + 1 \in 0..n + 1 /\ n + 1 # 0 /\ (n + 1) - 1 = n
    OBVIOUS
  <2> QED
    BY <1>3, <2>1 DEF AppliedBy
<1> QED
  BY <1>1, <1>2, <1>3, <1>4, <1>5

(* The same for events, whose relations and triggers are those of reg.     *)
Handles(reg, e, mux) ==
  /\ e.id \in Range(reg.ids)
  /\ (e.id \in reg.tables) = (mux = "table")
  /\ <<e.id, e.type>> \in reg.triggers

Sized(reg, e, mux) == IF Handles(reg, e, mux) THEN Len(Changes(e)) ELSE 0

AfterBy(f, reg, q, mux, c, n) ==
  f = [k \in 0..n |-> IF k = 0 THEN c
                      ELSE Applied(f[k - 1], Changes(q[k]), Sized(reg, q[k], mux))]

After(reg, q, mux, c, n) ==
  LET after[k \in 0..n] ==
        IF k = 0 THEN c ELSE Applied(after[k - 1], Changes(q[k]), Sized(reg, q[k], mux))
  IN  after[n]

LEMMA AfterExists ==
  ASSUME NEW reg, NEW q, NEW mux, NEW c, NEW n \in Nat
  PROVE  \E f : AfterBy(f, reg, q, mux, c, n)
<1> DEFINE N == {m \in Nat : \E f : AfterBy(f, reg, q, mux, c, m)}
<1>1. 0 \in N
  <2>1. AfterBy([k \in 0..0 |-> c], reg, q, mux, c, 0)
    BY DEF AfterBy
  <2> QED
    BY <2>1
<1>2. ASSUME NEW m \in N
      PROVE  m + 1 \in N
  <2>1. PICK f : AfterBy(f, reg, q, mux, c, m)
    OBVIOUS
  <2> DEFINE g == [k \in 0..m + 1 |->
                     IF k = m + 1
                     THEN Applied(f[m], Changes(q[m + 1]), Sized(reg, q[m + 1], mux))
                     ELSE f[k]]
  <2>2. m \in Nat
    OBVIOUS
  <2>3. ASSUME NEW k \in 0..m + 1
        PROVE  g[k] = IF k = 0 THEN c
                      ELSE Applied(g[k - 1], Changes(q[k]), Sized(reg, q[k], mux))
    BY <2>1, <2>2 DEF AfterBy
  <2>4. AfterBy(g, reg, q, mux, c, m + 1)
    BY <2>3 DEF AfterBy
  <2> HIDE DEF g
  <2> QED
    BY <2>2, <2>4
<1>3. N = Nat
  <2> HIDE DEF N
  <2>1. N \in SUBSET Nat
    BY DEF N
  <2> QED
    BY <1>1, <1>2, <2>1, NumberInduction
<1> QED
  BY <1>3

LEMMA AfterUnique ==
  ASSUME NEW reg, NEW q, NEW mux, NEW c, NEW n \in Nat,
         NEW f, AfterBy(f, reg, q, mux, c, n), NEW g, AfterBy(g, reg, q, mux, c, n + 1)
  PROVE  f[n] = g[n]
<1> DEFINE N == {m \in Nat : m <= n => f[m] = g[m]}
<1>1. 0 \in N
  <2>1. f[0] = c /\ g[0] = c
    BY DEF AfterBy
  <2> QED
    BY <2>1
<1>2. ASSUME NEW m \in N
      PROVE  m + 1 \in N
  <2> SUFFICES ASSUME m + 1 <= n
               PROVE  f[m + 1] = g[m + 1]
    OBVIOUS
  <2>1. m + 1 \in 0..n /\ m + 1 \in 0..n + 1 /\ m + 1 # 0 /\ (m + 1) - 1 = m
    OBVIOUS
  <2>2. f[m + 1] = Applied(f[m], Changes(q[m + 1]), Sized(reg, q[m + 1], mux))
    BY <2>1 DEF AfterBy
  <2>3. g[m + 1] = Applied(g[m], Changes(q[m + 1]), Sized(reg, q[m + 1], mux))
    BY <2>1 DEF AfterBy
  <2> QED
    BY <2>1, <2>2, <2>3
<1>3. N = Nat
  <2> HIDE DEF N
  <2>1. N \in SUBSET Nat
    BY DEF N
  <2> QED
    BY <1>1, <1>2, <2>1, NumberInduction
<1> QED
  BY <1>3

(* One event more.                                                         *)
LEMMA AfterNext ==
  ASSUME NEW reg, NEW q, NEW mux, NEW c, NEW n \in Nat
  PROVE  /\ After(reg, q, mux, c, 0) = c
         /\ After(reg, q, mux, c, n + 1) =
              Applied(After(reg, q, mux, c, n), Changes(q[n + 1]), Sized(reg, q[n + 1], mux))
<1>1. \A m \in Nat : \E f : AfterBy(f, reg, q, mux, c, m) /\ After(reg, q, mux, c, m) = f[m]
  <2> TAKE m \in Nat
  <2> DEFINE Rec(f) == [k \in 0..m |-> IF k = 0 THEN c
                          ELSE Applied(f[k - 1], Changes(q[k]), Sized(reg, q[k], mux))]
             all == CHOOSE f : f = Rec(f)
  <2>1. PICK f : AfterBy(f, reg, q, mux, c, m)
    BY AfterExists
  <2>2. f = Rec(f)
    BY <2>1 DEF AfterBy
  <2>3. all = Rec(all)
    <3> HIDE DEF Rec
    <3> QED
      BY <2>2
  <2>4. After(reg, q, mux, c, m) = all[m]
    BY DEF After
  <2> HIDE DEF all
  <2> QED
    BY <2>3, <2>4 DEF AfterBy
<1>2. After(reg, q, mux, c, 0) = c
  <2>1. PICK f : AfterBy(f, reg, q, mux, c, 0) /\ After(reg, q, mux, c, 0) = f[0]
    BY <1>1
  <2> QED
    BY <2>1 DEF AfterBy
<1>3. PICK f : AfterBy(f, reg, q, mux, c, n) /\ After(reg, q, mux, c, n) = f[n]
  BY <1>1
<1>4. PICK g : AfterBy(g, reg, q, mux, c, n + 1) /\ After(reg, q, mux, c, n + 1) = g[n + 1]
  <2>1. n + 1 \in Nat
    OBVIOUS
  <2> QED
    BY <1>1, <2>1
<1>5. f[n] = g[n]
  BY <1>3, <1>4, AfterUnique
<1>6. g[n + 1] = Applied(g[n], Changes(q[n + 1]), Sized(reg, q[n + 1], mux))
  <2>1. n + 1 \in 0..n + 1 /\ n + 1 # 0 /\ (n + 1) - 1 = n
    OBVIOUS
  <2> QED
    BY <1>4, <2>1 DEF AfterBy
<1> QED
  BY <1>2, <1>3, <1>4, <1>5, <1>6

QueueOf(ev, mux) == ev[mux].list \o ev[mux].que

None(reg) == [id \in Range(reg.ids) |-> <<>>]
Loaded(reg, ev) ==
  After(reg, QueueOf(ev, "table"), "table", None(reg), Len(QueueOf(ev, "table")))
Whole(reg, ev, n) == After(reg, QueueOf(ev, "stream"), "stream", Loaded(reg, ev), n)

LEMMA AfterEventsIs ==
  ASSUME NEW mux, NEW c, NEW n
  PROVE  AfterEvents(mux, c, n) = After(registry, QueueOf(events, mux), mux, c, n)
BY DEF AfterEvents, After, AfterBy, Sized, Handles, IsHandled, Ids, Queued, QueueOf

LEMMA ContentAfterIs ==
  ASSUME NEW n
  PROVE  ContentAfter(n) = Whole(registry, events, n)
<1>1. Nothing = None(registry)
  BY DEF Nothing, None, Ids
<1>2. Queued("table") = QueueOf(events, "table")
  BY DEF Queued, QueueOf
<1>3. Tables = Loaded(registry, events)
  BY <1>1, <1>2, AfterEventsIs DEF Tables, Loaded
<1> QED
  BY <1>3, AfterEventsIs DEF ContentAfter, Whole

-----------------------------------------------------------------------------
(***************************************************************************)
(* The invariant.                                                          *)
(***************************************************************************)

Stopping == {"lastCheck", "lastClear", "lastAnnounce", "fall"}
Processing == {"stream", "check", "clear", "announce", "stop"}
Over == {"stop", "done"} \cup Stopping

Clears == {"clear", "lastClear"}
Announces == {"announce", "lastAnnounce"}

Loading == pcRun \in {"read", "tables"}

(* What the flags and the mutex say about the threads.                     *)
FlagsTell ==
  /\ running <=> pcRun \in Processing \cup Stopping
  /\ finished <=> pcRun \in Over
  /\ runningMtx = "runner" <=> pcRun \in Stopping
  /\ runningMtx = "client" <=> pcClient \in {"locked", "asking"}
  /\ {running, finished, request, ready} \subseteq BOOLEAN
  /\ pcRun \in {"read", "tables", "start", "done"} \cup Processing \cup Stopping
  /\ pcClient \in {"idle", "lock", "locked", "asking", "wait"}

(* A snapshot is right for the call under way.                             *)
Right(reg, ev, snap, asked) ==
  /\ snap.upto >= asked
  /\ snap.content = Whole(reg, ev, snap.upto)

(* Where a request is on its way.                                          *)
RequestOnItsWay ==
  /\ Loading => pcClient = "idle" /\ result.snap = NoSnapshot
  /\ pcClient \in {"idle", "lock", "locked"} =>
       ~request /\ ready /\ pcRun \notin Clears \cup Announces
  /\ pcClient = "asking" =>
       ~request /\ ~ready /\ running /\ pcRun \notin Clears \cup Announces
  /\ pcClient = "wait" =>
       \/ request /\ ~ready /\ pcRun \notin Announces
          /\ (pcRun \in Clears => Right(registry, events, snapshot, result.asked))
       \/ ~request /\ ~ready /\ pcRun \in Announces /\ Right(registry, events, snapshot, result.asked)
       \/ ~request /\ ready /\ pcRun \notin Clears \cup Announces
          /\ Right(registry, events, snapshot, result.asked)

(* The answer: that of the last call, or none while one is under way.      *)
AnswerRight ==
  /\ DOMAIN result = {"asked", "snap"}
  /\ result.asked \in Nat
  /\ IF Loading THEN result.asked = 0 ELSE result.asked <= pos
  /\ result.snap # NoSnapshot => Right(registry, events, result.snap, result.asked)

(* m is c after the first n events of q and a changes of the next one.      *)
Partly(m, reg, q, mux, c, n, a) ==
  /\ a # 0 => n < Len(q)
  /\ m = Applied(After(reg, q, mux, c, n), Changes(q[n + 1]), a)

(* The content follows the events; it is between two of them everywhere    *)
(* but where events are processed.                                         *)
ContentFollows ==
  /\ pos \in Nat /\ applied \in Nat
  /\ pcRun \notin {"tables", "stream"} => applied = 0
  /\ pcRun = "read" => pos = 0 /\ content = None(registry)
  /\ pcRun = "tables" =>
       Partly(content, registry, QueueOf(events, "table"), "table", None(registry), pos, applied)
  /\ ~Loading =>
       Partly(content, registry, QueueOf(events, "stream"), "stream", Loaded(registry, events),
              pos, applied)

IInv == FlagsTell /\ RequestOnItsWay /\ AnswerRight /\ ContentFollows

LEMMA InitHolds == Init => IInv
<1> SUFFICES ASSUME Init
             PROVE  IInv
  OBVIOUS
<1>1. result.asked = 0 /\ result.snap = NoSnapshot /\ DOMAIN result = {"asked", "snap"}
  BY DEF Init
<1>2. content = None(registry)
  BY DEF Init, None, Ids
<1>3. FlagsTell
  BY DEF Init, FlagsTell, Processing, Stopping, Over
<1>4. RequestOnItsWay
  BY <1>1 DEF Init, RequestOnItsWay, Loading, Clears, Announces
<1>5. AnswerRight
  BY <1>1 DEF Init, AnswerRight, Loading
<1>6. ContentFollows
  BY <1>2 DEF Init, ContentFollows, Loading
<1> QED
  BY <1>3, <1>4, <1>5, <1>6 DEF IInv

(* One step of an event, or its end.                                       *)
LEMMA ProcessKeeps ==
  ASSUME NEW mux, NEW after, NEW c, pos \in Nat, applied \in Nat,
         NEW q, q = QueueOf(events, mux),
         Partly(content, registry, q, mux, c, pos, applied), Process(mux, after)
  PROVE  /\ pos' \in Nat /\ applied' \in Nat /\ pos <= pos'
         /\ Partly(content', registry, q, mux, c, pos', applied')
         /\ pcRun' = pcRun \/ (pcRun' = after /\ applied' = 0)
<1>1. PICK e : e = q[pos + 1]
  OBVIOUS
<1>2. PICK n : n = Sized(registry, e, mux)
  OBVIOUS
<1>3. PICK before : before = After(registry, q, mux, c, pos)
  OBVIOUS
<1>4. PICK changes : changes = Changes(e)
  OBVIOUS
<1>5. content = Applied(before, changes, applied)
  BY <1>1, <1>3, <1>4 DEF Partly
<1>6. /\ pos < Len(q)
      /\ \/ /\ applied < n
            /\ content' = Apply(content, changes[applied + 1])
            /\ applied' = applied + 1
            /\ UNCHANGED <<pos, pcRun>>
         \/ /\ applied = n
            /\ applied' = 0
            /\ pos' = pos + 1
            /\ pcRun' = after
            /\ UNCHANGED content
  BY <1>1, <1>2, <1>4 DEF Process, Queued, QueueOf, Sized, Handles, IsHandled, Ids
<1>7. CASE applied < n /\ applied' = applied + 1 /\ UNCHANGED <<pos, pcRun>>
           /\ content' = Apply(content, changes[applied + 1])
  <2>1. content' = Applied(before, changes, applied + 1)
    BY <1>5, <1>7, AppliedNext
  <2> QED
    BY <1>1, <1>2, <1>3, <1>4, <1>6, <1>7, <2>1 DEF Partly
<1>8. CASE applied = n /\ applied' = 0 /\ pos' = pos + 1 /\ pcRun' = after /\ UNCHANGED content
  <2>1. After(registry, q, mux, c, pos + 1) = Applied(before, changes, n)
    BY <1>1, <1>2, <1>3, <1>4, AfterNext
  <2>2. content' = After(registry, q, mux, c, pos')
    BY <1>5, <1>8, <2>1
  <2>3. content' = Applied(After(registry, q, mux, c, pos'), Changes(q[pos' + 1]), applied')
    BY <1>8, <2>2, AppliedNext
  <2> QED
    BY <1>8, <2>3 DEF Partly
<1> QED
  BY <1>6, <1>7, <1>8

(* Between two events.                                                     *)
LEMMA BetweenEvents ==
  ASSUME NEW m, NEW reg, NEW q, NEW mux, NEW c, NEW n \in Nat
  PROVE  Partly(m, reg, q, mux, c, n, 0) <=> m = After(reg, q, mux, c, n)
BY AppliedNext DEF Partly

LEMMA NoneYet ==
  ASSUME NEW reg, NEW q, NEW mux, NEW c
  PROVE  Partly(c, reg, q, mux, c, 0, 0)
BY BetweenEvents, AfterNext

(* What is taken between two events is right.                              *)
LEMMA TakenRight ==
  ASSUME IInv, ~Loading, applied = 0, NEW asked, asked <= pos
  PROVE  Right(registry, events, TakeSnapshot, asked) /\ TakeSnapshot # NoSnapshot
<1>1. pos \in Nat /\ content = Whole(registry, events, pos)
  BY BetweenEvents DEF IInv, ContentFollows, Whole
<1>2. TakeSnapshot.upto = pos /\ TakeSnapshot.content = content
  BY DEF TakeSnapshot
<1>3. NoSnapshot.upto = -1
  BY DEF NoSnapshot
<1> QED
  BY <1>1, <1>2, <1>3 DEF Right

-----------------------------------------------------------------------------
(***************************************************************************)
(* The runner.                                                             *)
(***************************************************************************)

LEMMA ReadsKeep ==
  IInv /\ (ReadLine \/ InitSources) => IInv'
<1> SUFFICES ASSUME IInv, ReadLine \/ InitSources
             PROVE  IInv'
  OBVIOUS
<1>1. /\ pcRun = "read" /\ pcRun' \in {"read", "tables"}
      /\ UNCHANGED <<registry, pos, applied, content, flags, snapshot, clientVars>>
  BY DEF ReadLine, InitSources, programVars, runVars
<1>2. pos = 0 /\ applied = 0 /\ content = None(registry) /\ pcClient = "idle"
      /\ result.snap = NoSnapshot
  BY <1>1 DEF IInv, ContentFollows, RequestOnItsWay, Loading
<1>3. FlagsTell'
  BY <1>1 DEF IInv, FlagsTell, flags, clientVars, Processing, Stopping, Over
<1>4. RequestOnItsWay'
  BY <1>1, <1>2 DEF IInv, RequestOnItsWay, Loading, Clears, Announces, flags, clientVars
<1>5. AnswerRight'
  BY <1>1, <1>2 DEF IInv, AnswerRight, Loading, clientVars
<1>6. ContentFollows'
  <2>1. pos' = 0 /\ applied' = 0 /\ content' = None(registry')
    BY <1>1, <1>2
  <2>2. Partly(content', registry', QueueOf(events', "table"), "table", None(registry'), 0, 0)
    BY <2>1, NoneYet
  <2> QED
    BY <1>1, <2>1, <2>2 DEF ContentFollows, Loading
<1> QED
  BY <1>3, <1>4, <1>5, <1>6 DEF IInv

LEMMA TablesKeep ==
  IInv /\ ProcessTables => IInv'
<1> SUFFICES ASSUME IInv, ProcessTables
             PROVE  IInv'
  OBVIOUS
<1>1. pcRun = "tables" /\ UNCHANGED <<registry, events, flags, snapshot, clientVars>>
  BY DEF ProcessTables, programVars, readVars
<1>2. /\ pos \in Nat /\ applied \in Nat /\ pcClient = "idle" /\ result.snap = NoSnapshot
      /\ Partly(content, registry, QueueOf(events, "table"), "table", None(registry), pos, applied)
      /\ result.asked \in Nat
  BY <1>1 DEF IInv, ContentFollows, RequestOnItsWay, AnswerRight, Loading
<1>3. CASE Process("table", "tables")
  <2>1. /\ pos' \in Nat /\ applied' \in Nat /\ pcRun' = "tables"
        /\ Partly(content', registry, QueueOf(events, "table"), "table", None(registry), pos', applied')
    BY <1>1, <1>2, <1>3, ProcessKeeps
  <2>2. FlagsTell'
    BY <1>1, <2>1 DEF IInv, FlagsTell, flags, clientVars, Processing, Stopping, Over
  <2>3. RequestOnItsWay'
    BY <1>1, <1>2, <2>1 DEF IInv, RequestOnItsWay, Loading, Clears, Announces, flags, clientVars
  <2>4. AnswerRight'
    BY <1>1, <1>2, <2>1 DEF IInv, AnswerRight, Loading, clientVars
  <2>5. ContentFollows'
    BY <1>1, <2>1 DEF ContentFollows, Loading
  <2> QED
    BY <2>2, <2>3, <2>4, <2>5 DEF IInv
<1>4. CASE /\ pos = Len(Queued("table")) /\ pos' = 0 /\ pcRun' = "start"
           /\ UNCHANGED <<applied, content>>
  <2>1. pos = Len(QueueOf(events, "table"))
    BY <1>4 DEF Queued, QueueOf
  <2>2. applied = 0
    BY <1>2, <2>1 DEF Partly
  <2>3. content = Loaded(registry, events)
    BY <1>2, <2>1, <2>2, BetweenEvents DEF Loaded
  <2>4. Partly(content, registry, QueueOf(events, "stream"), "stream", Loaded(registry, events), 0, 0)
    BY <2>3, NoneYet
  <2>5. FlagsTell'
    BY <1>1, <1>4 DEF IInv, FlagsTell, flags, clientVars, Processing, Stopping, Over
  <2>6. RequestOnItsWay'
    BY <1>1, <1>2, <1>4 DEF IInv, RequestOnItsWay, Loading, Clears, Announces, flags, clientVars
  <2>7. AnswerRight'
    BY <1>1, <1>2, <1>4 DEF IInv, AnswerRight, Loading, clientVars
  <2>8. ContentFollows'
    BY <1>1, <1>4, <2>2, <2>4 DEF ContentFollows, Loading
  <2> QED
    BY <2>5, <2>6, <2>7, <2>8 DEF IInv
<1> QED
  BY <1>3, <1>4 DEF ProcessTables

(* A step that leaves what was read and what was made of it alone.         *)
LEMMA ContentStays ==
  ASSUME IInv, UNCHANGED <<registry, events, pos, applied, content>>,
         ~Loading, ~Loading', pcRun' = "stream" \/ applied = 0
  PROVE  ContentFollows'
<1>1. pcRun' \notin {"read", "tables"}
  BY DEF Loading
<1> QED
  BY <1>1 DEF IInv, ContentFollows, Loading

LEMMA StartKeeps ==
  IInv /\ StartRunning => IInv'
<1> SUFFICES ASSUME IInv, StartRunning
             PROVE  IInv'
  OBVIOUS
<1>1. /\ pcRun = "start" /\ runningMtx = "free" /\ running' = TRUE /\ pcRun' = "stream"
      /\ UNCHANGED <<registry, events, pos, applied, content>>
      /\ UNCHANGED <<runningMtx, finished, request, ready, snapshot, pcClient, calls, result>>
  BY DEF StartRunning, programVars, readVars, runVars, clientVars
<1>2. FlagsTell'
  BY <1>1 DEF IInv, FlagsTell, Processing, Stopping, Over
<1>3. RequestOnItsWay'
  BY <1>1 DEF IInv, RequestOnItsWay, Loading, Clears, Announces
<1>4. AnswerRight'
  BY <1>1 DEF IInv, AnswerRight, Loading
<1>5. ContentFollows'
  BY <1>1, ContentStays DEF Loading
<1> QED
  BY <1>2, <1>3, <1>4, <1>5 DEF IInv

LEMMA EventKeeps ==
  IInv /\ ProcessStreamEvent => IInv'
<1> SUFFICES ASSUME IInv, ProcessStreamEvent
             PROVE  IInv'
  OBVIOUS
<1>1. pcRun = "stream" /\ UNCHANGED <<registry, events, flags, snapshot, clientVars>>
  BY DEF ProcessStreamEvent, programVars, readVars
<1>2. /\ pos \in Nat /\ applied \in Nat
      /\ Partly(content, registry, QueueOf(events, "stream"), "stream", Loaded(registry, events),
                pos, applied)
  BY <1>1 DEF IInv, ContentFollows, Loading
<1>3. Process("stream", "check")
  BY DEF ProcessStreamEvent
<1>4. /\ pos' \in Nat /\ applied' \in Nat /\ pos <= pos'
      /\ Partly(content', registry, QueueOf(events, "stream"), "stream", Loaded(registry, events),
                pos', applied')
      /\ pcRun' = "stream" \/ (pcRun' = "check" /\ applied' = 0)
  BY <1>1, <1>2, <1>3, ProcessKeeps
<1>5. FlagsTell'
  BY <1>1, <1>4 DEF IInv, FlagsTell, flags, clientVars, Processing, Stopping, Over
<1>6. RequestOnItsWay'
  BY <1>1, <1>4 DEF IInv, RequestOnItsWay, Loading, Clears, Announces, flags, clientVars
<1>7. AnswerRight'
  <2>1. result.asked \in Nat /\ result.asked <= pos
    BY <1>1 DEF IInv, AnswerRight, Loading
  <2>2. result.asked <= pos'
    BY <1>2, <1>4, <2>1
  <2> QED
    BY <1>1, <1>4, <2>2 DEF IInv, AnswerRight, Loading, clientVars
<1>8. ContentFollows'
  BY <1>1, <1>4 DEF ContentFollows, Loading
<1> QED
  BY <1>5, <1>6, <1>7, <1>8 DEF IInv

LEMMA EndKeeps ==
  IInv /\ StreamsEnd => IInv'
<1> SUFFICES ASSUME IInv, StreamsEnd
             PROVE  IInv'
  OBVIOUS
<1>1. /\ pcRun = "stream" /\ pos = Len(Queued("stream")) /\ finished' = TRUE /\ pcRun' = "stop"
      /\ UNCHANGED <<registry, events, pos, applied, content>>
      /\ UNCHANGED <<runningMtx, running, request, ready, snapshot, pcClient, calls, result>>
  BY DEF StreamsEnd, programVars, readVars, runVars, clientVars
<1>2. applied = 0
  <2>1. pos \in Nat /\ (applied # 0 => pos < Len(QueueOf(events, "stream")))
    BY <1>1 DEF IInv, ContentFollows, Partly, Loading
  <2>2. pos = Len(QueueOf(events, "stream"))
    BY <1>1 DEF Queued, QueueOf
  <2> QED
    BY <2>1, <2>2
<1>3. FlagsTell'
  BY <1>1 DEF IInv, FlagsTell, Processing, Stopping, Over
<1>4. RequestOnItsWay'
  BY <1>1 DEF IInv, RequestOnItsWay, Loading, Clears, Announces
<1>5. AnswerRight'
  BY <1>1 DEF IInv, AnswerRight, Loading
<1>6. ContentFollows'
  BY <1>1, <1>2, ContentStays DEF Loading
<1> QED
  BY <1>3, <1>4, <1>5, <1>6 DEF IInv

(* A request is seen and answered, or there is none.                       *)
LEMMA CheckKeeps ==
  ASSUME IInv, NEW at, NEW then, NEW else, CheckRequest(at, then, else),
         \/ at = "check" /\ then = "clear" /\ else = "stream"
         \/ at = "lastCheck" /\ then = "lastClear" /\ else = "fall"
  PROVE  IInv'
<1>1. /\ pcRun = at /\ UNCHANGED <<registry, events, pos, applied, content>>
      /\ UNCHANGED <<runningMtx, running, finished, request, ready, pcClient, calls, result>>
      /\ \/ request /\ snapshot' = TakeSnapshot /\ pcRun' = then
         \/ ~request /\ pcRun' = else /\ UNCHANGED snapshot
  BY DEF CheckRequest, programVars, readVars, runVars, flags, clientVars
<1>2. ~Loading /\ ~Loading' /\ applied = 0
  BY <1>1 DEF IInv, ContentFollows, Loading
<1>3. FlagsTell'
  BY <1>1 DEF IInv, FlagsTell, Processing, Stopping, Over
<1>4. RequestOnItsWay'
  <2>1. CASE request /\ snapshot' = TakeSnapshot /\ pcRun' = then
    <3>1. pcClient = "wait" /\ ~ready
      BY <2>1 DEF IInv, RequestOnItsWay, FlagsTell
    <3>2. result.asked <= pos
      BY <1>2 DEF IInv, AnswerRight
    <3>3. Right(registry, events, TakeSnapshot, result.asked)
      BY <1>2, <3>2, TakenRight
    <3> QED
      BY <1>1, <1>2, <2>1, <3>1, <3>3 DEF RequestOnItsWay, Clears, Announces
  <2>2. CASE ~request /\ pcRun' = else /\ UNCHANGED snapshot
    BY <1>1, <1>2, <2>2 DEF IInv, RequestOnItsWay, Clears, Announces
  <2> QED
    BY <1>1, <2>1, <2>2
<1>5. AnswerRight'
  BY <1>1, <1>2 DEF IInv, AnswerRight
<1>6. ContentFollows'
  BY <1>1, <1>2, ContentStays
<1> QED
  BY <1>3, <1>4, <1>5, <1>6 DEF IInv

LEMMA ClearKeeps ==
  ASSUME IInv, NEW at, NEW then, ClearRequest(at, then),
         \/ at = "clear" /\ then = "announce"
         \/ at = "lastClear" /\ then = "lastAnnounce"
  PROVE  IInv'
<1>1. /\ pcRun = at /\ request' = FALSE /\ pcRun' = then
      /\ UNCHANGED <<registry, events, pos, applied, content>>
      /\ UNCHANGED <<runningMtx, running, finished, ready, snapshot, pcClient, calls, result>>
  BY DEF ClearRequest, programVars, readVars, runVars, clientVars
<1>2. ~Loading /\ ~Loading' /\ applied = 0
  BY <1>1 DEF IInv, ContentFollows, Loading
<1>3. FlagsTell'
  BY <1>1 DEF IInv, FlagsTell, Processing, Stopping, Over
<1>4. RequestOnItsWay'
  <2>1. pcClient = "wait" /\ ~ready /\ Right(registry, events, snapshot, result.asked)
    BY <1>1 DEF IInv, RequestOnItsWay, FlagsTell, Clears, Announces
  <2> QED
    BY <1>1, <1>2, <2>1 DEF RequestOnItsWay, Clears, Announces
<1>5. AnswerRight'
  BY <1>1, <1>2 DEF IInv, AnswerRight
<1>6. ContentFollows'
  BY <1>1, <1>2, ContentStays
<1> QED
  BY <1>3, <1>4, <1>5, <1>6 DEF IInv

LEMMA AnnounceKeeps ==
  ASSUME IInv, NEW at, NEW then, Announce(at, then),
         \/ at = "announce" /\ then = "stream"
         \/ at = "lastAnnounce" /\ then = "fall"
  PROVE  IInv'
<1>1. /\ pcRun = at /\ ready' = TRUE /\ pcRun' = then
      /\ UNCHANGED <<registry, events, pos, applied, content>>
      /\ UNCHANGED <<runningMtx, running, finished, request, snapshot, pcClient, calls, result>>
  BY DEF Announce, programVars, readVars, runVars, clientVars
<1>2. ~Loading /\ ~Loading' /\ applied = 0
  BY <1>1 DEF IInv, ContentFollows, Loading
<1>3. FlagsTell'
  BY <1>1 DEF IInv, FlagsTell, Processing, Stopping, Over
<1>4. RequestOnItsWay'
  <2>1. pcClient = "wait" /\ ~request /\ Right(registry, events, snapshot, result.asked)
    BY <1>1 DEF IInv, RequestOnItsWay, FlagsTell, Clears, Announces
  <2> QED
    BY <1>1, <1>2, <2>1 DEF RequestOnItsWay, Clears, Announces
<1>5. AnswerRight'
  BY <1>1, <1>2 DEF IInv, AnswerRight
<1>6. ContentFollows'
  BY <1>1, <1>2, ContentStays
<1> QED
  BY <1>3, <1>4, <1>5, <1>6 DEF IInv

(* The lock is taken for the last look, and given back.                    *)
LEMMA StopKeeps ==
  IInv /\ StopRunning => IInv'
<1> SUFFICES ASSUME IInv, StopRunning
             PROVE  IInv'
  OBVIOUS
<1>1. CASE /\ pcRun = "stop" /\ runningMtx = "free" /\ runningMtx' = "runner"
           /\ pcRun' = "lastCheck"
           /\ UNCHANGED <<programVars, readVars, runVars, running, finished, request, ready,
                          snapshot, clientVars>>
  <2>1. /\ UNCHANGED <<registry, events, pos, applied, content>>
        /\ UNCHANGED <<running, finished, request, ready, snapshot, pcClient, calls, result>>
    BY <1>1 DEF programVars, readVars, runVars, clientVars
  <2>2. ~Loading /\ ~Loading' /\ applied = 0
    BY <1>1 DEF IInv, ContentFollows, Loading
  <2>3. FlagsTell'
    BY <1>1, <2>1 DEF IInv, FlagsTell, Processing, Stopping, Over
  <2>4. RequestOnItsWay'
    BY <1>1, <2>1, <2>2 DEF IInv, RequestOnItsWay, Clears, Announces
  <2>5. AnswerRight'
    BY <2>1, <2>2 DEF IInv, AnswerRight
  <2>6. ContentFollows'
    BY <2>1, <2>2, ContentStays
  <2> QED
    BY <2>3, <2>4, <2>5, <2>6 DEF IInv
<1>2. CASE /\ pcRun = "fall" /\ running' = FALSE /\ runningMtx' = "free" /\ pcRun' = "done"
           /\ UNCHANGED <<programVars, readVars, runVars, finished, request, ready, snapshot,
                          clientVars>>
  <2>1. /\ UNCHANGED <<registry, events, pos, applied, content>>
        /\ UNCHANGED <<finished, request, ready, snapshot, pcClient, calls, result>>
    BY <1>2 DEF programVars, readVars, runVars, clientVars
  <2>2. ~Loading /\ ~Loading' /\ applied = 0
    BY <1>2 DEF IInv, ContentFollows, Loading
  <2>3. runningMtx = "runner" /\ pcClient \notin {"locked", "asking"}
    BY <1>2 DEF IInv, FlagsTell, Stopping
  <2>4. FlagsTell'
    <3>1. /\ finished = TRUE /\ request \in BOOLEAN /\ ready \in BOOLEAN
          /\ pcClient \in {"idle", "lock", "wait"}
      BY <1>2, <2>3 DEF IInv, FlagsTell, Stopping, Over
    <3> QED
      BY <1>2, <2>1, <3>1 DEF FlagsTell, Processing, Stopping, Over
  <2>5. RequestOnItsWay'
    BY <1>2, <2>1, <2>2, <2>3 DEF IInv, RequestOnItsWay, Clears, Announces
  <2>6. AnswerRight'
    BY <2>1, <2>2 DEF IInv, AnswerRight
  <2>7. ContentFollows'
    BY <2>1, <2>2, ContentStays
  <2> QED
    BY <2>4, <2>5, <2>6, <2>7 DEF IInv
<1> QED
  BY <1>1, <1>2, CheckKeeps, ClearKeeps, AnnounceKeeps DEF StopRunning

-----------------------------------------------------------------------------
(***************************************************************************)
(* The client.                                                             *)
(***************************************************************************)

LEMMA GetKeeps ==
  IInv /\ GetSnapshot => IInv'
<1> SUFFICES ASSUME IInv, GetSnapshot
             PROVE  IInv'
  OBVIOUS
<1>1. /\ pcClient = "idle" /\ ~Loading
      /\ UNCHANGED <<registry, events, pos, applied, content>>
      /\ UNCHANGED <<runningMtx, running, finished, request, ready, snapshot, pcRun>>
      /\ \/ finished /\ result' = [asked |-> pos, snap |-> TakeSnapshot] /\ UNCHANGED pcClient
         \/ ~finished /\ pcClient' = "lock" /\ result' = [asked |-> pos, snap |-> NoSnapshot]
  BY DEF GetSnapshot, Initialised, Loading, programVars, readVars, runVars, flags
<1>2. pos \in Nat /\ ~Loading'
  BY <1>1 DEF IInv, ContentFollows, Loading
<1>3. FlagsTell'
  BY <1>1 DEF IInv, FlagsTell, Processing, Stopping, Over
<1>4. RequestOnItsWay'
  BY <1>1, <1>2 DEF IInv, RequestOnItsWay, Clears, Announces
<1>5. AnswerRight'
  <2>1. CASE finished /\ result' = [asked |-> pos, snap |-> TakeSnapshot]
    <3>1. applied = 0
      BY <2>1 DEF IInv, ContentFollows, FlagsTell, Over, Stopping
    <3>2. Right(registry, events, TakeSnapshot, pos)
      BY <1>1, <1>2, <3>1, TakenRight
    <3> QED
      BY <1>1, <1>2, <2>1, <3>2 DEF AnswerRight
  <2>2. CASE result' = [asked |-> pos, snap |-> NoSnapshot]
    BY <1>1, <1>2, <2>2 DEF AnswerRight
  <2> QED
    BY <1>1, <2>1, <2>2
<1>6. ContentFollows'
  BY <1>1 DEF IInv, ContentFollows, Loading
<1> QED
  BY <1>3, <1>4, <1>5, <1>6 DEF IInv

LEMMA LockKeeps ==
  IInv /\ LockRunning => IInv'
<1> SUFFICES ASSUME IInv, LockRunning
             PROVE  IInv'
  OBVIOUS
<1>1. /\ pcClient = "lock" /\ runningMtx = "free" /\ runningMtx' = "client"
      /\ pcClient' = "locked"
      /\ UNCHANGED <<registry, events, pos, applied, content>>
      /\ UNCHANGED <<running, finished, request, ready, snapshot, pcRun, result>>
  BY DEF LockRunning, programVars, readVars, runVars
<1>2. FlagsTell'
  BY <1>1 DEF IInv, FlagsTell, Processing, Stopping, Over
<1>3. RequestOnItsWay'
  BY <1>1 DEF IInv, RequestOnItsWay, Clears, Announces, Loading
<1>4. AnswerRight'
  BY <1>1 DEF IInv, AnswerRight, Loading
<1>5. ContentFollows'
  BY <1>1 DEF IInv, ContentFollows, Loading
<1> QED
  BY <1>2, <1>3, <1>4, <1>5 DEF IInv

LEMMA RequestKeeps ==
  IInv /\ RequestSnapshot => IInv'
<1> SUFFICES ASSUME IInv, RequestSnapshot
             PROVE  IInv'
  OBVIOUS
<1>1. /\ pcClient = "locked"
      /\ UNCHANGED <<registry, events, pos, applied, content>>
      /\ UNCHANGED <<running, finished, request, pcRun, result>>
      /\ \/ /\ running /\ ready' = FALSE /\ pcClient' = "asking"
            /\ UNCHANGED <<runningMtx, snapshot>>
         \/ /\ ~running /\ snapshot' = TakeSnapshot /\ runningMtx' = "free" /\ pcClient' = "wait"
            /\ UNCHANGED ready
  BY DEF RequestSnapshot, programVars, readVars, runVars
<1>2. /\ ~Loading /\ ~Loading' /\ ~request /\ ready /\ pcRun \notin Clears \cup Announces
      /\ runningMtx = "client"
  BY <1>1 DEF IInv, RequestOnItsWay, FlagsTell, Loading
<1>3. FlagsTell'
  BY <1>1, <1>2 DEF IInv, FlagsTell, Processing, Stopping, Over
<1>4. RequestOnItsWay'
  <2>1. CASE running /\ ready' = FALSE /\ pcClient' = "asking"
    BY <1>1, <1>2, <2>1 DEF RequestOnItsWay
  <2>2. CASE ~running /\ snapshot' = TakeSnapshot /\ pcClient' = "wait" /\ UNCHANGED ready
    <3>1. applied = 0
      BY <1>2, <2>2 DEF IInv, ContentFollows, FlagsTell, Processing, Loading
    <3>2. Right(registry, events, TakeSnapshot, result.asked)
      BY <1>2, <3>1, TakenRight DEF IInv, AnswerRight
    <3> QED
      BY <1>1, <1>2, <2>2, <3>2 DEF RequestOnItsWay
  <2> QED
    BY <1>1, <2>1, <2>2
<1>5. AnswerRight'
  BY <1>1, <1>2 DEF IInv, AnswerRight
<1>6. ContentFollows'
  BY <1>1 DEF IInv, ContentFollows, Loading
<1> QED
  BY <1>3, <1>4, <1>5, <1>6 DEF IInv

LEMMA AskKeeps ==
  IInv /\ Ask => IInv'
<1> SUFFICES ASSUME IInv, Ask
             PROVE  IInv'
  OBVIOUS
<1>1. /\ pcClient = "asking" /\ request' = TRUE /\ runningMtx' = "free" /\ pcClient' = "wait"
      /\ UNCHANGED <<registry, events, pos, applied, content>>
      /\ UNCHANGED <<running, finished, ready, snapshot, pcRun, result>>
  BY DEF Ask, programVars, readVars, runVars
<1>2. /\ ~Loading /\ ~Loading' /\ ~request /\ ~ready /\ pcRun \notin Clears \cup Announces
      /\ runningMtx = "client"
  BY <1>1 DEF IInv, RequestOnItsWay, FlagsTell, Loading
<1>3. FlagsTell'
  BY <1>1, <1>2 DEF IInv, FlagsTell, Processing, Stopping, Over
<1>4. RequestOnItsWay'
  BY <1>1, <1>2 DEF RequestOnItsWay
<1>5. AnswerRight'
  BY <1>1, <1>2 DEF IInv, AnswerRight
<1>6. ContentFollows'
  BY <1>1 DEF IInv, ContentFollows, Loading
<1> QED
  BY <1>3, <1>4, <1>5, <1>6 DEF IInv

LEMMA WaitKeeps ==
  IInv /\ WaitForSnapshot => IInv'
<1> SUFFICES ASSUME IInv, WaitForSnapshot
             PROVE  IInv'
  OBVIOUS
<1>1. /\ pcClient = "wait" /\ ready /\ result' = [result EXCEPT !.snap = snapshot]
      /\ snapshot' = NoSnapshot /\ pcClient' = "idle"
      /\ UNCHANGED <<registry, events, pos, applied, content>>
      /\ UNCHANGED <<runningMtx, running, finished, request, ready, pcRun>>
  BY DEF WaitForSnapshot, programVars, readVars, runVars, flags
<1>2. /\ ~Loading /\ ~Loading' /\ ~request /\ pcRun \notin Clears \cup Announces
      /\ Right(registry, events, snapshot, result.asked)
  BY <1>1 DEF IInv, RequestOnItsWay, FlagsTell, Loading
<1>3. FlagsTell'
  BY <1>1 DEF IInv, FlagsTell, Processing, Stopping, Over
<1>4. RequestOnItsWay'
  BY <1>1, <1>2 DEF RequestOnItsWay
<1>5. AnswerRight'
  <2>1. DOMAIN result = {"asked", "snap"} /\ result.asked \in Nat /\ result.asked <= pos
    BY <1>2 DEF IInv, AnswerRight
  <2>2. DOMAIN result' = {"asked", "snap"} /\ result'.asked = result.asked /\ result'.snap = snapshot
    BY <1>1, <2>1
  <2> QED
    BY <1>1, <1>2, <2>1, <2>2 DEF AnswerRight
<1>6. ContentFollows'
  BY <1>1 DEF IInv, ContentFollows, Loading
<1> QED
  BY <1>3, <1>4, <1>5, <1>6 DEF IInv

-----------------------------------------------------------------------------

LEMMA StepKeeps ==
  IInv /\ [Next]_vars => IInv'
<1> SUFFICES ASSUME IInv, [Next]_vars
             PROVE  IInv'
  OBVIOUS
<1>1. CASE InitProgram
  BY <1>1, ReadsKeep, TablesKeep DEF InitProgram
<1>2. CASE Run
  BY <1>2, StartKeeps, EventKeeps, CheckKeeps, ClearKeeps, AnnounceKeeps, EndKeeps, StopKeeps
     DEF Run, ProcessSnapshot
<1>3. CASE Client
  BY <1>3, GetKeeps, LockKeeps, RequestKeeps, AskKeeps, WaitKeeps DEF Client
<1>4. CASE UNCHANGED vars
  <2>1. /\ UNCHANGED <<registry, events, pos, applied, content, pcRun, pcClient, result>>
        /\ UNCHANGED <<runningMtx, running, finished, request, ready, snapshot>>
    BY <1>4 DEF vars, programVars, readVars, runVars, flags, clientVars
  <2>2. FlagsTell'
    BY <2>1 DEF IInv, FlagsTell, Processing, Stopping, Over
  <2>3. RequestOnItsWay'
    BY <2>1 DEF IInv, RequestOnItsWay, Loading
  <2>4. AnswerRight'
    BY <2>1 DEF IInv, AnswerRight, Loading
  <2>5. ContentFollows'
    BY <2>1 DEF IInv, ContentFollows, Loading
  <2> QED
    BY <2>2, <2>3, <2>4, <2>5 DEF IInv
<1> QED
  BY <1>1, <1>2, <1>3, <1>4 DEF Next, Ended

(* The invariant of the two threads, the events and what is made of them.  *)
THEOREM ProgramInvariant == Spec => []IInv
<1>1. Init => IInv
  BY InitHolds
<1>2. IInv /\ [Next]_vars => IInv'
  BY StepKeeps
<1> QED
  BY <1>1, <1>2, PTL DEF Spec

(* get_snapshot keeps its promise (iprogram.hpp:68-75), wherever a call    *)
(* meets the run: its answer is what a whole number of events made, all    *)
(* those among them that were processed when it was called, and no request *)
(* meets another.                                                          *)
THEOREM SnapshotsAreConsistent == Spec => []SnapshotsConsistent
<1>1. IInv => SnapshotsConsistent
  <2> SUFFICES ASSUME IInv
               PROVE  SnapshotsConsistent
    OBVIOUS
  <2>1. RequestsNeverOverlap
    BY DEF IInv, FlagsTell, RequestOnItsWay, RequestsNeverOverlap, Clears, Announces
  <2>2. ASSUME result.snap # NoSnapshot
        PROVE  result.snap.upto >= result.asked /\ result.snap.content = ContentAfter(result.snap.upto)
    <3>1. Right(registry, events, result.snap, result.asked)
      BY <2>2 DEF IInv, AnswerRight
    <3> QED
      BY <3>1, ContentAfterIs DEF Right
  <2> QED
    BY <2>1, <2>2 DEF SnapshotsConsistent
<1> QED
  BY <1>1, ProgramInvariant, PTL

-----------------------------------------------------------------------------
(***************************************************************************)
(* Arrangements: what is arranged by keys that differ is listed once each, *)
(* and where it stands is the number of smaller keys.                      *)
(***************************************************************************)

Keyed(key) ==
  /\ IsFiniteSet(DOMAIN key)
  /\ \A i \in DOMAIN key : key[i][1] \in Int /\ key[i][2] \in Int
  /\ \A i, j \in DOMAIN key : i # j => key[i][1] # key[j][1] \/ key[i][2] # key[j][2]

Below(key, i) == {j \in DOMAIN key : IsBefore(key[j], key[i])}

Rank(key, i) == Cardinality(Below(key, i)) + 1

(* The place that an arrangement has at k.                                 *)
PlaceAt(key, k) == CHOOSE i \in DOMAIN key : Cardinality(Below(key, i)) = k - 1

LEMMA ArrangedIs ==
  ASSUME NEW f, NEW key
  PROVE  Arranged(f, key) = [k \in 1..Cardinality(DOMAIN key) |-> f[PlaceAt(key, k)]]
BY DEF Arranged, PlaceAt, Below

(* Ranks follow the keys, and every number up to that of the places is one.*)
LEMMA RanksAre ==
  ASSUME NEW key, Keyed(key)
  PROVE  /\ \A i \in DOMAIN key : Rank(key, i) \in 1..Cardinality(DOMAIN key)
         /\ \A i, j \in DOMAIN key : IsBefore(key[i], key[j]) <=> Rank(key, i) < Rank(key, j)
         /\ \A i, j \in DOMAIN key : Rank(key, i) = Rank(key, j) => i = j
         /\ \A k \in 1..Cardinality(DOMAIN key) : \E i \in DOMAIN key : Rank(key, i) = k
         /\ Cardinality(DOMAIN key) \in Nat
<1> DEFINE P == DOMAIN key
           n == Cardinality(P)
<1>1. IsFiniteSet(P) /\ n \in Nat
  BY FS_CardinalityType DEF Keyed
<1>2. \A i \in P : IsFiniteSet(Below(key, i)) /\ Cardinality(Below(key, i)) \in Nat
  <2> TAKE i \in P
  <2>1. Below(key, i) \in SUBSET P
    BY DEF Below
  <2> QED
    BY <1>1, <2>1, FS_Subset, FS_CardinalityType
<1>3. \A i, j \in P : i = j \/ IsBefore(key[i], key[j]) \/ IsBefore(key[j], key[i])
  BY DEF IsBefore, Keyed
<1>4. \A i \in P : ~IsBefore(key[i], key[i])
  BY DEF IsBefore, Keyed
<1>5. \A h, i, j \in P : IsBefore(key[h], key[i]) /\ IsBefore(key[i], key[j]) => IsBefore(key[h], key[j])
  BY DEF IsBefore, Keyed
<1>6. \A i, j \in P : IsBefore(key[i], key[j]) => Rank(key, i) < Rank(key, j)
  <2> TAKE i \in P, j \in P
  <2> SUFFICES ASSUME IsBefore(key[i], key[j])
               PROVE  Rank(key, i) < Rank(key, j)
    OBVIOUS
  <2>1. Below(key, i) \in SUBSET Below(key, j)
    BY <1>5 DEF Below
  <2>2. i \in Below(key, j) /\ i \notin Below(key, i)
    BY <1>4 DEF Below
  <2>3. /\ Cardinality(Below(key, i)) <= Cardinality(Below(key, j))
        /\ Cardinality(Below(key, i)) # Cardinality(Below(key, j))
    BY <1>2, <2>1, <2>2, FS_Subset
  <2> QED
    BY <1>2, <2>3 DEF Rank
<1>7. \A i \in P : Rank(key, i) \in 1..n
  <2> TAKE i \in P
  <2>1. Below(key, i) \in SUBSET P /\ i \notin Below(key, i)
    BY <1>4 DEF Below
  <2>2. Cardinality(Below(key, i)) <= n /\ Cardinality(Below(key, i)) # n
    BY <1>1, <2>1, FS_Subset
  <2> QED
    BY <1>1, <1>2, <2>2 DEF Rank
<1>8. \A i, j \in P : Rank(key, i) = Rank(key, j) => i = j
  BY <1>3, <1>6, <1>7
<1>9. \A i, j \in P : Rank(key, i) < Rank(key, j) => IsBefore(key[i], key[j])
  <2> TAKE i \in P, j \in P
  <2> HAVE Rank(key, i) < Rank(key, j)
  <2>1. Rank(key, i) \in Int /\ Rank(key, j) \in Int
    BY <1>7
  <2>2. ~(Rank(key, j) < Rank(key, i)) /\ i # j
    BY <2>1
  <2> QED
    BY <1>3, <1>6, <2>2
<1>10. \A k \in 1..n : \E i \in P : Rank(key, i) = k
  <2> DEFINE r == [i \in P |-> Rank(key, i)]
  <2>1. r \in [P -> 1..n]
    BY <1>7
  <2>2. r \in Injection(P, 1..n)
    BY <1>8, <2>1 DEF Injection, IsInjective
  <2>3. IsFiniteSet(1..n) /\ Cardinality(1..n) = n
    BY <1>1, FS_Interval
  <2>4. r \in Surjection(P, 1..n)
    <3> HIDE DEF r
    <3> QED
      BY <1>1, <2>2, <2>3, FS_Injection
  <2> QED
    BY <2>4 DEF Surjection
<1> QED
  BY <1>1, <1>6, <1>7, <1>8, <1>9, <1>10

(* An arrangement is a listing of the places in the order of their keys.   *)
LEMMA PlacesListed ==
  ASSUME NEW key, Keyed(key)
  PROVE  /\ \A k \in 1..Cardinality(DOMAIN key) :
              PlaceAt(key, k) \in DOMAIN key /\ Rank(key, PlaceAt(key, k)) = k
         /\ \A i \in DOMAIN key : PlaceAt(key, Rank(key, i)) = i
<1>1. \A k \in 1..Cardinality(DOMAIN key) :
        PlaceAt(key, k) \in DOMAIN key /\ Rank(key, PlaceAt(key, k)) = k
  <2> TAKE k \in 1..Cardinality(DOMAIN key)
  <2>1. PICK i \in DOMAIN key : Rank(key, i) = k
    BY RanksAre
  <2>2. Cardinality(Below(key, i)) \in Nat
    <3>1. Below(key, i) \in SUBSET DOMAIN key
      BY DEF Below
    <3> QED
      BY <3>1, FS_Subset, FS_CardinalityType DEF Keyed
  <2>3. Cardinality(Below(key, i)) = k - 1
    BY <2>1, <2>2 DEF Rank
  <2>4. PlaceAt(key, k) \in DOMAIN key /\ Cardinality(Below(key, PlaceAt(key, k))) = k - 1
    BY <2>3 DEF PlaceAt
  <2> QED
    BY <2>4 DEF Rank
<1>2. \A i \in DOMAIN key : PlaceAt(key, Rank(key, i)) = i
  <2> TAKE i \in DOMAIN key
  <2>1. Rank(key, i) \in 1..Cardinality(DOMAIN key)
    BY RanksAre
  <2>2. PlaceAt(key, Rank(key, i)) \in DOMAIN key /\ Rank(key, PlaceAt(key, Rank(key, i))) = Rank(key, i)
    BY <1>1, <2>1
  <2> QED
    BY <2>2, RanksAre
<1> QED
  BY <1>1, <1>2

(* h takes the places of one arrangement to the first of another, in their *)
(* order: then the one begins with the other.                              *)
Begins(f, key, g, other, h) ==
  /\ \A i \in DOMAIN key : h[i] \in DOMAIN other /\ f[i] = g[h[i]]
  /\ \A i, j \in DOMAIN key : IsBefore(key[i], key[j]) <=> IsBefore(other[h[i]], other[h[j]])
  /\ \A i \in DOMAIN key, q \in DOMAIN other :
       IsBefore(other[q], other[h[i]]) => \E j \in DOMAIN key : h[j] = q

LEMMA ArrangedBegins ==
  ASSUME NEW f, NEW key, Keyed(key), NEW g, NEW other, Keyed(other), NEW h,
         Begins(f, key, g, other, h)
  PROVE  IsPrefix(Arranged(f, key), Arranged(g, other))
<1> DEFINE n == Cardinality(DOMAIN key)
           m == Cardinality(DOMAIN other)
<1>1. n \in Nat /\ m \in Nat
  BY RanksAre
<1>2. \A i \in DOMAIN key : h[i] \in DOMAIN other /\ f[i] = g[h[i]]
  BY DEF Begins
<1>3. \A i, j \in DOMAIN key : h[i] = h[j] => i = j
  <2> TAKE i \in DOMAIN key, j \in DOMAIN key
  <2> SUFFICES ASSUME h[i] = h[j], i # j
               PROVE  FALSE
    OBVIOUS
  <2>1. IsBefore(key[i], key[j]) \/ IsBefore(key[j], key[i])
    BY DEF Keyed, IsBefore
  <2>2. IsBefore(other[h[i]], other[h[i]])
    BY <2>1 DEF Begins
  <2> QED
    BY <1>2, <2>2 DEF Keyed, IsBefore
<1>4. \A i \in DOMAIN key : Rank(other, h[i]) = Rank(key, i)
  <2> TAKE i \in DOMAIN key
  <2> DEFINE b == [j \in Below(key, i) |-> h[j]]
  <2>1. \A j \in Below(key, i) : h[j] \in Below(other, h[i])
    BY <1>2 DEF Below, Begins
  <2>2. \A q \in Below(other, h[i]) : \E j \in Below(key, i) : h[j] = q
    <3> TAKE q \in Below(other, h[i])
    <3>1. q \in DOMAIN other /\ IsBefore(other[q], other[h[i]])
      BY DEF Below
    <3>2. PICK j \in DOMAIN key : h[j] = q
      BY <3>1 DEF Begins
    <3>3. IsBefore(key[j], key[i])
      BY <3>1, <3>2 DEF Begins
    <3> QED
      BY <3>2, <3>3 DEF Below
  <2>3. \A j, l \in Below(key, i) : h[j] = h[l] => j = l
    BY <1>3 DEF Below
  <2>4. b \in Bijection(Below(key, i), Below(other, h[i]))
    BY <2>1, <2>2, <2>3 DEF Bijection, Injection, Surjection, IsInjective
  <2>5. ExistsBijection(Below(key, i), Below(other, h[i]))
    BY <2>4 DEF ExistsBijection
  <2>6. IsFiniteSet(Below(key, i))
    <3>1. Below(key, i) \in SUBSET DOMAIN key
      BY DEF Below
    <3> QED
      BY <3>1, FS_Subset DEF Keyed
  <2>7. Cardinality(Below(other, h[i])) = Cardinality(Below(key, i))
    BY <2>5, <2>6, FS_Bijection
  <2> QED
    BY <2>7 DEF Rank
<1>5. n <= m
  <2> DEFINE hh == [i \in DOMAIN key |-> h[i]]
  <2>1. hh \in Injection(DOMAIN key, DOMAIN other)
    BY <1>2, <1>3 DEF Injection, IsInjective
  <2> HIDE DEF hh
  <2> QED
    BY <2>1, FS_Injection DEF Keyed
<1>6. \A k \in 1..n : h[PlaceAt(key, k)] = PlaceAt(other, k)
  <2> TAKE k \in 1..n
  <2>1. PlaceAt(key, k) \in DOMAIN key /\ Rank(key, PlaceAt(key, k)) = k
    BY PlacesListed
  <2>2. h[PlaceAt(key, k)] \in DOMAIN other /\ Rank(other, h[PlaceAt(key, k)]) = k
    BY <1>2, <1>4, <2>1
  <2>3. PlaceAt(other, Rank(other, h[PlaceAt(key, k)])) = h[PlaceAt(key, k)]
    BY <2>2, PlacesListed
  <2> QED
    BY <2>2, <2>3
<1>7. \A k \in 1..n : f[PlaceAt(key, k)] = g[PlaceAt(other, k)]
  <2> TAKE k \in 1..n
  <2>1. PlaceAt(key, k) \in DOMAIN key
    BY PlacesListed
  <2> QED
    BY <1>2, <1>6, <2>1
<1> DEFINE s == [k \in 1..n |-> f[PlaceAt(key, k)]]
           t == [k \in 1..m |-> g[PlaceAt(other, k)]]
<1>8. Arranged(f, key) = s /\ Arranged(g, other) = t
  BY ArrangedIs
<1>9. Len(s) = n /\ Len(t) = m
  BY <1>1
<1>10. SubSeq(s, 1, n) = SubSeq(t, 1, n)
  <2> HIDE DEF n, m
  <2>1. SubSeq(s, 1, n) = [k \in 1..n |-> f[PlaceAt(key, k)]]
    BY <1>1
  <2>2. SubSeq(t, 1, n) = [k \in 1..n |-> g[PlaceAt(other, k)]]
    BY <1>1, <1>5
  <2> QED
    BY <1>7, <2>1, <2>2
<1> HIDE DEF s, t
<1> QED
  BY <1>5, <1>8, <1>9, <1>10 DEF IsPrefix

-----------------------------------------------------------------------------
(***************************************************************************)
(* Lists of events, and how often they make a change.                      *)
(***************************************************************************)

(* A matching of two sets shows that they have the same size.              *)
Matching(h, S, T) ==
  /\ \A x \in S : h[x] \in T
  /\ \A x, y \in S : h[x] = h[y] => x = y
  /\ \A t \in T : \E x \in S : h[x] = t

LEMMA MatchedSize ==
  ASSUME NEW S, IsFiniteSet(S), NEW T, NEW h, Matching(h, S, T)
  PROVE  IsFiniteSet(T) /\ Cardinality(T) = Cardinality(S)
<1> DEFINE b == [x \in S |-> h[x]]
<1>1. b \in Bijection(S, T)
  BY DEF Matching, Bijection, Injection, Surjection, IsInjective
<1>2. ExistsBijection(S, T)
  <2> HIDE DEF b
  <2> QED
    BY <1>1 DEF ExistsBijection
<1> QED
  BY <1>2, FS_Bijection

IsList(q) == \E S : q \in Seq(S)

LEMMA ListFacts ==
  ASSUME NEW q, IsList(q)
  PROVE  /\ Len(q) \in Nat /\ DOMAIN q = 1..Len(q)
         /\ q = [k \in 1..Len(q) |-> q[k]]
<1>1. PICK S : q \in Seq(S)
  BY DEF IsList
<1> QED
  BY <1>1

LEMMA ListMade ==
  ASSUME NEW n \in Nat, NEW q, q = [k \in 1..n |-> q[k]]
  PROVE  IsList(q) /\ Len(q) = n /\ DOMAIN q = 1..n
<1> DEFINE S == {q[k] : k \in 1..n}
<1>1. q \in [1..n -> S]
  BY Zenon
<1>2. q \in Seq(S)
  <2> HIDE DEF S
  <2> QED
    BY <1>1
<1>3. Len(q) = n /\ DOMAIN q = 1..n
  <2> HIDE DEF S
  <2> QED
    BY <1>1, <1>2
<1> QED
  BY <1>2, <1>3 DEF IsList

LEMMA ListsJoined ==
  ASSUME NEW a, IsList(a), NEW b, IsList(b)
  PROVE  /\ IsList(a \o b) /\ Len(a \o b) = Len(a) + Len(b)
         /\ \A k \in 1..Len(a) : (a \o b)[k] = a[k]
         /\ \A k \in 1..Len(b) : (a \o b)[Len(a) + k] = b[k]
         /\ \A k \in Len(a) + 1..Len(a) + Len(b) : (a \o b)[k] = b[k - Len(a)]
<1>1. PICK A : a \in Seq(A)
  BY DEF IsList
<1>2. PICK B : b \in Seq(B)
  BY DEF IsList
<1>3. a \in Seq(A \cup B) /\ b \in Seq(A \cup B)
  BY <1>1, <1>2
<1>4. a \o b \in Seq(A \cup B)
  BY <1>3
<1> QED
  BY <1>3, <1>4 DEF IsList

LEMMA ArrangedList ==
  ASSUME NEW f, NEW key, Keyed(key)
  PROVE  /\ IsList(Arranged(f, key)) /\ Len(Arranged(f, key)) = Cardinality(DOMAIN key)
         /\ \A k \in 1..Cardinality(DOMAIN key) : Arranged(f, key)[k] = f[PlaceAt(key, k)]
<1>1. PICK n \in Nat : n = Cardinality(DOMAIN key)
  BY RanksAre
<1>2. PICK q : q = [k \in 1..n |-> f[PlaceAt(key, k)]]
  OBVIOUS
<1>3. Arranged(f, key) = q
  BY <1>1, <1>2, ArrangedIs
<1>4. q = [k \in 1..n |-> q[k]]
  BY <1>2
<1>5. IsList(q) /\ Len(q) = n
  BY <1>4, ListMade
<1> QED
  BY <1>1, <1>2, <1>3, <1>5

(* The places at which the events of f at P make the change c.             *)
Where(f, P, c) ==
  {p \in P \X Nat : p[2] \in DOMAIN Changes(f[p[1]]) /\ Changes(f[p[1]])[p[2]] = c}

TallyOver(f, P, c) == Cardinality(Where(f, P, c))

Tally(q, c) == TallyOver(q, DOMAIN q, c)

Sizes(f, P) == \A i \in P : IsSequence(Changes(f[i]))

LEMMA WhereFinite ==
  ASSUME NEW f, NEW P, IsFiniteSet(P), Sizes(f, P), NEW c
  PROVE  IsFiniteSet(Where(f, P, c)) /\ TallyOver(f, P, c) \in Nat
<1> DEFINE all == {{i} \X (1..Len(Changes(f[i]))) : i \in P}
<1> DEFINE Of(i) == {i} \X (1..Len(Changes(f[i])))
           g == [i \in P |-> Of(i)]
<1>1. g \in Surjection(P, all)
  BY DEF Surjection
<1>2. IsFiniteSet(all)
  <2> HIDE DEF g, all
  <2> QED
    BY <1>1, FS_Surjection
<1>3. \A T \in all : IsFiniteSet(T)
  <2> TAKE T \in all
  <2>1. PICK i \in P : T = {i} \X (1..Len(Changes(f[i])))
    OBVIOUS
  <2>2. IsFiniteSet(1..Len(Changes(f[i])))
    BY FS_Interval DEF Sizes, IsSequence
  <2> QED
    BY <2>1, <2>2, FS_Singleton, FS_Product
<1>4. IsFiniteSet(UNION all)
  <2> HIDE DEF all
  <2> QED
    BY <1>2, <1>3, FS_UNION
<1>5. Where(f, P, c) \in SUBSET UNION all
  <2> SUFFICES ASSUME NEW p \in Where(f, P, c)
               PROVE  p \in UNION all
    OBVIOUS
  <2>1. p \in P \X Nat /\ p[2] \in DOMAIN Changes(f[p[1]])
    BY DEF Where
  <2>2. p[2] \in 1..Len(Changes(f[p[1]]))
    BY <2>1 DEF Sizes, IsSequence
  <2>3. p \in {p[1]} \X (1..Len(Changes(f[p[1]])))
    BY <2>1, <2>2
  <2> QED
    BY <2>1, <2>3
<1>6. IsFiniteSet(Where(f, P, c))
  <2> HIDE DEF all
  <2> QED
    BY <1>4, <1>5, FS_Subset
<1> QED
  BY <1>6, FS_CardinalityType DEF TallyOver

(* The same events at other places make the same changes.                  *)
LEMMA TallyMoved ==
  ASSUME NEW f, NEW P, IsFiniteSet(P), Sizes(f, P), NEW g, NEW Q, NEW h, Matching(h, P, Q),
         \A i \in P : f[i] = g[h[i]], NEW c
  PROVE  TallyOver(g, Q, c) = TallyOver(f, P, c)
<1> DEFINE m == [p \in Where(f, P, c) |-> <<h[p[1]], p[2]>>]
<1>1. \A p \in Where(f, P, c) : p \in P \X Nat
  BY DEF Where
<1>2. \A p \in Where(f, P, c) : m[p] \in Where(g, Q, c)
  <2> TAKE p \in Where(f, P, c)
  <2>1. p \in P \X Nat /\ p[2] \in DOMAIN Changes(f[p[1]]) /\ Changes(f[p[1]])[p[2]] = c
    BY DEF Where
  <2>2. h[p[1]] \in Q /\ g[h[p[1]]] = f[p[1]]
    BY <2>1 DEF Matching
  <2>3. <<h[p[1]], p[2]>> \in Q \X Nat
    BY <2>1, <2>2
  <2>4. <<h[p[1]], p[2]>> \in Where(g, Q, c)
    BY <2>1, <2>2, <2>3 DEF Where
  <2> QED
    BY <2>4
<1>3. \A p, r \in Where(f, P, c) : m[p] = m[r] => p = r
  <2> TAKE p \in Where(f, P, c), r \in Where(f, P, c)
  <2> HAVE m[p] = m[r]
  <2>1. h[p[1]] = h[r[1]] /\ p[2] = r[2]
    OBVIOUS
  <2>2. p[1] = r[1]
    BY <1>1, <2>1 DEF Matching
  <2> QED
    BY <1>1, <2>1, <2>2
<1>4. \A t \in Where(g, Q, c) : \E p \in Where(f, P, c) : m[p] = t
  <2> TAKE t \in Where(g, Q, c)
  <2>1. t \in Q \X Nat /\ t[2] \in DOMAIN Changes(g[t[1]]) /\ Changes(g[t[1]])[t[2]] = c
    BY DEF Where
  <2>2. PICK i \in P : h[i] = t[1]
    BY <2>1 DEF Matching
  <2>3. <<i, t[2]>> \in Where(f, P, c)
    <3>1. f[i] = g[t[1]]
      BY <2>2
    <3> QED
      BY <2>1, <3>1 DEF Where
  <2>4. m[<<i, t[2]>>] = t
    BY <2>1, <2>2, <2>3
  <2> QED
    BY <2>3, <2>4
<1>5. Matching(m, Where(f, P, c), Where(g, Q, c))
  <2> HIDE DEF m
  <2> QED
    BY <1>2, <1>3, <1>4 DEF Matching
<1> HIDE DEF m
<1> QED
  BY <1>5, WhereFinite, MatchedSize DEF TallyOver

LEMMA TallySplit ==
  ASSUME NEW f, NEW P, IsFiniteSet(P), Sizes(f, P), NEW Q, IsFiniteSet(Q), Sizes(f, Q),
         P \cap Q = {}, NEW c
  PROVE  TallyOver(f, P \cup Q, c) = TallyOver(f, P, c) + TallyOver(f, Q, c)
<1>1. Where(f, P \cup Q, c) = Where(f, P, c) \cup Where(f, Q, c)
  BY DEF Where
<1>2. Where(f, P, c) \cap Where(f, Q, c) = {}
  BY DEF Where
<1>3. IsFiniteSet(Where(f, P, c)) /\ IsFiniteSet(Where(f, Q, c))
      /\ TallyOver(f, P, c) \in Nat /\ TallyOver(f, Q, c) \in Nat
  BY WhereFinite
<1>4. Cardinality(Where(f, P, c) \cap Where(f, Q, c)) = 0
  BY <1>2, FS_EmptySet
<1>5. PICK A, B, U : A = Where(f, P, c) /\ B = Where(f, Q, c) /\ U = Where(f, P \cup Q, c)
  OBVIOUS
<1>6. U = A \cup B /\ IsFiniteSet(A) /\ IsFiniteSet(B) /\ Cardinality(A \cap B) = 0
  BY <1>1, <1>3, <1>4, <1>5
<1>7. Cardinality(A) \in Nat /\ Cardinality(B) \in Nat
  BY <1>6, FS_CardinalityType
<1>8. Cardinality(U) = Cardinality(A) + Cardinality(B) - Cardinality(A \cap B)
  BY <1>6, FS_Union
<1>9. Cardinality(U) = Cardinality(A) + Cardinality(B)
  BY <1>6, <1>7, <1>8
<1> QED
  BY <1>5, <1>9 DEF TallyOver

(* An arrangement makes the changes of what it arranges.                   *)
LEMMA ArrangedTally ==
  ASSUME NEW f, NEW key, Keyed(key), Sizes(f, DOMAIN key), NEW c
  PROVE  Tally(Arranged(f, key), c) = TallyOver(f, DOMAIN key, c)
<1>1. PICK q : q = Arranged(f, key)
  OBVIOUS
<1>2. PICK n \in Nat : n = Cardinality(DOMAIN key)
  BY RanksAre
<1>3. /\ IsList(q) /\ Len(q) = n
      /\ \A k \in 1..n : q[k] = f[PlaceAt(key, k)]
  BY <1>1, <1>2, ArrangedList
<1>4. DOMAIN q = 1..n
  BY <1>3, ListFacts
<1> DEFINE h == [i \in DOMAIN key |-> Rank(key, i)]
<1>5. Matching(h, DOMAIN key, 1..n)
  BY <1>2, RanksAre DEF Matching
<1>6. \A i \in DOMAIN key : f[i] = q[h[i]]
  <2> TAKE i \in DOMAIN key
  <2>1. h[i] \in 1..n /\ PlaceAt(key, h[i]) = i
    BY <1>2, RanksAre, PlacesListed
  <2> QED
    BY <1>3, <2>1
<1>7. IsFiniteSet(DOMAIN key)
  BY DEF Keyed
<1>8. TallyOver(q, 1..n, c) = TallyOver(f, DOMAIN key, c)
  <2> HIDE DEF h
  <2> QED
    BY <1>5, <1>6, <1>7, TallyMoved
<1> QED
  BY <1>1, <1>4, <1>8 DEF Tally

LEMMA JoinedTally ==
  ASSUME NEW a, IsList(a), Sizes(a, DOMAIN a), NEW b, IsList(b), Sizes(b, DOMAIN b), NEW c
  PROVE  /\ Tally(a \o b, c) = Tally(a, c) + Tally(b, c)
         /\ Sizes(a \o b, DOMAIN (a \o b))
<1>1. PICK q : q = a \o b
  OBVIOUS
<1>2. PICK n \in Nat : n = Len(a) /\ DOMAIN a = 1..n
  BY ListFacts
<1>3. PICK m \in Nat : m = Len(b) /\ DOMAIN b = 1..m
  BY ListFacts
<1>4. /\ IsList(q) /\ Len(q) = n + m
      /\ \A k \in 1..n : q[k] = a[k]
      /\ \A k \in 1..m : q[n + k] = b[k]
      /\ \A k \in n + 1..n + m : q[k] = b[k - n]
  BY <1>1, <1>2, <1>3, ListsJoined
<1>5. DOMAIN q = 1..n + m
  BY <1>4, ListFacts
<1> DEFINE h == [k \in 1..n |-> k]
           g == [k \in 1..m |-> n + k]
<1>6. Matching(h, 1..n, 1..n)
  BY DEF Matching
<1>7. Matching(g, 1..m, n + 1..n + m)
  <2>1. \A t \in n + 1..n + m : t - n \in 1..m /\ g[t - n] = t
    OBVIOUS
  <2> QED
    BY <2>1 DEF Matching
<1>8. (\A k \in 1..n : a[k] = q[h[k]]) /\ (\A k \in 1..m : b[k] = q[g[k]])
  BY <1>4
<1>9. IsFiniteSet(1..n) /\ IsFiniteSet(1..m) /\ IsFiniteSet(n + 1..n + m)
  BY FS_Interval
<1>10. TallyOver(q, 1..n, c) = Tally(a, c)
  <2> HIDE DEF h
  <2> QED
    BY <1>2, <1>6, <1>8, <1>9, TallyMoved DEF Tally
<1>11. TallyOver(q, n + 1..n + m, c) = Tally(b, c)
  <2> HIDE DEF g
  <2> QED
    BY <1>3, <1>7, <1>8, <1>9, TallyMoved DEF Tally
<1>12. Sizes(q, 1..n) /\ Sizes(q, n + 1..n + m)
  <2>1. \A k \in n + 1..n + m : k - n \in 1..m
    OBVIOUS
  <2> QED
    BY <1>2, <1>3, <1>4, <2>1 DEF Sizes
<1>13. (1..n) \cap (n + 1..n + m) = {} /\ (1..n) \cup (n + 1..n + m) = 1..n + m
  OBVIOUS
<1>14. TallyOver(q, (1..n) \cup (n + 1..n + m), c) = Tally(a, c) + Tally(b, c)
  BY <1>9, <1>10, <1>11, <1>12, <1>13, TallySplit
<1> QED
  BY <1>1, <1>5, <1>12, <1>13, <1>14 DEF Tally, Sizes

-----------------------------------------------------------------------------
(***************************************************************************)
(* Batches.                                                                *)
(***************************************************************************)

(* Events as the files make them, and as the multiplexer sends them, of    *)
(* the relations I.                                                        *)
IsRaw(e, I) == e.id \in I /\ e.type \in {"insert", "delete"} /\ e.order \in Int

IsChange(c, I) ==
  /\ c = [tuple |-> c.tuple, rel |-> c.rel, sign |-> c.sign]
  /\ c.rel \in I /\ c.sign \in {1, -1}

IsSent(e, I) ==
  /\ e.id \in I /\ e.type \in {"insert", "delete", "batch"} /\ e.order \in Int
  /\ IsSequence(Changes(e))
  /\ \A j \in DOMAIN Changes(e) : IsChange(Changes(e)[j], I)

AllRaw(q, I) == IsList(q) /\ \A k \in DOMAIN q : IsRaw(q[k], I)
AllSent(q, I) == IsList(q) /\ \A k \in DOMAIN q : IsSent(q[k], I)

ChangeOf(e) == [tuple |-> e.data, rel |-> e.id, sign |-> IF e.type = "insert" THEN 1 ELSE -1]

LEMMA RawChanges ==
  ASSUME NEW I, NEW e, IsRaw(e, I)
  PROVE  Changes(e) = <<ChangeOf(e)>> /\ IsSent(e, I)
<1>1. e.type # "batch"
  BY DEF IsRaw
<1>2. Changes(e) = <<ChangeOf(e)>>
  BY <1>1 DEF Changes, ChangeOf
<1>3. IsSequence(<<ChangeOf(e)>>) /\ DOMAIN <<ChangeOf(e)>> = {1} /\ <<ChangeOf(e)>>[1] = ChangeOf(e)
  BY DEF IsSequence
<1>4. IsChange(ChangeOf(e), I)
  BY DEF ChangeOf, IsRaw, IsChange
<1> QED
  BY <1>2, <1>3, <1>4 DEF IsSent, IsRaw

LEMMA RawIsSent ==
  ASSUME NEW q, NEW I, AllRaw(q, I)
  PROVE  AllSent(q, I)
BY RawChanges DEF AllRaw, AllSent

LEMMA SentSizes ==
  ASSUME NEW q, NEW I, AllSent(q, I)
  PROVE  Sizes(q, DOMAIN q)
BY DEF AllSent, IsSent, Sizes

LEMMA Quotient ==
  ASSUME NEW n \in Nat, n > 0, NEW a \in Nat
  PROVE  a \div n \in Nat /\ (a \div n) * n <= a /\ a < (a \div n) * n + n
<1>1. a = (a \div n) * n + (a % n) /\ a % n \in 0..n - 1 /\ a \div n \in Int
  OBVIOUS
<1>2. a \div n >= 0
  OBVIOUS
<1>3. (a \div n) * n \in Int
  BY <1>1
<1> QED
  BY <1>1, <1>2, <1>3

LEMMA Multiples ==
  ASSUME NEW n \in Nat, NEW a \in Int, NEW b \in Int, a < b
  PROVE  a * n + n <= b * n /\ a * n \in Int /\ b * n \in Int
<1>1. PICK d \in Nat : b = a + 1 + d
  <2>1. b - a - 1 \in Nat /\ b = a + 1 + (b - a - 1)
    OBVIOUS
  <2> QED
    BY <2>1
<1>2. b * n = a * n + n + d * n
  BY <1>1
<1>3. d * n >= 0 /\ d * n \in Int /\ a * n \in Int
  OBVIOUS
<1> QED
  BY <1>2, <1>3

(* The k-th batch of n events.                                             *)
BatchEnd(L, n, k) == IF k * n <= L THEN k * n ELSE L

LEMMA BatchBounds ==
  ASSUME NEW L \in Nat, NEW n \in Nat, n > 0, NEW k \in 1..((L + n - 1) \div n)
  PROVE  /\ (k - 1) * n \in Nat /\ BatchEnd(L, n, k) \in Nat
         /\ (k - 1) * n < BatchEnd(L, n, k) /\ BatchEnd(L, n, k) <= L
         /\ BatchEnd(L, n, k) <= (k - 1) * n + n
<1>1. PICK b : b = (L + n - 1) \div n
  OBVIOUS
<1>2. b \in Nat /\ b * n <= L + n - 1
  BY <1>1, Quotient
<1>3. k * n = (k - 1) * n + n /\ k * n \in Int /\ (k - 1) * n \in Int
  OBVIOUS
<1>4. k * n <= b * n
  <2>1. CASE k = b
    BY <1>3, <2>1
  <2>2. CASE k < b
    BY <1>2, <1>3, <2>2, Multiples
  <2> QED
    BY <1>1, <1>2, <2>1, <2>2
<1>5. b * n \in Int
  BY <1>2
<1>6. (k - 1) * n < L
  BY <1>2, <1>3, <1>4, <1>5
<1>7. (k - 1) * n >= 0
  <2>1. k - 1 \in Nat
    OBVIOUS
  <2> QED
    BY <2>1
<1> QED
  BY <1>3, <1>6, <1>7 DEF BatchEnd

LEMMA PartOf ==
  ASSUME NEW q, IsList(q), NEW a \in Nat, NEW b \in Nat, a <= b, b <= Len(q)
  PROVE  /\ IsList(SubSeq(q, a + 1, b)) /\ Len(SubSeq(q, a + 1, b)) = b - a
         /\ \A j \in 1..b - a : SubSeq(q, a + 1, b)[j] = q[a + j]
<1>1. PICK S : q \in Seq(S)
  BY DEF IsList
<1>2. SubSeq(q, a + 1, b) \in Seq(S)
  BY <1>1, SubSeqProperties
<1> QED
  BY <1>1, <1>2, SubSeqProperties DEF IsList

LEMMA BatchIs ==
  ASSUME NEW evs, NEW I, AllRaw(evs, I), NEW n \in Nat, n > 0,
         NEW k \in 1..((Len(evs) + n - 1) \div n)
  PROVE  /\ IsSent(Batches(evs, n)[k], I)
         /\ Len(Changes(Batches(evs, n)[k])) = BatchEnd(Len(evs), n, k) - (k - 1) * n
         /\ \A j \in 1..BatchEnd(Len(evs), n, k) - (k - 1) * n :
              Changes(Batches(evs, n)[k])[j] = ChangeOf(evs[(k - 1) * n + j])
<1>1. PICK L \in Nat : L = Len(evs) /\ DOMAIN evs = 1..L
  BY ListFacts DEF AllRaw
<1>2. PICK a, b : a = (k - 1) * n /\ b = BatchEnd(L, n, k)
  OBVIOUS
<1>3. a \in Nat /\ b \in Nat /\ a < b /\ b <= L
  BY <1>1, <1>2, BatchBounds
<1>4. PICK x : x = SubSeq(evs, a + 1, b)
  OBVIOUS
<1>5. IsList(x) /\ Len(x) = b - a /\ \A j \in 1..b - a : x[j] = evs[a + j]
  <2>1. IsList(evs)
    BY DEF AllRaw
  <2>2. a <= b /\ b <= Len(evs)
    BY <1>1, <1>3
  <2>3. /\ IsList(SubSeq(evs, a + 1, b)) /\ Len(SubSeq(evs, a + 1, b)) = b - a
        /\ \A j \in 1..b - a : SubSeq(evs, a + 1, b)[j] = evs[a + j]
    BY ONLY <1>3, <2>1, <2>2, PartOf
  <2> QED
    BY ONLY <1>4, <2>3
<1>6. DOMAIN x = 1..b - a
  BY <1>5, ListFacts
<1>7. PICK e : e = Batches(evs, n)[k]
  OBVIOUS
<1>8. e = Batch(x)
  BY <1>1, <1>2, <1>4, <1>7 DEF Batches, BatchEnd
<1>9. \A j \in 1..b - a : IsRaw(x[j], I)
  <2>1. \A j \in 1..b - a : a + j \in 1..L
    BY <1>1, <1>3
  <2> QED
    BY <1>1, <1>5, <2>1 DEF AllRaw
<1> DEFINE d == [i \in 1..b - a |-> [tuple |-> x[i].data,
                                     sign |-> IF x[i].type = "insert" THEN 1 ELSE -1,
                                     rel |-> x[i].id]]
<1>10. e.data = d /\ e.type = "batch" /\ e.id = x[b - a].id /\ e.order = x[b - a].order % OrderWidth
  BY <1>5, <1>6, <1>8 DEF Batch, Event, Last
<1>11. Changes(e) = d
  BY <1>10 DEF Changes
<1>12. \A j \in 1..b - a : d[j] = ChangeOf(evs[a + j])
  BY <1>5 DEF ChangeOf
<1>13. b - a \in 1..b - a /\ b - a \in Nat
  BY <1>3
<1>14. Len(d) = b - a /\ DOMAIN d = 1..b - a
  BY <1>13
<1>15. e.id \in I /\ e.order \in Int
  <2>1. IsRaw(x[b - a], I)
    BY <1>9, <1>13
  <2>2. \A o \in Int : o % OrderWidth \in Int
    BY OrderWidthAssumption
  <2> QED
    BY <1>10, <2>1, <2>2 DEF IsRaw
<1>16. \A j \in 1..b - a : IsChange(d[j], I)
  BY <1>9 DEF IsRaw, IsChange
<1> HIDE DEF d
<1>17. IsSent(e, I)
  BY <1>10, <1>11, <1>13, <1>14, <1>15, <1>16 DEF IsSent, IsSequence
<1> QED
  BY <1>1, <1>2, <1>7, <1>11, <1>12, <1>14, <1>17

(* Cutting events into batches changes nothing of what they change.        *)
LEMMA BatchesTally ==
  ASSUME NEW evs, NEW I, AllRaw(evs, I), NEW n \in Nat, n > 0, NEW c
  PROVE  AllSent(Batches(evs, n), I) /\ Tally(Batches(evs, n), c) = Tally(evs, c)
<1>1. PICK L \in Nat : L = Len(evs) /\ DOMAIN evs = 1..L
  BY ListFacts DEF AllRaw
<1>2. PICK N : N = (L + n - 1) \div n
  OBVIOUS
<1>3. N \in Nat /\ L + n - 1 < N * n + n
  BY <1>2, Quotient
<1>4. PICK q : q = Batches(evs, n)
  OBVIOUS
<1>5. q = [k \in 1..N |-> q[k]]
  BY <1>1, <1>2, <1>4 DEF Batches
<1>6. IsList(q) /\ DOMAIN q = 1..N
  BY <1>3, <1>5, ListMade
<1>7. \A k \in 1..N : /\ IsSent(q[k], I) /\ Len(Changes(q[k])) = BatchEnd(L, n, k) - (k - 1) * n
                      /\ \A j \in 1..BatchEnd(L, n, k) - (k - 1) * n :
                           Changes(q[k])[j] = ChangeOf(evs[(k - 1) * n + j])
  <2> TAKE k \in 1..N
  <2>1. k \in 1..((Len(evs) + n - 1) \div n)
    BY <1>1, <1>2
  <2>2. /\ IsSent(Batches(evs, n)[k], I)
        /\ Len(Changes(Batches(evs, n)[k])) = BatchEnd(Len(evs), n, k) - (k - 1) * n
        /\ \A j \in 1..BatchEnd(Len(evs), n, k) - (k - 1) * n :
             Changes(Batches(evs, n)[k])[j] = ChangeOf(evs[(k - 1) * n + j])
    BY <2>1, BatchIs
  <2>3. Batches(evs, n) = q /\ Len(evs) = L
    BY <1>1, <1>4
  <2> QED
    BY <2>2, <2>3, Zenon
<1>8. AllSent(q, I)
  BY <1>6, <1>7 DEF AllSent
<1>9. \A i \in 1..L : Changes(evs[i]) = <<ChangeOf(evs[i])>>
  BY <1>1, RawChanges DEF AllRaw
<1>10. \A p \in Where(q, 1..N, c) :
         /\ p \in (1..N) \X Nat /\ p[2] \in 1..BatchEnd(L, n, p[1]) - (p[1] - 1) * n
         /\ (p[1] - 1) * n + p[2] \in 1..L
         /\ (p[1] - 1) * n \in Nat /\ p[2] <= n
         /\ ChangeOf(evs[(p[1] - 1) * n + p[2]]) = c
  <2> TAKE p \in Where(q, 1..N, c)
  <2>1. p \in (1..N) \X Nat /\ p[2] \in DOMAIN Changes(q[p[1]]) /\ Changes(q[p[1]])[p[2]] = c
    BY DEF Where
  <2>2. PICK k \in 1..N, j \in Nat : p = <<k, j>>
    BY <2>1
  <2>3. j \in 1..BatchEnd(L, n, k) - (k - 1) * n
    BY <1>7, <2>1, <2>2 DEF IsSent, IsSequence
  <2>4. /\ (k - 1) * n \in Nat /\ BatchEnd(L, n, k) \in Nat /\ BatchEnd(L, n, k) <= L
        /\ BatchEnd(L, n, k) <= (k - 1) * n + n
    BY <1>2, BatchBounds
  <2>5. (k - 1) * n + j \in 1..L /\ j <= n
    BY <2>3, <2>4
  <2>6. ChangeOf(evs[(k - 1) * n + j]) = c
    BY <1>7, <2>1, <2>2, <2>3
  <2> QED
    BY <2>2, <2>3, <2>4, <2>5, <2>6
<1> DEFINE h == [p \in Where(q, 1..N, c) |-> <<(p[1] - 1) * n + p[2], 1>>]
<1>11. \A p \in Where(q, 1..N, c) : h[p] \in Where(evs, 1..L, c)
  <2> TAKE p \in Where(q, 1..N, c)
  <2>1. PICK i \in 1..L : i = (p[1] - 1) * n + p[2] /\ ChangeOf(evs[i]) = c
    BY <1>10
  <2>2. <<i, 1>> \in Where(evs, 1..L, c)
    <3>1. Changes(evs[i]) = <<c>>
      BY <1>9, <2>1
    <3>2. 1 \in DOMAIN <<c>> /\ <<c>>[1] = c
      OBVIOUS
    <3> QED
      BY <3>1, <3>2 DEF Where
  <2> QED
    BY <2>1, <2>2
<1>12. \A p, r \in Where(q, 1..N, c) : h[p] = h[r] => p = r
  <2> TAKE p \in Where(q, 1..N, c), r \in Where(q, 1..N, c)
  <2> HAVE h[p] = h[r]
  <2>1. PICK k \in 1..N, j \in Nat : p = <<k, j>> /\ j \in 1..n /\ (k - 1) * n \in Nat
    BY <1>10
  <2>2. PICK l \in 1..N, m \in Nat : r = <<l, m>> /\ m \in 1..n /\ (l - 1) * n \in Nat
    BY <1>10
  <2>3. PICK x \in Nat, y \in Nat : x = (k - 1) * n /\ y = (l - 1) * n
    BY <2>1, <2>2
  <2>4. x + j = y + m
    BY <2>1, <2>2, <2>3
  <2>5. j \in 1..n /\ m \in 1..n
    BY <2>1, <2>2
  <2>6. ~(k < l)
    <3> SUFFICES ASSUME k < l
                 PROVE  FALSE
      OBVIOUS
    <3>1. x + n <= y
      BY <2>3, Multiples
    <3> QED
      BY <2>4, <2>5, <3>1
  <2>7. ~(l < k)
    <3> SUFFICES ASSUME l < k
                 PROVE  FALSE
      OBVIOUS
    <3>1. y + n <= x
      BY <2>3, Multiples
    <3> QED
      BY <2>4, <2>5, <3>1
  <2>8. k = l
    BY <1>3, <2>6, <2>7
  <2>9. j = m
    BY <2>3, <2>4, <2>8
  <2> QED
    BY <2>1, <2>2, <2>8, <2>9
<1>13. \A t \in Where(evs, 1..L, c) : \E p \in Where(q, 1..N, c) : h[p] = t
  <2> TAKE t \in Where(evs, 1..L, c)
  <2>1. t \in (1..L) \X Nat /\ t[2] \in DOMAIN Changes(evs[t[1]]) /\ Changes(evs[t[1]])[t[2]] = c
    BY DEF Where
  <2>2. PICK i \in 1..L : t = <<i, 1>> /\ ChangeOf(evs[i]) = c
    BY <1>9, <2>1
  <2>3. PICK d : d = (i - 1) \div n
    OBVIOUS
  <2>4. d \in Nat /\ d * n <= i - 1 /\ i - 1 < d * n + n /\ d * n \in Nat
    BY <2>3, Quotient
  <2>5. PICK k : k = d + 1
    OBVIOUS
  <2>6. PICK j : j = i - d * n
    OBVIOUS
  <2>7. k \in 1..N
    <3> SUFFICES ASSUME N < k
                 PROVE  FALSE
      BY <1>3, <2>4, <2>5
    <3>1. N <= d
      BY <1>3, <2>4, <2>5
    <3>2. N * n <= d * n /\ N * n \in Int
      <4>1. CASE N = d
        BY <1>3, <2>4, <4>1
      <4>2. CASE N < d
        BY <1>3, <2>4, <4>2, Multiples
      <4> QED
        BY <1>3, <2>4, <3>1, <4>1, <4>2
    <3> QED
      BY <1>3, <2>4, <3>2
  <2>8. k * n = d * n + n /\ k - 1 = d
    BY <2>4, <2>5
  <2>9. j \in 1..BatchEnd(L, n, k) - d * n
    BY <2>4, <2>6, <2>8 DEF BatchEnd
  <2>10. <<k, j>> \in Where(q, 1..N, c)
    <3>1. DOMAIN Changes(q[k]) = 1..BatchEnd(L, n, k) - d * n
      BY <1>7, <2>7, <2>8 DEF IsSent, IsSequence
    <3>2. Changes(q[k])[j] = ChangeOf(evs[d * n + j])
      BY <1>7, <2>7, <2>8, <2>9
    <3>3. d * n + j = i /\ j \in Nat
      BY <2>4, <2>6, <2>9
    <3> QED
      BY <2>2, <2>7, <2>9, <3>1, <3>2, <3>3 DEF Where
  <2>11. h[<<k, j>>] = t
    <3>1. h[<<k, j>>] = <<(k - 1) * n + j, 1>>
      BY <2>10
    <3>2. (k - 1) * n + j = i
      BY <2>4, <2>6, <2>8
    <3> QED
      BY <2>2, <3>1, <3>2
  <2> QED
    BY <2>10, <2>11
<1>14. Matching(h, Where(q, 1..N, c), Where(evs, 1..L, c))
  <2> HIDE DEF h
  <2> QED
    BY <1>11, <1>12, <1>13 DEF Matching
<1>15. IsFiniteSet(Where(q, 1..N, c))
  <2>1. IsFiniteSet(1..N)
    BY <1>3, FS_Interval
  <2>2. Sizes(q, 1..N)
    BY <1>7 DEF IsSent, Sizes
  <2> QED
    BY <2>1, <2>2, WhereFinite
<1>16. Cardinality(Where(evs, 1..L, c)) = Cardinality(Where(q, 1..N, c))
  <2> HIDE DEF h
  <2> QED
    BY <1>14, <1>15, MatchedSize
<1> QED
  BY <1>1, <1>4, <1>6, <1>8, <1>16 DEF Tally, TallyOver

-----------------------------------------------------------------------------
(***************************************************************************)
(* The multiplexer.                                                        *)
(***************************************************************************)

(* An arrangement of events holds events of the same kind, and makes their *)
(* changes.                                                                *)
SentArranged(f, key, I, c) ==
  /\ AllSent(Arranged(f, key), I)
  /\ Tally(Arranged(f, key), c) = TallyOver(f, DOMAIN key, c)

LEMMA ArrangedSent ==
  ASSUME NEW f, NEW key, Keyed(key), NEW I, \A i \in DOMAIN key : IsSent(f[i], I), NEW c
  PROVE  SentArranged(f, key, I, c)
<1>1. PICK n \in Nat : n = Cardinality(DOMAIN key)
  BY RanksAre
<1>2. PICK q : q = Arranged(f, key)
  OBVIOUS
<1>3. IsList(q) /\ Len(q) = n /\ \A k \in 1..n : q[k] = f[PlaceAt(key, k)]
  BY <1>1, <1>2, ArrangedList
<1>4. DOMAIN q = 1..n
  BY <1>3, ListFacts
<1>5. \A k \in 1..n : PlaceAt(key, k) \in DOMAIN key
  BY <1>1, PlacesListed
<1>6. AllSent(q, I)
  BY <1>3, <1>4, <1>5 DEF AllSent
<1>7. Sizes(f, DOMAIN key)
  BY DEF Sizes, IsSent
<1> QED
  BY <1>2, <1>6, <1>7, ArrangedTally DEF SentArranged

LEMMA ArrangedRaw ==
  ASSUME NEW f, NEW key, Keyed(key), NEW I, \A i \in DOMAIN key : IsRaw(f[i], I)
  PROVE  AllRaw(Arranged(f, key), I)
<1>1. PICK n \in Nat : n = Cardinality(DOMAIN key)
  BY RanksAre
<1>2. PICK q : q = Arranged(f, key)
  OBVIOUS
<1>3. IsList(q) /\ Len(q) = n /\ \A k \in 1..n : q[k] = f[PlaceAt(key, k)]
  BY <1>1, <1>2, ArrangedList
<1>4. DOMAIN q = 1..n
  BY <1>3, ListFacts
<1>5. \A k \in 1..n : PlaceAt(key, k) \in DOMAIN key
  BY <1>1, PlacesListed
<1> QED
  BY <1>2, <1>3, <1>4, <1>5 DEF AllRaw

(* Sorting.                                                                *)
ByOrder(q) == [i \in DOMAIN q |-> <<q[i].order, i>>]

LEMMA OrderKeyed ==
  ASSUME NEW q, IsList(q), \A i \in DOMAIN q : q[i].order \in Int
  PROVE  Keyed(ByOrder(q)) /\ DOMAIN ByOrder(q) = DOMAIN q
<1>1. PICK n \in Nat : DOMAIN q = 1..n
  BY ListFacts
<1>2. IsFiniteSet(1..n)
  BY FS_Interval
<1> QED
  BY <1>1, <1>2 DEF Keyed, ByOrder

SentSame(q, p, I, c) == AllSent(q, I) /\ Tally(q, c) = Tally(p, c)

LEMMA SortedCounts ==
  ASSUME NEW q, NEW I, AllSent(q, I), NEW c
  PROVE  SentSame(SortedByOrder(q), q, I, c)
<1>1. Keyed(ByOrder(q)) /\ DOMAIN ByOrder(q) = DOMAIN q
  BY OrderKeyed DEF AllSent, IsSent
<1>2. SortedByOrder(q) = Arranged(q, ByOrder(q))
  BY DEF SortedByOrder, ByOrder
<1>3. \A i \in DOMAIN ByOrder(q) : IsSent(q[i], I)
  BY <1>1 DEF AllSent
<1>4. SentArranged(q, ByOrder(q), I, c)
  BY <1>1, <1>3, ArrangedSent
<1> QED
  BY <1>1, <1>2, <1>4 DEF SentSame, SentArranged, Tally

LEMMA SortedRaw ==
  ASSUME NEW q, NEW I, AllRaw(q, I)
  PROVE  AllRaw(SortedByOrder(q), I)
<1>1. Keyed(ByOrder(q)) /\ DOMAIN ByOrder(q) = DOMAIN q
  BY OrderKeyed DEF AllRaw, IsRaw
<1>2. SortedByOrder(q) = Arranged(q, ByOrder(q))
  BY DEF SortedByOrder, ByOrder
<1>3. \A i \in DOMAIN ByOrder(q) : IsRaw(q[i], I)
  BY <1>1 DEF AllRaw
<1> QED
  BY <1>1, <1>2, <1>3, ArrangedRaw

(* The queue, cut into batches.                                            *)
LEMMA QueueCounts ==
  ASSUME NEW q, NEW I, AllRaw(q, I), NEW n \in Nat, n > 0, NEW c
  PROVE  SentSame(QueueBatches(q, n), q, I, c)
<1>1. AllRaw(SortedByOrder(q), I)
  BY SortedRaw
<1>2. AllSent(Batches(SortedByOrder(q), n), I)
      /\ Tally(Batches(SortedByOrder(q), n), c) = Tally(SortedByOrder(q), c)
  BY <1>1, BatchesTally
<1>3. SentSame(SortedByOrder(q), q, I, c)
  BY RawIsSent, SortedCounts
<1> QED
  BY <1>2, <1>3 DEF SentSame, QueueBatches

(* The tuples of one relation, from the last to the first.                 *)
NoneOf(list, c) == Where(list, DOMAIN list, c) = {}

LEMMA RawWhere ==
  ASSUME NEW list, NEW I, AllRaw(list, I), NEW c
  PROVE  \A p \in Where(list, DOMAIN list, c) : p[1] \in DOMAIN list /\ list[p[1]].id = c.rel
<1> TAKE p \in Where(list, DOMAIN list, c)
<1>1. p[1] \in DOMAIN list /\ p[2] \in DOMAIN Changes(list[p[1]]) /\ Changes(list[p[1]])[p[2]] = c
  BY DEF Where
<1>2. Changes(list[p[1]]) = <<ChangeOf(list[p[1]])>>
  BY <1>1, RawChanges DEF AllRaw
<1>3. ChangeOf(list[p[1]]) = c
  BY <1>1, <1>2
<1> QED
  BY <1>1, <1>3 DEF ChangeOf

OneOf(list, id) == {i \in DOMAIN list : list[i].id = id}

LEMMA BackwardsCounts ==
  ASSUME NEW list, NEW I, AllRaw(list, I), NEW id, NEW c
  PROVE  /\ AllRaw(Backwards(list, id), {id})
         /\ c.rel = id => Tally(Backwards(list, id), c) = Tally(list, c)
<1> DEFINE key == [i \in OneOf(list, id) |-> <<-i, 0>>]
<1>1. PICK n \in Nat : DOMAIN list = 1..n
  BY ListFacts DEF AllRaw
<1>2. OneOf(list, id) \in SUBSET (1..n) /\ IsFiniteSet(1..n)
  BY <1>1, FS_Interval DEF OneOf
<1>3. IsFiniteSet(OneOf(list, id))
  BY <1>2, FS_Subset
<1>4. Keyed(key) /\ DOMAIN key = OneOf(list, id)
  BY <1>2, <1>3 DEF Keyed
<1>5. Backwards(list, id) = Arranged(list, key)
  BY DEF Backwards, OneOf
<1>6. \A i \in OneOf(list, id) : IsRaw(list[i], {id})
  BY DEF AllRaw, IsRaw, OneOf
<1>7. Sizes(list, OneOf(list, id))
  <2>1. \A i \in OneOf(list, id) : IsSent(list[i], {id})
    BY <1>6, RawChanges
  <2> QED
    BY <2>1 DEF IsSent, Sizes
<1> HIDE DEF key
<1>8. AllRaw(Backwards(list, id), {id})
  BY <1>4, <1>5, <1>6, ArrangedRaw
<1>9. Tally(Backwards(list, id), c) = TallyOver(list, OneOf(list, id), c)
  BY <1>4, <1>5, <1>7, ArrangedTally
<1>10. ASSUME c.rel = id
       PROVE  Where(list, DOMAIN list, c) = Where(list, OneOf(list, id), c)
  <2>1. \A p \in Where(list, DOMAIN list, c) : p[1] \in OneOf(list, id)
    BY <1>10, RawWhere DEF OneOf
  <2>2. OneOf(list, id) \in SUBSET DOMAIN list
    BY DEF OneOf
  <2> QED
    BY <2>1, <2>2 DEF Where
<1> QED
  BY <1>8, <1>9, <1>10 DEF Tally, TallyOver

(* The list, cut into batches relation by relation.                        *)
IdsIn(list) == {list[i].id : i \in DOMAIN list}

Cuts(list, n) == [id \in IdsIn(list) |-> Batches(Backwards(list, id), n)]

CutPlaces(list, n) == UNION {{id} \X DOMAIN Cuts(list, n)[id] : id \in IdsIn(list)}

CutAt(list, n) == [p \in CutPlaces(list, n) |-> Cuts(list, n)[p[1]][p[2]]]

LEMMA CutCounts ==
  ASSUME NEW list, NEW I, AllRaw(list, I), NEW n \in Nat, n > 0, NEW id \in IdsIn(list), NEW c
  PROVE  /\ AllSent(Cuts(list, n)[id], {id})
         /\ c.rel = id => Tally(Cuts(list, n)[id], c) = Tally(list, c)
         /\ c.rel # id => Where(Cuts(list, n)[id], DOMAIN Cuts(list, n)[id], c) = {}
<1>1. PICK q : q = Cuts(list, n)[id]
  OBVIOUS
<1>2. q = Batches(Backwards(list, id), n)
  BY <1>1 DEF Cuts
<1>3. AllRaw(Backwards(list, id), {id}) /\ (c.rel = id => Tally(Backwards(list, id), c) = Tally(list, c))
  BY BackwardsCounts
<1>4. AllSent(q, {id}) /\ Tally(q, c) = Tally(Backwards(list, id), c)
  BY <1>2, <1>3, BatchesTally
<1>5. ASSUME c.rel # id, NEW p \in Where(q, DOMAIN q, c)
      PROVE  FALSE
  <2>1. p[1] \in DOMAIN q /\ p[2] \in DOMAIN Changes(q[p[1]]) /\ Changes(q[p[1]])[p[2]] = c
    BY <1>5 DEF Where
  <2>2. c.rel \in {id}
    BY <1>4, <2>1 DEF AllSent, IsSent, IsChange
  <2> QED
    BY <1>5, <2>2
<1>6. c.rel # id => Where(q, DOMAIN q, c) = {}
  BY <1>5
<1> QED
  BY <1>1, <1>3, <1>4, <1>6

LEMMA CutKeyed ==
  ASSUME NEW list, NEW I, AllRaw(list, I), I \subseteq Int, NEW n \in Nat, n > 0
  PROVE  /\ Keyed([p \in CutPlaces(list, n) |-> p])
         /\ \A p \in CutPlaces(list, n) : IsSent(CutAt(list, n)[p], I)
<1>1. PICK m \in Nat : DOMAIN list = 1..m
  BY ListFacts DEF AllRaw
<1>2. IsFiniteSet(IdsIn(list)) /\ IdsIn(list) \subseteq I
  <2> DEFINE h == [i \in 1..m |-> list[i].id]
  <2>1. h \in Surjection(1..m, IdsIn(list))
    BY <1>1 DEF Surjection, IdsIn
  <2>2. IsFiniteSet(1..m)
    BY FS_Interval
  <2>3. IsFiniteSet(IdsIn(list))
    <3> HIDE DEF h
    <3> QED
      BY <2>1, <2>2, FS_Surjection
  <2>4. IdsIn(list) \subseteq I
    BY DEF AllRaw, IsRaw, IdsIn
  <2> QED
    BY <2>3, <2>4
<1>3. \A id \in IdsIn(list) : AllSent(Cuts(list, n)[id], {id})
  BY CutCounts
<1>4. \A id \in IdsIn(list) : \E d \in Nat : DOMAIN Cuts(list, n)[id] = 1..d
  <2> TAKE id \in IdsIn(list)
  <2>1. IsList(Cuts(list, n)[id])
    BY <1>3 DEF AllSent
  <2> QED
    BY <2>1, ListFacts
<1> DEFINE Row(id) == {id} \X DOMAIN Cuts(list, n)[id]
           rows == {Row(id) : id \in IdsIn(list)}
<1>5. IsFiniteSet(rows)
  <2> DEFINE g == [id \in IdsIn(list) |-> Row(id)]
  <2>1. g \in Surjection(IdsIn(list), rows)
    BY DEF Surjection
  <2> HIDE DEF g, rows
  <2> QED
    BY <1>2, <2>1, FS_Surjection
<1>6. \A T \in rows : IsFiniteSet(T)
  <2> TAKE T \in rows
  <2>1. PICK id \in IdsIn(list) : T = {id} \X DOMAIN Cuts(list, n)[id]
    OBVIOUS
  <2>2. PICK d \in Nat : DOMAIN Cuts(list, n)[id] = 1..d
    BY <1>4
  <2>3. IsFiniteSet(1..d)
    BY FS_Interval
  <2> QED
    BY <2>1, <2>2, <2>3, FS_Singleton, FS_Product
<1>7. IsFiniteSet(CutPlaces(list, n))
  <2>1. CutPlaces(list, n) = UNION rows
    BY DEF CutPlaces
  <2> HIDE DEF rows
  <2> QED
    BY <1>5, <1>6, <2>1, FS_UNION
<1>8. \A p \in CutPlaces(list, n) :
        /\ p \in Int \X Nat /\ p[1] \in IdsIn(list)
        /\ p[2] \in DOMAIN Cuts(list, n)[p[1]]
  <2> TAKE p \in CutPlaces(list, n)
  <2>1. PICK id \in IdsIn(list) : p \in {id} \X DOMAIN Cuts(list, n)[id]
    BY DEF CutPlaces
  <2>2. PICK d \in Nat : DOMAIN Cuts(list, n)[id] = 1..d
    BY <1>4
  <2>3. id \in Int
    BY <1>2
  <2> QED
    BY <2>1, <2>2, <2>3
<1>9. Keyed([p \in CutPlaces(list, n) |-> p])
  BY <1>7, <1>8 DEF Keyed
<1>10. ASSUME NEW p \in CutPlaces(list, n)
       PROVE  IsSent(CutAt(list, n)[p], I)
  <2>1. CutAt(list, n)[p] = Cuts(list, n)[p[1]][p[2]]
    BY DEF CutAt
  <2>2. IsSent(Cuts(list, n)[p[1]][p[2]], {p[1]})
    BY <1>3, <1>8 DEF AllSent
  <2>3. p[1] \in I
    BY <1>2, <1>8
  <2> QED
    BY <2>1, <2>2, <2>3 DEF IsSent, IsChange
<1> QED
  BY <1>9, <1>10

LEMMA CutWhere ==
  ASSUME NEW list, NEW I, AllRaw(list, I), NEW n \in Nat, n > 0, NEW c, NEW k, NEW p
  PROVE  <<p, k>> \in Where(CutAt(list, n), CutPlaces(list, n), c) <=>
           /\ p \in CutPlaces(list, n) /\ p[1] = c.rel
           /\ <<p[2], k>> \in Where(Cuts(list, n)[c.rel], DOMAIN Cuts(list, n)[c.rel], c)
<1>1. ASSUME p \in CutPlaces(list, n)
      PROVE  /\ p[1] \in IdsIn(list) /\ p[2] \in DOMAIN Cuts(list, n)[p[1]]
             /\ CutAt(list, n)[p] = Cuts(list, n)[p[1]][p[2]]
  <2>1. PICK id \in IdsIn(list) : p \in {id} \X DOMAIN Cuts(list, n)[id]
    BY <1>1 DEF CutPlaces
  <2> QED
    BY <1>1, <2>1 DEF CutAt
<1>2. <<p, k>> \in Where(CutAt(list, n), CutPlaces(list, n), c) <=>
        /\ p \in CutPlaces(list, n) /\ k \in Nat
        /\ k \in DOMAIN Changes(CutAt(list, n)[p]) /\ Changes(CutAt(list, n)[p])[k] = c
  BY DEF Where
<1>3. ASSUME p \in CutPlaces(list, n)
      PROVE  (/\ k \in Nat /\ k \in DOMAIN Changes(CutAt(list, n)[p])
              /\ Changes(CutAt(list, n)[p])[k] = c)
             <=> <<p[2], k>> \in Where(Cuts(list, n)[p[1]], DOMAIN Cuts(list, n)[p[1]], c)
  BY <1>1, <1>3 DEF Where
<1>4. ASSUME p \in CutPlaces(list, n),
             <<p[2], k>> \in Where(Cuts(list, n)[p[1]], DOMAIN Cuts(list, n)[p[1]], c)
      PROVE  p[1] = c.rel
  BY <1>1, <1>4, CutCounts
<1> QED
  BY <1>2, <1>3, <1>4

LEMMA ListCounts ==
  ASSUME NEW list, NEW I, AllRaw(list, I), I \subseteq Int, NEW n \in Nat, n > 0, NEW c
  PROVE  SentSame(ListBatches(list, n), list, I, c)
<1>1. PICK P, f : P = CutPlaces(list, n) /\ f = CutAt(list, n)
  OBVIOUS
<1> DEFINE key == [p \in P |-> p]
<1>2. ListBatches(list, n) = Arranged(f, key)
  BY <1>1 DEF ListBatches, CutAt, CutPlaces, Cuts, IdsIn
<1>3. Keyed(key) /\ DOMAIN key = P /\ \A p \in P : IsSent(f[p], I)
  BY <1>1, CutKeyed
<1>4. SentArranged(f, key, I, c)
  <2> HIDE DEF key
  <2> QED
    BY <1>3, ArrangedSent
<1>5. CASE c.rel \notin IdsIn(list)
  <2>1. Where(f, P, c) = {}
    <3> SUFFICES ASSUME NEW x \in Where(f, P, c)
                 PROVE  FALSE
      OBVIOUS
    <3>1. x = <<x[1], x[2]>> /\ x[1] \in P
      BY DEF Where
    <3>2. x[1][1] \in IdsIn(list)
      BY <1>1, <3>1 DEF CutPlaces
    <3>3. <<x[1], x[2]>> \in Where(CutAt(list, n), CutPlaces(list, n), c)
      BY <1>1, <3>1
    <3>4. x[1][1] = c.rel
      <4> PICK p, k : p = x[1] /\ k = x[2]
        OBVIOUS
      <4>1. <<p, k>> \in Where(CutAt(list, n), CutPlaces(list, n), c)
        BY <3>3
      <4>2. <<p, k>> \in Where(CutAt(list, n), CutPlaces(list, n), c) <=>
              /\ p \in CutPlaces(list, n) /\ p[1] = c.rel
              /\ <<p[2], k>> \in Where(Cuts(list, n)[c.rel], DOMAIN Cuts(list, n)[c.rel], c)
        BY CutWhere
      <4>3. p[1] = c.rel
        BY <4>1, <4>2
      <4> QED
        BY <4>3
    <3> QED
      BY <1>5, <3>2, <3>4
  <2>2. Where(list, DOMAIN list, c) = {}
    BY <1>5, RawWhere DEF IdsIn
  <2> QED
    BY <1>2, <1>3, <1>4, <2>1, <2>2 DEF SentSame, SentArranged, Tally, TallyOver
<1>6. CASE c.rel \in IdsIn(list)
  <2>1. PICK q : q = Cuts(list, n)[c.rel]
    OBVIOUS
  <2>2. Tally(q, c) = Tally(list, c) /\ AllSent(q, {c.rel})
    BY <1>6, <2>1, CutCounts
  <2> DEFINE W == Where(f, P, c)
             V == Where(q, DOMAIN q, c)
             h == [x \in W |-> <<x[1][2], x[2]>>]
  <2>3. \A x \in W : x = <<x[1], x[2]>> /\ x[1] \in P
    BY DEF Where
  <2>4. \A x \in P : x = <<x[1], x[2]>>
    BY <1>1 DEF CutPlaces
  <2>5. \A x \in W : h[x] \in V /\ x[1][1] = c.rel
    BY <1>1, <2>1, <2>3, CutWhere
  <2>6. \A x, y \in W : h[x] = h[y] => x = y
    <3> TAKE x \in W, y \in W
    <3> HAVE h[x] = h[y]
    <3>1. x[1][2] = y[1][2] /\ x[2] = y[2]
      OBVIOUS
    <3>2. x[1] = y[1]
      BY <2>3, <2>4, <2>5, <3>1
    <3> QED
      BY <2>3, <3>1, <3>2
  <2>7. \A t \in V : \E x \in W : h[x] = t
    <3> TAKE t \in V
    <3>1. t = <<t[1], t[2]>> /\ t[1] \in DOMAIN q
      BY DEF Where
    <3>2. <<c.rel, t[1]>> \in P
      BY <1>1, <1>6, <2>1, <3>1 DEF CutPlaces
    <3>3. PICK x : x = <<<<c.rel, t[1]>>, t[2]>>
      OBVIOUS
    <3>4. x \in W
      BY <1>1, <2>1, <3>1, <3>2, <3>3, CutWhere
    <3>5. h[x] = t
      BY <3>1, <3>3, <3>4
    <3> QED
      BY <3>4, <3>5
  <2>8. Matching(h, W, V)
    <3> HIDE DEF h, W, V
    <3> QED
      BY <2>5, <2>6, <2>7 DEF Matching
  <2>9. IsFiniteSet(W)
    <3>1. Sizes(f, P)
      BY <1>3 DEF IsSent, Sizes
    <3>2. IsFiniteSet(P)
      BY <1>3 DEF Keyed
    <3> QED
      BY <3>1, <3>2, WhereFinite
  <2>10. Cardinality(V) = Cardinality(W)
    <3> HIDE DEF h, W, V
    <3> QED
      BY <2>8, <2>9, MatchedSize
  <2> QED
    BY <1>2, <1>3, <1>4, <2>2, <2>10 DEF SentSame, SentArranged, Tally, TallyOver
<1> QED
  BY <1>5, <1>6

(* Mixing.                                                                 *)
RoundOf(list, i) == {j \in 1..i - 1 : list[j].id = list[i].id}

ByRound(list) == [i \in DOMAIN list |-> <<Cardinality(RoundOf(list, i)), list[i].id>>]

LEMMA RoundFinite ==
  ASSUME NEW list, NEW i \in Int
  PROVE  IsFiniteSet(RoundOf(list, i)) /\ Cardinality(RoundOf(list, i)) \in Nat
<1>1. IsFiniteSet(1..i - 1)
  BY FS_Interval
<1>2. RoundOf(list, i) \in SUBSET (1..i - 1)
  BY DEF RoundOf
<1> QED
  BY <1>1, <1>2, FS_Subset, FS_CardinalityType

LEMMA RoundKeyed ==
  ASSUME NEW list, IsList(list), \A i \in DOMAIN list : list[i].id \in Int
  PROVE  Keyed(ByRound(list)) /\ DOMAIN ByRound(list) = DOMAIN list
<1>1. PICK n \in Nat : DOMAIN list = 1..n
  BY ListFacts
<1>2. \A i \in 1..n : IsFiniteSet(RoundOf(list, i)) /\ Cardinality(RoundOf(list, i)) \in Nat
  BY RoundFinite
<1>3. ASSUME NEW i \in 1..n, NEW j \in 1..n, i < j, list[i].id = list[j].id
      PROVE  Cardinality(RoundOf(list, i)) # Cardinality(RoundOf(list, j))
  <2>1. RoundOf(list, i) \in SUBSET RoundOf(list, j)
    BY <1>3 DEF RoundOf
  <2>2. i \in RoundOf(list, j) /\ i \notin RoundOf(list, i)
    BY <1>3 DEF RoundOf
  <2> QED
    BY <1>2, <2>1, <2>2, FS_Subset
<1>4. \A i, j \in 1..n : i # j /\ list[i].id = list[j].id =>
        Cardinality(RoundOf(list, i)) # Cardinality(RoundOf(list, j))
  <2> TAKE i \in 1..n, j \in 1..n
  <2>1. i = j \/ i < j \/ j < i
    OBVIOUS
  <2> QED
    BY <1>3, <2>1
<1>5. IsFiniteSet(1..n)
  BY FS_Interval
<1> QED
  BY <1>1, <1>2, <1>4, <1>5 DEF Keyed, ByRound

LEMMA MixedCounts ==
  ASSUME NEW list, NEW I, AllSent(list, I), NEW inputs \in Nat, I \subseteq 0..inputs - 1, NEW c
  PROVE  SentSame(Mixed(list, inputs), list, I, c)
<1>1. PICK key : key = ByRound(list)
  OBVIOUS
<1>2. \A i \in DOMAIN list : list[i].id \in 0..inputs - 1 /\ list[i].id \in Int
  <2>1. \A i \in DOMAIN list : list[i].id \in I
    BY DEF AllSent, IsSent
  <2>2. \A x \in I : x \in 0..inputs - 1 /\ x \in Int
    OBVIOUS
  <2> QED
    BY <2>1, <2>2
<1>3. Keyed(key) /\ DOMAIN key = DOMAIN list
  BY <1>1, <1>2, RoundKeyed DEF AllSent
<1>4. Mixed(list, inputs) = Arranged(list, key)
  <2>1. {i \in DOMAIN list : list[i].id \in 0..inputs - 1} = DOMAIN list
    BY <1>2
  <2> QED
    BY <1>1, <2>1 DEF Mixed, ByRound, RoundOf
<1>5. \A i \in DOMAIN key : IsSent(list[i], I)
  BY <1>3 DEF AllSent
<1>6. SentArranged(list, key, I, c)
  BY <1>3, <1>5, ArrangedSent
<1> QED
  BY <1>3, <1>4, <1>6 DEF SentSame, SentArranged, Tally

LEMMA SentWider ==
  ASSUME NEW q, NEW I, NEW J, I \subseteq J, AllSent(q, I)
  PROVE  AllSent(q, J)
BY DEF AllSent, IsSent, IsChange

LEMMA SentJoined ==
  ASSUME NEW a, NEW b, NEW I, AllSent(a, I), AllSent(b, I), NEW c
  PROVE  AllSent(a \o b, I) /\ Tally(a \o b, c) = Tally(a, c) + Tally(b, c)
<1>1. IsList(a) /\ IsList(b) /\ Sizes(a, DOMAIN a) /\ Sizes(b, DOMAIN b)
  BY SentSizes DEF AllSent
<1>2. Tally(a \o b, c) = Tally(a, c) + Tally(b, c)
  BY <1>1, JoinedTally
<1>3. PICK n \in Nat : n = Len(a) /\ DOMAIN a = 1..n
  BY <1>1, ListFacts
<1>4. PICK m \in Nat : m = Len(b) /\ DOMAIN b = 1..m
  BY <1>1, ListFacts
<1>5. PICK q : q = a \o b
  OBVIOUS
<1>6. /\ IsList(q) /\ Len(q) = n + m
      /\ \A k \in 1..n : q[k] = a[k]
      /\ \A k \in n + 1..n + m : q[k] = b[k - n]
  BY <1>1, <1>3, <1>4, <1>5, ListsJoined
<1>7. DOMAIN q = 1..n + m
  BY <1>6, ListFacts
<1>8. ASSUME NEW k \in 1..n + m
      PROVE  IsSent(q[k], I)
  <2>1. CASE k \in 1..n
    BY <1>3, <1>6, <2>1 DEF AllSent
  <2>2. CASE k \in n + 1..n + m
    <3>1. k - n \in 1..m
      BY <2>2
    <3> QED
      BY <1>4, <1>6, <2>2, <3>1 DEF AllSent
  <2> QED
    BY <2>1, <2>2
<1> QED
  BY <1>2, <1>5, <1>6, <1>7, <1>8 DEF AllSent

LEMMA TallyIs ==
  ASSUME NEW q, NEW I, AllSent(q, I), NEW c
  PROVE  Tally(q, c) \in Nat
<1>1. PICK n \in Nat : DOMAIN q = 1..n
  BY ListFacts DEF AllSent
<1>2. IsFiniteSet(1..n)
  BY FS_Interval
<1> QED
  BY <1>1, <1>2, SentSizes, WhereFinite DEF Tally

LEMMA NoEvents ==
  ASSUME NEW I
  PROVE  /\ AllRaw(<<>>, I) /\ AllSent(<<>>, I)
         /\ \A c : Tally(<<>>, c) = 0
<1>1. IsList(<<>>) /\ DOMAIN <<>> = {}
  BY EmptySeq DEF IsList
<1>2. \A c : Where(<<>>, {}, c) = {}
  BY DEF Where
<1> QED
  BY <1>1, <1>2, FS_EmptySet DEF AllRaw, AllSent, Tally, TallyOver

(* The events of q are of the relations and types R.                       *)
TypedIn(q, R) == \A k \in DOMAIN q : <<q[k].id, q[k].type>> \in R

LEMMA TypedJoined ==
  ASSUME NEW a, IsList(a), NEW b, IsList(b), NEW R, TypedIn(a, R), TypedIn(b, R)
  PROVE  TypedIn(a \o b, R)
<1>1. PICK q : q = a \o b
  OBVIOUS
<1>2. PICK n, m : n = Len(a) /\ m = Len(b)
  OBVIOUS
<1>3. n \in Nat /\ m \in Nat /\ DOMAIN a = 1..n /\ DOMAIN b = 1..m /\ DOMAIN q = 1..n + m
  BY <1>1, <1>2, ListFacts, ListsJoined
<1>4. \A k \in 1..n : q[k] = a[k]
  BY <1>1, <1>2, ListsJoined
<1>5. \A k \in n + 1..n + m : q[k] = b[k - n]
  BY <1>1, <1>2, ListsJoined
<1>6. ASSUME NEW k \in DOMAIN q
      PROVE  <<q[k].id, q[k].type>> \in R
  <2>1. CASE k \in 1..n
    BY <1>3, <1>4, <2>1 DEF TypedIn
  <2>2. CASE k \in n + 1..n + m
    <3>1. k - n \in DOMAIN b /\ q[k] = b[k - n]
      BY <1>3, <1>5, <2>2
    <3> QED
      BY <3>1 DEF TypedIn
  <2> QED
    BY <1>3, <2>1, <2>2
<1> QED
  BY <1>1, <1>6 DEF TypedIn

LEMMA TypedAlone ==
  ASSUME NEW R
  PROVE  TypedIn(<<>>, R) /\ \A ev : <<ev.id, ev.type>> \in R => TypedIn(<<ev>>, R)
BY DEF TypedIn

(* What is arranged is kept.                                               *)
KeptOf(new, old) == \A k \in DOMAIN new : \E i \in DOMAIN old : new[k] = old[i]

LEMMA ArrangedKept ==
  ASSUME NEW f, NEW key, Keyed(key), DOMAIN key \subseteq DOMAIN f
  PROVE  KeptOf(Arranged(f, key), f)
<1>1. PICK n : n = Cardinality(DOMAIN key)
  OBVIOUS
<1>2. DOMAIN Arranged(f, key) = 1..n /\ \A k \in 1..n : Arranged(f, key)[k] = f[PlaceAt(key, k)]
  BY <1>1, ArrangedIs
<1>3. \A k \in 1..n : PlaceAt(key, k) \in DOMAIN key
  BY <1>1, PlacesListed
<1> QED
  BY <1>2, <1>3 DEF KeptOf

LEMMA TypedKept ==
  ASSUME NEW new, NEW old, KeptOf(new, old), NEW R, TypedIn(old, R)
  PROVE  TypedIn(new, R)
<1> SUFFICES ASSUME NEW k \in DOMAIN new
             PROVE  <<new[k].id, new[k].type>> \in R
  BY DEF TypedIn
<1>1. PICK i \in DOMAIN old : new[k] = old[i]
  BY DEF KeptOf
<1> QED
  BY <1>1 DEF TypedIn

LEMMA MixedKept ==
  ASSUME NEW list, NEW I, AllSent(list, I), NEW inputs \in Nat, I \subseteq 0..inputs - 1
  PROVE  KeptOf(Mixed(list, inputs), list)
<1>1. PICK key : key = ByRound(list)
  OBVIOUS
<1>2. \A i \in DOMAIN list : list[i].id \in 0..inputs - 1 /\ list[i].id \in Int
  <2>1. \A i \in DOMAIN list : list[i].id \in I
    BY DEF AllSent, IsSent
  <2>2. \A x \in I : x \in 0..inputs - 1 /\ x \in Int
    OBVIOUS
  <2> QED
    BY <2>1, <2>2
<1>3. Keyed(key) /\ DOMAIN key = DOMAIN list
  BY <1>1, <1>2, RoundKeyed DEF AllSent
<1>4. Mixed(list, inputs) = Arranged(list, key)
  <2>1. {i \in DOMAIN list : list[i].id \in 0..inputs - 1} = DOMAIN list
    BY <1>2
  <2> QED
    BY <1>1, <2>1 DEF Mixed, ByRound, RoundOf
<1> QED
  BY <1>3, <1>4, ArrangedKept

AreBatches(q) == \A k \in DOMAIN q : q[k].type = "batch"

LEMMA BatchesAre ==
  ASSUME NEW evs, NEW n
  PROVE  AreBatches(Batches(evs, n))
<1>1. \A x : Batch(x).type = "batch"
  BY DEF Batch, Event
<1> QED
  BY <1>1 DEF AreBatches, Batches

LEMMA BatchedAre ==
  ASSUME NEW list, NEW que, NEW L, L \subseteq Int, AllRaw(list, L), NEW I, AllRaw(que, I),
         NEW n \in Nat, n > 0, NEW b, b = Batched(list, que, n)
  PROVE  AreBatches(b.list) /\ AreBatches(b.que)
<1>1. PICK x, y : x = QueueBatches(que, n) /\ y = ListBatches(list, n)
  OBVIOUS
<1>2. AreBatches(x)
  BY <1>1, BatchesAre DEF QueueBatches
<1>3. AreBatches(y)
  <2>1. PICK P, f, key : P = CutPlaces(list, n) /\ f = CutAt(list, n) /\ key = [p \in P |-> p]
    OBVIOUS
  <2>2. y = Arranged(f, key)
    BY <1>1, <2>1 DEF ListBatches, CutAt, CutPlaces, Cuts, IdsIn
  <2>3. Keyed(key) /\ DOMAIN key = P /\ DOMAIN f = P
    BY <2>1, CutKeyed DEF CutAt
  <2>4. KeptOf(y, f)
    BY <2>2, <2>3, ArrangedKept
  <2>5. \A p \in P : f[p].type = "batch"
    <3> SUFFICES ASSUME NEW p \in P
                 PROVE  f[p].type = "batch"
      OBVIOUS
    <3>1. f[p] = Cuts(list, n)[p[1]][p[2]]
      BY <2>1 DEF CutAt
    <3>2. PICK id \in IdsIn(list) : p \in {id} \X DOMAIN Cuts(list, n)[id]
      BY <2>1 DEF CutPlaces
    <3>3. Cuts(list, n)[id] = Batches(Backwards(list, id), n)
      BY DEF Cuts
    <3>4. AreBatches(Cuts(list, n)[id]) /\ p[1] = id /\ p[2] \in DOMAIN Cuts(list, n)[id]
      BY <3>2, <3>3, BatchesAre
    <3> QED
      BY <3>1, <3>4 DEF AreBatches
  <2> QED
    BY <2>3, <2>4, <2>5 DEF AreBatches, KeptOf
<1>4. IsList(x) /\ IsList(y)
  <2>1. SentSame(x, que, I, 0) /\ SentSame(y, list, L, 0)
    BY <1>1, QueueCounts, ListCounts
  <2> QED
    BY <2>1 DEF SentSame, AllSent
<1>5. AreBatches(x \o y)
  <2>1. TypedIn(x, {<<x[k].id, "batch">> : k \in DOMAIN x} \cup {<<y[k].id, "batch">> : k \in DOMAIN y})
    BY <1>2 DEF TypedIn, AreBatches
  <2>2. TypedIn(y, {<<x[k].id, "batch">> : k \in DOMAIN x} \cup {<<y[k].id, "batch">> : k \in DOMAIN y})
    BY <1>3 DEF TypedIn, AreBatches
  <2>3. PICK R : /\ TypedIn(x, R) /\ TypedIn(y, R) /\ \A r \in R : r[2] = "batch"
    BY <2>1, <2>2
  <2>4. TypedIn(x \o y, R)
    BY <1>4, <2>3, TypedJoined
  <2>5. ASSUME NEW k \in DOMAIN (x \o y)
        PROVE  (x \o y)[k].type = "batch"
    <3>1. PICK e : e = (x \o y)[k]
      OBVIOUS
    <3>2. <<e.id, e.type>> \in R
      BY <2>4, <3>1 DEF TypedIn
    <3>3. <<e.id, e.type>>[2] = "batch"
      BY <2>3, <3>2
    <3> QED
      BY <3>1, <3>3
  <2> QED
    BY <2>5 DEF AreBatches
<1>6. AreBatches(<<>>)
  BY DEF AreBatches
<1> QED
  BY <1>1, <1>5, <1>6 DEF Batched

(* What init_source leaves makes the changes of what was read: whatever is *)
(* batched, mixed and sorted, no tuple is lost, doubled or turned.         *)
Arrives(m, list, que, I, c) ==
  /\ AllSent(m.list, I) /\ AllSent(m.que, I)
  /\ Tally(m.list, c) + Tally(m.que, c) = Tally(list, c) + Tally(que, c)

(* L are the relations of the list: numbers, and those of the streams that *)
(* are mixed stay below the number of inputs.                              *)
Mixable(L, parallel, inputs, isTable) ==
  /\ L \subseteq Int
  /\ ~isTable /\ parallel = MixInputTuples => L \subseteq 0..inputs - 1

BatchedArrives(b, list, que, L, I, c) ==
  /\ AllSent(b.list, L) /\ AllSent(b.que, I)
  /\ Tally(b.list, c) + Tally(b.que, c) = Tally(list, c) + Tally(que, c)

LEMMA BatchedCounts ==
  ASSUME NEW list, NEW que, NEW L, NEW I, L \subseteq I, L \subseteq Int,
         AllRaw(list, L), AllRaw(que, I), NEW n \in Nat, n > 0, NEW c
  PROVE  BatchedArrives(Batched(list, que, n), list, que, L, I, c)
<1>1. SentSame(ListBatches(list, n), list, L, c)
  BY ListCounts
<1>2. PICK x, y : x = QueueBatches(que, n) /\ y = ListBatches(list, n)
  OBVIOUS
<1>3. AllSent(y, L) /\ AllSent(y, I) /\ Tally(y, c) = Tally(list, c)
  BY <1>1, <1>2, SentWider DEF SentSame
<1>4. SentSame(x, que, I, c)
  BY <1>2, QueueCounts
<1>5. AllSent(x, I) /\ Tally(x, c) = Tally(que, c)
  BY <1>4 DEF SentSame
<1>6. Tally(x, c) \in Nat /\ Tally(y, c) \in Nat
  BY <1>3, <1>5, TallyIs
<1>7. CASE que = <<>>
  <2>1. SentSame(x, que, L, c)
    BY <1>2, <1>7, NoEvents, QueueCounts
  <2>2. AllSent(x, L)
    BY <2>1 DEF SentSame
  <2>3. AllSent(x \o y, L) /\ Tally(x \o y, c) = Tally(x, c) + Tally(y, c)
    BY <1>3, <2>2, SentJoined
  <2>4. Batched(list, que, n) = [list |-> x \o y, que |-> <<>>]
    BY <1>2, <1>7 DEF Batched
  <2>5. AllSent(<<>>, I) /\ Tally(<<>>, c) = 0
    BY NoEvents
  <2> QED
    BY <1>3, <1>5, <1>6, <2>3, <2>4, <2>5 DEF BatchedArrives
<1>8. CASE que # <<>>
  <2>1. AllSent(x \o y, I) /\ Tally(x \o y, c) = Tally(x, c) + Tally(y, c)
    BY <1>3, <1>5, SentJoined
  <2>2. Batched(list, que, n) = [list |-> <<>>, que |-> x \o y]
    BY <1>2, <1>8 DEF Batched
  <2>3. AllSent(<<>>, L) /\ Tally(<<>>, c) = 0
    BY NoEvents
  <2> QED
    BY <1>3, <1>5, <1>6, <2>1, <2>2, <2>3 DEF BatchedArrives
<1> QED
  BY <1>7, <1>8

(* init_source (streams.cpp) loses no tuple: whatever the batch size and   *)
(* the parallel option, the events it leaves make each change as often as  *)
(* those that were read, and are of their relations.                       *)
THEOREM MultiplexedCounts ==
  ASSUME NEW list, NEW que, NEW L, NEW I, L \subseteq I, AllRaw(list, L), AllRaw(que, I),
         NEW n \in Nat, NEW parallel, NEW inputs \in Nat, NEW isTable \in BOOLEAN,
         Mixable(L, parallel, inputs, isTable), NEW c
  PROVE  Arrives(Multiplexed(list, que, n, parallel, inputs, isTable), list, que, I, c)
<1>1. PICK b : b = IF n > 1 THEN Batched(list, que, n) ELSE [list |-> list, que |-> que]
  OBVIOUS
<1>2. BatchedArrives(b, list, que, L, I, c)
  <2>1. CASE n > 1
    <3>1. L \subseteq Int /\ n > 0
      BY <2>1 DEF Mixable
    <3>2. BatchedArrives(Batched(list, que, n), list, que, L, I, c)
      BY <3>1, BatchedCounts
    <3> QED
      BY <1>1, <2>1, <3>2
  <2>2. CASE ~(n > 1)
    <3>1. AllSent(list, L) /\ AllSent(que, I)
      BY RawIsSent
    <3>2. b.list = list /\ b.que = que
      BY <1>1, <2>2
    <3> QED
      BY <3>1, <3>2 DEF BatchedArrives
  <2> QED
    BY <2>1, <2>2
<1>3. PICK mix : mix = (~isTable /\ b.list # <<>> /\ parallel = MixInputTuples /\ inputs > 1)
  OBVIOUS
<1>4. PICK m : m = [list |-> IF mix THEN Mixed(b.list, inputs) ELSE b.list, que |-> SortedByOrder(b.que)]
  OBVIOUS
<1>5. Multiplexed(list, que, n, parallel, inputs, isTable) = m
  BY <1>1, <1>3, <1>4 DEF Multiplexed
<1>6. AllSent(b.list, L) /\ AllSent(b.que, I)
  BY <1>2 DEF BatchedArrives
<1>7. SentSame(SortedByOrder(b.que), b.que, I, c)
  BY <1>6, SortedCounts
<1>8. AllSent(m.que, I) /\ Tally(m.que, c) = Tally(b.que, c)
  BY <1>4, <1>7 DEF SentSame
<1>9. SentSame(m.list, b.list, L, c)
  <2>1. CASE mix
    <3>1. L \subseteq 0..inputs - 1
      BY <1>3, <2>1 DEF Mixable
    <3>2. SentSame(Mixed(b.list, inputs), b.list, L, c)
      BY <1>6, <3>1, MixedCounts
    <3> QED
      BY <1>4, <2>1, <3>2
  <2>2. CASE ~mix
    BY <1>4, <1>6, <2>2 DEF SentSame
  <2> QED
    BY <2>1, <2>2
<1>10. AllSent(m.list, I) /\ Tally(m.list, c) = Tally(b.list, c)
  BY <1>9, SentWider DEF SentSame
<1> QED
  BY <1>2, <1>5, <1>8, <1>10 DEF Arrives, BatchedArrives

(* The events it leaves are of the relations and types that were read, or  *)
(* batches of these relations.                                             *)
LEMMA MultiplexedTyped ==
  ASSUME NEW list, NEW que, NEW L, NEW I, L \subseteq I, AllRaw(list, L), AllRaw(que, I),
         NEW n \in Nat, NEW parallel, NEW inputs \in Nat, NEW isTable \in BOOLEAN,
         Mixable(L, parallel, inputs, isTable), NEW R,
         n > 1 => I \X {"batch"} \subseteq R,
         n <= 1 => TypedIn(list, R) /\ TypedIn(que, R),
         NEW m, m = Multiplexed(list, que, n, parallel, inputs, isTable)
  PROVE  TypedIn(m.list, R) /\ TypedIn(m.que, R)
<1>1. PICK b : b = IF n > 1 THEN Batched(list, que, n) ELSE [list |-> list, que |-> que]
  OBVIOUS
<1>2. AllSent(b.list, L) /\ AllSent(b.que, I) /\ TypedIn(b.list, R) /\ TypedIn(b.que, R)
  <2>1. CASE n > 1
    <3>1. L \subseteq Int /\ n > 0 /\ b = Batched(list, que, n)
      BY <1>1, <2>1 DEF Mixable
    <3>2. BatchedArrives(b, list, que, L, I, 0)
      BY <3>1, BatchedCounts
    <3>3. AllSent(b.list, L) /\ AllSent(b.que, I)
      BY <3>2 DEF BatchedArrives
    <3>4. AreBatches(b.list) /\ AreBatches(b.que)
      BY <3>1, BatchedAre
    <3>5. \A id \in I : <<id, "batch">> \in R
      BY <2>1
    <3>6. \A k \in DOMAIN b.list : b.list[k].id \in I /\ b.list[k].type = "batch"
      BY <3>3, <3>4 DEF AllSent, IsSent, AreBatches
    <3>7. \A k \in DOMAIN b.que : b.que[k].id \in I /\ b.que[k].type = "batch"
      BY <3>3, <3>4 DEF AllSent, IsSent, AreBatches
    <3>8. TypedIn(b.list, R) /\ TypedIn(b.que, R)
      BY <3>5, <3>6, <3>7 DEF TypedIn
    <3> QED
      BY <3>3, <3>8
  <2>2. CASE ~(n > 1)
    <3>1. AllSent(list, L) /\ AllSent(que, I)
      BY RawIsSent
    <3>2. b.list = list /\ b.que = que /\ n <= 1
      BY <1>1, <2>2
    <3> QED
      BY <3>1, <3>2
  <2> QED
    BY <2>1, <2>2
<1>3. PICK mix : mix = (~isTable /\ b.list # <<>> /\ parallel = MixInputTuples /\ inputs > 1)
  OBVIOUS
<1>4. m = [list |-> IF mix THEN Mixed(b.list, inputs) ELSE b.list, que |-> SortedByOrder(b.que)]
  BY <1>1, <1>3 DEF Multiplexed
<1>5. KeptOf(SortedByOrder(b.que), b.que)
  <2>1. PICK q : q = b.que
    OBVIOUS
  <2>2. IsList(q) /\ \A i \in DOMAIN q : q[i].order \in Int
    BY <1>2, <2>1 DEF AllSent, IsSent
  <2>3. Keyed(ByOrder(q)) /\ DOMAIN ByOrder(q) = DOMAIN q
    BY <2>2, OrderKeyed
  <2>4. SortedByOrder(q) = Arranged(q, ByOrder(q))
    BY DEF SortedByOrder, ByOrder
  <2> QED
    BY <2>1, <2>3, <2>4, ArrangedKept
<1>6. CASE mix
  <2>1. PICK q : q = b.list
    OBVIOUS
  <2>2. L \subseteq 0..inputs - 1
    BY <1>3, <1>6 DEF Mixable
  <2>3. KeptOf(Mixed(q, inputs), q)
    BY <1>2, <2>1, <2>2, MixedKept
  <2> QED
    BY <1>2, <1>4, <1>5, <1>6, <2>1, <2>3, TypedKept
<1>7. CASE ~mix
  BY <1>2, <1>4, <1>5, <1>7, TypedKept
<1> QED
  BY <1>6, <1>7

-----------------------------------------------------------------------------
(***************************************************************************)
(* Reading: where the events of the files are.                             *)
(***************************************************************************)

(* The program that runs is one of those there are.                        *)
UnderWay == prog \in Programs /\ registry = Registered(prog)

Muxes == {"stream", "table"}

(* The relations of which a multiplexer may send events, and events that   *)
(* have a trigger.                                                         *)
Served(mux) ==
  {id \in Ids : /\ (id \in registry.tables) = (mux = "table")
                /\ prog.batch > 1 => <<id, "batch">> \in registry.triggers}

Typed(q) == prog.batch <= 1 => TypedIn(q, registry.triggers)

(* Those of its CSV files.                                                 *)
CsvServed(mux) ==
  {prog.sources[i].adaptor.rel : i \in {i \in CsvInputs : Multiplexer(prog.sources[i]) = mux}}

SourceIn(i, mux) ==
  LET s == prog.sources[i]
      a == s.adaptor
  IN /\ mux \in Muxes /\ (mux = "table") = s.table
     /\ RelationsOf(a) \subseteq Served(mux)
     /\ prog.batch <= 1 => RelationsOf(a) \X EventTypes(a) \subseteq registry.triggers
     /\ Len(s.lines) \in Nat \ {0} /\ DOMAIN s.lines = 1..Len(s.lines)
     /\ \/ /\ a.kind = "csv" /\ a.rel \in Nat /\ a.type \in {"insert", "delete"}
           /\ prog.parallel = MixInputTuples /\ ~s.table => a.rel < Inputs(prog, FALSE)
           /\ \A l \in DOMAIN s.lines :
                IsValid(a, s.lines[l]) => Interpret(a, s.lines[l]).order \in Int
           /\ \A j \in DOMAIN prog.sources :
                prog.sources[j].adaptor.kind = "book" =>
                  a.rel \notin RelationsOf(prog.sources[j].adaptor)
        \/ a.kind = "book" /\ \A l \in DOMAIN s.lines : s.lines[l].t \in Int

LEMMA SourcesFit ==
  ASSUME UnderWay
  PROVE  /\ Len(prog.sources) \in Nat /\ DOMAIN prog.sources = 1..Len(prog.sources)
         /\ prog.batch \in Nat
         /\ \A i \in DOMAIN prog.sources :
              SourceIn(i, Multiplexer(prog.sources[i]))
<1>1. PICK p \in Programs : p = prog
  BY DEF UnderWay
<1>2. /\ IsSequence(p.sources) /\ p.batch \in Nat
      /\ \A s \in Range(p.sources) : SourceFits(p, s)
  BY ProgramsAssumption
<1>3. Len(prog.sources) \in Nat /\ DOMAIN prog.sources = 1..Len(prog.sources)
  BY <1>1, <1>2 DEF IsSequence
<1>4. ASSUME NEW i \in DOMAIN prog.sources
      PROVE  SourceIn(i, Multiplexer(prog.sources[i]))
  <2>1. PICK s : s = prog.sources[i]
    OBVIOUS
  <2>2. PICK mux : mux = Multiplexer(s)
    OBVIOUS
  <2>3. SourceFits(prog, s)
    BY <1>1, <1>2, <2>1 DEF Range
  <2>4. mux \in Muxes /\ s.table \in BOOLEAN /\ (mux = "table") = s.table
    BY <2>2, <2>3 DEF SourceFits, Multiplexer, Muxes
  <2>5. ASSUME NEW id \in RelationsOf(s.adaptor)
        PROVE  /\ id \in Served(mux)
               /\ prog.batch <= 1 =>
                    \A type \in EventTypes(s.adaptor) : <<id, type>> \in registry.triggers
    <3>1. /\ id \in Range(Registered(prog).ids)
          /\ (id \in Registered(prog).tables) = s.table
          /\ {id} \X SentTypes(prog, s.adaptor) \subseteq Registered(prog).triggers
      BY <2>3, <2>5 DEF SourceFits
    <3>2. \A type \in SentTypes(prog, s.adaptor) : <<id, type>> \in registry.triggers
      BY <3>1 DEF UnderWay
    <3>3. prog.batch > 1 => <<id, "batch">> \in registry.triggers
      BY <3>2 DEF SentTypes
    <3>4. prog.batch <= 1 => SentTypes(prog, s.adaptor) = EventTypes(s.adaptor)
      BY <1>1, <1>2 DEF SentTypes
    <3> QED
      BY <2>4, <3>1, <3>2, <3>3, <3>4 DEF Served, Ids, UnderWay
  <2>6. /\ Len(s.lines) \in Nat /\ DOMAIN s.lines = 1..Len(s.lines) /\ s.lines # <<>>
    BY <2>3 DEF SourceFits, IsSequence
  <2>7. Len(s.lines) # 0
    <3> SUFFICES ASSUME Len(s.lines) = 0
                 PROVE  FALSE
      OBVIOUS
    <3>1. DOMAIN s.lines = {}
      BY <2>6
    <3> QED
      BY <2>6, <3>1
  <2>8. \/ /\ s.adaptor.kind = "csv" /\ s.adaptor.rel \in Nat
           /\ s.adaptor.type \in {"insert", "delete"}
           /\ prog.parallel = MixInputTuples /\ ~s.table => s.adaptor.rel < Inputs(prog, FALSE)
           /\ \A l \in DOMAIN s.lines :
                IsValid(s.adaptor, s.lines[l]) => Interpret(s.adaptor, s.lines[l]).order \in Int
           /\ \A o \in Range(prog.sources) :
                o.adaptor.kind = "book" => s.adaptor.rel \notin RelationsOf(o.adaptor)
        \/ s.adaptor.kind = "book" /\ \A l \in DOMAIN s.lines : s.lines[l].t \in Int
    BY <2>3 DEF SourceFits
  <2>9. \A j \in DOMAIN prog.sources : prog.sources[j] \in Range(prog.sources)
    BY DEF Range
  <2>10. RelationsOf(s.adaptor) \subseteq Served(mux)
    BY <2>5
  <2>11. prog.batch <= 1 => RelationsOf(s.adaptor) \X EventTypes(s.adaptor) \subseteq registry.triggers
    BY <2>5
  <2> QED
    BY <2>1, <2>2, <2>4, <2>6, <2>7, <2>8, <2>9, <2>10, <2>11 DEF SourceIn
<1> QED
  BY <1>1, <1>2, <1>3, <1>4

(* A line of a CSV file makes at most one event, of the list or the queue  *)
(* as its order is zero or not.                                            *)
Lands(e, ev) == IF ev.order = 0 THEN e.list = <<ev>> /\ e.que = <<>>
                ELSE e.list = <<>> /\ e.que = <<ev>>

LEMMA CsvLineIs ==
  ASSUME NEW a, a.kind = "csv", NEW line, a.rel \in Nat, a.type \in {"insert", "delete"},
         IsValid(a, line) => Interpret(a, line).order \in Int
  PROVE  \/ CsvEvents(a, line).list = <<>> /\ CsvEvents(a, line).que = <<>>
         \/ \E ev : /\ IsRaw(ev, {a.rel}) /\ ev.order \in Nat /\ ev.type \in EventTypes(a)
                    /\ Lands(CsvEvents(a, line), ev)
<1>1. CASE a.schema = <<>> \/ ~IsValid(a, line)
  BY <1>1 DEF CsvEvents
<1>2. CASE ~(a.schema = <<>> \/ ~IsValid(a, line))
  <2>1. PICK x : x = Interpret(a, line)
    OBVIOUS
  <2>2. PICK ev : ev = Event(IF x.insert THEN "insert" ELSE "delete", a.rel, x.order, x.tuple)
    OBVIOUS
  <2>3. CsvEvents(a, line) = IF ev.order = 0 THEN [list |-> <<ev>>, que |-> <<>>]
                             ELSE [list |-> <<>>, que |-> <<ev>>]
    BY <1>2, <2>1, <2>2 DEF CsvEvents
  <2>4. x.order \in Int
    BY <1>2, <2>1
  <2>5. PICK w \in Nat : w = x.order % OrderWidth
    BY <2>4, OrderWidthAssumption
  <2>6. ev.order = w /\ ev.id = a.rel /\ ev.type \in {"insert", "delete"}
    BY <2>2, <2>5 DEF Event
  <2>7. IsRaw(ev, {a.rel}) /\ ev.order \in Nat
    BY <2>6 DEF IsRaw
  <2>8. Lands(CsvEvents(a, line), ev)
    BY <2>3 DEF Lands
  <2>9. ev.type \in EventTypes(a)
    <3>1. CASE \E i \in DOMAIN a.schema : a.schema[i] = "event"
      BY <2>6, <3>1 DEF EventTypes
    <3>2. CASE ~\E i \in DOMAIN a.schema : a.schema[i] = "event"
      <4>1. {i \in DOMAIN a.schema : a.schema[i] = "event"} = {}
        BY <3>2
      <4>2. x.insert = (a.type = "insert")
        BY <2>1, <4>1 DEF Interpret
      <4>3. ev.type = IF x.insert THEN "insert" ELSE "delete"
        BY <2>2 DEF Event
      <4>4. ev.type = a.type
        BY <4>2, <4>3
      <4> QED
        BY <3>2, <4>4 DEF EventTypes
    <3> QED
      BY <3>1, <3>2
  <2> QED
    BY <2>7, <2>8, <2>9
<1> QED
  BY <1>1, <1>2

(* What a line of a CSV file says of its place.                            *)
LEMMA PlaceIs ==
  ASSUME NEW i \in CsvInputs, NEW l \in DOMAIN prog.sources[i].lines, NEW e,
         e = CsvEvents(prog.sources[i].adaptor, prog.sources[i].lines[l])
  PROVE  /\ e.list = <<>> /\ e.que = <<>> => <<i, l>> \notin CsvPlaces
         /\ \A ev : Lands(e, ev) => <<i, l>> \in CsvPlaces /\ CsvFile[<<i, l>>] = ev
<1>1. LineEvents(<<i, l>>) = e.list \o e.que
  BY DEF LineEvents
<1>2. <<>> \o <<>> = <<>>
  OBVIOUS
<1>3. \A ev : <<ev>> \o <<>> = <<ev>> /\ <<>> \o <<ev>> = <<ev>> /\ <<ev>> # <<>> /\ <<ev>>[1] = ev
  OBVIOUS
<1>4. <<i, l>> \in {i} \X DOMAIN prog.sources[i].lines
  OBVIOUS
<1>5. <<i, l>> \in CsvPlaces <=> LineEvents(<<i, l>>) # <<>>
  BY <1>4 DEF CsvPlaces
<1>6. ASSUME NEW ev, Lands(e, ev)
      PROVE  <<i, l>> \in CsvPlaces /\ CsvFile[<<i, l>>] = ev
  <2>1. LineEvents(<<i, l>>) = <<ev>>
    BY <1>1, <1>3, <1>6 DEF Lands
  <2>2. <<i, l>> \in CsvPlaces
    BY <1>3, <1>5, <2>1
  <2> QED
    BY <1>3, <2>1, <2>2 DEF CsvFile
<1> QED
  BY <1>1, <1>2, <1>5, <1>6

(* And what a place says of its line.                                      *)
LEMMA PlacesAre ==
  ASSUME UnderWay, NEW p \in CsvPlaces
  PROVE  /\ p = <<p[1], p[2]>> /\ p[1] \in CsvInputs /\ p[2] \in DOMAIN prog.sources[p[1]].lines
         /\ IsRaw(CsvFile[p], CsvServed(Multiplexer(prog.sources[p[1]])))
         /\ CsvFile[p].order \in Nat
         /\ p[1] \in Nat /\ p[2] \in Nat
         /\ CsvFile[p].id = prog.sources[p[1]].adaptor.rel
<1>1. PICK i \in CsvInputs : p \in {i} \X DOMAIN prog.sources[i].lines
  BY DEF CsvPlaces
<1>2. PICK l \in DOMAIN prog.sources[i].lines : p = <<i, l>>
  BY <1>1
<1>3. i \in DOMAIN prog.sources /\ prog.sources[i].adaptor.kind = "csv"
  BY DEF CsvInputs
<1>4. SourceIn(i, Multiplexer(prog.sources[i]))
  BY <1>3, SourcesFit
<1>5. PICK a, line : a = prog.sources[i].adaptor /\ line = prog.sources[i].lines[l]
  OBVIOUS
<1>6. /\ a.kind = "csv" /\ a.rel \in Nat /\ a.type \in {"insert", "delete"}
      /\ IsValid(a, line) => Interpret(a, line).order \in Int
  BY <1>3, <1>4, <1>5 DEF SourceIn
<1>7. PICK e : e = CsvEvents(a, line)
  OBVIOUS
<1>8. ~(e.list = <<>> /\ e.que = <<>>)
  BY <1>2, <1>5, <1>7, PlaceIs
<1>9. PICK ev : IsRaw(ev, {a.rel}) /\ ev.order \in Nat /\ Lands(e, ev)
  BY <1>6, <1>7, <1>8, CsvLineIs
<1>10. CsvFile[<<i, l>>] = ev
  BY <1>5, <1>7, <1>9, PlaceIs
<1>11. a.rel \in CsvServed(Multiplexer(prog.sources[i]))
  BY <1>5 DEF CsvServed
<1>12. IsRaw(ev, CsvServed(Multiplexer(prog.sources[i]))) /\ ev.id = a.rel
  BY <1>9, <1>11 DEF IsRaw
<1>13. i \in Nat /\ l \in Nat
  <2>1. PICK n \in Nat : DOMAIN prog.sources = 1..n
    BY SourcesFit
  <2>2. PICK m \in Nat : DOMAIN prog.sources[i].lines = 1..m
    BY <1>4 DEF SourceIn
  <2> QED
    BY <1>3, <2>1, <2>2
<1> QED
  BY <1>2, <1>5, <1>9, <1>10, <1>12, <1>13

LEMMA RawJoined ==
  ASSUME NEW I, NEW x, NEW y, AllRaw(x, I), AllRaw(y, I)
  PROVE  AllRaw(x \o y, I)
<1>1. PICK n \in Nat : n = Len(x) /\ DOMAIN x = 1..n
  BY ListFacts DEF AllRaw
<1>2. PICK k \in Nat : k = Len(y) /\ DOMAIN y = 1..k
  BY ListFacts DEF AllRaw
<1>3. PICK q : q = x \o y
  OBVIOUS
<1>4. /\ IsList(q) /\ Len(q) = n + k
      /\ \A j \in 1..n : q[j] = x[j]
      /\ \A j \in n + 1..n + k : q[j] = y[j - n]
  BY <1>1, <1>2, <1>3, ListsJoined DEF AllRaw
<1>5. DOMAIN q = 1..n + k
  BY <1>4, ListFacts
<1>6. ASSUME NEW j \in 1..n + k
      PROVE  IsRaw(q[j], I)
  <2>1. CASE j \in 1..n
    BY <1>1, <1>4, <2>1 DEF AllRaw
  <2>2. CASE j \in n + 1..n + k
    <3>1. j - n \in 1..k
      BY <2>2
    <3> QED
      BY <1>2, <1>4, <2>2, <3>1 DEF AllRaw
  <2> QED
    BY <2>1, <2>2
<1> QED
  BY <1>3, <1>4, <1>5, <1>6 DEF AllRaw

LEMMA RawAlone ==
  ASSUME NEW I, NEW ev, IsRaw(ev, I)
  PROVE  AllRaw(<<ev>>, I)
<1>1. <<ev>> \in Seq({ev}) /\ DOMAIN <<ev>> = {1} /\ <<ev>>[1] = ev
  OBVIOUS
<1>2. IsList(<<ev>>)
  BY <1>1, Zenon DEF IsList
<1> QED
  BY <1>1, <1>2 DEF AllRaw

(* The events of an order book are of its relations.                       *)
FromBook(q, a) ==
  AllRaw(q, RelationsOf(a)) /\ TypedIn(q, RelationsOf(a) \X EventTypes(a))

LEMMA MessageRaw ==
  ASSUME NEW a, a.kind = "book", NEW m, m.t \in Int, NEW b, NEW broker
  PROVE  FromBook(ProcessMessage(a, b, m, broker).events, a)
<1>1. \A side \in {"bids", "asks"} : a[side] \in RelationsOf(a)
  BY DEF RelationsOf
<1>2. ASSUME NEW type \in EventTypes(a), NEW id \in RelationsOf(a), NEW o \in Int, NEW d
      PROVE  FromBook(<<Event(type, id, o, d)>>, a)
  <2>1. PICK w \in Nat : w = o % OrderWidth
    BY OrderWidthAssumption
  <2>2. /\ Event(type, id, o, d).id = id /\ Event(type, id, o, d).type = type
        /\ Event(type, id, o, d).order = w
    BY <2>1 DEF Event
  <2>3. type \in {"insert", "delete"}
    BY DEF EventTypes
  <2>4. PICK ev : ev = Event(type, id, o, d)
    OBVIOUS
  <2>5. IsRaw(ev, RelationsOf(a)) /\ <<ev.id, ev.type>> \in RelationsOf(a) \X EventTypes(a)
    BY <2>2, <2>3, <2>4 DEF IsRaw
  <2> QED
    BY <2>4, <2>5, RawAlone, TypedAlone DEF FromBook
<1>3. MessageOrder(m) \in Int /\ MessageOrder(m) - 1 \in Int
  BY DEF MessageOrder
<1>4. "insert" \in EventTypes(a) /\ (~a.insertOnly => "delete" \in EventTypes(a))
  BY DEF EventTypes
<1>5. FromBook(<<>>, a)
  BY NoEvents, TypedAlone DEF FromBook
<1>6. \A x, y : FromBook(x, a) /\ FromBook(y, a) => FromBook(x \o y, a)
  BY RawJoined, TypedJoined DEF FromBook, AllRaw
<1>7. ASSUME NEW side \in {"bids", "asks"}
      PROVE  FromBook(Added(a, b, m, broker, side).events, a)
  <2>1. PICK ev : ev = Event("insert", a[side], MessageOrder(m), BookTuple(m, broker))
    OBVIOUS
  <2>2. FromBook(<<ev>>, a)
    BY <1>1, <1>2, <1>3, <1>4, <2>1
  <2>3. Added(a, b, m, broker, side).events \in {<<>>, <<ev>>}
    BY <2>1 DEF Added, Ignored
  <2> QED
    BY <1>5, <2>2, <2>3
<1>8. ASSUME NEW side \in {"bids", "asks"}
      PROVE  FromBook(Executed(a, b, m, side).events, a)
  <2>1. PICK x : x = b[side][m.id]
    OBVIOUS
  <2>2. PICK r : r = [x EXCEPT !.volume = x.volume - m.volume]
    OBVIOUS
  <2>3. PICK d, e : d = Event("delete", a[side], MessageOrder(m) - 1, x) /\ e = Event("insert", a[side], MessageOrder(m), r)
    OBVIOUS
  <2>4. (~a.insertOnly => FromBook(<<d>>, a)) /\ FromBook(<<e>>, a)
    BY <1>1, <1>2, <1>3, <1>4, <2>3
  <2>5. PICK s, t : /\ s = (IF a.insertOnly THEN <<>> ELSE <<d>>) /\ t \in {<<>>, <<e>>}
                    /\ Executed(a, b, m, side).events = s \o t
    BY <2>1, <2>2, <2>3 DEF Executed
  <2> QED
    BY <1>5, <1>6, <2>4, <2>5
<1>9. ASSUME NEW side \in {"bids", "asks"}
      PROVE  FromBook(Removed(a, b, m, side).events, a)
  <2>1. PICK ev : ev = Event("delete", a[side], MessageOrder(m), b[side][m.id])
    OBVIOUS
  <2>2. ~a.insertOnly => FromBook(<<ev>>, a)
    BY <1>1, <1>2, <1>3, <1>4, <2>1
  <2>3. Removed(a, b, m, side).events = IF a.insertOnly THEN <<>> ELSE <<ev>>
    BY <2>1 DEF Removed
  <2> QED
    BY <1>5, <2>2, <2>3
<1>10. PICK side \in {"bids", "asks"} : side = IF m.id \in DOMAIN b.bids THEN "bids" ELSE "asks"
  OBVIOUS
<1>11. ProcessMessage(a, b, m, broker) \in
         {Added(a, b, m, broker, "bids"), Added(a, b, m, broker, "asks"),
          Executed(a, b, m, side), Removed(a, b, m, side), Ignored(b)}
  BY <1>10 DEF ProcessMessage
<1>12. Ignored(b).events = <<>>
  BY DEF Ignored
<1> QED
  BY <1>5, <1>7, <1>8, <1>9, <1>10, <1>11, <1>12

(* The events of q that are of the relations rels stand in it as in their  *)
(* file: each place of P once, in the order of the places.                 *)
FromFiles(q, rels) == {k \in DOMAIN q : q[k].id \in rels}

Tracing(h, q, P, file, rels) ==
  /\ Matching(h, FromFiles(q, rels), P)
  /\ \A k \in FromFiles(q, rels) : q[k] = file[h[k]]
  /\ \A k, l \in FromFiles(q, rels) : k < l => IsBefore(h[k], h[l])

Traced(q, P, file, rels) == \E h : Tracing(h, q, P, file, rels)

ArePlaces(P) == \A p \in P : p = <<p[1], p[2]>> /\ p[1] \in Nat /\ p[2] \in Nat

LEMMA TracedLonger ==
  ASSUME NEW q, IsList(q), NEW P, NEW file, NEW rels, Traced(q, P, file, rels),
         NEW ev, ev.id \in rels, NEW p, ArePlaces(P \cup {p}), file[p] = ev,
         \A o \in P : IsBefore(o, p)
  PROVE  Traced(q \o <<ev>>, P \cup {p}, file, rels)
<1>1. PICK h : Tracing(h, q, P, file, rels)
  BY DEF Traced
<1>2. PICK n \in Nat : n = Len(q) /\ DOMAIN q = 1..n
  BY ListFacts
<1>3. PICK r : r = q \o <<ev>>
  OBVIOUS
<1>4. IsList(<<ev>>) /\ Len(<<ev>>) = 1 /\ <<ev>>[1] = ev
  <2>1. <<ev>> \in Seq({ev}) /\ Len(<<ev>>) = 1 /\ <<ev>>[1] = ev
    OBVIOUS
  <2>2. IsList(<<ev>>)
    BY <2>1, Zenon DEF IsList
  <2> QED
    BY <2>1, <2>2
<1>5. /\ IsList(r) /\ Len(r) = n + 1
      /\ \A k \in 1..n : r[k] = q[k]
      /\ \A k \in 1..1 : r[n + k] = <<ev>>[k]
  <2>1. PICK y : y = <<ev>>
    OBVIOUS
  <2>2. IsList(y) /\ Len(y) = 1 /\ r = q \o y
    BY <1>3, <1>4, <2>1
  <2> QED
    BY <1>2, <2>1, <2>2, ListsJoined
<1>6. DOMAIN r = 1..n + 1 /\ r[n + 1] = ev
  <2>1. DOMAIN r = 1..n + 1
    BY <1>5, ListFacts
  <2>2. 1 \in 1..1
    OBVIOUS
  <2> QED
    BY <1>4, <1>5, <2>1, <2>2
<1>7. FromFiles(r, rels) = FromFiles(q, rels) \cup {n + 1}
  BY <1>2, <1>5, <1>6 DEF FromFiles
<1>8. \A k \in FromFiles(q, rels) : k \in 1..n
  BY <1>2 DEF FromFiles
<1> DEFINE g == [k \in FromFiles(r, rels) |-> IF k = n + 1 THEN p ELSE h[k]]
<1>9. \A k \in FromFiles(q, rels) : g[k] = h[k] /\ h[k] \in P /\ r[k] = q[k]
  BY <1>1, <1>5, <1>7, <1>8 DEF Tracing, Matching
<1>10. g[n + 1] = p
  BY <1>7
<1>11. p \notin P
  BY DEF ArePlaces, IsBefore
<1>12. Matching(g, FromFiles(r, rels), P \cup {p})
  <2>1. \A k \in FromFiles(r, rels) : g[k] \in P \cup {p}
    BY <1>7, <1>9, <1>10
  <2>2. \A k, l \in FromFiles(r, rels) : g[k] = g[l] => k = l
    <3>1. \A k, l \in FromFiles(q, rels) : h[k] = h[l] => k = l
      BY <1>1 DEF Tracing, Matching
    <3> HIDE DEF g
    <3> QED
      BY <1>7, <1>9, <1>10, <1>11, <3>1
  <2>3. \A t \in P \cup {p} : \E k \in FromFiles(r, rels) : g[k] = t
    <3>1. \A t \in P : \E k \in FromFiles(q, rels) : h[k] = t
      BY <1>1 DEF Tracing, Matching
    <3> HIDE DEF g
    <3> QED
      BY <1>7, <1>9, <1>10, <3>1
  <2> HIDE DEF g
  <2> QED
    BY <2>1, <2>2, <2>3 DEF Matching
<1>13. \A k \in FromFiles(r, rels) : r[k] = file[g[k]]
  <2>1. \A k \in FromFiles(q, rels) : q[k] = file[h[k]]
    BY <1>1 DEF Tracing
  <2> HIDE DEF g
  <2> QED
    BY <1>6, <1>7, <1>9, <1>10, <2>1
<1>14. \A k, l \in FromFiles(r, rels) : k < l => IsBefore(g[k], g[l])
  <2>1. \A k, l \in FromFiles(q, rels) : k < l => IsBefore(h[k], h[l])
    BY <1>1 DEF Tracing
  <2> HIDE DEF g
  <2> TAKE k \in FromFiles(r, rels), l \in FromFiles(r, rels)
  <2> HAVE k < l
  <2>2. k \in FromFiles(q, rels)
    BY <1>7, <1>8
  <2>3. CASE l \in FromFiles(q, rels)
    BY <1>9, <2>1, <2>2, <2>3
  <2>4. CASE l = n + 1
    BY <1>9, <1>10, <2>2, <2>4
  <2> QED
    BY <1>7, <2>3, <2>4
<1>15. Tracing(g, r, P \cup {p}, file, rels)
  <2> HIDE DEF g
  <2> QED
    BY <1>12, <1>13, <1>14 DEF Tracing
<1> HIDE DEF g
<1> QED
  BY <1>3, <1>15 DEF Traced

LEMMA TracedOthers ==
  ASSUME NEW q, IsList(q), NEW P, NEW file, NEW rels, Traced(q, P, file, rels),
         NEW y, IsList(y), \A k \in DOMAIN y : y[k].id \notin rels
  PROVE  Traced(q \o y, P, file, rels)
<1>1. PICK h : Tracing(h, q, P, file, rels)
  BY DEF Traced
<1>2. PICK n \in Nat : n = Len(q) /\ DOMAIN q = 1..n
  BY ListFacts
<1>3. PICK m \in Nat : m = Len(y) /\ DOMAIN y = 1..m
  BY ListFacts
<1>4. PICK r : r = q \o y
  OBVIOUS
<1>5. /\ IsList(r) /\ Len(r) = n + m
      /\ \A k \in 1..n : r[k] = q[k]
      /\ \A k \in n + 1..n + m : r[k] = y[k - n]
  BY <1>2, <1>3, <1>4, ListsJoined
<1>6. DOMAIN r = 1..n + m
  BY <1>5, ListFacts
<1>7. \A k \in n + 1..n + m : r[k].id \notin rels
  <2> TAKE k \in n + 1..n + m
  <2>1. k - n \in 1..m
    OBVIOUS
  <2> QED
    BY <1>3, <1>5, <2>1
<1>8. FromFiles(r, rels) = FromFiles(q, rels)
  <2>1. \A k \in 1..n + m : k \in 1..n \/ k \in n + 1..n + m
    OBVIOUS
  <2>2. \A k \in 1..n : k \in 1..n + m
    OBVIOUS
  <2> QED
    BY <1>2, <1>5, <1>6, <1>7, <2>1, <2>2 DEF FromFiles
<1>9. \A k \in FromFiles(q, rels) : r[k] = q[k]
  BY <1>2, <1>5 DEF FromFiles
<1>10. Tracing(h, r, P, file, rels)
  BY <1>1, <1>8, <1>9 DEF Tracing
<1> QED
  BY <1>4, <1>10 DEF Traced

(* Where the files' events are: those of the places read so far, in the    *)
(* list or the queue of their multiplexer.                                 *)
Kinds == {"list", "que"}

LandsIn(mux, kind) ==
  {p \in CsvPlaces : /\ Multiplexer(prog.sources[p[1]]) = mux
                     /\ (CsvFile[p].order = 0) = (kind = "list")}

ReadOf(P, at) == {p \in P : IsBefore(p, at)}

AtLine(at) ==
  /\ at = <<at[1], at[2]>> /\ at[1] \in Nat /\ at[2] \in Nat
  /\ at[1] \in 1..Len(prog.sources) + 1
  /\ at[1] <= Len(prog.sources) => at[2] \in DOMAIN prog.sources[at[1]].lines

Queues(ev) ==
  /\ ev = [mux \in Muxes |-> ev[mux]]
  /\ \A mux \in Muxes : ev[mux] = [list |-> ev[mux].list, que |-> ev[mux].que]

HasRead(ev, mux, at) ==
  /\ AllRaw(ev[mux].list, CsvServed(mux)) /\ Typed(ev[mux].list)
  /\ AllRaw(ev[mux].que, Served(mux)) /\ Typed(ev[mux].que)
  /\ Traced(ev[mux].list, ReadOf(LandsIn(mux, "list"), at), CsvFile, CsvRelations)
  /\ Traced(ev[mux].que, ReadOf(LandsIn(mux, "que"), at), CsvFile, CsvRelations)

ReadSoFar(ev, at) == AtLine(at) /\ Queues(ev) /\ \A mux \in Muxes : HasRead(ev, mux, at)

(* The files of the program are those of the next state.                   *)
LEMMA SameFiles ==
  ASSUME UNCHANGED programVars
  PROVE  /\ CsvPlaces' = CsvPlaces /\ CsvFile' = CsvFile /\ CsvRelations' = CsvRelations
         /\ \A mux, kind : LandsIn(mux, kind)' = LandsIn(mux, kind)
         /\ \A mux : Served(mux)' = Served(mux) /\ CsvServed(mux)' = CsvServed(mux)
         /\ \A at : AtLine(at)' = AtLine(at)
         /\ Ids' = Ids /\ registry' = registry /\ prog' = prog
<1>1. prog' = prog /\ registry' = registry
  BY DEF programVars
<1>2. CsvInputs' = CsvInputs
  BY <1>1 DEF CsvInputs
<1>3. \A p : LineEvents(p)' = LineEvents(p)
  BY <1>1 DEF LineEvents
<1>4. CsvPlaces' = CsvPlaces
  BY <1>1, <1>2, <1>3 DEF CsvPlaces
<1>5. CsvFile' = CsvFile
  BY <1>3, <1>4 DEF CsvFile
<1>6. CsvRelations' = CsvRelations
  BY <1>1, <1>2 DEF CsvRelations
<1>7. \A mux, kind : LandsIn(mux, kind)' = LandsIn(mux, kind)
  BY <1>1, <1>4, <1>5 DEF LandsIn
<1>8. Ids' = Ids
  BY <1>1 DEF Ids
<1>9. \A mux : Served(mux)' = Served(mux)
  BY <1>1, <1>8 DEF Served
<1>10. \A mux : CsvServed(mux)' = CsvServed(mux)
  BY <1>1, <1>2 DEF CsvServed
<1>11. \A at : AtLine(at)' = AtLine(at)
  BY <1>1 DEF AtLine
<1> QED
  BY <1>1, <1>4, <1>5, <1>6, <1>7, <1>8, <1>9, <1>10, <1>11

LEMMA StartsUnread ==
  ASSUME UnderWay
  PROVE  ReadSoFar([mux \in Muxes |-> [list |-> <<>>, que |-> <<>>]], <<1, 1>>)
<1>1. PICK n \in Nat : n = Len(prog.sources) /\ DOMAIN prog.sources = 1..n
  BY SourcesFit
<1>2. AtLine(<<1, 1>>)
  <2>1. ASSUME 1 <= n
        PROVE  1 \in DOMAIN prog.sources[1].lines
    <3>1. SourceIn(1, Multiplexer(prog.sources[1]))
      BY <1>1, <2>1, SourcesFit
    <3> QED
      BY <3>1 DEF SourceIn
  <2> QED
    BY <1>1, <2>1 DEF AtLine
<1>3. PICK ev : ev = [mux \in Muxes |-> [list |-> <<>>, que |-> <<>>]]
  OBVIOUS
<1>4. \A mux \in Muxes : ev[mux].list = <<>> /\ ev[mux].que = <<>>
  BY <1>3
<1>5. Queues(ev)
  BY <1>3, <1>4 DEF Queues
<1>6. \A P : ReadOf(P \cap CsvPlaces, <<1, 1>>) = {}
  <2> SUFFICES ASSUME NEW P, NEW p \in ReadOf(P \cap CsvPlaces, <<1, 1>>)
               PROVE  FALSE
    OBVIOUS
  <2>1. p \in CsvPlaces /\ IsBefore(p, <<1, 1>>)
    BY DEF ReadOf
  <2>2. p[1] \in DOMAIN prog.sources /\ p[2] \in DOMAIN prog.sources[p[1]].lines
    BY <2>1, PlacesAre DEF CsvInputs
  <2>3. p[1] >= 1 /\ p[2] >= 1 /\ p[1] \in Int /\ p[2] \in Int
    <3>1. SourceIn(p[1], Multiplexer(prog.sources[p[1]]))
      BY <2>2, SourcesFit
    <3>2. PICK m \in Nat : DOMAIN prog.sources[p[1]].lines = 1..m
      BY <3>1 DEF SourceIn
    <3> QED
      BY <1>1, <2>2, <3>2
  <2> QED
    BY <2>1, <2>3 DEF IsBefore
<1>7. \A mux, kind : ReadOf(LandsIn(mux, kind), <<1, 1>>) = {}
  <2> TAKE mux, kind
  <2>1. LandsIn(mux, kind) = LandsIn(mux, kind) \cap CsvPlaces
    BY DEF LandsIn
  <2> QED
    BY <1>6, <2>1
<1>8. Traced(<<>>, {}, CsvFile, CsvRelations)
  <2>1. FromFiles(<<>>, CsvRelations) = {}
    BY DEF FromFiles
  <2>2. Tracing(<<>>, <<>>, {}, CsvFile, CsvRelations)
    BY <2>1 DEF Tracing, Matching
  <2> QED
    BY <2>2 DEF Traced
<1>9. \A mux \in Muxes : HasRead(ev, mux, <<1, 1>>)
  BY <1>4, <1>7, <1>8, NoEvents, TypedAlone DEF HasRead, Typed
<1> QED
  BY <1>2, <1>3, <1>5, <1>9 DEF ReadSoFar

(* The next line stands behind those that were read and this one.          *)
LEMMA NextIs ==
  ASSUME UnderWay, NEW at, AtLine(at), at[1] <= Len(prog.sources), NEW next,
         next = NextLine(prog, at[1], at[2])
  PROVE  /\ AtLine(next)
         /\ \A p \in CsvPlaces : IsBefore(p, next) <=> IsBefore(p, at) \/ p = at
         /\ ~IsBefore(at, at)
<1>1. PICK n \in Nat : n = Len(prog.sources) /\ DOMAIN prog.sources = 1..n
  BY SourcesFit
<1>2. PICK i, l : at = <<i, l>>
  BY DEF AtLine
<1>3. i \in 1..n
  BY <1>1, <1>2 DEF AtLine
<1>4. \A j \in 1..n : \E m \in Nat : m = Len(prog.sources[j].lines) /\ DOMAIN prog.sources[j].lines = 1..m /\ m > 0
  <2> TAKE j \in 1..n
  <2>1. SourceIn(j, Multiplexer(prog.sources[j]))
    BY <1>1, SourcesFit
  <2> QED
    BY <2>1 DEF SourceIn
<1>5. PICK m \in Nat : m = Len(prog.sources[i].lines) /\ DOMAIN prog.sources[i].lines = 1..m /\ m > 0
  BY <1>3, <1>4
<1>6. l \in 1..m
  BY <1>1, <1>2, <1>3, <1>5 DEF AtLine
<1>7. next = IF l < m THEN <<i, l + 1>> ELSE <<i + 1, 1>>
  BY <1>2, <1>5 DEF NextLine
<1>8. AtLine(next)
  <2>1. CASE l < m
    <3>1. next[1] = i /\ next[2] = l + 1 /\ next = <<next[1], next[2]>>
      BY <1>7, <2>1
    <3> QED
      BY <1>1, <1>3, <1>5, <1>6, <2>1, <3>1 DEF AtLine
  <2>2. CASE ~(l < m)
    <3>1. next[1] = i + 1 /\ next[2] = 1 /\ next = <<next[1], next[2]>>
      BY <1>7, <2>2
    <3>2. i + 1 <= n => 1 \in DOMAIN prog.sources[i + 1].lines
      <4> SUFFICES ASSUME i + 1 <= n
                   PROVE  1 \in DOMAIN prog.sources[i + 1].lines
        OBVIOUS
      <4>1. i + 1 \in 1..n
        BY <1>3
      <4>2. PICK j \in 1..n : j = i + 1
        BY <4>1
      <4>3. PICK k \in Nat : DOMAIN prog.sources[j].lines = 1..k /\ k > 0
        BY <1>4
      <4> QED
        BY <4>2, <4>3
    <3> QED
      BY <1>1, <1>3, <3>1, <3>2 DEF AtLine
  <2> QED
    BY <2>1, <2>2
<1>9. ASSUME NEW p \in CsvPlaces
      PROVE  IsBefore(p, next) <=> IsBefore(p, at) \/ p = at
  <2>1. p = <<p[1], p[2]>> /\ p[1] \in 1..n /\ p[2] \in DOMAIN prog.sources[p[1]].lines
    BY <1>1, PlacesAre DEF CsvInputs
  <2>2. PICK x, y : x \in 1..n /\ p = <<x, y>> /\ y \in DOMAIN prog.sources[x].lines
    BY <2>1
  <2>3. PICK k \in Nat : DOMAIN prog.sources[x].lines = 1..k
    BY <1>4, <2>2
  <2>4. y \in 1..k
    BY <2>2, <2>3
  <2>5. x = i => k = m
    BY <1>5, <2>3
  <2>6. IsBefore(<<x, y>>, <<i, l>>) <=> x < i \/ (x = i /\ y < l)
    BY DEF IsBefore
  <2>7. CASE l < m
    <3>1. IsBefore(<<x, y>>, next) <=> x < i \/ (x = i /\ y < l + 1)
      BY <1>7, <2>7 DEF IsBefore
    <3> QED
      BY <1>2, <1>6, <2>2, <2>4, <2>6, <3>1
  <2>8. CASE ~(l < m)
    <3>1. IsBefore(<<x, y>>, next) <=> x < i + 1 \/ (x = i + 1 /\ y < 1)
      BY <1>7, <2>8 DEF IsBefore
    <3>2. x = i => y \in 1..m
      BY <2>4, <2>5
    <3> QED
      BY <1>2, <1>3, <1>6, <2>2, <2>4, <2>6, <2>8, <3>1, <3>2
  <2> QED
    BY <2>7, <2>8
<1>10. ~IsBefore(at, at)
  BY <1>2, <1>3, <1>6 DEF IsBefore
<1> QED
  BY <1>8, <1>9, <1>10

(* What a line adds to a queue for the places P: its event, if it is one   *)
(* of them, and otherwise nothing of the files' relations.                 *)
Adds(y, P, at) ==
  IF at \in P THEN y = <<CsvFile[at]>>
  ELSE IsList(y) /\ \A k \in DOMAIN y : y[k].id \notin CsvRelations

LEMMA Grows ==
  ASSUME UnderWay, NEW at, AtLine(at), at[1] <= Len(prog.sources), NEW next,
         next = NextLine(prog, at[1], at[2]),
         NEW P, P \subseteq CsvPlaces, NEW q, IsList(q),
         Traced(q, ReadOf(P, at), CsvFile, CsvRelations), NEW y, Adds(y, P, at)
  PROVE  Traced(q \o y, ReadOf(P, next), CsvFile, CsvRelations)
<1>1. /\ \A p \in CsvPlaces : IsBefore(p, next) <=> IsBefore(p, at) \/ p = at
      /\ ~IsBefore(at, at)
  BY NextIs
<1>2. CASE at \notin P
  <2>1. ReadOf(P, next) = ReadOf(P, at)
    BY <1>1, <1>2 DEF ReadOf
  <2>2. IsList(y) /\ \A k \in DOMAIN y : y[k].id \notin CsvRelations
    BY <1>2 DEF Adds
  <2> QED
    BY <2>1, <2>2, TracedOthers
<1>3. CASE at \in P
  <2>1. ReadOf(P, next) = ReadOf(P, at) \cup {at}
    BY <1>1, <1>3 DEF ReadOf
  <2>2. y = <<CsvFile[at]>>
    BY <1>3 DEF Adds
  <2>3. ArePlaces(ReadOf(P, at) \cup {at})
    BY <1>3, PlacesAre DEF ReadOf, ArePlaces
  <2>4. CsvFile[at].id \in CsvRelations
    <3>1. at \in CsvPlaces
      BY <1>3
    <3>2. at[1] \in CsvInputs /\ CsvFile[at].id = prog.sources[at[1]].adaptor.rel
      BY <3>1, PlacesAre
    <3> QED
      BY <3>2 DEF CsvRelations
  <2>5. \A o \in ReadOf(P, at) : IsBefore(o, at)
    BY DEF ReadOf
  <2>6. PICK ev : ev = CsvFile[at]
    OBVIOUS
  <2>7. Traced(q \o <<ev>>, ReadOf(P, at) \cup {at}, CsvFile, CsvRelations)
    BY <2>3, <2>4, <2>5, <2>6, TracedLonger
  <2> QED
    BY <2>1, <2>2, <2>6, <2>7
<1> QED
  BY <1>2, <1>3

(* What a line adds to its multiplexer.                                    *)
LineAdds(mux, x, y, at) ==
  /\ AllRaw(x, CsvServed(mux)) /\ Typed(x)
  /\ AllRaw(y, Served(mux)) /\ Typed(y)
  /\ Adds(x, LandsIn(mux, "list"), at) /\ Adds(y, LandsIn(mux, "que"), at)

LEMMA CsvAdds ==
  ASSUME UnderWay, NEW at, AtLine(at), at[1] \in CsvInputs, NEW e,
         e = CsvEvents(prog.sources[at[1]].adaptor, prog.sources[at[1]].lines[at[2]]),
         NEW mux, mux = Multiplexer(prog.sources[at[1]])
  PROVE  LineAdds(mux, e.list, e.que, at)
<1>1. PICK i, l : at = <<i, l>>
  BY DEF AtLine
<1>2. i \in DOMAIN prog.sources /\ prog.sources[i].adaptor.kind = "csv"
  BY <1>1 DEF CsvInputs
<1>3. l \in DOMAIN prog.sources[i].lines
  <2>1. PICK n \in Nat : n = Len(prog.sources) /\ DOMAIN prog.sources = 1..n
    BY SourcesFit
  <2> QED
    BY <1>1, <1>2, <2>1 DEF AtLine
<1>4. SourceIn(i, mux)
  BY <1>1, <1>2, SourcesFit
<1>5. PICK a, line : a = prog.sources[i].adaptor /\ line = prog.sources[i].lines[l]
  OBVIOUS
<1>6. /\ a.kind = "csv" /\ a.rel \in Nat /\ a.type \in {"insert", "delete"}
      /\ IsValid(a, line) => Interpret(a, line).order \in Int
      /\ prog.batch <= 1 => RelationsOf(a) \X EventTypes(a) \subseteq registry.triggers
  BY <1>2, <1>3, <1>4, <1>5 DEF SourceIn
<1>7. a.rel \in CsvServed(mux)
  BY <1>1, <1>5 DEF CsvServed
<1>8. a.rel \in Served(mux)
  <2>1. a.rel \in RelationsOf(a)
    BY <1>2, <1>5 DEF RelationsOf
  <2> QED
    BY <1>4, <1>5, <2>1 DEF SourceIn
<1>9. e = CsvEvents(a, line)
  BY <1>1, <1>5
<1>10. AllRaw(<<>>, CsvServed(mux)) /\ AllRaw(<<>>, Served(mux)) /\ Typed(<<>>)
  BY NoEvents, TypedAlone DEF Typed
<1>11. ASSUME NEW P, at \notin P
       PROVE  Adds(<<>>, P, at)
  <2>1. IsList(<<>>) /\ DOMAIN <<>> = {}
    BY NoEvents DEF AllRaw
  <2> QED
    BY <1>11, <2>1 DEF Adds
<1>12. i \in CsvInputs
  BY <1>1
<1>13. CASE e.list = <<>> /\ e.que = <<>>
  <2>1. <<i, l>> \notin CsvPlaces
    BY <1>3, <1>5, <1>9, <1>12, <1>13, PlaceIs
  <2>2. at \notin LandsIn(mux, "list") /\ at \notin LandsIn(mux, "que")
    BY <1>1, <2>1 DEF LandsIn
  <2> QED
    BY <1>10, <1>11, <1>13, <2>2 DEF LineAdds
<1>14. CASE ~(e.list = <<>> /\ e.que = <<>>)
  <2>1. PICK ev : /\ IsRaw(ev, {a.rel}) /\ ev.order \in Nat /\ ev.type \in EventTypes(a)
                  /\ Lands(e, ev)
    BY <1>6, <1>9, <1>14, CsvLineIs
  <2>2. at \in CsvPlaces /\ CsvFile[at] = ev
    <3>1. e = CsvEvents(prog.sources[i].adaptor, prog.sources[i].lines[l])
      BY <1>5, <1>9
    <3>2. \A v : Lands(e, v) => <<i, l>> \in CsvPlaces /\ CsvFile[<<i, l>>] = v
      BY <1>3, <1>12, <3>1, PlaceIs
    <3> QED
      BY <1>1, <2>1, <3>2
  <2>3. Multiplexer(prog.sources[at[1]]) = mux
    OBVIOUS
  <2>4. IsRaw(ev, CsvServed(mux)) /\ IsRaw(ev, Served(mux))
    BY <1>7, <1>8, <2>1 DEF IsRaw
  <2>5. AllRaw(<<ev>>, CsvServed(mux)) /\ AllRaw(<<ev>>, Served(mux)) /\ Typed(<<ev>>)
    <3>1. ev.id \in RelationsOf(a)
      BY <1>6, <2>1 DEF IsRaw, RelationsOf
    <3>2. prog.batch <= 1 => <<ev.id, ev.type>> \in registry.triggers
      BY <1>6, <2>1, <3>1
    <3> QED
      BY <2>4, <3>2, RawAlone, TypedAlone DEF Typed
  <2>6. CASE ev.order = 0
    <3>1. at \in LandsIn(mux, "list") /\ at \notin LandsIn(mux, "que")
      BY <2>2, <2>3, <2>6 DEF LandsIn
    <3>2. e.list = <<ev>> /\ e.que = <<>>
      BY <2>1, <2>6 DEF Lands
    <3>3. Adds(<<ev>>, LandsIn(mux, "list"), at)
      BY <2>2, <3>1 DEF Adds
    <3> QED
      BY <1>10, <1>11, <2>5, <3>1, <3>2, <3>3 DEF LineAdds
  <2>7. CASE ev.order # 0
    <3>1. at \in LandsIn(mux, "que") /\ at \notin LandsIn(mux, "list")
      BY <2>2, <2>3, <2>7 DEF LandsIn
    <3>2. e.list = <<>> /\ e.que = <<ev>>
      BY <2>1, <2>7 DEF Lands
    <3>3. Adds(<<ev>>, LandsIn(mux, "que"), at)
      BY <2>2, <3>1 DEF Adds
    <3> QED
      BY <1>10, <1>11, <2>5, <3>1, <3>2, <3>3 DEF LineAdds
  <2> QED
    BY <2>6, <2>7
<1> QED
  BY <1>13, <1>14

LEMMA BookAdds ==
  ASSUME UnderWay, NEW at, AtLine(at), at[1] <= Len(prog.sources),
         NEW a, a = prog.sources[at[1]].adaptor, a.kind = "book",
         NEW line, line = prog.sources[at[1]].lines[at[2]], NEW b, NEW broker,
         NEW mux, mux = Multiplexer(prog.sources[at[1]])
  PROVE  LineAdds(mux, <<>>, ProcessMessage(a, b, line, broker).events, at)
<1>1. PICK i, l : at = <<i, l>>
  BY DEF AtLine
<1>2. i \in DOMAIN prog.sources /\ l \in DOMAIN prog.sources[i].lines
  <2>1. PICK n \in Nat : n = Len(prog.sources) /\ DOMAIN prog.sources = 1..n
    BY SourcesFit
  <2> QED
    BY <1>1, <2>1 DEF AtLine
<1>3. SourceIn(i, mux)
  BY <1>1, <1>2, SourcesFit
<1>4. line.t \in Int
  BY <1>1, <1>2, <1>3 DEF SourceIn
<1>5. PICK y : y = ProcessMessage(a, b, line, broker).events
  OBVIOUS
<1>6. AllRaw(y, RelationsOf(a)) /\ TypedIn(y, RelationsOf(a) \X EventTypes(a))
  BY <1>4, <1>5, MessageRaw DEF FromBook
<1>7. /\ RelationsOf(a) \subseteq Served(mux)
      /\ prog.batch <= 1 => RelationsOf(a) \X EventTypes(a) \subseteq registry.triggers
  BY <1>1, <1>3 DEF SourceIn
<1>8. AllRaw(y, Served(mux)) /\ Typed(y)
  <2>1. AllRaw(y, Served(mux))
    BY <1>6, <1>7 DEF AllRaw, IsRaw
  <2>2. Typed(y)
    BY <1>6, <1>7 DEF Typed, TypedIn
  <2> QED
    BY <2>1, <2>2
<1>9. \A id \in RelationsOf(a) : id \notin CsvRelations
  <2> SUFFICES ASSUME NEW id \in RelationsOf(a), id \in CsvRelations
               PROVE  FALSE
    OBVIOUS
  <2>1. PICK j \in CsvInputs : id = prog.sources[j].adaptor.rel
    BY DEF CsvRelations
  <2>2. j \in DOMAIN prog.sources /\ prog.sources[j].adaptor.kind = "csv"
    BY <2>1 DEF CsvInputs
  <2>3. SourceIn(j, Multiplexer(prog.sources[j]))
    BY <2>2, SourcesFit
  <2>4. prog.sources[i].adaptor.kind = "book" /\ id \in RelationsOf(prog.sources[i].adaptor)
    BY <1>1
  <2> QED
    BY <1>2, <2>1, <2>2, <2>3, <2>4 DEF SourceIn
<1>10. at \notin CsvPlaces
  <2>1. i \notin CsvInputs
    BY <1>1 DEF CsvInputs
  <2> QED
    BY <1>1, <2>1, PlacesAre
<1>11. \A P : P \subseteq CsvPlaces => Adds(<<>>, P, at) /\ Adds(y, P, at)
  <2>1. IsList(<<>>) /\ DOMAIN <<>> = {}
    BY NoEvents DEF AllRaw
  <2>2. IsList(y) /\ \A k \in DOMAIN y : y[k].id \notin CsvRelations
    BY <1>6, <1>9 DEF AllRaw, IsRaw
  <2> QED
    BY <1>10, <2>1, <2>2 DEF Adds
<1>12. LandsIn(mux, "list") \subseteq CsvPlaces /\ LandsIn(mux, "que") \subseteq CsvPlaces
  BY DEF LandsIn
<1> QED
  BY <1>5, <1>8, <1>11, <1>12, NoEvents, TypedAlone DEF LineAdds, Typed

LEMMA MuxGrows ==
  ASSUME UnderWay, NEW at, AtLine(at), at[1] <= Len(prog.sources), NEW next,
         next = NextLine(prog, at[1], at[2]),
         NEW ev, NEW new, NEW mux \in Muxes, HasRead(ev, mux, at), NEW x, NEW y,
         LineAdds(mux, x, y, at),
         new[mux].list = ev[mux].list \o x, new[mux].que = ev[mux].que \o y
  PROVE  HasRead(new, mux, next)
<1>1. AllRaw(new[mux].list, CsvServed(mux)) /\ AllRaw(new[mux].que, Served(mux))
  BY RawJoined DEF HasRead, LineAdds
<1>1a. Typed(new[mux].list) /\ Typed(new[mux].que)
  <2>1. IsList(ev[mux].list) /\ IsList(ev[mux].que) /\ IsList(x) /\ IsList(y)
    BY DEF HasRead, LineAdds, AllRaw
  <2>2. Typed(ev[mux].list) /\ Typed(ev[mux].que) /\ Typed(x) /\ Typed(y)
    BY DEF HasRead, LineAdds
  <2> QED
    BY <2>1, <2>2, TypedJoined DEF Typed
<1>2. IsList(ev[mux].list) /\ IsList(ev[mux].que)
  BY DEF HasRead, AllRaw
<1>3. LandsIn(mux, "list") \subseteq CsvPlaces /\ LandsIn(mux, "que") \subseteq CsvPlaces
  BY DEF LandsIn
<1>4. PICK q : q = ev[mux].list
  OBVIOUS
<1>5. Traced(q \o x, ReadOf(LandsIn(mux, "list"), next), CsvFile, CsvRelations)
  BY <1>2, <1>3, <1>4, Grows DEF HasRead, LineAdds
<1>6. PICK r : r = ev[mux].que
  OBVIOUS
<1>7. Traced(r \o y, ReadOf(LandsIn(mux, "que"), next), CsvFile, CsvRelations)
  BY <1>2, <1>3, <1>6, Grows DEF HasRead, LineAdds
<1> QED
  BY <1>1, <1>1a, <1>4, <1>5, <1>6, <1>7 DEF HasRead

(* A line of another multiplexer's source adds nothing to this one.        *)
LEMMA OthersWait ==
  ASSUME UnderWay, NEW at, AtLine(at), at[1] <= Len(prog.sources), NEW next,
         next = NextLine(prog, at[1], at[2]),
         NEW ev, NEW new, NEW mux, mux = Multiplexer(prog.sources[at[1]]),
         \A m \in Muxes : HasRead(ev, m, at),
         \A m \in Muxes : m # mux => new[m] = ev[m]
  PROVE  \A m \in Muxes : m # mux => HasRead(new, m, next)
<1> SUFFICES ASSUME NEW m \in Muxes, m # mux
             PROVE  HasRead(new, m, next)
  OBVIOUS
<1>1. \A p \in CsvPlaces : IsBefore(p, next) <=> IsBefore(p, at) \/ p = at
  BY NextIs
<1>2. \A kind : ReadOf(LandsIn(m, kind), next) = ReadOf(LandsIn(m, kind), at)
  BY <1>1 DEF ReadOf, LandsIn
<1>3. new[m] = ev[m] /\ HasRead(ev, m, at)
  OBVIOUS
<1> QED
  BY <1>2, <1>3 DEF HasRead

Appended(new, ev, mux, x, y) ==
  new = [ev EXCEPT ![mux] = [list |-> ev[mux].list \o x, que |-> ev[mux].que \o y]]

LEMMA LinesRead ==
  ASSUME UnderWay, NEW at, AtLine(at), at[1] <= Len(prog.sources), NEW next,
         next = NextLine(prog, at[1], at[2]),
         NEW ev, ReadSoFar(ev, at), NEW mux, mux = Multiplexer(prog.sources[at[1]]),
         NEW x, NEW y, LineAdds(mux, x, y, at),
         NEW new, Appended(new, ev, mux, x, y)
  PROVE  ReadSoFar(new, next)
<1>1. mux \in Muxes
  BY DEF Multiplexer, Muxes
<1>2. ev = [m \in Muxes |-> ev[m]]
  BY DEF ReadSoFar, Queues
<1>3. /\ new = [m \in Muxes |-> new[m]]
      /\ \A m \in Muxes : m # mux => new[m] = ev[m]
      /\ new[mux] = [list |-> ev[mux].list \o x, que |-> ev[mux].que \o y]
  <2>1. DOMAIN ev = Muxes
    BY <1>2
  <2> QED
    BY <1>1, <1>2, <2>1 DEF Appended
<1>4. AtLine(next)
  BY NextIs
<1>5. Queues(new)
  <2>1. \A m \in Muxes : ev[m] = [list |-> ev[m].list, que |-> ev[m].que]
    BY DEF ReadSoFar, Queues
  <2>2. new[mux] = [list |-> new[mux].list, que |-> new[mux].que]
    BY <1>3
  <2> QED
    BY <1>3, <2>1, <2>2 DEF Queues
<1>6. \A m \in Muxes : HasRead(ev, m, at)
  BY DEF ReadSoFar
<1>7. HasRead(new, mux, next)
  <2>1. new[mux].list = ev[mux].list \o x /\ new[mux].que = ev[mux].que \o y
    <3>1. PICK u, v, r : u = ev[mux].list \o x /\ v = ev[mux].que \o y /\ r = new[mux]
      OBVIOUS
    <3>2. r = [list |-> u, que |-> v]
      BY <1>3, <3>1
    <3>3. r.list = u /\ r.que = v
      BY <3>2
    <3> QED
      BY <3>1, <3>3
  <2> QED
    BY <1>1, <1>6, <2>1, MuxGrows
<1>8. \A m \in Muxes : m # mux => HasRead(new, m, next)
  <2>1. \A m \in Muxes : m # mux => new[m] = ev[m]
    BY <1>3
  <2> QED
    BY <1>6, <2>1, OthersWait
<1> QED
  BY <1>4, <1>5, <1>7, <1>8 DEF ReadSoFar

LEMMA ReadReads ==
  ASSUME UnderWay, ReadSoFar(events, read), ReadLine
  PROVE  ReadSoFar(events', read')
<1>1. PICK i, l : read = <<i, l>>
  BY DEF ReadSoFar, AtLine
<1>2. AtLine(read) /\ read[1] <= Len(prog.sources) /\ read' = NextLine(prog, read[1], read[2])
  BY DEF ReadLine, ReadSoFar
<1>3. PICK a, line, mux : /\ a = prog.sources[read[1]].adaptor
                          /\ line = prog.sources[read[1]].lines[read[2]]
                          /\ mux = Multiplexer(prog.sources[read[1]])
  OBVIOUS
<1>4. read[1] \in DOMAIN prog.sources
  <2>1. PICK n \in Nat : n = Len(prog.sources) /\ DOMAIN prog.sources = 1..n
    BY SourcesFit
  <2> QED
    BY <1>2, <2>1 DEF AtLine
<1>5. CASE a.kind = "csv"
  <2>1. PICK e : e = CsvEvents(a, line)
    OBVIOUS
  <2>2. read[1] \in CsvInputs
    BY <1>3, <1>4, <1>5 DEF CsvInputs
  <2>3. LineAdds(mux, e.list, e.que, read)
    BY <1>2, <1>3, <2>1, <2>2, CsvAdds
  <2>4. events' = [events EXCEPT ![mux] = [list |-> events[mux].list \o e.list,
                                           que |-> events[mux].que \o e.que]]
    BY <1>3, <1>5, <2>1 DEF ReadLine
  <2> QED
    BY <1>2, <1>3, <2>3, <2>4, LinesRead DEF Appended
<1>6. CASE a.kind = "book"
  <2>1. PICK broker : events' = [events EXCEPT ![mux].que = events[mux].que \o
                                   ProcessMessage(a, books[read[1]], line, broker).events]
    BY <1>3, <1>6 DEF ReadLine
  <2>2. PICK y : y = ProcessMessage(a, books[read[1]], line, broker).events
    OBVIOUS
  <2>3. LineAdds(mux, <<>>, y, read)
    BY <1>2, <1>3, <1>6, <2>2, BookAdds
  <2>4. mux \in Muxes
    BY <1>3 DEF Multiplexer, Muxes
  <2>5. events[mux] = [list |-> events[mux].list, que |-> events[mux].que]
    BY <2>4 DEF ReadSoFar, Queues
  <2>6. events[mux].list \o <<>> = events[mux].list
    <3>1. PICK S : events[mux].list \in Seq(S)
      BY <2>4 DEF ReadSoFar, HasRead, AllRaw, IsList
    <3> QED
      BY <3>1
  <2>7. events' = [events EXCEPT ![mux] = [list |-> events[mux].list \o <<>>,
                                           que |-> events[mux].que \o y]]
    <3>1. [events[mux] EXCEPT !.que = events[mux].que \o y]
            = [list |-> events[mux].list, que |-> events[mux].que \o y]
      <4>1. PICK r, u, v, w : /\ r = events[mux] /\ u = r.list /\ v = r.que /\ w = v \o y
        OBVIOUS
      <4>2. r = [list |-> u, que |-> v]
        BY <2>5, <4>1
      <4>3. [r EXCEPT !.que = w] = [list |-> u, que |-> w]
        BY <4>2
      <4> QED
        BY <4>1, <4>3
    <3>2. events' = [events EXCEPT ![mux] = [events[mux] EXCEPT !.que = events[mux].que \o y]]
      BY <2>1, <2>2
    <3> QED
      BY <2>6, <3>1, <3>2
  <2> QED
    BY <1>2, <1>3, <2>3, <2>7, LinesRead DEF Appended
<1>7. a.kind = "csv" \/ a.kind = "book"
  BY <1>3 DEF ReadLine
<1> QED
  BY <1>5, <1>6, <1>7

(* The places whose lines make the change c.                               *)
MakeIt(P, c) == {p \in P : ChangeOf(CsvFile[p]) = c}

Counted(n, P, c) == IsFiniteSet(MakeIt(P, c)) /\ n = Cardinality(MakeIt(P, c)) /\ n \in Nat

LEMMA TracedTally ==
  ASSUME NEW q, NEW I, AllRaw(q, I), NEW P, Traced(q, P, CsvFile, CsvRelations),
         NEW c, c.rel \in CsvRelations
  PROVE  Counted(Tally(q, c), P, c)
<1>1. PICK h : Tracing(h, q, P, CsvFile, CsvRelations)
  BY DEF Traced
<1>2. PICK n \in Nat : DOMAIN q = 1..n
  BY ListFacts DEF AllRaw
<1>3. IsFiniteSet(Where(q, 1..n, c)) /\ TallyOver(q, 1..n, c) \in Nat
  <2>1. Sizes(q, 1..n)
    BY <1>2, RawIsSent, SentSizes
  <2>2. IsFiniteSet(1..n)
    BY FS_Interval
  <2> QED
    BY <2>1, <2>2, WhereFinite
<1> DEFINE W == Where(q, 1..n, c)
           m == [x \in W |-> h[x[1]]]
<1>4. \A x : x \in W <=> /\ x = <<x[1], 1>> /\ x[1] \in FromFiles(q, CsvRelations)
                         /\ ChangeOf(q[x[1]]) = c
  <2> TAKE x
  <2>1. \A k \in 1..n : Changes(q[k]) = <<ChangeOf(q[k])>>
    BY <1>2, RawChanges DEF AllRaw
  <2>2. ASSUME x \in W
        PROVE  /\ x = <<x[1], 1>> /\ x[1] \in FromFiles(q, CsvRelations)
               /\ ChangeOf(q[x[1]]) = c
    <3>1. x \in (1..n) \X Nat /\ x[2] \in DOMAIN Changes(q[x[1]]) /\ Changes(q[x[1]])[x[2]] = c
      BY <2>2 DEF Where
    <3>2. PICK k \in 1..n, j \in Nat : x = <<k, j>>
      BY <3>1
    <3>3. j = 1 /\ ChangeOf(q[k]) = c
      BY <2>1, <3>1, <3>2
    <3>4. q[k].id \in CsvRelations
      BY <3>3 DEF ChangeOf
    <3> QED
      BY <1>2, <3>2, <3>3, <3>4 DEF FromFiles
  <2>3. ASSUME x = <<x[1], 1>>, x[1] \in FromFiles(q, CsvRelations), ChangeOf(q[x[1]]) = c
        PROVE  x \in W
    <3>1. PICK k \in 1..n : x = <<k, 1>> /\ ChangeOf(q[k]) = c
      BY <1>2, <2>3 DEF FromFiles
    <3>2. Changes(q[k]) = <<c>>
      BY <2>1, <3>1
    <3>3. 1 \in DOMAIN <<c>> /\ <<c>>[1] = c
      OBVIOUS
    <3> QED
      BY <3>1, <3>2, <3>3 DEF Where
  <2> QED
    BY <2>2, <2>3
<1>5. \A x \in W : m[x] \in MakeIt(P, c)
  <2> TAKE x \in W
  <2>1. x[1] \in FromFiles(q, CsvRelations) /\ ChangeOf(q[x[1]]) = c
    BY <1>4
  <2>2. h[x[1]] \in P /\ q[x[1]] = CsvFile[h[x[1]]]
    BY <1>1, <2>1 DEF Tracing, Matching
  <2> QED
    BY <2>1, <2>2 DEF MakeIt
<1>6. \A x, y \in W : m[x] = m[y] => x = y
  <2> TAKE x \in W, y \in W
  <2> HAVE m[x] = m[y]
  <2>1. x[1] \in FromFiles(q, CsvRelations) /\ y[1] \in FromFiles(q, CsvRelations)
        /\ x = <<x[1], 1>> /\ y = <<y[1], 1>>
    BY <1>4
  <2>2. x[1] = y[1]
    BY <1>1, <2>1 DEF Tracing, Matching
  <2> QED
    BY <2>1, <2>2
<1>7. \A p \in MakeIt(P, c) : \E x \in W : m[x] = p
  <2> TAKE p \in MakeIt(P, c)
  <2>1. p \in P /\ ChangeOf(CsvFile[p]) = c
    BY DEF MakeIt
  <2>2. PICK k \in FromFiles(q, CsvRelations) : h[k] = p
    BY <1>1, <2>1 DEF Tracing, Matching
  <2>3. ChangeOf(q[k]) = c
    BY <1>1, <2>1, <2>2 DEF Tracing
  <2>4. PICK x : x = <<k, 1>>
    OBVIOUS
  <2>5. x \in W
    BY <1>4, <2>2, <2>3, <2>4
  <2>6. m[x] = p
    BY <2>2, <2>4, <2>5
  <2> QED
    BY <2>5, <2>6
<1>8. Matching(m, W, MakeIt(P, c))
  <2> HIDE DEF m, W
  <2> QED
    BY <1>5, <1>6, <1>7 DEF Matching
<1>9. IsFiniteSet(MakeIt(P, c)) /\ Cardinality(MakeIt(P, c)) = Cardinality(W)
  <2> HIDE DEF m
  <2> QED
    BY <1>3, <1>8, MatchedSize
<1> QED
  BY <1>2, <1>3, <1>9 DEF Counted, Tally, TallyOver

LEMMA CountedBoth ==
  ASSUME NEW P, NEW Q, P \cap Q = {}, NEW c, NEW n, NEW m, Counted(n, P, c), Counted(m, Q, c)
  PROVE  Counted(n + m, P \cup Q, c)
<1>1. PICK A, B, U : A = MakeIt(P, c) /\ B = MakeIt(Q, c) /\ U = MakeIt(P \cup Q, c)
  OBVIOUS
<1>2. U = A \cup B /\ A \cap B = {}
  BY <1>1 DEF MakeIt
<1>3. IsFiniteSet(A) /\ IsFiniteSet(B) /\ n = Cardinality(A) /\ m = Cardinality(B) /\ n \in Nat /\ m \in Nat
  BY <1>1 DEF Counted
<1>4. Cardinality(A \cap B) = 0
  BY <1>2, FS_EmptySet
<1>5. IsFiniteSet(U) /\ Cardinality(U) = Cardinality(A) + Cardinality(B) - Cardinality(A \cap B)
  BY <1>2, <1>3, FS_Union
<1>6. Cardinality(U) = n + m
  BY <1>3, <1>4, <1>5
<1> QED
  BY <1>1, <1>3, <1>5, <1>6 DEF Counted

(* When the files are read, everything is where it lands.                  *)
LEMMA AllRead ==
  ASSUME UnderWay, NEW at, AtLine(at), at[1] > Len(prog.sources), NEW mux, NEW kind
  PROVE  ReadOf(LandsIn(mux, kind), at) = LandsIn(mux, kind)
<1> SUFFICES ASSUME NEW p \in LandsIn(mux, kind)
             PROVE  IsBefore(p, at)
  BY DEF ReadOf
<1>1. p[1] \in DOMAIN prog.sources
  BY PlacesAre DEF LandsIn, CsvInputs
<1>2. PICK n \in Nat : n = Len(prog.sources) /\ DOMAIN prog.sources = 1..n
  BY SourcesFit
<1> QED
  BY <1>1, <1>2 DEF AtLine, IsBefore

LEMMA MuxesMix ==
  ASSUME UnderWay, NEW mux \in Muxes
  PROVE  /\ CsvServed(mux) \subseteq Served(mux)
         /\ Inputs(prog, mux = "table") \in Nat
         /\ Mixable(CsvServed(mux), prog.parallel, Inputs(prog, mux = "table"), mux = "table")
<1>1. ASSUME NEW id \in CsvServed(mux)
      PROVE  /\ id \in Served(mux) /\ id \in Nat
             /\ prog.parallel = MixInputTuples /\ mux # "table" => id < Inputs(prog, FALSE)
  <2>1. PICK i \in CsvInputs : Multiplexer(prog.sources[i]) = mux /\ id = prog.sources[i].adaptor.rel
    BY DEF CsvServed
  <2>2. i \in DOMAIN prog.sources /\ prog.sources[i].adaptor.kind = "csv"
    BY DEF CsvInputs
  <2>3. SourceIn(i, mux)
    BY <2>1, <2>2, SourcesFit
  <2>4. id \in RelationsOf(prog.sources[i].adaptor)
    BY <2>1, <2>2 DEF RelationsOf
  <2> QED
    BY <2>1, <2>2, <2>3, <2>4 DEF SourceIn
<1>2. Inputs(prog, mux = "table") \in Nat
  <2>1. PICK n \in Nat : DOMAIN prog.sources = 1..n
    BY SourcesFit
  <2>2. PICK T : T = {i \in DOMAIN prog.sources : prog.sources[i].table = (mux = "table")}
    OBVIOUS
  <2>3. T \in SUBSET (1..n) /\ IsFiniteSet(1..n)
    BY <2>1, <2>2, FS_Interval
  <2>4. Cardinality(T) \in Nat
    BY <2>3, FS_Subset, FS_CardinalityType
  <2> QED
    BY <2>2, <2>4 DEF Inputs
<1>3. Mixable(CsvServed(mux), prog.parallel, Inputs(prog, mux = "table"), mux = "table")
  <2>1. CsvServed(mux) \subseteq Int
    <3>1. \A id \in CsvServed(mux) : id \in Nat
      BY <1>1
    <3> QED
      BY <3>1
  <2>2. ASSUME mux # "table", prog.parallel = MixInputTuples
        PROVE  CsvServed(mux) \subseteq 0..Inputs(prog, mux = "table") - 1
    <3>1. PICK k \in Nat : k = Inputs(prog, FALSE) /\ Inputs(prog, mux = "table") = k
      <4>1. (mux = "table") = FALSE
        BY <2>2
      <4>2. Inputs(prog, mux = "table") = Inputs(prog, FALSE)
        BY <4>1 DEF Inputs
      <4> QED
        BY <1>2, <4>2
    <3>2. \A id \in CsvServed(mux) : id \in Nat /\ id < k
      BY <1>1, <2>2, <3>1
    <3>3. \A id \in CsvServed(mux) : id \in 0..k - 1
      BY <3>2
    <3> QED
      BY <3>1, <3>3
  <2> QED
    BY <2>1, <2>2 DEF Mixable
<1> QED
  BY <1>1, <1>2, <1>3

(* What a multiplexer sends once it has arranged its events.               *)
PlacesOf(mux) == LandsIn(mux, "list") \cup LandsIn(mux, "que")

Delivers(ev, mux) ==
  /\ AllSent(QueueOf(ev, mux), Served(mux))
  /\ TypedIn(QueueOf(ev, mux), registry.triggers)
  /\ \A c : c.rel \in CsvRelations => Counted(Tally(QueueOf(ev, mux), c), PlacesOf(mux), c)

Arranging(mux) ==
  Multiplexed(events[mux].list, events[mux].que, prog.batch, prog.parallel,
              Inputs(prog, mux = "table"), mux = "table")

LEMMA MuxDelivers ==
  ASSUME UnderWay, ReadSoFar(events, read), read[1] > Len(prog.sources), NEW mux \in Muxes,
         NEW ev, ev[mux] = Arranging(mux)
  PROVE  Delivers(ev, mux)
<1>1. PICK list, que : list = events[mux].list /\ que = events[mux].que
  OBVIOUS
<1>2. AtLine(read) /\ HasRead(events, mux, read)
  BY DEF ReadSoFar
<1>3. /\ AllRaw(list, CsvServed(mux)) /\ AllRaw(que, Served(mux))
      /\ Traced(list, LandsIn(mux, "list"), CsvFile, CsvRelations)
      /\ Traced(que, LandsIn(mux, "que"), CsvFile, CsvRelations)
  BY <1>1, <1>2, AllRead DEF HasRead
<1>4. /\ CsvServed(mux) \subseteq Served(mux) /\ Inputs(prog, mux = "table") \in Nat
      /\ Mixable(CsvServed(mux), prog.parallel, Inputs(prog, mux = "table"), mux = "table")
  BY MuxesMix
<1>5. PICK inputs, parallel, n, table :
        /\ inputs = Inputs(prog, mux = "table") /\ parallel = prog.parallel /\ n = prog.batch
        /\ table = (mux = "table")
  BY Zenon
<1>5b. n <= 1 => TypedIn(list, registry.triggers) /\ TypedIn(que, registry.triggers)
  BY <1>1, <1>2, <1>5 DEF HasRead, Typed
<1>5c. n > 1 => Served(mux) \X {"batch"} \subseteq registry.triggers
  BY <1>5 DEF Served
<1>5a. inputs \in Nat /\ n \in Nat /\ table \in BOOLEAN
  BY <1>4, <1>5, SourcesFit
<1>6. PICK m : m = Multiplexed(list, que, n, parallel, inputs, table)
  OBVIOUS
<1>7. m = ev[mux]
  BY <1>1, <1>5, <1>6 DEF Arranging
<1>8. \A c : Arrives(m, list, que, Served(mux), c)
  <2> TAKE c
  <2>1. Mixable(CsvServed(mux), parallel, inputs, table)
    BY <1>4, <1>5
  <2> QED
    BY <1>3, <1>4, <1>5a, <1>6, <2>1, MultiplexedCounts
<1>9. AllSent(m.list, Served(mux)) /\ AllSent(m.que, Served(mux))
  BY <1>8 DEF Arrives
<1>10. PICK q : q = m.list \o m.que
  OBVIOUS
<1>11. QueueOf(ev, mux) = q
  BY <1>7, <1>10 DEF QueueOf
<1>12. AllSent(q, Served(mux)) /\ \A c : Tally(q, c) = Tally(m.list, c) + Tally(m.que, c)
  <2>1. PICK x, y : x = m.list /\ y = m.que
    OBVIOUS
  <2>2. AllSent(x, Served(mux)) /\ AllSent(y, Served(mux))
    BY <1>9, <2>1
  <2>3. AllSent(x \o y, Served(mux)) /\ \A c : Tally(x \o y, c) = Tally(x, c) + Tally(y, c)
    BY <2>2, SentJoined
  <2> QED
    BY <1>10, <2>1, <2>3
<1>13. ASSUME NEW c, c.rel \in CsvRelations
       PROVE  Counted(Tally(q, c), PlacesOf(mux), c)
  <2>1. Counted(Tally(list, c), LandsIn(mux, "list"), c)
    BY <1>3, <1>13, TracedTally
  <2>2. Counted(Tally(que, c), LandsIn(mux, "que"), c)
    BY <1>3, <1>13, TracedTally
  <2>3. LandsIn(mux, "list") \cap LandsIn(mux, "que") = {}
    BY DEF LandsIn
  <2>4. Counted(Tally(list, c) + Tally(que, c), PlacesOf(mux), c)
    BY <2>1, <2>2, <2>3, CountedBoth DEF PlacesOf
  <2>5. Tally(q, c) = Tally(list, c) + Tally(que, c)
    BY <1>8, <1>12 DEF Arrives
  <2> QED
    BY <2>4, <2>5
<1>14. TypedIn(q, registry.triggers)
  <2>1. PICK R : R = registry.triggers
    OBVIOUS
  <2>2. Mixable(CsvServed(mux), parallel, inputs, table)
    BY <1>4, <1>5
  <2>3. TypedIn(m.list, R) /\ TypedIn(m.que, R)
    BY <1>3, <1>4, <1>5a, <1>5b, <1>5c, <1>6, <2>1, <2>2, MultiplexedTyped
  <2>4. PICK x, y : x = m.list /\ y = m.que
    OBVIOUS
  <2>5. IsList(x) /\ IsList(y)
    BY <1>9, <2>4 DEF AllSent
  <2>6. TypedIn(x \o y, R)
    BY <2>3, <2>4, <2>5, TypedJoined
  <2> QED
    BY <1>10, <2>1, <2>4, <2>6
<1> QED
  BY <1>11, <1>12, <1>13, <1>14 DEF Delivers

(* The two multiplexers have all places between them.                      *)
LEMMA AllPlaces ==
  ASSUME UnderWay
  PROVE  /\ PlacesOf("table") \cap PlacesOf("stream") = {}
         /\ PlacesOf("table") \cup PlacesOf("stream") = CsvPlaces
<1>1. \A i : Multiplexer(prog.sources[i]) \in Muxes
  BY DEF Multiplexer, Muxes
<1> QED
  BY <1>1 DEF PlacesOf, LandsIn, Muxes

-----------------------------------------------------------------------------
(* Without batches: a relation's events stand in the queue by their order, *)
(* and those of one order as in the files.                                 *)
OrderTracing(h, q, P, file, rels) ==
  /\ Matching(h, FromFiles(q, rels), P)
  /\ \A k \in FromFiles(q, rels) : q[k] = file[h[k]]
  /\ \A k, l \in FromFiles(q, rels) :
       q[k].id = q[l].id /\ k < l =>
         /\ q[k].order <= q[l].order
         /\ q[k].order = q[l].order => IsBefore(h[k], h[l])

OrderTraced(q, P, file, rels) == \E h : OrderTracing(h, q, P, file, rels)

(* The keys keep the places of one relation and order.                     *)
KeepsFiles(q, key, rels) ==
  \A i, j \in FromFiles(q, rels) :
    q[i].id = q[j].id /\ IsBefore(key[i], key[j]) =>
      /\ q[i].order <= q[j].order
      /\ q[i].order = q[j].order => i < j

LEMMA Rearranged ==
  ASSUME NEW q, NEW P, NEW file, NEW rels, Traced(q, P, file, rels),
         NEW key, Keyed(key), DOMAIN key = DOMAIN q, KeepsFiles(q, key, rels)
  PROVE  OrderTraced(Arranged(q, key), P, file, rels)
<1>1. PICK h : Tracing(h, q, P, file, rels)
  BY DEF Traced
<1>2. PICK n \in Nat : n = Cardinality(DOMAIN key)
  BY RanksAre
<1>3. PICK r : r = Arranged(q, key)
  OBVIOUS
<1>4. IsList(r) /\ Len(r) = n /\ \A k \in 1..n : r[k] = q[PlaceAt(key, k)]
  BY <1>2, <1>3, ArrangedList
<1>5. DOMAIN r = 1..n
  BY <1>4, ListFacts
<1>6. \A k \in 1..n : PlaceAt(key, k) \in DOMAIN q /\ Rank(key, PlaceAt(key, k)) = k
  BY <1>2, PlacesListed
<1>7. \A i \in DOMAIN q : PlaceAt(key, Rank(key, i)) = i /\ Rank(key, i) \in 1..n
  BY <1>2, PlacesListed, RanksAre
<1>8. \A k : k \in FromFiles(r, rels) <=> k \in 1..n /\ PlaceAt(key, k) \in FromFiles(q, rels)
  BY <1>4, <1>5, <1>6 DEF FromFiles
<1> DEFINE g == [k \in FromFiles(r, rels) |-> h[PlaceAt(key, k)]]
<1>9. \A k \in FromFiles(r, rels) :
        /\ g[k] = h[PlaceAt(key, k)] /\ k \in 1..n /\ PlaceAt(key, k) \in FromFiles(q, rels)
        /\ r[k] = q[PlaceAt(key, k)] /\ Rank(key, PlaceAt(key, k)) = k
  BY <1>4, <1>6, <1>8
<1> HIDE DEF g
<1>10. Matching(g, FromFiles(r, rels), P)
  <2>1. \A k \in FromFiles(r, rels) : g[k] \in P
    BY <1>1, <1>9 DEF Tracing, Matching
  <2>2. \A k, l \in FromFiles(r, rels) : g[k] = g[l] => k = l
    <3> TAKE k \in FromFiles(r, rels), l \in FromFiles(r, rels)
    <3> HAVE g[k] = g[l]
    <3>1. PlaceAt(key, k) = PlaceAt(key, l)
      BY <1>1, <1>9 DEF Tracing, Matching
    <3> QED
      BY <1>9, <3>1
  <2>3. \A t \in P : \E k \in FromFiles(r, rels) : g[k] = t
    <3> TAKE t \in P
    <3>1. PICK i \in FromFiles(q, rels) : h[i] = t
      BY <1>1 DEF Tracing, Matching
    <3>2. i \in DOMAIN q
      BY DEF FromFiles
    <3>3. PICK k : k = Rank(key, i)
      OBVIOUS
    <3>4. k \in FromFiles(r, rels) /\ PlaceAt(key, k) = i
      BY <1>7, <1>8, <3>2, <3>3
    <3> QED
      BY <1>9, <3>1, <3>4
  <2> QED
    BY <2>1, <2>2, <2>3 DEF Matching
<1>11. \A k \in FromFiles(r, rels) : r[k] = file[g[k]]
  BY <1>1, <1>9 DEF Tracing
<1>12. ASSUME NEW k \in FromFiles(r, rels), NEW l \in FromFiles(r, rels), r[k].id = r[l].id, k < l
       PROVE  /\ r[k].order <= r[l].order
              /\ r[k].order = r[l].order => IsBefore(g[k], g[l])
  <2>1. PICK i, j : i = PlaceAt(key, k) /\ j = PlaceAt(key, l)
    OBVIOUS
  <2>2. /\ i \in FromFiles(q, rels) /\ j \in FromFiles(q, rels)
        /\ r[k] = q[i] /\ r[l] = q[j] /\ g[k] = h[i] /\ g[l] = h[j]
        /\ Rank(key, i) = k /\ Rank(key, j) = l
    BY <1>9, <2>1
  <2>3. i \in DOMAIN key /\ j \in DOMAIN key
    BY <2>2 DEF FromFiles
  <2>4. IsBefore(key[i], key[j])
    BY <1>12, <2>2, <2>3, RanksAre
  <2>5. q[i].order <= q[j].order /\ (q[i].order = q[j].order => i < j)
    BY <1>12, <2>2, <2>4 DEF KeepsFiles
  <2> QED
    BY <1>1, <2>2, <2>5 DEF Tracing
<1>13. OrderTracing(g, r, P, file, rels)
  BY <1>10, <1>11, <1>12 DEF OrderTracing
<1> QED
  BY <1>3, <1>13 DEF OrderTraced

LEMMA OrderJoined ==
  ASSUME NEW a, IsList(a), NEW b, IsList(b), NEW P, NEW Q, P \cap Q = {}, NEW file, NEW rels,
         OrderTraced(a, P, file, rels), OrderTraced(b, Q, file, rels),
         \A k \in FromFiles(a, rels) : a[k].order = 0,
         \A k \in FromFiles(b, rels) : b[k].order \in Nat \ {0}
  PROVE  OrderTraced(a \o b, P \cup Q, file, rels)
<1>1. PICK h : OrderTracing(h, a, P, file, rels)
  BY DEF OrderTraced
<1>2. PICK g : OrderTracing(g, b, Q, file, rels)
  BY DEF OrderTraced
<1>3. PICK n \in Nat : n = Len(a) /\ DOMAIN a = 1..n
  BY ListFacts
<1>4. PICK m \in Nat : m = Len(b) /\ DOMAIN b = 1..m
  BY ListFacts
<1>5. PICK r : r = a \o b
  OBVIOUS
<1>6. /\ IsList(r) /\ Len(r) = n + m
      /\ \A k \in 1..n : r[k] = a[k]
      /\ \A k \in 1..m : r[n + k] = b[k]
      /\ \A k \in n + 1..n + m : r[k] = b[k - n]
  BY <1>3, <1>4, <1>5, ListsJoined
<1>7. DOMAIN r = 1..n + m
  BY <1>6, ListFacts
<1>8. \A k \in 1..n + m : k \in 1..n \/ (k \in n + 1..n + m /\ k - n \in 1..m)
  OBVIOUS
<1>9. \A k : k \in FromFiles(r, rels) <=>
               k \in FromFiles(a, rels) \/ (k \in n + 1..n + m /\ k - n \in FromFiles(b, rels))
  <2>1. \A k \in 1..n : k \in 1..n + m
    OBVIOUS
  <2>2. \A k \in n + 1..n + m : k \in 1..n + m /\ k - n \in 1..m
    OBVIOUS
  <2> QED
    BY <1>3, <1>4, <1>6, <1>7, <1>8, <2>1, <2>2 DEF FromFiles
<1> DEFINE f == [k \in FromFiles(r, rels) |-> IF k \in 1..n THEN h[k] ELSE g[k - n]]
<1>10. \A k \in FromFiles(a, rels) : k \in 1..n /\ f[k] = h[k] /\ r[k] = a[k]
  BY <1>3, <1>6, <1>9 DEF FromFiles
<1>11. \A k \in n + 1..n + m : k - n \in FromFiles(b, rels) =>
          k \in FromFiles(r, rels) /\ f[k] = g[k - n] /\ r[k] = b[k - n]
  BY <1>6, <1>9
<1> HIDE DEF f
<1>12. Matching(f, FromFiles(r, rels), P \cup Q)
  <2>1. \A k \in FromFiles(a, rels) : h[k] \in P
    BY <1>1 DEF OrderTracing, Matching
  <2>2. \A k \in FromFiles(b, rels) : g[k] \in Q
    BY <1>2 DEF OrderTracing, Matching
  <2>3. \A k \in FromFiles(r, rels) : f[k] \in P \cup Q
    BY <1>9, <1>10, <1>11, <2>1, <2>2
  <2>4. \A k, l \in FromFiles(r, rels) : f[k] = f[l] => k = l
    <3> TAKE k \in FromFiles(r, rels), l \in FromFiles(r, rels)
    <3> HAVE f[k] = f[l]
    <3>1. CASE k \in FromFiles(a, rels) /\ l \in FromFiles(a, rels)
      BY <1>1, <1>10, <3>1 DEF OrderTracing, Matching
    <3>2. CASE k \in n + 1..n + m /\ k - n \in FromFiles(b, rels) /\ l \in n + 1..n + m /\ l - n \in FromFiles(b, rels)
      <4>1. k - n = l - n
        BY <1>2, <1>11, <3>2 DEF OrderTracing, Matching
      <4> QED
        BY <3>2, <4>1
    <3>3. CASE k \in FromFiles(a, rels) /\ l \in n + 1..n + m /\ l - n \in FromFiles(b, rels)
      BY <1>10, <1>11, <2>1, <2>2, <3>3
    <3>4. CASE l \in FromFiles(a, rels) /\ k \in n + 1..n + m /\ k - n \in FromFiles(b, rels)
      BY <1>10, <1>11, <2>1, <2>2, <3>4
    <3> QED
      BY <1>9, <3>1, <3>2, <3>3, <3>4
  <2>5. ASSUME NEW t \in P
        PROVE  \E k \in FromFiles(r, rels) : f[k] = t
    <3>1. PICK k \in FromFiles(a, rels) : h[k] = t
      BY <1>1 DEF OrderTracing, Matching
    <3> QED
      BY <1>9, <1>10, <3>1
  <2>6. ASSUME NEW t \in Q
        PROVE  \E k \in FromFiles(r, rels) : f[k] = t
    <3>1. PICK j \in FromFiles(b, rels) : g[j] = t
      BY <1>2 DEF OrderTracing, Matching
    <3>2. j \in 1..m
      BY <1>4 DEF FromFiles
    <3>3. PICK k : k = n + j
      OBVIOUS
    <3>4. k \in n + 1..n + m /\ k - n = j
      BY <3>2, <3>3
    <3> QED
      BY <1>11, <3>1, <3>4
  <2> QED
    BY <2>3, <2>4, <2>5, <2>6 DEF Matching
<1>13. \A k \in FromFiles(r, rels) : r[k] = file[f[k]]
  <2>1. \A k \in FromFiles(a, rels) : a[k] = file[h[k]]
    BY <1>1 DEF OrderTracing
  <2>2. \A k \in FromFiles(b, rels) : b[k] = file[g[k]]
    BY <1>2 DEF OrderTracing
  <2> QED
    BY <1>9, <1>10, <1>11, <2>1, <2>2
<1>14. ASSUME NEW k \in FromFiles(r, rels), NEW l \in FromFiles(r, rels), r[k].id = r[l].id, k < l
       PROVE  /\ r[k].order <= r[l].order
              /\ r[k].order = r[l].order => IsBefore(f[k], f[l])
  <2>1. CASE k \in FromFiles(a, rels) /\ l \in FromFiles(a, rels)
    BY <1>1, <1>10, <1>14, <2>1 DEF OrderTracing
  <2>2. CASE k \in n + 1..n + m /\ k - n \in FromFiles(b, rels) /\ l \in n + 1..n + m /\ l - n \in FromFiles(b, rels)
    <3>1. k - n < l - n /\ b[k - n].id = b[l - n].id
      BY <1>11, <1>14, <2>2
    <3>2. /\ b[k - n].order <= b[l - n].order
          /\ b[k - n].order = b[l - n].order => IsBefore(g[k - n], g[l - n])
      BY <1>2, <2>2, <3>1 DEF OrderTracing
    <3> QED
      BY <1>11, <2>2, <3>2
  <2>3. CASE k \in FromFiles(a, rels) /\ l \in n + 1..n + m /\ l - n \in FromFiles(b, rels)
    <3>1. r[k].order = 0 /\ r[l].order \in Nat \ {0}
      BY <1>10, <1>11, <2>3
    <3> QED
      BY <3>1
  <2>4. CASE l \in FromFiles(a, rels) /\ k \in n + 1..n + m /\ k - n \in FromFiles(b, rels)
    BY <1>10, <1>14, <2>4
  <2> QED
    BY <1>9, <2>1, <2>2, <2>3, <2>4
<1>15. OrderTracing(f, r, P \cup Q, file, rels)
  BY <1>12, <1>13, <1>14 DEF OrderTracing
<1> QED
  BY <1>5, <1>15 DEF OrderTraced

LEMMA OrdersOf ==
  ASSUME UnderWay, NEW q, NEW mux, NEW kind, OrderTraced(q, LandsIn(mux, kind), CsvFile, CsvRelations)
  PROVE  \A k \in FromFiles(q, CsvRelations) :
           q[k].order \in Nat /\ (q[k].order = 0) = (kind = "list")
<1>1. PICK h : OrderTracing(h, q, LandsIn(mux, kind), CsvFile, CsvRelations)
  BY DEF OrderTraced
<1> TAKE k \in FromFiles(q, CsvRelations)
<1>2. h[k] \in LandsIn(mux, kind) /\ q[k] = CsvFile[h[k]]
  BY <1>1 DEF OrderTracing, Matching
<1>3. h[k] \in CsvPlaces /\ (CsvFile[h[k]].order = 0) = (kind = "list")
  BY <1>2 DEF LandsIn
<1>4. CsvFile[h[k]].order \in Nat
  BY <1>3, PlacesAre
<1> QED
  BY <1>2, <1>3, <1>4

(* Sorting the queue.                                                      *)
LEMMA SortedInOrder ==
  ASSUME NEW q, NEW I, AllRaw(q, I), NEW P, NEW file, NEW rels, Traced(q, P, file, rels)
  PROVE  OrderTraced(SortedByOrder(q), P, file, rels)
<1>1. PICK key : key = ByOrder(q)
  OBVIOUS
<1>2. \A i \in DOMAIN q : q[i].order \in Int
  BY DEF AllRaw, IsRaw
<1>3. PICK n \in Nat : DOMAIN q = 1..n
  BY ListFacts DEF AllRaw
<1>4. Keyed(key) /\ DOMAIN key = DOMAIN q
  BY <1>1, <1>2, OrderKeyed DEF AllRaw
<1>5. SortedByOrder(q) = Arranged(q, key)
  BY <1>1 DEF SortedByOrder, ByOrder
<1>6. ASSUME NEW i \in FromFiles(q, rels), NEW j \in FromFiles(q, rels), IsBefore(key[i], key[j])
      PROVE  q[i].order <= q[j].order /\ (q[i].order = q[j].order => i < j)
  <2>1. i \in 1..n /\ j \in 1..n
    BY <1>3 DEF FromFiles
  <2>2. key[i] = <<q[i].order, i>> /\ key[j] = <<q[j].order, j>>
    BY <1>1, <1>3, <2>1 DEF ByOrder
  <2>3. q[i].order < q[j].order \/ (q[i].order = q[j].order /\ i < j)
    BY <1>6, <2>2 DEF IsBefore
  <2>4. q[i].order \in Int /\ q[j].order \in Int
    BY <1>2, <1>3, <2>1
  <2> QED
    BY <2>1, <2>3, <2>4
<1>7. KeepsFiles(q, key, rels)
  BY <1>6 DEF KeepsFiles
<1> QED
  BY <1>4, <1>5, <1>7, Rearranged

(* Mixing the list, or leaving it as it is, where all orders are zero.     *)
LEMMA MixedInOrder ==
  ASSUME NEW list, NEW I, AllRaw(list, I), NEW inputs \in Nat, I \subseteq 0..inputs - 1,
         NEW P, NEW file, NEW rels, Traced(list, P, file, rels),
         \A k \in FromFiles(list, rels) : list[k].order = 0
  PROVE  OrderTraced(Mixed(list, inputs), P, file, rels)
<1>1. PICK key : key = ByRound(list)
  OBVIOUS
<1>2. \A i \in DOMAIN list : list[i].id \in 0..inputs - 1 /\ list[i].id \in Int
  <2>1. \A i \in DOMAIN list : list[i].id \in I
    BY DEF AllRaw, IsRaw
  <2>2. \A x \in I : x \in 0..inputs - 1 /\ x \in Int
    OBVIOUS
  <2> QED
    BY <2>1, <2>2
<1>3. PICK n \in Nat : DOMAIN list = 1..n
  BY ListFacts DEF AllRaw
<1>4. Keyed(key) /\ DOMAIN key = DOMAIN list
  BY <1>1, <1>2, RoundKeyed DEF AllRaw
<1>5. Mixed(list, inputs) = Arranged(list, key)
  <2>1. {i \in DOMAIN list : list[i].id \in 0..inputs - 1} = DOMAIN list
    BY <1>2
  <2> QED
    BY <1>1, <2>1 DEF Mixed, ByRound, RoundOf
<1>6. \A i \in 1..n : IsFiniteSet(RoundOf(list, i)) /\ Cardinality(RoundOf(list, i)) \in Nat
  BY RoundFinite
<1>7. ASSUME NEW i \in FromFiles(list, rels), NEW j \in FromFiles(list, rels),
             list[i].id = list[j].id, IsBefore(key[i], key[j])
      PROVE  i < j
  <2>1. i \in 1..n /\ j \in 1..n
    BY <1>3 DEF FromFiles
  <2>2. /\ key[i] = <<Cardinality(RoundOf(list, i)), list[i].id>>
        /\ key[j] = <<Cardinality(RoundOf(list, j)), list[j].id>>
    BY <1>1, <1>3, <2>1 DEF ByRound
  <2>3. PICK a \in Nat, b \in Nat : a = Cardinality(RoundOf(list, i)) /\ b = Cardinality(RoundOf(list, j))
    BY <1>6, <2>1
  <2>4. list[i].id \in Int /\ list[j].id \in Int
    BY <1>2, <1>3, <2>1
  <2>5. a < b
    BY <1>7, <2>2, <2>3, <2>4 DEF IsBefore
  <2>6. ASSUME ~(i < j)
        PROVE  FALSE
    <3>1. RoundOf(list, j) \in SUBSET RoundOf(list, i)
      BY <1>7, <2>1, <2>6 DEF RoundOf
    <3>2. b <= a
      BY <1>6, <2>1, <2>3, <3>1, FS_Subset
    <3> QED
      BY <2>5, <3>2
  <2> QED
    BY <2>6
<1>8. KeepsFiles(list, key, rels)
  BY <1>7 DEF KeepsFiles
<1> QED
  BY <1>4, <1>5, <1>8, Rearranged

LEMMA TracedInOrder ==
  ASSUME NEW q, NEW P, NEW file, NEW rels, Traced(q, P, file, rels),
         \A k \in FromFiles(q, rels) : q[k].order = 0
  PROVE  OrderTraced(q, P, file, rels)
<1>1. PICK h : Tracing(h, q, P, file, rels)
  BY DEF Traced
<1>2. OrderTracing(h, q, P, file, rels)
  BY <1>1 DEF Tracing, OrderTracing
<1> QED
  BY <1>2 DEF OrderTraced

LEMMA ListOrders ==
  ASSUME NEW q, NEW mux, Traced(q, LandsIn(mux, "list"), CsvFile, CsvRelations)
  PROVE  \A k \in FromFiles(q, CsvRelations) : q[k].order = 0
<1>1. PICK h : Tracing(h, q, LandsIn(mux, "list"), CsvFile, CsvRelations)
  BY DEF Traced
<1> TAKE k \in FromFiles(q, CsvRelations)
<1>2. h[k] \in LandsIn(mux, "list") /\ q[k] = CsvFile[h[k]]
  BY <1>1 DEF Tracing, Matching
<1> QED
  BY <1>2 DEF LandsIn

LEMMA MuxInOrder ==
  ASSUME UnderWay, ReadSoFar(events, read), read[1] > Len(prog.sources), NEW mux \in Muxes,
         NEW ev, ev[mux] = Arranging(mux), prog.batch <= 1
  PROVE  OrderTraced(QueueOf(ev, mux), PlacesOf(mux), CsvFile, CsvRelations)
<1>1. PICK list, que : list = events[mux].list /\ que = events[mux].que
  OBVIOUS
<1>2. AtLine(read) /\ HasRead(events, mux, read)
  BY DEF ReadSoFar
<1>3. /\ AllRaw(list, CsvServed(mux)) /\ AllRaw(que, Served(mux))
      /\ Traced(list, LandsIn(mux, "list"), CsvFile, CsvRelations)
      /\ Traced(que, LandsIn(mux, "que"), CsvFile, CsvRelations)
  BY <1>1, <1>2, AllRead DEF HasRead
<1>4. PICK inputs : inputs = Inputs(prog, mux = "table")
  OBVIOUS
<1>5. /\ inputs \in Nat
      /\ mux # "table" /\ prog.parallel = MixInputTuples => CsvServed(mux) \subseteq 0..inputs - 1
  BY <1>4, MuxesMix DEF Mixable
<1>6. ~(prog.batch > 1)
  BY SourcesFit
<1>7. PICK x, y : x = ev[mux].list /\ y = ev[mux].que
  OBVIOUS
<1>8. /\ y = SortedByOrder(que)
      /\ \/ x = list
         \/ mux # "table" /\ prog.parallel = MixInputTuples /\ x = Mixed(list, inputs)
  <2>1. PICK b : b = [list |-> list, que |-> que]
    OBVIOUS
  <2>2. b.list = list /\ b.que = que
    BY <2>1
  <2>3. PICK mix : mix = (~(mux = "table") /\ b.list # <<>> /\ prog.parallel = MixInputTuples /\ inputs > 1)
    OBVIOUS
  <2>4. Arranging(mux) = [list |-> IF mix THEN Mixed(b.list, inputs) ELSE b.list,
                          que |-> SortedByOrder(b.que)]
    BY <1>1, <1>4, <1>6, <2>1, <2>3 DEF Arranging, Multiplexed
  <2>5. x = (IF mix THEN Mixed(list, inputs) ELSE list) /\ y = SortedByOrder(que)
    BY <1>7, <2>2, <2>4
  <2> QED
    BY <2>3, <2>5
<1>9. OrderTraced(y, LandsIn(mux, "que"), CsvFile, CsvRelations)
  BY <1>3, <1>8, SortedInOrder
<1>10. \A k \in FromFiles(list, CsvRelations) : list[k].order = 0
  BY <1>3, ListOrders
<1>11. OrderTraced(x, LandsIn(mux, "list"), CsvFile, CsvRelations)
  <2>1. CASE x = list
    BY <1>3, <1>10, <2>1, TracedInOrder
  <2>2. CASE mux # "table" /\ prog.parallel = MixInputTuples /\ x = Mixed(list, inputs)
    BY <1>3, <1>5, <1>10, <2>2, MixedInOrder
  <2> QED
    BY <1>8, <2>1, <2>2
<1>12. IsList(x) /\ IsList(y)
  <2>1. IsList(list) /\ AllRaw(SortedByOrder(que), Served(mux))
    BY <1>3, SortedRaw DEF AllRaw
  <2>2. ASSUME mux # "table", prog.parallel = MixInputTuples
        PROVE  IsList(Mixed(list, inputs))
    <3>1. AllSent(list, CsvServed(mux)) /\ CsvServed(mux) \subseteq 0..inputs - 1
      BY <1>3, <1>5, <2>2, RawIsSent
    <3>2. SentSame(Mixed(list, inputs), list, CsvServed(mux), 0)
      BY <1>5, <3>1, MixedCounts
    <3> QED
      BY <3>2 DEF SentSame, AllSent
  <2> QED
    BY <1>8, <2>1, <2>2 DEF AllRaw
<1>13. \A k \in FromFiles(x, CsvRelations) : x[k].order = 0
  BY <1>11, OrdersOf
<1>14. \A k \in FromFiles(y, CsvRelations) : y[k].order \in Nat \ {0}
  BY <1>9, OrdersOf
<1>15. LandsIn(mux, "list") \cap LandsIn(mux, "que") = {}
  BY DEF LandsIn
<1>16. OrderTraced(x \o y, PlacesOf(mux), CsvFile, CsvRelations)
  BY <1>9, <1>11, <1>12, <1>13, <1>14, <1>15, OrderJoined DEF PlacesOf
<1> QED
  BY <1>7, <1>16 DEF QueueOf

-----------------------------------------------------------------------------
(***************************************************************************)
(* Processing: a tuple is there as often as what is done inserts it more   *)
(* than it deletes it.                                                     *)
(***************************************************************************)

(* The places of a queue that are done: those before the next change.      *)
DoneOf(q, at, c) == {p \in Where(q, DOMAIN q, c) : IsBefore(p, at)}

NumDone(q, at, c) == Cardinality(DoneOf(q, at, c))

LEMMA DoneFinite ==
  ASSUME NEW q, NEW I, AllSent(q, I), NEW at, NEW c
  PROVE  /\ IsFiniteSet(DoneOf(q, at, c)) /\ NumDone(q, at, c) \in Nat
         /\ \A p \in DoneOf(q, at, c) :
              /\ p = <<p[1], p[2]>> /\ p[1] \in DOMAIN q /\ p[1] \in Nat \ {0}
              /\ p[2] \in DOMAIN Changes(q[p[1]]) /\ p[2] \in Nat \ {0}
              /\ Changes(q[p[1]])[p[2]] = c
<1>1. PICK n \in Nat : DOMAIN q = 1..n
  BY ListFacts DEF AllSent
<1>2. IsFiniteSet(1..n) /\ Sizes(q, 1..n)
  BY <1>1, FS_Interval, SentSizes
<1>3. IsFiniteSet(Where(q, DOMAIN q, c))
  BY <1>1, <1>2, WhereFinite
<1>4. DoneOf(q, at, c) \in SUBSET Where(q, DOMAIN q, c)
  BY DEF DoneOf
<1>5. IsFiniteSet(DoneOf(q, at, c)) /\ NumDone(q, at, c) \in Nat
  BY <1>3, <1>4, FS_Subset, FS_CardinalityType DEF NumDone
<1>6. ASSUME NEW p \in DoneOf(q, at, c)
      PROVE  /\ p = <<p[1], p[2]>> /\ p[1] \in DOMAIN q /\ p[1] \in Nat \ {0}
             /\ p[2] \in DOMAIN Changes(q[p[1]]) /\ p[2] \in Nat \ {0}
             /\ Changes(q[p[1]])[p[2]] = c
  <2>1. p \in (1..n) \X Nat /\ p[2] \in DOMAIN Changes(q[p[1]]) /\ Changes(q[p[1]])[p[2]] = c
    BY <1>1 DEF DoneOf, Where
  <2>2. p[2] \in 1..Len(Changes(q[p[1]])) /\ Len(Changes(q[p[1]])) \in Nat
    BY <1>2, <2>1 DEF Sizes, IsSequence
  <2> QED
    BY <1>1, <2>1, <2>2
<1> QED
  BY <1>5, <1>6

(* One change more is done.                                                *)
LEMMA OneMore ==
  ASSUME NEW q, NEW I, AllSent(q, I), NEW k \in DOMAIN q, NEW j \in DOMAIN Changes(q[k]), NEW c
  PROVE  NumDone(q, <<k, j + 1>>, c) =
           NumDone(q, <<k, j>>, c) + (IF Changes(q[k])[j] = c THEN 1 ELSE 0)
<1>1. PICK n \in Nat : DOMAIN q = 1..n
  BY ListFacts DEF AllSent
<1>2. k \in Nat /\ j \in Nat
  <2>1. IsSent(q[k], I)
    BY DEF AllSent
  <2>2. j \in 1..Len(Changes(q[k])) /\ Len(Changes(q[k])) \in Nat
    BY <2>1 DEF IsSent, IsSequence
  <2> QED
    BY <1>1, <2>2
<1>3. PICK A, B : A = DoneOf(q, <<k, j>>, c) /\ B = DoneOf(q, <<k, j + 1>>, c)
  OBVIOUS
<1>4. \A p \in Where(q, DOMAIN q, c) : p = <<p[1], p[2]>> /\ p[1] \in Nat /\ p[2] \in Nat
  BY <1>1 DEF Where
<1>5. \A p \in Where(q, DOMAIN q, c) :
        IsBefore(p, <<k, j + 1>>) <=> IsBefore(p, <<k, j>>) \/ p = <<k, j>>
  <2> TAKE p \in Where(q, DOMAIN q, c)
  <2>1. PICK x \in Nat, y \in Nat : p = <<x, y>>
    BY <1>4
  <2>2. IsBefore(p, <<k, j + 1>>) <=> x < k \/ (x = k /\ y < j + 1)
    BY <2>1 DEF IsBefore
  <2>3. IsBefore(p, <<k, j>>) <=> x < k \/ (x = k /\ y < j)
    BY <2>1 DEF IsBefore
  <2> QED
    BY <1>2, <2>1, <2>2, <2>3
<1>6. <<k, j>> \in Where(q, DOMAIN q, c) <=> Changes(q[k])[j] = c
  BY <1>2 DEF Where
<1>7. IsFiniteSet(A) /\ Cardinality(A) \in Nat
  BY <1>3, DoneFinite DEF NumDone
<1>8. CASE Changes(q[k])[j] = c
  <2>1. B = A \cup {<<k, j>>}
    BY <1>3, <1>5, <1>6, <1>8 DEF DoneOf
  <2>2. <<k, j>> \notin A
    BY <1>2, <1>3 DEF DoneOf, IsBefore
  <2>3. Cardinality(B) = Cardinality(A) + 1
    BY <1>7, <2>1, <2>2, FS_AddElement
  <2> QED
    BY <1>3, <1>8, <2>3 DEF NumDone
<1>9. CASE Changes(q[k])[j] # c
  <2>1. B = A
    BY <1>3, <1>5, <1>6, <1>9 DEF DoneOf
  <2> QED
    BY <1>3, <1>7, <1>9, <2>1 DEF NumDone
<1> QED
  BY <1>8, <1>9

(* The end of an event does nothing.                                       *)
LEMMA NoMore ==
  ASSUME NEW q, NEW I, AllSent(q, I), NEW k \in DOMAIN q, NEW c
  PROVE  NumDone(q, <<k + 1, 1>>, c) = NumDone(q, <<k, Len(Changes(q[k])) + 1>>, c)
<1>1. PICK n \in Nat : DOMAIN q = 1..n
  BY ListFacts DEF AllSent
<1>2. \A i \in 1..n : Len(Changes(q[i])) \in Nat /\ DOMAIN Changes(q[i]) = 1..Len(Changes(q[i]))
  BY <1>1 DEF AllSent, IsSent, IsSequence
<1>3. PICK m \in Nat : m = Len(Changes(q[k])) /\ DOMAIN Changes(q[k]) = 1..m
  BY <1>1, <1>2
<1>4. ASSUME NEW p \in Where(q, DOMAIN q, c)
      PROVE  IsBefore(p, <<k + 1, 1>>) <=> IsBefore(p, <<k, m + 1>>)
  <2>1. p \in (1..n) \X Nat /\ p[2] \in DOMAIN Changes(q[p[1]])
    BY <1>1 DEF Where
  <2>2. PICK x \in 1..n, y \in Nat : p = <<x, y>> /\ y \in DOMAIN Changes(q[x])
    BY <2>1
  <2>3. PICK l \in Nat : y \in 1..l /\ (x = k => l = m)
    BY <1>2, <1>3, <2>2
  <2>4. IsBefore(p, <<k + 1, 1>>) <=> x < k + 1 \/ (x = k + 1 /\ y < 1)
    BY <2>2 DEF IsBefore
  <2>5. IsBefore(p, <<k, m + 1>>) <=> x < k \/ (x = k /\ y < m + 1)
    BY <2>2 DEF IsBefore
  <2>6. k \in Nat
    BY <1>1
  <2> QED
    BY <2>2, <2>3, <2>4, <2>5, <2>6
<1>5. DoneOf(q, <<k + 1, 1>>, c) = DoneOf(q, <<k, m + 1>>, c)
  BY <1>4 DEF DoneOf
<1> QED
  BY <1>3, <1>5 DEF NumDone

(* Nothing is done at the start, everything at the end.                    *)
LEMMA NoneDone ==
  ASSUME NEW q, NEW I, AllSent(q, I), NEW c
  PROVE  NumDone(q, <<1, 1>>, c) = 0
<1>1. ASSUME NEW p \in DoneOf(q, <<1, 1>>, c)
      PROVE  FALSE
  <2>1. p[1] \in Nat \ {0} /\ p[2] \in Nat \ {0}
    BY <1>1, DoneFinite
  <2>2. IsBefore(p, <<1, 1>>)
    BY <1>1 DEF DoneOf
  <2> QED
    BY <2>1, <2>2 DEF IsBefore
<1>2. DoneOf(q, <<1, 1>>, c) = {}
  BY <1>1
<1> QED
  BY <1>2, FS_EmptySet DEF NumDone

LEMMA AllDone ==
  ASSUME NEW q, NEW I, AllSent(q, I), NEW c
  PROVE  NumDone(q, <<Len(q) + 1, 1>>, c) = Tally(q, c)
<1>1. PICK n \in Nat : n = Len(q) /\ DOMAIN q = 1..n
  BY ListFacts DEF AllSent
<1>2. ASSUME NEW p \in Where(q, DOMAIN q, c)
      PROVE  IsBefore(p, <<n + 1, 1>>)
  <2>1. p[1] \in 1..n
    BY <1>1 DEF Where
  <2> QED
    BY <2>1 DEF IsBefore
<1>3. DoneOf(q, <<n + 1, 1>>, c) = Where(q, DOMAIN q, c)
  BY <1>2 DEF DoneOf
<1> QED
  BY <1>1, <1>3 DEF NumDone, Tally, TallyOver

Ins(id, t) == [tuple |-> t, rel |-> id, sign |-> 1]
Del(id, t) == [tuple |-> t, rel |-> id, sign |-> -1]

(* No relation keeps a tuple that it does not hold.                        *)
Tidy(m) ==
  /\ m = [id \in Ids |-> m[id]]
  /\ \A id \in Ids : /\ m[id] = [t \in DOMAIN m[id] |-> m[id][t]]
                     /\ \A t \in DOMAIN m[id] : m[id][t] \in Int \ {0}

LEMMA CountIs ==
  ASSUME NEW m, Tidy(m), NEW id \in Ids, NEW t
  PROVE  Count(m, id, t) \in Int /\ (Count(m, id, t) # 0 <=> t \in DOMAIN m[id])
BY DEF Tidy, Count

LEMMA ApplyCounts ==
  ASSUME NEW m, Tidy(m), NEW ch, IsChange(ch, Ids), NEW new, new = Apply(m, ch)
  PROVE  /\ Tidy(new)
         /\ \A id \in Ids : \A t : Count(new, id, t) =
              Count(m, id, t) + (IF id = ch.rel /\ t = ch.tuple THEN ch.sign ELSE 0)
<1>1. PICK r, x, s : r = ch.rel /\ x = ch.tuple /\ s = ch.sign
  OBVIOUS
<1>2. r \in Ids /\ s \in {1, -1}
  BY <1>1 DEF IsChange
<1>3. PICK n : n = Count(m, r, x) + s
  OBVIOUS
<1>4. n \in Int
  BY <1>2, <1>3, CountIs
<1>5. PICK f : f = m[r]
  OBVIOUS
<1>6. f = [t \in DOMAIN f |-> f[t]] /\ \A t \in DOMAIN f : f[t] \in Int \ {0}
  BY <1>2, <1>5 DEF Tidy
<1>7. PICK g : g = IF n = 0 THEN Without(f, x) ELSE With(f, x, n)
  OBVIOUS
<1>8. new = [m EXCEPT ![r] = g]
  BY <1>1, <1>3, <1>5, <1>7 DEF Apply
<1>9. DOMAIN m = Ids
  BY DEF Tidy
<1>10. /\ new = [id \in Ids |-> new[id]]
       /\ new[r] = g /\ \A id \in Ids : id # r => new[id] = m[id]
  BY <1>2, <1>8, <1>9
<1>11. /\ g = [t \in DOMAIN g |-> g[t]]
       /\ \A t \in DOMAIN g : g[t] \in Int \ {0}
       /\ \A t : t \in DOMAIN g <=> IF t = x THEN n # 0 ELSE t \in DOMAIN f
       /\ \A t \in DOMAIN g : g[t] = IF t = x THEN n ELSE f[t]
  <2>1. CASE n = 0
    <3>1. g = [t \in DOMAIN f \ {x} |-> f[t]]
      BY <1>7, <2>1 DEF Without
    <3> QED
      BY <1>6, <2>1, <3>1
  <2>2. CASE n # 0
    <3>1. g = [t \in DOMAIN f \cup {x} |-> IF t = x THEN n ELSE f[t]]
      BY <1>7, <2>2 DEF With
    <3> QED
      BY <1>4, <1>6, <2>2, <3>1
  <2> QED
    BY <2>1, <2>2
<1>12. Tidy(new)
  <2>1. ASSUME NEW id \in Ids
        PROVE  /\ new[id] = [t \in DOMAIN new[id] |-> new[id][t]]
               /\ \A t \in DOMAIN new[id] : new[id][t] \in Int \ {0}
    <3>1. CASE id = r
      BY <1>10, <1>11, <3>1
    <3>2. CASE id # r
      BY <1>10, <3>2 DEF Tidy
    <3> QED
      BY <3>1, <3>2
  <2> QED
    BY <1>10, <2>1 DEF Tidy
<1>13. ASSUME NEW id \in Ids, NEW t
       PROVE  Count(new, id, t) = Count(m, id, t) + (IF id = r /\ t = x THEN s ELSE 0)
  <2>1. CASE id = r /\ t = x
    <3>1. Count(new, id, t) = n
      BY <1>10, <1>11, <2>1 DEF Count
    <3> QED
      BY <1>3, <2>1, <3>1
  <2>2. CASE id = r /\ t # x
    <3>1. Count(new, id, t) = Count(m, id, t)
      BY <1>5, <1>10, <1>11, <2>2 DEF Count
    <3> QED
      BY <2>2, <3>1, CountIs
  <2>3. CASE id # r
    <3>1. Count(new, id, t) = Count(m, id, t)
      BY <1>10, <2>3 DEF Count
    <3> QED
      BY <2>3, <3>1, CountIs
  <2> QED
    BY <2>1, <2>2, <2>3
<1> QED
  BY <1>1, <1>12, <1>13

(* What is done of a change at a stage of the run: of the tables' events   *)
(* while they are loaded, later of all these and of the stream's.          *)
Done(stage, ev, at, c) ==
  IF stage = "read" THEN 0
  ELSE IF stage = "tables" THEN NumDone(QueueOf(ev, "table"), at, c)
  ELSE Tally(QueueOf(ev, "table"), c) + NumDone(QueueOf(ev, "stream"), at, c)

NetIs(m, stage, ev, at) ==
  \A id \in Ids : \A t :
    Count(m, id, t) = Done(stage, ev, at, Ins(id, t)) - Done(stage, ev, at, Del(id, t))

AllDelivered(ev) == \A mux \in Muxes : AllSent(QueueOf(ev, mux), Served(mux))

LEMMA DoneIs ==
  ASSUME NEW ev, AllDelivered(ev), NEW stage, NEW at, NEW c
  PROVE  Done(stage, ev, at, c) \in Nat
<1>1. AllSent(QueueOf(ev, "table"), Served("table")) /\ AllSent(QueueOf(ev, "stream"), Served("stream"))
  BY DEF AllDelivered, Muxes
<1>2. PICK q, r : q = QueueOf(ev, "table") /\ r = QueueOf(ev, "stream")
  OBVIOUS
<1>3. NumDone(q, at, c) \in Nat
  BY <1>1, <1>2, DoneFinite
<1>4. NumDone(r, at, c) \in Nat
  BY <1>1, <1>2, DoneFinite
<1>5. Tally(q, c) \in Nat
  BY <1>1, <1>2, TallyIs
<1> QED
  BY <1>2, <1>3, <1>4, <1>5 DEF Done

StageOf(mux) == IF mux = "table" THEN "tables" ELSE "run"

(* The next change of the event under way.                                 *)
LEMMA ApplyNet ==
  ASSUME NEW ev, AllDelivered(ev), NEW mux \in Muxes, NEW q, q = QueueOf(ev, mux),
         NEW k \in DOMAIN q, NEW j \in DOMAIN Changes(q[k]),
         NEW m, Tidy(m), NetIs(m, StageOf(mux), ev, <<k, j>>),
         NEW new, new = Apply(m, Changes(q[k])[j])
  PROVE  Tidy(new) /\ NetIs(new, StageOf(mux), ev, <<k, j + 1>>)
<1>1. AllSent(q, Served(mux))
  BY DEF AllDelivered
<1>2. PICK ch : ch = Changes(q[k])[j]
  OBVIOUS
<1>3. IsChange(ch, Served(mux))
  BY <1>1, <1>2 DEF AllSent, IsSent
<1>4. Served(mux) \subseteq Ids
  BY DEF Served
<1>5. IsChange(ch, Ids)
  BY <1>3, <1>4 DEF IsChange
<1>6. Tidy(new) /\ \A id \in Ids : \A t : Count(new, id, t) =
        Count(m, id, t) + (IF id = ch.rel /\ t = ch.tuple THEN ch.sign ELSE 0)
  BY <1>2, <1>5, ApplyCounts
<1>7. ASSUME NEW c
      PROVE  Done(StageOf(mux), ev, <<k, j + 1>>, c) =
               Done(StageOf(mux), ev, <<k, j>>, c) + (IF ch = c THEN 1 ELSE 0)
  <2>1. NumDone(q, <<k, j + 1>>, c) = NumDone(q, <<k, j>>, c) + (IF ch = c THEN 1 ELSE 0)
    BY <1>1, <1>2, OneMore
  <2>2. NumDone(q, <<k, j>>, c) \in Nat
    BY <1>1, DoneFinite
  <2>3. CASE mux = "table"
    BY <2>1, <2>3 DEF Done, StageOf
  <2>4. CASE mux = "stream"
    <3>1. AllSent(QueueOf(ev, "table"), Served("table"))
      BY DEF AllDelivered, Muxes
    <3>2. PICK a \in Nat : a = Tally(QueueOf(ev, "table"), c)
      BY <3>1, TallyIs
    <3> QED
      BY <2>1, <2>2, <2>4, <3>2 DEF Done, StageOf
  <2> QED
    BY <2>3, <2>4 DEF Muxes
<1>8. ASSUME NEW id \in Ids, NEW t
      PROVE  Count(new, id, t) = Done(StageOf(mux), ev, <<k, j + 1>>, Ins(id, t))
                                  - Done(StageOf(mux), ev, <<k, j + 1>>, Del(id, t))
  <2>1. PICK a, b, d, e : /\ a = Done(StageOf(mux), ev, <<k, j>>, Ins(id, t))
                          /\ b = Done(StageOf(mux), ev, <<k, j>>, Del(id, t))
                          /\ d = Done(StageOf(mux), ev, <<k, j + 1>>, Ins(id, t))
                          /\ e = Done(StageOf(mux), ev, <<k, j + 1>>, Del(id, t))
    OBVIOUS
  <2>2. a \in Nat /\ b \in Nat
    BY <2>1, DoneIs
  <2>3. d = a + (IF ch = Ins(id, t) THEN 1 ELSE 0) /\ e = b + (IF ch = Del(id, t) THEN 1 ELSE 0)
    BY <1>7, <2>1
  <2>4. Count(m, id, t) = a - b
    BY <2>1 DEF NetIs
  <2>5. ch = [tuple |-> ch.tuple, rel |-> ch.rel, sign |-> ch.sign] /\ ch.sign \in {1, -1}
    BY <1>5 DEF IsChange
  <2>6. /\ ch = Ins(id, t) <=> id = ch.rel /\ t = ch.tuple /\ ch.sign = 1
        /\ ch = Del(id, t) <=> id = ch.rel /\ t = ch.tuple /\ ch.sign = -1
    BY <2>5 DEF Ins, Del
  <2>7. Count(new, id, t) = a - b + (IF id = ch.rel /\ t = ch.tuple THEN ch.sign ELSE 0)
    BY <1>6, <2>4
  <2>8. Count(new, id, t) = d - e
    <3>1. CASE id = ch.rel /\ t = ch.tuple
      BY <2>2, <2>3, <2>5, <2>6, <2>7, <3>1
    <3>2. CASE ~(id = ch.rel /\ t = ch.tuple)
      BY <2>2, <2>3, <2>6, <2>7, <3>2
    <3> QED
      BY <3>1, <3>2
  <2> QED
    BY <2>1, <2>8
<1> QED
  BY <1>6, <1>8 DEF NetIs

LEMMA EndNet ==
  ASSUME NEW ev, AllDelivered(ev), NEW mux \in Muxes, NEW q, q = QueueOf(ev, mux),
         NEW k \in DOMAIN q, NEW m, NetIs(m, StageOf(mux), ev, <<k, Len(Changes(q[k])) + 1>>)
  PROVE  NetIs(m, StageOf(mux), ev, <<k + 1, 1>>)
<1>1. AllSent(q, Served(mux))
  BY DEF AllDelivered
<1>2. PICK j : j = Len(Changes(q[k])) + 1
  OBVIOUS
<1>3. \A c : NumDone(q, <<k + 1, 1>>, c) = NumDone(q, <<k, j>>, c)
  BY <1>1, <1>2, NoMore
<1>4. \A c : Done(StageOf(mux), ev, <<k + 1, 1>>, c) = Done(StageOf(mux), ev, <<k, j>>, c)
  BY <1>3 DEF Done, StageOf, Muxes
<1> QED
  BY <1>2, <1>4 DEF NetIs

-----------------------------------------------------------------------------
(***************************************************************************)
(* The invariant of the lines: it is carried through the stages of a run,  *)
(* reading, loading the tables and what comes after.                       *)
(***************************************************************************)

Stage == IF pcRun \in {"read", "tables"} THEN pcRun ELSE "run"

(* What is sent: all that the lines make and, without batches, in turn.    *)
Says(ev) ==
  /\ \A mux \in Muxes : Delivers(ev, mux)
  /\ prog.batch <= 1 =>
       OrderTraced(QueueOf(ev, "stream"), PlacesOf("stream"), CsvFile, CsvRelations)

Stands(ev, p) ==
  /\ Stage = "tables" => p <= Len(QueueOf(ev, "table"))
  /\ Stage = "run" => p <= Len(QueueOf(ev, "stream"))
  /\ pcRun \in Over => p = Len(QueueOf(ev, "stream"))

CInv ==
  /\ UnderWay
  /\ Stage = "read" => ReadSoFar(events, read)
  /\ Stage # "read" => Says(events)
  /\ Stands(events, pos)
  /\ Tidy(content)
  /\ NetIs(content, Stage, events, <<pos + 1, applied + 1>>)

(* The next state says the same of the same program.                       *)
LEMMA ReadNext ==
  ASSUME UNCHANGED programVars, ReadSoFar(events', read')
  PROVE  ReadSoFar(events, read)'
<1>1. \A at : AtLine(at)' = AtLine(at)
  BY SameFiles
<1>2. AtLine(read)'
  <2>1. prog' = prog
    BY DEF programVars
  <2> QED
    BY <2>1 DEF ReadSoFar, AtLine
<1>3. Queues(events)'
  BY DEF ReadSoFar, Queues, Muxes
<1>4. \A mux \in Muxes : HasRead(events, mux, read)'
  <2> TAKE mux \in Muxes
  <2>1. HasRead(events', mux, read')
    BY DEF ReadSoFar
  <2>2. /\ CsvServed(mux)' = CsvServed(mux) /\ Served(mux)' = Served(mux)
        /\ LandsIn(mux, "list")' = LandsIn(mux, "list") /\ LandsIn(mux, "que")' = LandsIn(mux, "que")
        /\ CsvFile' = CsvFile /\ CsvRelations' = CsvRelations
    BY SameFiles
  <2> QED
    BY <2>1, <2>2, SameFiles DEF HasRead, ReadOf, Typed, TypedIn
<1> QED
  BY <1>2, <1>3, <1>4 DEF ReadSoFar, Muxes

LEMMA SaysNext ==
  ASSUME UNCHANGED programVars, Says(events')
  PROVE  Says(events)'
<1>1. /\ CsvFile' = CsvFile /\ CsvRelations' = CsvRelations /\ prog' = prog /\ registry' = registry
      /\ \A mux : Served(mux)' = Served(mux)
  BY SameFiles DEF programVars
<1>2. \A mux : PlacesOf(mux)' = PlacesOf(mux)
  BY SameFiles DEF PlacesOf
<1>3. \A mux \in Muxes : Delivers(events, mux)'
  <2> TAKE mux \in Muxes
  <2>1. Delivers(events', mux)
    BY DEF Says
  <2> QED
    BY <1>1, <1>2, <2>1 DEF Delivers, QueueOf, Counted, MakeIt, TypedIn
<1>4. (prog.batch <= 1 =>
         OrderTraced(QueueOf(events, "stream"), PlacesOf("stream"), CsvFile, CsvRelations))'
  BY <1>1, <1>2 DEF Says, QueueOf
<1> QED
  BY <1>3, <1>4 DEF Says, Muxes

LEMMA NetNext ==
  ASSUME UNCHANGED programVars, Tidy(content'), NetIs(content', Stage', events', <<pos' + 1, applied' + 1>>)
  PROVE  Tidy(content)' /\ NetIs(content, Stage, events, <<pos + 1, applied + 1>>)'
<1>1. Ids' = Ids
  BY SameFiles
<1>2. Tidy(content)'
  BY <1>1 DEF Tidy
<1>3. NetIs(content, Stage, events, <<pos + 1, applied + 1>>)'
  BY <1>1 DEF NetIs, Count, Done, QueueOf
<1> QED
  BY <1>2, <1>3

LEMMA UnderWayNext ==
  ASSUME UNCHANGED programVars, UnderWay
  PROVE  UnderWay'
BY DEF UnderWay, programVars, Registered, AddTriggers, RelationId

LEMMA SaysDelivered ==
  ASSUME NEW ev, Says(ev)
  PROVE  AllDelivered(ev)
BY DEF Says, Delivers, AllDelivered

(* A step that leaves the events and what is made of them alone.           *)
LEMMA CountsStay ==
  ASSUME CInv, UNCHANGED programVars, UNCHANGED <<read, events, pos, applied, content>>,
         Stage' = Stage,
         pcRun' \in Over => pcRun \in Over \/ pos = Len(QueueOf(events, "stream"))
  PROVE  CInv'
<1>1. UnderWay'
  BY UnderWayNext DEF CInv
<1>2. Stage' = "read" => ReadSoFar(events, read)'
  BY ReadNext DEF CInv
<1>3. Stage' # "read" => Says(events)'
  BY SaysNext DEF CInv
<1>4. Stands(events, pos)'
  BY DEF CInv, Stands, Over, QueueOf, Stopping
<1>5. Tidy(content)' /\ NetIs(content, Stage, events, <<pos + 1, applied + 1>>)'
  BY NetNext DEF CInv
<1> QED
  BY <1>1, <1>2, <1>3, <1>4, <1>5 DEF CInv

LEMMA CountsStart == Init => CInv
<1> SUFFICES ASSUME Init
             PROVE  CInv
  OBVIOUS
<1>1. UnderWay /\ pcRun = "read" /\ Stage = "read"
  BY DEF Init, UnderWay, Stage
<1>2. events = [mux \in Muxes |-> [list |-> <<>>, que |-> <<>>]] /\ read = <<1, 1>>
  BY DEF Init, Muxes
<1>3. ReadSoFar(events, read)
  BY <1>1, <1>2, StartsUnread
<1>4. Stands(events, pos)
  BY <1>1 DEF Stands, Over, Stopping
<1>5. content = [id \in Ids |-> <<>>]
  BY DEF Init
<1>6. Tidy(content) /\ \A id \in Ids : \A t : Count(content, id, t) = 0
  BY <1>5 DEF Tidy, Count
<1>7. NetIs(content, Stage, events, <<pos + 1, applied + 1>>)
  BY <1>1, <1>6 DEF NetIs, Done
<1> QED
  BY <1>1, <1>3, <1>4, <1>6, <1>7 DEF CInv

LEMMA CountsRead ==
  ASSUME IInv, CInv, ReadLine
  PROVE  CInv'
<1>1. /\ pcRun = "read" /\ pcRun' = "read" /\ UNCHANGED programVars
      /\ UNCHANGED <<pos, applied, content>>
  BY DEF ReadLine, runVars
<1>2. Stage = "read" /\ Stage' = "read"
  BY <1>1 DEF Stage
<1>3. ReadSoFar(events', read')
  BY <1>2, ReadReads DEF CInv
<1>4. Stands(events, pos)'
  BY <1>1, <1>2 DEF Stands, Over, Stopping
<1>5. Tidy(content') /\ NetIs(content', Stage', events', <<pos' + 1, applied' + 1>>)
  BY <1>1, <1>2 DEF CInv, NetIs, Done
<1> QED
  BY <1>1, <1>2, <1>3, <1>4, <1>5, ReadNext, NetNext, UnderWayNext DEF CInv

LEMMA CountsInit ==
  ASSUME IInv, CInv, InitSources
  PROVE  CInv'
<1>1. /\ pcRun = "read" /\ pcRun' = "tables" /\ UNCHANGED programVars
      /\ UNCHANGED <<pos, applied, content>> /\ read[1] > Len(prog.sources)
      /\ events' = [mux \in Muxes |-> Arranging(mux)]
  BY DEF InitSources, runVars, Muxes, Arranging
<1>2. Stage = "read" /\ Stage' = "tables"
  BY <1>1 DEF Stage
<1>3. UnderWay /\ ReadSoFar(events, read)
  BY <1>2 DEF CInv
<1>4. PICK ev : ev = events'
  OBVIOUS
<1>5. \A mux \in Muxes : ev[mux] = Arranging(mux)
  BY <1>1, <1>4
<1>6. \A mux \in Muxes : Delivers(ev, mux)
  BY <1>1, <1>3, <1>5, MuxDelivers
<1>7. ASSUME prog.batch <= 1
      PROVE  OrderTraced(QueueOf(ev, "stream"), PlacesOf("stream"), CsvFile, CsvRelations)
  <2>1. "stream" \in Muxes
    BY DEF Muxes
  <2> QED
    BY <1>1, <1>3, <1>5, <1>7, <2>1, MuxInOrder
<1>8. Says(events')
  BY <1>4, <1>6, <1>7 DEF Says
<1>9. pos = 0 /\ applied = 0
  BY <1>1, <1>3 DEF IInv, ContentFollows, ReadSoFar
<1>10. AllSent(QueueOf(events', "table"), Served("table"))
  BY <1>8, SaysDelivered DEF AllDelivered, Muxes
<1>11. PICK q : q = QueueOf(events', "table")
  OBVIOUS
<1>12. Len(q) \in Nat /\ \A c : NumDone(q, <<1, 1>>, c) = 0
  BY <1>10, <1>11, NoneDone, ListFacts DEF AllSent
<1>13. Stands(events, pos)'
  <2>1. Stands(events, pos)' <=>
          /\ Stage' = "tables" => pos' <= Len(QueueOf(events', "table"))
          /\ Stage' = "run" => pos' <= Len(QueueOf(events', "stream"))
          /\ pcRun' \in Over => pos' = Len(QueueOf(events', "stream"))
    BY DEF Stands, QueueOf, Over, Stopping
  <2>2. pos' = 0 /\ Stage' = "tables" /\ pcRun' \notin Over
    BY <1>1, <1>2, <1>9 DEF Over, Stopping
  <2>3. 0 <= Len(QueueOf(events', "table"))
    BY <1>11, <1>12
  <2> QED
    BY <2>1, <2>2, <2>3
<1>14. NetIs(content, Stage, events, <<pos + 1, applied + 1>>) /\ Tidy(content)
  BY DEF CInv
<1>15. \A id \in Ids : \A t : Count(content, id, t) = 0
  BY <1>2, <1>14 DEF NetIs, Done
<1>16. Tidy(content') /\ NetIs(content', Stage', events', <<pos' + 1, applied' + 1>>)
  <2>1. content' = content /\ Stage' = "tables" /\ <<pos' + 1, applied' + 1>> = <<1, 1>>
    BY <1>1, <1>2, <1>9
  <2>2. \A c : Done("tables", events', <<1, 1>>, c) = 0
    BY <1>11, <1>12 DEF Done
  <2>3. NetIs(content, "tables", events', <<1, 1>>)
    BY <1>15, <2>2 DEF NetIs
  <2> QED
    BY <1>14, <2>1, <2>3
<1>17. Says(events)'
  BY <1>1, <1>8, SaysNext
<1> QED
  BY <1>1, <1>2, <1>3, <1>13, <1>16, <1>17, NetNext, UnderWayNext DEF CInv

(* Whatever is delivered has a trigger.                                    *)
LEMMA SentHandled ==
  ASSUME NEW mux \in Muxes, NEW e, IsSent(e, Served(mux)), <<e.id, e.type>> \in registry.triggers
  PROVE  IsHandled(e, mux)
BY DEF IsSent, Served, IsHandled

LEMMA ProcessCounts ==
  ASSUME CInv, Says(events), pos \in Nat, applied \in Nat, NEW mux \in Muxes,
         Stage = StageOf(mux), NEW after, Process(mux, after)
  PROVE  /\ Tidy(content') /\ NetIs(content', StageOf(mux), events, <<pos' + 1, applied' + 1>>)
         /\ pos' <= Len(QueueOf(events, mux))
         /\ pcRun' = pcRun \/ pcRun' = after
<1>1. AllDelivered(events)
  BY SaysDelivered
<1>2. PICK q : q = QueueOf(events, mux)
  OBVIOUS
<1>3. AllSent(q, Served(mux)) /\ Len(q) \in Nat /\ DOMAIN q = 1..Len(q)
  <2>1. AllSent(q, Served(mux))
    BY <1>1, <1>2 DEF AllDelivered
  <2> QED
    BY <2>1, ListFacts DEF AllSent
<1>4. PICK e : e = q[pos + 1]
  OBVIOUS
<1>5. PICK n : n = IF IsHandled(e, mux) THEN Len(Changes(e)) ELSE 0
  OBVIOUS
<1>6. /\ pos < Len(q)
      /\ \/ /\ applied < n
            /\ content' = Apply(content, Changes(e)[applied + 1])
            /\ applied' = applied + 1
            /\ UNCHANGED <<pos, pcRun>>
         \/ /\ applied = n
            /\ applied' = 0
            /\ pos' = pos + 1
            /\ pcRun' = after
            /\ UNCHANGED content
  BY <1>2, <1>4, <1>5 DEF Process, Queued, QueueOf
<1>7. PICK k : k = pos + 1
  OBVIOUS
<1>8. k \in DOMAIN q /\ k \in Nat
  BY <1>3, <1>6, <1>7
<1>9. IsSent(e, Served(mux)) /\ e = q[k]
  BY <1>3, <1>4, <1>7, <1>8 DEF AllSent
<1>9a. <<e.id, e.type>> \in registry.triggers
  <2>1. TypedIn(q, registry.triggers)
    BY <1>2 DEF Says, Delivers
  <2> QED
    BY <1>8, <1>9, <2>1 DEF TypedIn
<1>10. n = Len(Changes(e)) /\ n \in Nat /\ DOMAIN Changes(e) = 1..n
  <2>1. n = Len(Changes(e))
    BY <1>5, <1>9, <1>9a, SentHandled
  <2> QED
    BY <1>9, <2>1 DEF IsSent, IsSequence
<1>11. Tidy(content) /\ NetIs(content, StageOf(mux), events, <<k, applied + 1>>)
  BY <1>7 DEF CInv
<1>12. CASE applied < n /\ content' = Apply(content, Changes(e)[applied + 1])
            /\ applied' = applied + 1 /\ UNCHANGED <<pos, pcRun>>
  <2>1. PICK j : j = applied + 1
    OBVIOUS
  <2>2. j \in DOMAIN Changes(q[k])
    BY <1>9, <1>10, <1>12, <2>1
  <2>3. content' = Apply(content, Changes(q[k])[j])
    BY <1>9, <1>12, <2>1
  <2>4. NetIs(content, StageOf(mux), events, <<k, j>>)
    BY <1>11, <2>1
  <2>5. PICK new : new = content'
    OBVIOUS
  <2>6. Tidy(new) /\ NetIs(new, StageOf(mux), events, <<k, j + 1>>)
    BY <1>1, <1>2, <1>8, <1>11, <2>2, <2>3, <2>4, <2>5, ApplyNet
  <2>7. <<pos' + 1, applied' + 1>> = <<k, j + 1>>
    BY <1>7, <1>12, <2>1
  <2> QED
    BY <1>2, <1>3, <1>6, <1>12, <2>5, <2>6, <2>7
<1>13. CASE applied = n /\ applied' = 0 /\ pos' = pos + 1 /\ pcRun' = after /\ UNCHANGED content
  <2>1. NetIs(content, StageOf(mux), events, <<k, Len(Changes(q[k])) + 1>>)
    BY <1>9, <1>10, <1>11, <1>13
  <2>2. NetIs(content, StageOf(mux), events, <<k + 1, 1>>)
    BY <1>1, <1>2, <1>8, <2>1, EndNet
  <2>3. <<pos' + 1, applied' + 1>> = <<k + 1, 1>>
    BY <1>7, <1>13
  <2> QED
    BY <1>2, <1>3, <1>6, <1>11, <1>13, <2>2, <2>3
<1> QED
  BY <1>6, <1>12, <1>13

(* A step of the run that leaves the program and its events alone.         *)
LEMMA CountsGo ==
  ASSUME CInv, Says(events), UNCHANGED programVars, UNCHANGED events, Stage' # "read",
         Tidy(content'), NetIs(content', Stage', events, <<pos' + 1, applied' + 1>>),
         Stage' = "tables" => pos' <= Len(QueueOf(events, "table")),
         Stage' = "run" => pos' <= Len(QueueOf(events, "stream")),
         pcRun' \notin Over
  PROVE  CInv'
<1>1. UnderWay'
  BY UnderWayNext DEF CInv
<1>2. Says(events)'
  BY SaysNext
<1>3. Stands(events, pos)'
  BY DEF Stands, QueueOf, Over, Stopping
<1>4. Tidy(content)' /\ NetIs(content, Stage, events, <<pos + 1, applied + 1>>)'
  BY NetNext
<1> QED
  BY <1>1, <1>2, <1>3, <1>4 DEF CInv

LEMMA CountsTables ==
  ASSUME IInv, CInv, ProcessTables
  PROVE  CInv'
<1>1. pcRun = "tables" /\ UNCHANGED programVars /\ UNCHANGED events
  BY DEF ProcessTables, readVars
<1>2. Stage = "tables" /\ Stage = StageOf("table") /\ "table" \in Muxes /\ "stream" \in Muxes
  BY <1>1 DEF Stage, StageOf, Muxes
<1>3. Says(events)
  BY <1>2 DEF CInv
<1>4. pos \in Nat /\ applied \in Nat
  BY DEF IInv, ContentFollows
<1>5. CASE Process("table", "tables")
  <2>1. /\ Tidy(content') /\ NetIs(content', "tables", events, <<pos' + 1, applied' + 1>>)
        /\ pos' <= Len(QueueOf(events, "table"))
        /\ pcRun' = "tables"
    BY <1>1, <1>2, <1>3, <1>4, <1>5, ProcessCounts
  <2>2. Stage' = "tables" /\ pcRun' \notin Over
    BY <2>1 DEF Stage, Over, Stopping
  <2> QED
    BY <1>1, <1>3, <2>1, <2>2, CountsGo
<1>6. CASE /\ pos = Len(Queued("table")) /\ pos' = 0 /\ pcRun' = "start"
           /\ UNCHANGED <<applied, content>>
  <2>1. pos = Len(QueueOf(events, "table"))
    BY <1>6 DEF Queued, QueueOf
  <2>2. applied = 0
    BY <1>1, <1>4, <2>1 DEF IInv, ContentFollows, Partly
  <2>3. Stage' = "run" /\ pcRun' \notin Over
    BY <1>6 DEF Stage, Over, Stopping
  <2>4. PICK q, r : q = QueueOf(events, "table") /\ r = QueueOf(events, "stream")
    OBVIOUS
  <2>5. AllSent(q, Served("table")) /\ AllSent(r, Served("stream"))
    BY <1>2, <1>3, <2>4, SaysDelivered DEF AllDelivered
  <2>6. \A c : Tally(q, c) \in Nat /\ NumDone(q, <<Len(q) + 1, 1>>, c) = Tally(q, c)
               /\ NumDone(r, <<1, 1>>, c) = 0
    BY <2>5, AllDone, NoneDone, TallyIs
  <2>7. \A c : Done("run", events, <<1, 1>>, c) = Done("tables", events, <<Len(q) + 1, 1>>, c)
    BY <2>4, <2>6 DEF Done
  <2>8. NetIs(content, "tables", events, <<Len(q) + 1, 1>>) /\ Tidy(content)
    BY <1>2, <2>1, <2>2, <2>4 DEF CInv
  <2>9. NetIs(content, "run", events, <<1, 1>>)
    BY <2>7, <2>8 DEF NetIs
  <2>10. <<pos' + 1, applied' + 1>> = <<1, 1>>
    BY <1>6, <2>2
  <2>11. pos' <= Len(QueueOf(events, "stream"))
    <3>1. Len(r) \in Nat
      BY <2>5, ListFacts DEF AllSent
    <3> QED
      BY <1>6, <2>4, <3>1
  <2> QED
    BY <1>1, <1>3, <1>6, <2>3, <2>8, <2>9, <2>10, <2>11, CountsGo
<1> QED
  BY <1>5, <1>6 DEF ProcessTables

LEMMA CountsEvent ==
  ASSUME IInv, CInv, ProcessStreamEvent
  PROVE  CInv'
<1>1. pcRun = "stream" /\ UNCHANGED programVars /\ UNCHANGED events /\ Process("stream", "check")
  BY DEF ProcessStreamEvent, readVars
<1>2. Stage = "run" /\ Stage = StageOf("stream") /\ "stream" \in Muxes
  BY <1>1 DEF Stage, StageOf, Muxes
<1>3. Says(events)
  BY <1>2 DEF CInv
<1>4. pos \in Nat /\ applied \in Nat
  BY DEF IInv, ContentFollows
<1>5. /\ Tidy(content') /\ NetIs(content', "run", events, <<pos' + 1, applied' + 1>>)
      /\ pos' <= Len(QueueOf(events, "stream"))
      /\ pcRun' \in {"stream", "check"}
  BY <1>1, <1>2, <1>3, <1>4, ProcessCounts
<1>6. Stage' = "run" /\ pcRun' \notin Over
  BY <1>5 DEF Stage, Over, Stopping
<1> QED
  BY <1>1, <1>3, <1>5, <1>6, CountsGo

(* All other steps leave the events and what is made of them alone.        *)
LEMMA CountsElse ==
  ASSUME IInv, CInv,
         StartRunning \/ ProcessSnapshot \/ StreamsEnd \/ StopRunning \/ Client \/ UNCHANGED vars
  PROVE  CInv'
<1>1. UNCHANGED programVars /\ UNCHANGED <<read, events, pos, applied, content>>
  BY DEF StartRunning, ProcessSnapshot, CheckRequest, ClearRequest, Announce, StreamsEnd,
         StopRunning, Client, GetSnapshot, LockRunning, RequestSnapshot, Ask, WaitForSnapshot,
         vars, readVars, runVars
<1>2. \/ pcRun' = pcRun
      \/ /\ pcRun \notin {"read", "tables"} /\ pcRun' \notin {"read", "tables"}
         /\ pcRun' \in Over => pcRun \in Over \/ pos = Len(Queued("stream"))
  BY DEF StartRunning, ProcessSnapshot, CheckRequest, ClearRequest, Announce, StreamsEnd,
         StopRunning, Client, GetSnapshot, LockRunning, RequestSnapshot, Ask, WaitForSnapshot,
         vars, Over, Stopping
<1>3. Stage' = Stage
  BY <1>2 DEF Stage
<1>4. pcRun' \in Over => pcRun \in Over \/ pos = Len(QueueOf(events, "stream"))
  BY <1>2 DEF Queued, QueueOf
<1> QED
  BY <1>1, <1>3, <1>4, CountsStay

(* What is read, sent and made of it agree in every state of the run: the  *)
(* events read are those of the lines before the next one, the events to   *)
(* be sent make the changes of all lines, and a relation holds every tuple *)
(* as often as the changes done so far insert it more than they delete it. *)
THEOREM ContentInvariant == Spec => []CInv
<1>1. Init => CInv
  BY CountsStart
<1>2. IInv /\ CInv /\ [Next]_vars => CInv'
  <2> SUFFICES ASSUME IInv, CInv, [Next]_vars
               PROVE  CInv'
    OBVIOUS
  <2>1. CASE InitProgram
    BY <2>1, CountsRead, CountsInit, CountsTables DEF InitProgram
  <2>2. CASE ProcessStreamEvent
    BY <2>2, CountsEvent
  <2>3. CASE StartRunning \/ ProcessSnapshot \/ StreamsEnd \/ StopRunning \/ Client \/ UNCHANGED vars
    BY <2>3, CountsElse
  <2> QED
    BY <2>1, <2>2, <2>3 DEF Next, Run, Ended
<1> QED
  BY <1>1, <1>2, ProgramInvariant, PTL DEF Spec

-----------------------------------------------------------------------------
(***************************************************************************)
(* What the invariant says of the files.                                   *)
(***************************************************************************)

(* The events of one relation and order, in what was processed and in the  *)
(* files.                                                                  *)
StreamKey(s, id, o) == [k \in {k \in DOMAIN s : s[k].id = id /\ s[k].order = o} |-> <<k, 0>>]
FileKey(P, file, id, o) == [p \in {p \in P : file[p].id = id /\ file[p].order = o} |-> p]

LEMMA FilesKeyed ==
  ASSUME NEW P, IsFiniteSet(P), ArePlaces(P), NEW file, NEW id, NEW o
  PROVE  Keyed(FileKey(P, file, id, o))
<1>1. PICK F : F = {p \in P : file[p].id = id /\ file[p].order = o}
  OBVIOUS
<1>2. PICK key : key = [p \in F |-> p]
  OBVIOUS
<1>3. F \subseteq P /\ FileKey(P, file, id, o) = key /\ DOMAIN key = F
  BY <1>1, <1>2 DEF FileKey
<1>4. IsFiniteSet(F)
  BY <1>3, FS_Subset
<1>5. \A p \in F : key[p] = p /\ p = <<p[1], p[2]>> /\ p[1] \in Nat /\ p[2] \in Nat
  BY <1>2, <1>3 DEF ArePlaces
<1>6. ASSUME NEW x \in F, NEW y \in F, x # y
      PROVE  key[x][1] # key[y][1] \/ key[x][2] # key[y][2]
  BY <1>5, <1>6
<1> QED
  BY <1>3, <1>4, <1>5, <1>6 DEF Keyed

LEMMA StreamKeyed ==
  ASSUME NEW s, IsList(s), NEW id, NEW o
  PROVE  Keyed(StreamKey(s, id, o))
<1>1. PICK K : K = {k \in DOMAIN s : s[k].id = id /\ s[k].order = o}
  OBVIOUS
<1>2. PICK key : key = [k \in K |-> <<k, 0>>]
  OBVIOUS
<1>3. K \subseteq 1..Len(s) /\ Len(s) \in Nat /\ StreamKey(s, id, o) = key /\ DOMAIN key = K
  BY <1>1, <1>2, ListFacts DEF StreamKey
<1>4. IsFiniteSet(K)
  <2>1. PICK n \in Nat : n = Len(s)
    BY <1>3
  <2>2. IsFiniteSet(1..n)
    BY FS_Interval
  <2> QED
    BY <1>3, <2>1, <2>2, FS_Subset
<1>5. \A k \in K : key[k] = <<k, 0>> /\ k \in Int
  BY <1>2, <1>3
<1>6. \A k \in K : key[k][1] = k /\ key[k][2] = 0 /\ k \in Int
  BY <1>5
<1>7. \A k, l \in K : k # l => key[k][1] # key[l][1] \/ key[k][2] # key[l][2]
  BY <1>6
<1>8. \A k \in K : key[k][1] \in Int /\ key[k][2] \in Int
  BY <1>6
<1>9. Keyed(key)
  BY <1>3, <1>4, <1>7, <1>8 DEF Keyed
<1> QED
  BY <1>3, <1>9

LEMMA StreamBegins ==
  ASSUME NEW q, IsList(q), NEW n \in 0..Len(q), NEW s, s = SubSeq(q, 1, n),
         NEW P, IsFiniteSet(P), ArePlaces(P), NEW file, NEW rels, OrderTraced(q, P, file, rels),
         NEW id \in rels, NEW o
  PROVE  IsPrefix(Arranged(s, StreamKey(s, id, o)), Arranged(file, FileKey(P, file, id, o)))
<1>1. PICK h : OrderTracing(h, q, P, file, rels)
  BY DEF OrderTraced
<1>2. Len(q) \in Nat /\ DOMAIN q = 1..Len(q)
  BY ListFacts
<1>3. IsList(s) /\ DOMAIN s = 1..n /\ n \in Nat /\ \A k \in 1..n : s[k] = q[k] /\ k \in DOMAIN q
  <2>1. n \in Nat /\ n <= Len(q) /\ 0 \in Nat /\ s = SubSeq(q, 0 + 1, n)
    BY <1>2
  <2>2. IsList(s) /\ Len(s) = n - 0 /\ \A j \in 1..n - 0 : s[j] = q[0 + j]
    BY <2>1, PartOf
  <2> QED
    BY <1>2, <2>1, <2>2, ListFacts
<1>4. PICK K, F : /\ K = {k \in DOMAIN s : s[k].id = id /\ s[k].order = o}
                  /\ F = {p \in P : file[p].id = id /\ file[p].order = o}
  OBVIOUS
<1>5. PICK key, other : key = StreamKey(s, id, o) /\ other = FileKey(P, file, id, o)
  OBVIOUS
<1>6. /\ DOMAIN key = K /\ \A k \in K : key[k] = <<k, 0>>
      /\ DOMAIN other = F /\ \A p \in F : other[p] = p
  BY <1>4, <1>5 DEF StreamKey, FileKey
<1>7. \A k \in K : k \in FromFiles(q, rels) /\ k \in Nat /\ k <= n /\ q[k].id = id /\ q[k].order = o
  BY <1>3, <1>4 DEF FromFiles
<1>8. \A k \in FromFiles(q, rels) : k \in Nat /\ h[k] \in P /\ q[k] = file[h[k]]
  BY <1>1, <1>2 DEF OrderTracing, Matching, FromFiles
<1>9. \A k, l \in FromFiles(q, rels) :
        q[k].id = id /\ q[l].id = id /\ q[k].order = o /\ q[l].order = o /\ k < l => IsBefore(h[k], h[l])
  BY <1>1 DEF OrderTracing
<1>10. \A x, y \in P : IsBefore(x, y) => ~IsBefore(y, x) /\ x # y
  BY DEF ArePlaces, IsBefore
<1>11. \A k, l \in FromFiles(q, rels) :
         q[k].id = id /\ q[l].id = id /\ q[k].order = o /\ q[l].order = o => (k < l <=> IsBefore(h[k], h[l]))
  <2> SUFFICES ASSUME NEW k \in FromFiles(q, rels), NEW l \in FromFiles(q, rels),
                      q[k].id = id, q[l].id = id, q[k].order = o, q[l].order = o,
                      IsBefore(h[k], h[l])
               PROVE  k < l
    BY <1>9
  <2>1. h[k] \in P /\ h[l] \in P /\ k \in Nat /\ l \in Nat
    BY <1>8
  <2>2. ~IsBefore(h[l], h[k]) /\ h[k] # h[l]
    BY <1>10, <2>1
  <2>3. ~(l < k)
    BY <1>9, <2>2
  <2>4. k # l
    BY <2>2
  <2> QED
    BY <2>1, <2>3, <2>4
<1>12. \A k \in K : h[k] \in F /\ s[k] = file[h[k]]
  BY <1>3, <1>4, <1>7, <1>8
<1>13. \A k, l \in K : IsBefore(key[k], key[l]) <=> IsBefore(h[k], h[l])
  <2> TAKE k, l \in K
  <2>1. IsBefore(key[k], key[l]) <=> k < l
    BY <1>6, <1>7 DEF IsBefore
  <2> QED
    BY <1>7, <1>11, <2>1
<1>14. \A k \in K, p \in F : IsBefore(p, h[k]) => \E l \in K : h[l] = p
  <2> TAKE k \in K, p \in F
  <2> HAVE IsBefore(p, h[k])
  <2>1. p \in P /\ file[p].id = id /\ file[p].order = o
    BY <1>4
  <2>2. PICK l \in FromFiles(q, rels) : h[l] = p
    BY <1>1, <2>1 DEF OrderTracing, Matching
  <2>3. q[l].id = id /\ q[l].order = o /\ l \in Nat
    BY <1>8, <2>1, <2>2
  <2>4. l < k
    BY <1>7, <1>11, <2>2, <2>3
  <2>5. l \in 1..n
    BY <1>2, <1>3, <1>7, <2>3, <2>4 DEF FromFiles
  <2>6. l \in K
    BY <1>3, <1>4, <2>3, <2>5
  <2> QED
    BY <2>2, <2>6
<1>15. Begins(s, key, file, other, h)
  <2>1. \A k \in DOMAIN key : h[k] \in DOMAIN other /\ s[k] = file[h[k]]
    BY <1>6, <1>12
  <2>2. \A k, l \in DOMAIN key :
          IsBefore(key[k], key[l]) <=> IsBefore(other[h[k]], other[h[l]])
    BY <1>6, <1>12, <1>13
  <2>3. \A k \in DOMAIN key, p \in DOMAIN other :
          IsBefore(other[p], other[h[k]]) => \E l \in DOMAIN key : h[l] = p
    <3> TAKE k \in DOMAIN key, p \in DOMAIN other
    <3> HAVE IsBefore(other[p], other[h[k]])
    <3>1. k \in K /\ p \in F /\ h[k] \in F
      BY <1>6, <1>12
    <3>2. other[p] = p /\ other[h[k]] = h[k]
      BY <1>6, <3>1
    <3>3. IsBefore(p, h[k])
      BY <3>2
    <3> QED
      BY <1>6, <1>14, <3>1, <3>3
  <2> QED
    BY <2>1, <2>2, <2>3 DEF Begins
<1>16. Keyed(key) /\ Keyed(other)
  BY <1>3, <1>5, StreamKeyed, FilesKeyed
<1> QED
  BY <1>5, <1>15, <1>16, ArrangedBegins

(* The places of a relation of the stream are all the stream's.            *)
LEMMA StreamPlaces ==
  ASSUME UnderWay, NEW id \in Served("stream"), NEW p \in CsvPlaces, CsvFile[p].id = id
  PROVE  p \in PlacesOf("stream")
<1>1. ASSUME p \in PlacesOf("table")
      PROVE  FALSE
  <2>1. Multiplexer(prog.sources[p[1]]) = "table"
    BY <1>1 DEF PlacesOf, LandsIn
  <2>2. id \in CsvServed("table")
    BY <2>1, PlacesAre DEF IsRaw
  <2>3. id \in Served("table")
    BY <2>2, MuxesMix DEF Muxes
  <2> QED
    BY <2>3 DEF Served
<1> QED
  BY <1>1, AllPlaces

LEMMA PlacesFinite ==
  ASSUME NEW q, IsList(q), NEW P, NEW file, NEW rels, OrderTraced(q, P, file, rels)
  PROVE  IsFiniteSet(P)
<1>1. PICK h : Matching(h, FromFiles(q, rels), P)
  BY DEF OrderTraced, OrderTracing
<1>2. FromFiles(q, rels) \subseteq 1..Len(q) /\ Len(q) \in Nat
  BY ListFacts DEF FromFiles
<1>3. IsFiniteSet(FromFiles(q, rels))
  <2>1. PICK n \in Nat : n = Len(q)
    BY <1>2
  <2>2. IsFiniteSet(1..n)
    BY FS_Interval
  <2> QED
    BY <1>2, <2>1, <2>2, FS_Subset
<1> QED
  BY <1>1, <1>3, MatchedSize

LEMMA OrderIsKept == IInv /\ CInv => FileOrderKept
<1> SUFFICES ASSUME IInv, CInv, prog.batch <= 1, Initialised, pcRun # "start",
                    NEW k \in DOMAIN Processed, Processed[k].id \in CsvRelations
             PROVE  /\ \A j \in 1..k : Processed[j].id = Processed[k].id =>
                                         Processed[j].order <= Processed[k].order
                    /\ IsPrefix(InStream(Processed[k].id, Processed[k].order),
                                InFiles(Processed[k].id, Processed[k].order))
  BY DEF FileOrderKept
<1>1. Stage = "run"
  BY DEF Stage, Initialised
<1>2. UnderWay /\ Says(events) /\ Stands(events, pos) /\ pos \in Nat
  BY <1>1 DEF CInv, IInv, ContentFollows
<1>3. PICK q : q = QueueOf(events, "stream")
  OBVIOUS
<1>4. PICK P : P = PlacesOf("stream")
  OBVIOUS
<1>5. AllSent(q, Served("stream")) /\ IsList(q) /\ Len(q) \in Nat /\ DOMAIN q = 1..Len(q)
  <2>1. AllSent(q, Served("stream"))
    BY <1>2, <1>3, SaysDelivered DEF AllDelivered, Muxes
  <2> QED
    BY <2>1, ListFacts DEF AllSent
<1>6. OrderTraced(q, P, CsvFile, CsvRelations)
  BY <1>2, <1>3, <1>4 DEF Says
<1>7. pos \in 0..Len(q)
  BY <1>1, <1>2, <1>3, <1>5 DEF Stands
<1>8. PICK s : s = Processed
  OBVIOUS
<1>9. s = SubSeq(q, 1, pos)
  BY <1>3, <1>8 DEF Processed, Queued, QueueOf
<1>10. DOMAIN s = 1..pos /\ \A l \in 1..pos : s[l] = q[l] /\ l \in DOMAIN q
  <2>1. PICK a \in Nat : a = 0
    OBVIOUS
  <2>2. a + 1 = 1 /\ a <= pos /\ pos <= Len(q)
    BY <1>2, <1>5, <1>7, <2>1
  <2>3. s = SubSeq(q, a + 1, pos)
    BY <1>9, <2>2
  <2>4. IsList(s) /\ Len(s) = pos - a /\ \A j \in 1..pos - a : s[j] = q[a + j]
    BY <1>2, <1>5, <2>2, <2>3, PartOf
  <2>5. Len(s) = pos /\ \A j \in 1..pos : s[j] = q[j]
    BY <1>2, <2>1, <2>4
  <2>6. DOMAIN s = 1..pos
    BY <2>4, <2>5, ListFacts
  <2> QED
    BY <1>2, <1>5, <1>7, <2>5, <2>6
<1>11. PICK id, o : id = s[k].id /\ o = s[k].order
  OBVIOUS
<1>12. k \in 1..pos /\ k \in Nat /\ id \in CsvRelations /\ q[k].id = id /\ q[k].order = o
  BY <1>2, <1>8, <1>10, <1>11
<1>13. id \in Served("stream") /\ o \in Int
  BY <1>5, <1>10, <1>12 DEF AllSent, IsSent
<1>14. ASSUME NEW j \in 1..k, s[j].id = id
       PROVE  s[j].order <= o
  <2>1. j \in 1..pos /\ q[j].id = id /\ s[j].order = q[j].order /\ j \in DOMAIN q /\ k \in DOMAIN q
    BY <1>2, <1>10, <1>12, <1>14
  <2>2. CASE j = k
    BY <1>12, <1>13, <2>1, <2>2
  <2>3. CASE j < k
    <3>1. j \in FromFiles(q, CsvRelations) /\ k \in FromFiles(q, CsvRelations)
      BY <1>12, <2>1 DEF FromFiles
    <3> QED
      BY <1>6, <1>12, <2>1, <2>3, <3>1 DEF OrderTraced, OrderTracing
  <2> QED
    BY <1>12, <2>2, <2>3
<1>15. IsPrefix(InStream(id, o), InFiles(id, o))
  <2>1. P \subseteq CsvPlaces
    BY <1>4 DEF PlacesOf, LandsIn
  <2>2. ArePlaces(P)
    BY <1>2, <2>1, PlacesAre DEF ArePlaces
  <2>3. IsFiniteSet(P)
    BY <1>5, <1>6, PlacesFinite
  <2>4. {p \in CsvPlaces : CsvFile[p].id = id /\ CsvFile[p].order = o} =
        {p \in P : CsvFile[p].id = id /\ CsvFile[p].order = o}
    BY <1>2, <1>4, <1>13, <2>1, StreamPlaces
  <2>5. InFiles(id, o) = Arranged(CsvFile, FileKey(P, CsvFile, id, o))
    BY <2>4 DEF InFiles, FileKey
  <2>6. InStream(id, o) = Arranged(s, StreamKey(s, id, o))
    BY <1>8 DEF InStream, StreamKey
  <2>7. IsPrefix(Arranged(s, StreamKey(s, id, o)), Arranged(CsvFile, FileKey(P, CsvFile, id, o)))
    BY <1>5, <1>6, <1>7, <1>9, <1>12, <2>2, <2>3, StreamBegins
  <2> QED
    BY <2>5, <2>6, <2>7
<1> QED
  BY <1>8, <1>11, <1>14, <1>15

(* At the end all is done, and all that is done is what the lines make.    *)
LEMMA AllIsDone ==
  ASSUME UnderWay, Says(events), NEW n, n = Len(QueueOf(events, "stream")) + 1,
         NEW c, c.rel \in CsvRelations
  PROVE  Counted(Done("run", events, <<n, 1>>, c), CsvPlaces, c)
<1>1. PICK q, r : q = QueueOf(events, "table") /\ r = QueueOf(events, "stream")
  OBVIOUS
<1>2. Delivers(events, "table") /\ Delivers(events, "stream")
  BY DEF Says, Muxes
<1>3. PICK a, b : a = Tally(q, c) /\ b = Tally(r, c)
  OBVIOUS
<1>4. Counted(a, PlacesOf("table"), c) /\ Counted(b, PlacesOf("stream"), c)
  BY <1>1, <1>2, <1>3 DEF Delivers
<1>5. Counted(a + b, PlacesOf("table") \cup PlacesOf("stream"), c)
  BY <1>4, AllPlaces, CountedBoth
<1>6. Counted(a + b, CsvPlaces, c)
  BY <1>5, AllPlaces
<1>7. NumDone(r, <<n, 1>>, c) = b
  BY <1>1, <1>2, <1>3, AllDone DEF Delivers
<1>8. Done("run", events, <<n, 1>>, c) = a + b
  BY <1>1, <1>3, <1>7 DEF Done
<1> QED
  BY <1>6, <1>8

(* The lines that make an insertion or a deletion.                         *)
LEMMA LinesAre ==
  ASSUME UnderWay, NEW id, NEW t
  PROVE  /\ Lines(id, t, "insert") = MakeIt(CsvPlaces, Ins(id, t))
         /\ Lines(id, t, "delete") = MakeIt(CsvPlaces, Del(id, t))
<1>1. ASSUME NEW p \in CsvPlaces
      PROVE  CsvFile[p].type \in {"insert", "delete"}
  BY PlacesAre DEF IsRaw
<1>2. ASSUME NEW p \in CsvPlaces
      PROVE  /\ ChangeOf(CsvFile[p]) = Ins(id, t) <=>
                  CsvFile[p].id = id /\ CsvFile[p].data = t /\ CsvFile[p].type = "insert"
             /\ ChangeOf(CsvFile[p]) = Del(id, t) <=>
                  CsvFile[p].id = id /\ CsvFile[p].data = t /\ CsvFile[p].type = "delete"
  <2>1. PICK d, i, ty : d = CsvFile[p].data /\ i = CsvFile[p].id /\ ty = CsvFile[p].type
    OBVIOUS
  <2>2. ChangeOf(CsvFile[p]) = [tuple |-> d, rel |-> i, sign |-> IF ty = "insert" THEN 1 ELSE -1]
    BY <2>1 DEF ChangeOf
  <2>3. ty \in {"insert", "delete"}
    BY <1>1, <2>1
  <2>4. /\ [tuple |-> d, rel |-> i, sign |-> 1] = Ins(id, t) <=> i = id /\ d = t
        /\ [tuple |-> d, rel |-> i, sign |-> -1] = Del(id, t) <=> i = id /\ d = t
        /\ [tuple |-> d, rel |-> i, sign |-> 1] # Del(id, t)
        /\ [tuple |-> d, rel |-> i, sign |-> -1] # Ins(id, t)
    BY DEF Ins, Del
  <2>5. CASE ty = "insert"
    BY <2>1, <2>2, <2>4, <2>5
  <2>6. CASE ty = "delete"
    BY <2>1, <2>2, <2>4, <2>6
  <2> QED
    BY <2>3, <2>5, <2>6
<1> QED
  BY <1>2 DEF Lines, MakeIt

LEMMA NetIsHeld ==
  ASSUME IInv, CInv, pcRun \in {"stop", "done"}, NEW id \in CsvRelations, id \in Ids, NEW t
  PROVE  Count(content, id, t) = Net(id, t)
<1>1. Stage = "run" /\ pcRun \in Over /\ applied = 0 /\ pos \in Nat
  BY DEF Stage, Over, IInv, ContentFollows
<1>2. UnderWay /\ Says(events) /\ pos = Len(QueueOf(events, "stream"))
  BY <1>1 DEF CInv, Stands
<1>3. PICK n : n = pos + 1
  OBVIOUS
<1>4. NetIs(content, "run", events, <<n, 1>>)
  BY <1>1, <1>3 DEF CInv
<1>5. PICK a, b : a = Done("run", events, <<n, 1>>, Ins(id, t)) /\ b = Done("run", events, <<n, 1>>, Del(id, t))
  OBVIOUS
<1>6. Count(content, id, t) = a - b
  BY <1>4, <1>5 DEF NetIs
<1>7. Counted(a, CsvPlaces, Ins(id, t)) /\ Counted(b, CsvPlaces, Del(id, t))
  <2>1. Ins(id, t).rel = id /\ Del(id, t).rel = id
    BY DEF Ins, Del
  <2> QED
    BY <1>2, <1>3, <1>5, <2>1, AllIsDone
<1>8. a = Cardinality(Lines(id, t, "insert")) /\ b = Cardinality(Lines(id, t, "delete"))
  BY <1>2, <1>7, LinesAre DEF Counted
<1> QED
  BY <1>6, <1>8 DEF Net

LEMMA NetOfLines ==
  ASSUME NEW id, NEW t, Net(id, t) # 0
  PROVE  \E p \in CsvPlaces : CsvFile[p].id = id /\ CsvFile[p].data = t
<1> SUFFICES ASSUME ~\E p \in CsvPlaces : CsvFile[p].id = id /\ CsvFile[p].data = t
             PROVE  FALSE
  OBVIOUS
<1>1. Lines(id, t, "insert") = {} /\ Lines(id, t, "delete") = {}
  BY DEF Lines
<1>2. Net(id, t) = Cardinality({}) - Cardinality({})
  BY <1>1 DEF Net
<1>3. Cardinality({}) = 0
  BY FS_EmptySet
<1> QED
  BY <1>2, <1>3

(* Every line of the CSV files counts (streams.cpp): batching, mixing and  *)
(* sorting lose no tuple, double none and keep its sign, so that a         *)
(* relation ends up with every tuple as often as its files insert it more  *)
(* than they delete it; and without batches no event of a relation         *)
(* overtakes one that its files have before it at the same time.           *)
THEOREM LinesAllCount == Spec => []EveryLineCounts
<1>1. IInv /\ CInv => EveryLineCounts
  <2> SUFFICES ASSUME IInv, CInv
               PROVE  EveryLineCounts
    OBVIOUS
  <2>1. FileOrderKept
    BY OrderIsKept
  <2>2. ASSUME pcRun \in {"stop", "done"}, NEW id \in CsvRelations \cap Ids, NEW tuples,
               tuples = {CsvFile[place].data : place \in {place \in CsvPlaces : CsvFile[place].id = id}}
        PROVE  content[id] = [t \in {t \in tuples : Net(id, t) # 0} |-> Net(id, t)]
    <3>1. PICK m : m = content[id]
      OBVIOUS
    <3>2. Tidy(content)
      BY DEF CInv
    <3>3. m = [t \in DOMAIN m |-> m[t]]
      BY <3>1, <3>2 DEF Tidy
    <3>4. \A t : Count(content, id, t) = Net(id, t)
      BY <2>2, NetIsHeld
    <3>5. \A t : t \in DOMAIN m <=> Net(id, t) # 0
      BY <3>1, <3>2, <3>4, CountIs
    <3>6. \A t \in DOMAIN m : m[t] = Net(id, t)
      BY <3>1, <3>4 DEF Count
    <3>7. \A t : Net(id, t) # 0 => t \in tuples
      BY <2>2, NetOfLines
    <3>8. DOMAIN m = {t \in tuples : Net(id, t) # 0}
      BY <3>5, <3>7
    <3> QED
      BY <3>1, <3>3, <3>6, <3>8
  <2> QED
    BY <2>1, <2>2 DEF EveryLineCounts
<1> QED
  BY <1>1, ProgramInvariant, ContentInvariant, PTL
=============================================================================
