---------------------------- MODULE StreamProgram ----------------------------
(* A DBToaster program as the library runs it: it registers its relations    *)
(* and triggers, reads its files (EventSources), loads the static tables and *)
(* processes the stream (ProgramBase), answering requests for snapshots      *)
(* between two events (IProgram).                                            *)
(*                                                                           *)
(* Two threads: the runner, which calls init and run, and a client of the    *)
(* embedding program, which calls get_snapshot once init is done. The flags  *)
(* they share are plain booleans in the code; every access is one step.      *)
(* run(async) promises a thread of its own and calls its task on the thread  *)
(* of the caller (iprogram.cpp:13-16), so main gets to its requests only     *)
(* when the run has ended; a program that starts the run on a thread itself  *)
(* overlaps it. The model has the runs of both, those of main among them.    *)
(*                                                                           *)
(* The generated subclass is not in the repository. It is modelled from the  *)
(* calls the library expects: init multiplexes both kinds of sources and     *)
(* loads the tables, and a trigger applies the tuples of its event one by    *)
(* one, each to the relation it names.                                       *)
EXTENDS EventSources, Functions, FiniteSetsExt

(* A program: its registrations <<name, is_table, id or -1>>, its triggers   *)
(* <<name, event type>>, its sources [adaptor, lines, table], the batch size *)
(* and parallel options and how often the client asks for a snapshot.        *)
CONSTANT Programs

VARIABLES
  prog,       \* the program that runs
  registry,   \* its relations: ids by name, the next id, tables and triggers
  read,       \* <<source, line>> to be read next
  books,      \* the order books of every source's adaptor
  events,     \* events read, by multiplexer: [stream, table] of [list, que]
  pos,        \* events of the current multiplexer that are processed
  applied,    \* tuples of the current event its trigger has applied
  content,    \* what the triggers made of it: relation |-> tuple |-> count
  pcRun, pcClient,                 \* where the threads are
  runningMtx,                      \* the holder of running_mtx, or "free"
  running, finished, request, ready,
  snapshot,   \* the snapshot member: what take_snapshot returned, or NoSnapshot
  calls,      \* calls of get_snapshot begun
  result      \* the last answer, with the position the client asked at

readVars == <<read, books, events>>
runVars == <<pos, applied, content>>
flags == <<runningMtx, running, finished, request, ready>>
clientVars == <<pcClient, calls, result>>
programVars == <<prog, registry>>
vars == <<programVars, readVars, runVars, flags, snapshot, pcRun, clientVars>>

NoSnapshot == [upto |-> -1, content |-> <<>>]

-----------------------------------------------------------------------------
(* Registration. *)

\* add_relation: a name or an id that is taken is refused, and an id drawn
\* from the counter is spent all the same.
AddRelation(reg, r) ==
  LET id == IF r[3] # -1 THEN r[3] ELSE reg.next
      next == IF r[3] # -1 THEN reg.next ELSE reg.next + 1
  IN IF r[1] \in DOMAIN reg.ids THEN reg
     ELSE IF id \in Range(reg.ids) THEN [reg EXCEPT !.next = next]
     ELSE [reg EXCEPT !.ids = With(reg.ids, r[1], id), !.next = next,
                      !.tables = IF r[2] THEN reg.tables \cup {id} ELSE reg.tables]

\* get_relation_id
RelationId(reg, name) == IF name \in DOMAIN reg.ids THEN reg.ids[name] ELSE -1

\* add_trigger: only a relation that is registered gets one.
AddTriggers(reg, triggers) ==
  [reg EXCEPT !.triggers = {<<RelationId(reg, t[1]), t[2]>> :
                              t \in {t \in triggers : RelationId(reg, t[1]) # -1}}]

NoRelations == [ids |-> <<>>, next |-> 0, tables |-> {}, triggers |-> {}]

Registered(p) ==
  AddTriggers(FoldLeft(AddRelation, NoRelations, p.relations), p.triggers)

Ids == Range(registry.ids)

\* What the library takes for granted of a program and its files: a source is
\* of registered relations, tables or streams as it is, with triggers for what
\* it sends; the streams to be mixed are numbered from 0 on; and a relation has
\* either CSV files or order books. Of an empty file the delimiter is a line
\* (streams.cpp adds it).
IsSequence(s) == Len(s) \in Nat /\ DOMAIN s = 1..Len(s)

RelationsOf(a) == IF a.kind = "csv" THEN {a.rel} ELSE {a.bids, a.asks}

\* The types of the events an adaptor makes, and of those that are sent.
EventTypes(a) ==
  IF a.kind = "book" THEN IF a.insertOnly THEN {"insert"} ELSE {"insert", "delete"}
  ELSE IF \E i \in DOMAIN a.schema : a.schema[i] = "event" THEN {"insert", "delete"}
  ELSE {a.type}

SentTypes(p, a) == IF p.batch > 1 THEN {"batch"} ELSE EventTypes(a)

Inputs(p, table) == Cardinality({i \in DOMAIN p.sources : p.sources[i].table = table})

SourceFits(p, s) ==
  LET a == s.adaptor
      reg == Registered(p)
  IN /\ IsSequence(s.lines) /\ s.lines # <<>>
     /\ s.table \in BOOLEAN
     /\ \A id \in RelationsOf(a) :
          /\ id \in Range(reg.ids) /\ (id \in reg.tables) = s.table
          /\ {id} \X SentTypes(p, a) \subseteq reg.triggers
     /\ \/ /\ a.kind = "csv"
           /\ a.rel \in Nat /\ a.type \in {"insert", "delete"}
           /\ p.parallel = MixInputTuples /\ ~s.table => a.rel < Inputs(p, FALSE)
           /\ \A l \in DOMAIN s.lines :
                IsValid(a, s.lines[l]) => Interpret(a, s.lines[l]).order \in Int
           /\ \A o \in Range(p.sources) : o.adaptor.kind = "book" => a.rel \notin RelationsOf(o.adaptor)
        \/ a.kind = "book" /\ \A l \in DOMAIN s.lines : s.lines[l].t \in Int

ASSUME ProgramsAssumption ==
  \A p \in Programs :
    /\ IsSequence(p.sources)
    /\ p.batch \in Nat
    /\ \A s \in Range(p.sources) : SourceFits(p, s)

-----------------------------------------------------------------------------
(* Reading the files. *)

Multiplexer(s) == IF s.table THEN "table" ELSE "stream"

\* The line after line l of source i; <<n + 1, 1>> is the end of the files.
NextLine(p, i, l) ==
  IF l < Len(p.sources[i].lines) THEN <<i, l + 1>> ELSE <<i + 1, 1>>

\* read_source_events hands one frame to the source's adaptor.
ReadLine ==
  /\ pcRun = "read"
  /\ read[1] <= Len(prog.sources)
  /\ LET i == read[1]
         s == prog.sources[i]
         a == s.adaptor
         line == s.lines[read[2]]
         mux == events[Multiplexer(s)]
     IN /\ \/ /\ a.kind = "csv"
              /\ LET e == CsvEvents(a, line)
                 IN events' = [events EXCEPT ![Multiplexer(s)] =
                      [list |-> mux.list \o e.list, que |-> mux.que \o e.que]]
              /\ UNCHANGED books
           \/ /\ a.kind = "book"
              /\ \E broker \in BrokersOf(a, line) :
                   LET e == ProcessMessage(a, books[i], line, broker)
                   IN /\ events' = [events EXCEPT ![Multiplexer(s)].que = mux.que \o e.events]
                      /\ books' = [books EXCEPT ![i] = e.books]
        /\ read' = NextLine(prog, i, read[2])
  /\ UNCHANGED <<programVars, runVars, flags, snapshot, pcRun, clientVars>>

\* init, once the files are read: both multiplexers arrange their events.
InitSources ==
  /\ pcRun = "read"
  /\ read[1] > Len(prog.sources)
  /\ events' = [mux \in {"stream", "table"} |->
       Multiplexed(events[mux].list, events[mux].que, prog.batch, prog.parallel,
                   Inputs(prog, mux = "table"), mux = "table")]
  /\ pcRun' = "tables"
  /\ UNCHANGED <<programVars, read, books, runVars, flags, snapshot, clientVars>>

-----------------------------------------------------------------------------
(* Processing the events. *)

Queued(mux) == events[mux].list \o events[mux].que

\* What a trigger makes of an event.
Changes(e) ==
  IF e.type = "batch" THEN e.data
  ELSE <<[tuple |-> e.data, rel |-> e.id, sign |-> IF e.type = "insert" THEN 1 ELSE -1]>>

\* process_event: only a registered relation of the kind that is processed,
\* and only an event type it has a trigger for.
IsHandled(e, mux) ==
  /\ e.id \in Ids
  /\ (e.id \in registry.tables) = (mux = "table")
  /\ <<e.id, e.type>> \in registry.triggers

Count(c, id, tuple) == IF tuple \in DOMAIN c[id] THEN c[id][tuple] ELSE 0

Apply(c, ch) ==
  LET n == Count(c, ch.rel, ch.tuple) + ch.sign
  IN [c EXCEPT ![ch.rel] = IF n = 0 THEN Without(c[ch.rel], ch.tuple)
                           ELSE With(c[ch.rel], ch.tuple, n)]

\* One tuple of the current event, or the end of the event.
Process(mux, after) ==
  LET e == Queued(mux)[pos + 1]
      n == IF IsHandled(e, mux) THEN Len(Changes(e)) ELSE 0
  IN /\ pos < Len(Queued(mux))
     /\ \/ /\ applied < n
           /\ content' = Apply(content, Changes(e)[applied + 1])
           /\ applied' = applied + 1
           /\ UNCHANGED <<pos, pcRun>>
        \/ /\ applied = n
           /\ applied' = 0
           /\ pos' = pos + 1
           /\ pcRun' = after
           /\ UNCHANGED content

ProcessTables ==
  /\ pcRun = "tables"
  /\ \/ Process("table", "tables")
     \/ /\ pos = Len(Queued("table"))
        /\ pos' = 0
        /\ pcRun' = "start"
        /\ UNCHANGED <<applied, content>>
  /\ UNCHANGED <<programVars, readVars, flags, snapshot, clientVars>>

StartRunning ==
  /\ pcRun = "start"
  /\ runningMtx = "free"
  /\ running' = TRUE
  /\ pcRun' = "stream"
  /\ UNCHANGED <<programVars, readVars, runVars, runningMtx, finished, request, ready,
                 snapshot, clientVars>>

ProcessStreamEvent ==
  /\ pcRun = "stream"
  /\ Process("stream", "check")
  /\ UNCHANGED <<programVars, readVars, flags, snapshot, clientVars>>

StreamsEnd ==
  /\ pcRun = "stream"
  /\ pos = Len(Queued("stream"))
  /\ finished' = TRUE
  /\ pcRun' = "stop"
  /\ UNCHANGED <<programVars, readVars, runVars, runningMtx, running, request, ready,
                 snapshot, clientVars>>

-----------------------------------------------------------------------------
(* Snapshots. *)

TakeSnapshot == [upto |-> pos, content |-> content]

\* process_snapshot in three steps, between events and once more at the end:
\* the request is seen, answered, and the answer announced.
CheckRequest(at, then, else) ==
  /\ pcRun = at
  /\ IF request THEN /\ snapshot' = TakeSnapshot
                     /\ pcRun' = then
     ELSE /\ pcRun' = else
          /\ UNCHANGED snapshot
  /\ UNCHANGED <<programVars, readVars, runVars, flags, clientVars>>

ClearRequest(at, then) ==
  /\ pcRun = at
  /\ request' = FALSE
  /\ pcRun' = then
  /\ UNCHANGED <<programVars, readVars, runVars, runningMtx, running, finished, ready,
                 snapshot, clientVars>>

Announce(at, then) ==
  /\ pcRun = at
  /\ ready' = TRUE
  /\ pcRun' = then
  /\ UNCHANGED <<programVars, readVars, runVars, runningMtx, running, finished, request,
                 snapshot, clientVars>>

ProcessSnapshot ==
  \/ CheckRequest("check", "clear", "stream")
  \/ ClearRequest("clear", "announce")
  \/ Announce("announce", "stream")

\* Seeded bug: nobody looks for a last request.
StopRunningAtOnce ==
  /\ pcRun = "stop"
  /\ runningMtx = "free"
  /\ running' = FALSE
  /\ pcRun' = "done"
  /\ UNCHANGED <<programVars, readVars, runVars, runningMtx, finished, request, ready,
                 snapshot, clientVars>>

\* stop_running does it under the lock, before the flag falls.
StopRunning ==
  \/ /\ pcRun = "stop"
     /\ runningMtx = "free"
     /\ runningMtx' = "runner"
     /\ pcRun' = "lastCheck"
     /\ UNCHANGED <<programVars, readVars, runVars, running, finished, request, ready,
                    snapshot, clientVars>>
  \/ CheckRequest("lastCheck", "lastClear", "fall")
  \/ ClearRequest("lastClear", "lastAnnounce")
  \/ Announce("lastAnnounce", "fall")
  \/ /\ pcRun = "fall"
     /\ running' = FALSE
     /\ runningMtx' = "free"
     /\ pcRun' = "done"
     /\ UNCHANGED <<programVars, readVars, runVars, finished, request, ready, snapshot,
                    clientVars>>

\* The runner has done init: the client may call.
Initialised == pcRun \notin {"read", "tables"}

\* get_snapshot of a program that is finished takes one itself.
GetSnapshot ==
  /\ pcClient = "idle"
  /\ Initialised
  /\ calls < prog.calls
  /\ calls' = calls + 1
  /\ IF finished THEN /\ result' = [asked |-> pos, snap |-> TakeSnapshot]
                      /\ UNCHANGED pcClient
     ELSE /\ pcClient' = "lock"
          /\ result' = [asked |-> pos, snap |-> NoSnapshot]
  /\ UNCHANGED <<programVars, readVars, runVars, flags, snapshot, pcRun>>

\* Seeded bug: the client never asks, it reads the program it finds.
RequestSnapshotRunning ==
  /\ pcClient = "locked"
  /\ snapshot' = TakeSnapshot
  /\ runningMtx' = "free"
  /\ pcClient' = "wait"
  /\ UNCHANGED <<programVars, readVars, runVars, running, finished, request, ready, pcRun,
                 calls, result>>

\* request_snapshot: under the lock a running program is asked in two steps,
\* another one is read.
LockRunning ==
  /\ pcClient = "lock"
  /\ runningMtx = "free"
  /\ runningMtx' = "client"
  /\ pcClient' = "locked"
  /\ UNCHANGED <<programVars, readVars, runVars, running, finished, request, ready,
                 snapshot, pcRun, calls, result>>

RequestSnapshot ==
  /\ pcClient = "locked"
  /\ \/ /\ running
        /\ ready' = FALSE
        /\ pcClient' = "asking"
        /\ UNCHANGED <<runningMtx, snapshot>>
     \/ /\ ~ running
        /\ snapshot' = TakeSnapshot
        /\ runningMtx' = "free"
        /\ pcClient' = "wait"
        /\ UNCHANGED ready
  /\ UNCHANGED <<programVars, readVars, runVars, running, finished, request, pcRun,
                 calls, result>>

Ask ==
  /\ pcClient = "asking"
  /\ request' = TRUE
  /\ runningMtx' = "free"
  /\ pcClient' = "wait"
  /\ UNCHANGED <<programVars, readVars, runVars, running, finished, ready, snapshot, pcRun,
                 calls, result>>

\* wait_for_snapshot: the condition variable wakes the client when ready.
WaitForSnapshot ==
  /\ pcClient = "wait"
  /\ ready
  /\ result' = [result EXCEPT !.snap = snapshot]
  /\ snapshot' = NoSnapshot
  /\ pcClient' = "idle"
  /\ UNCHANGED <<programVars, readVars, runVars, flags, pcRun, calls>>

-----------------------------------------------------------------------------
Init ==
  /\ prog \in Programs
  /\ registry = Registered(prog)
  /\ read = <<1, 1>>
  /\ books = [i \in DOMAIN prog.sources |-> EmptyBooks]
  /\ events = [mux \in {"stream", "table"} |-> [list |-> <<>>, que |-> <<>>]]
  /\ pos = 0 /\ applied = 0
  /\ content = [id \in Ids |-> <<>>]
  /\ pcRun = "read" /\ pcClient = "idle"
  /\ runningMtx = "free"
  /\ running = FALSE /\ finished = FALSE /\ request = FALSE /\ ready = TRUE
  /\ snapshot = NoSnapshot
  /\ calls = 0
  /\ result = [asked |-> 0, snap |-> NoSnapshot]

\* What the runner does in init and in run.
InitProgram == ReadLine \/ InitSources \/ ProcessTables
Run ==
  StartRunning \/ ProcessStreamEvent \/ ProcessSnapshot \/ StreamsEnd \/ StopRunning

Client ==
  GetSnapshot \/ LockRunning \/ RequestSnapshot \/ Ask \/ WaitForSnapshot

Ended == pcRun = "done" /\ pcClient = "idle" /\ UNCHANGED vars

Next == InitProgram \/ Run \/ Client \/ Ended

\* Both threads are scheduled: a run that has begun goes on, and so does a call
\* of the client, who need not call; whoever holds the mutex needs no other
\* thread to release it.
Spec ==
  /\ Init /\ [][Next]_vars
  /\ WF_vars(Run)
  /\ WF_vars(LockRunning \/ RequestSnapshot \/ Ask \/ WaitForSnapshot)

-----------------------------------------------------------------------------
\* The events of the stream that are processed.
Processed == SubSeq(Queued("stream"), 1, pos)

\* What the first n changes of an event make of the relations c.
Applied(c, changes, n) ==
  LET after[i \in 0..n] == IF i = 0 THEN c ELSE Apply(after[i - 1], changes[i])
  IN after[n]

\* What the first n events of a multiplexer make of them.
AfterEvents(mux, c, n) ==
  LET after[k \in 0..n] ==
        IF k = 0 THEN c
        ELSE LET e == Queued(mux)[k]
             IN Applied(after[k - 1], Changes(e), IF IsHandled(e, mux) THEN Len(Changes(e)) ELSE 0)
  IN after[n]

\* What the relations hold after all tables and the first n stream events.
Nothing == [id \in Ids |-> <<>>]
Tables == AfterEvents("table", Nothing, Len(Queued("table")))
ContentAfter(n) == AfterEvents("stream", Tables, n)

(* The assertions of process_snapshot and request_snapshot: the client never *)
(* finds a request of its own still open, and the runner never answers one   *)
(* that is not awaited.                                                      *)
RequestsNeverOverlap ==
  /\ pcClient = "lock" => ~ request /\ ready
  /\ pcRun \in {"clear", "lastClear"} => ~ ready

(* get_snapshot promises a consistent snapshot (iprogram.hpp:68-75): what it *)
(* returns is what a whole number of events made, and no event that was      *)
(* processed before the call is missing from it, wherever the call met the   *)
(* run: before it, inside a trigger, while it stops or after it.             *)
SnapshotsConsistent ==
  /\ RequestsNeverOverlap
  /\ result.snap # NoSnapshot =>
       /\ result.snap.upto >= result.asked
       /\ result.snap.content = ContentAfter(result.snap.upto)

(* Every request for a snapshot is answered, also one that the last event,   *)
(* or the end of the run, has just missed.                                   *)
SnapshotsAnswered == (pcClient # "idle") ~> (pcClient = "idle")

\* The orders of a message file that are open after time T: added and neither
\* removed nor executed to the end.
OpenOrders(lines, action, T) ==
  LET Seen == {i \in DOMAIN lines : lines[i].t <= T}
      Later(i, actions) == {j \in Seen : /\ j > i /\ lines[j].id = lines[i].id
                                         /\ lines[j].action \in actions}
      Left(i) == lines[i].volume
                   - MapThenSumSet(LAMBDA j : lines[j].volume, Later(i, {"E"}))
  IN {[t |-> lines[i].t, id |-> lines[i].id, volume |-> Left(i), price |-> lines[i].price] :
        i \in {i \in Seen : /\ lines[i].action = action
                            /\ Later(i, {"D", "F"}) = {}
                            /\ Left(i) > 0}}

\* What a relation holds, without the brokers: the tuples that are there once,
\* provided that none is there more or less often.
Book(id) == {[t |-> r.t, id |-> r.id, volume |-> r.volume, price |-> r.price] :
               r \in DOMAIN content[id]}
IsASet(id) == \A r \in DOMAIN content[id] : content[id][r] = 1

\* The stream stands between the events of time T and those of later times:
\* at its end, or inside the queue when nothing is batched and no order was
\* executed at time zero, whose deletion wraps to the end.
StandsAt(T, lines) ==
  LET que == events["stream"].que
      at  == pos - Len(events["stream"].list)
  IN \/ /\ pos = Len(Queued("stream"))
        /\ \A i \in DOMAIN lines : lines[i].t <= T
     \/ /\ prog.batch <= 1 /\ at >= 0
        /\ \A i \in DOMAIN lines : lines[i].action = "E" => lines[i].t > 0
        /\ \A k \in DOMAIN que : (k <= at) <=> (que[k].order <= MessageOrder([t |-> T]))

(* Between two points of time the bids and the asks hold exactly the orders  *)
(* that are open: the deletion and the insertion an execution is split into, *)
(* and events of equal time, never leave an order twice or not at all.       *)
BooksAtTimestamps ==
  Initialised /\ pcRun # "start" /\ applied = 0 =>
    \A i \in DOMAIN prog.sources :
      LET s == prog.sources[i] IN
      s.adaptor.kind = "book" /\ ~ s.adaptor.insertOnly =>
        \A side \in {"bids", "asks"} \cap
              (IF s.adaptor.type = "both" THEN {"bids", "asks"} ELSE {s.adaptor.type}) :
          \A T \in {s.lines[k].t : k \in DOMAIN s.lines} :
            StandsAt(T, s.lines) =>
              /\ IsASet(s.adaptor[side])
              /\ Book(s.adaptor[side]) =
                   OpenOrders(s.lines, IF side = "bids" THEN "B" ELSE "S", T)

\* The lines of the CSV files that make an event, by source and line, and what
\* they make.
LineEvents(place) ==
  LET s == prog.sources[place[1]]
      e == CsvEvents(s.adaptor, s.lines[place[2]])
  IN e.list \o e.que

CsvInputs == {i \in DOMAIN prog.sources : prog.sources[i].adaptor.kind = "csv"}
CsvRelations == {prog.sources[i].adaptor.rel : i \in CsvInputs}

CsvPlaces ==
  {place \in UNION {{i} \X DOMAIN prog.sources[i].lines : i \in CsvInputs} :
     LineEvents(place) # <<>>}

CsvFile == [place \in CsvPlaces |-> LineEvents(place)[1]]

\* The events of a relation at one point of time, in the order of the files
\* and in that of the stream.
InFiles(id, order) ==
  Arranged(CsvFile, [place \in {place \in CsvPlaces : /\ CsvFile[place].id = id
                                                      /\ CsvFile[place].order = order} |-> place])

InStream(id, order) ==
  Arranged(Processed, [k \in {k \in DOMAIN Processed : /\ Processed[k].id = id
                                                       /\ Processed[k].order = order} |-> <<k, 0>>])

(* Without batches a relation sees its events in the order of its files,     *)
(* those with a time of their own in the order of time: a deletion never     *)
(* overtakes the insertion it undoes, however the files are mixed.           *)
FileOrderKept ==
  prog.batch <= 1 /\ Initialised /\ pcRun # "start" =>
    \A k \in DOMAIN Processed :
      LET e == Processed[k]
      IN e.id \in CsvRelations =>
           /\ \A j \in 1..k : Processed[j].id = e.id => Processed[j].order <= e.order
           /\ IsPrefix(InStream(e.id, e.order), InFiles(e.id, e.order))

\* How often the files insert a tuple of a relation more than they delete it.
Lines(id, tuple, type) ==
  {place \in CsvPlaces : /\ CsvFile[place].id = id
                         /\ CsvFile[place].data = tuple
                         /\ CsvFile[place].type = type}
Net(id, tuple) ==
  Cardinality(Lines(id, tuple, "insert")) - Cardinality(Lines(id, tuple, "delete"))

(* Batching, mixing and sorting lose no tuple, double none and keep its      *)
(* sign: at the end a relation holds every tuple as often as its files       *)
(* insert it more than they delete it.                                       *)
EveryLineCounts ==
  /\ FileOrderKept
  /\ pcRun \in {"stop", "done"} =>
    \A id \in CsvRelations \cap Ids :
      LET tuples == {CsvFile[place].data : place \in {place \in CsvPlaces : CsvFile[place].id = id}}
      IN content[id] = [tuple \in {tuple \in tuples : Net(id, tuple) # 0} |-> Net(id, tuple)]

(* The parts of the state have the shape the code gives them.                *)
TypeOK ==
  /\ applied >= 0 /\ pos >= 0
  /\ pcRun \in {"read", "tables", "start", "stream", "check", "clear", "announce",
                "stop", "lastCheck", "lastClear", "lastAnnounce", "fall", "done"}
  /\ pcClient \in {"idle", "lock", "locked", "asking", "wait"}
  /\ runningMtx \in {"free", "runner", "client"}
  /\ {running, finished, request, ready} \subseteq BOOLEAN
  /\ DOMAIN content = Ids
=============================================================================
