---------------------------- MODULE Application ----------------------------
(***************************************************************************)
(* The driver of a maintenance program (application/application.hpp):      *)
(* relations are loaded from their files once, then every run replays them *)
(* against a fresh data_t: tables first, the SYSTEM READY trigger, then    *)
(* the streams in turns, with snapshots of the result in between.          *)
(***************************************************************************)
EXTENDS Integers, Sequences, FiniteSets

-----------------------------------------------------------------------------
(***************************************************************************)
(* The dispatchers that hand the tuples of a relation to its trigger and   *)
(* the multiplexer that takes turns among them (lib/dispatcher.hpp).       *)
(* A run creates one dispatcher per relation, so a dispatcher is its       *)
(* relation and its iterator is a position in the relation's tuples.       *)
(***************************************************************************)

CONSTANTS
  Relation,  \* the relations of the application
  Batch      \* [Relation -> tuples per call]: 1 for EventDispatcher,
             \* BATCH_SZ for BatchDispatcher

ASSUME BatchAssumption == Batch \in [Relation -> Nat \ {0}]

(* Mutant: the last tuple is taken for the end.                            *)
HasNextButLast(r, it, size) == it[r] + 1 < size[r]

(* has_next of EventDispatcher and BatchDispatcher: it != end.             *)
HasNext(r, it, size) == it[r] # size[r]

(* next of both: the tuples from it on, at most a batch of them.           *)
BatchSize(r, it, size) ==
  IF Batch[r] < size[r] - it[r] THEN Batch[r] ELSE size[r] - it[r]

Advance(r, it, size) == [it EXCEPT ![r] = @ + BatchSize(r, it, size)]

(* A multiplexer: the vector v, the index of whose turn it is and the      *)
(* number of unfinished dispatchers, which v keeps first.                  *)
EmptyMux == [v |-> <<>>, idx |-> 0, active |-> 0]

(* Mutant: the last active dispatcher is forgotten.                        *)
MuxHasNextButOne(mux) == mux.active > 1

MuxHasNext(mux) == mux.active > 0

(* The dispatcher next() calls; v is indexed from 0 in the code.           *)
Turn(mux) == mux.v[mux.idx + 1]

AddDispatcher(mux, r, it, size) ==
  IF HasNext(r, it, size)
  THEN [mux EXCEPT !.v = Append(@, r), !.active = @ + 1]
  ELSE mux

(* Mutant: a finished dispatcher stays where it is.                        *)
RetireInPlace(v, idx, active) == v

(* The swaps of next(): v[idx] moves behind the unfinished ones.           *)
Retire(v, idx, active) ==
  [i \in DOMAIN v |-> IF i \in idx + 1..active - 1 THEN v[i + 1]
                      ELSE IF i = active THEN v[idx + 1]
                      ELSE v[i]]

Wrap(mux) == IF mux.idx >= mux.active THEN [mux EXCEPT !.idx = 0] ELSE mux

(* Mutant: the round starts over when a dispatcher finishes.               *)
MuxNextStartOver(mux, it, size) ==
  IF HasNext(Turn(mux), it, size)
  THEN Wrap([mux EXCEPT !.idx = @ + 1])
  ELSE [mux EXCEPT !.v = Retire(@, mux.idx, mux.active), !.active = @ - 1, !.idx = 0]

(* next() after the call of the dispatcher moved its iterator to it.       *)
MuxNext(mux, it, size) ==
  Wrap(IF HasNext(Turn(mux), it, size)
       THEN [mux EXCEPT !.idx = @ + 1]
       ELSE [mux EXCEPT !.v = Retire(@, mux.idx, mux.active), !.active = @ - 1])

-----------------------------------------------------------------------------
CONSTANTS
  Static,      \* the relations compiled as tables
  Order,       \* the relations in the order init_relations registers them
  NumRuns,     \* --num-runs
  Interval,    \* SNAPSHOT_INTERVAL, where it is defined
  MaxTuples    \* bound on the tuples of an input file

Dynamic == Relation \ Static

ASSUME ApplicationAssumption ==
  /\ Static \subseteq Relation
  /\ Order \in Seq(Relation)
  /\ \A r \in Relation : \E i \in DOMAIN Order : Order[i] = r
  /\ \A i, j \in DOMAIN Order : Order[i] = Order[j] => i = j
  /\ NumRuns \in Nat
  /\ Interval \in Nat
  /\ MaxTuples \in Nat

VARIABLES
  compiled, \* whether the program was built with SNAPSHOT_INTERVAL
  file,     \* the number of tuples in each input file: 0 when it is missing
  stage,    \* the statement of Application::run that is next
  run,      \* the loop counter of run
  reg,      \* the relations init_dispatchers has gone through
  size,     \* tuples.size() of each relation
  it,       \* the iterator of each relation's dispatcher
  tables,   \* static_multiplexer
  streams,  \* dynamic_multiplexer
  func,     \* the run whose data_t the relation's func member refers to
  tN,       \* data.tN: the stream tuples the current data_t has processed
  nextSnap, \* next_snapshot
  snaps,    \* history: the tN of the snapshots of the current run
  got,      \* history: the positions the current data_t got from each relation
  turns     \* history: the calls of each relation's dispatcher in this run

appVars == <<compiled, file, stage, run, reg, size, it, tables, streams, func, tN,
             nextSnap, snaps, got, turns>>

ForAll(x) == [r \in Relation |-> x]

AppInit ==
  /\ compiled \in BOOLEAN
  /\ file \in [Relation -> 0..MaxTuples]
  /\ stage = "load"
  /\ run = 0
  /\ reg = 0
  /\ size = ForAll(0)
  /\ it = ForAll(0)
  /\ tables = EmptyMux
  /\ streams = EmptyMux
  /\ func = ForAll(0)
  /\ tN = 0
  /\ nextSnap = 0
  /\ snaps = <<>>
  /\ got = ForAll(<<>>)
  /\ turns = ForAll(0)

(* init_relations and load_relations.                                      *)
Load ==
  /\ stage = "load"
  /\ size' = file
  /\ stage' = "run"
  /\ UNCHANGED <<compiled, file, run, reg, it, tables, streams, func, tN,
                nextSnap, snaps, got, turns>>

(* Mutant: the loop counter stays.                                         *)
BeginRunAgain ==
  /\ stage = "run"
  /\ run < NumRuns
  /\ stage' = "init"
  /\ reg' = 0
  /\ tables' = EmptyMux
  /\ streams' = EmptyMux
  /\ tN' = 0
  /\ snaps' = <<>>
  /\ got' = ForAll(<<>>)
  /\ turns' = ForAll(0)
  /\ UNCHANGED <<compiled, file, run, size, it, func, nextSnap>>

(* The head of the loop: a new data_t, and init_dispatchers clears both    *)
(* multiplexers before it fills them.                                      *)
BeginRun ==
  /\ stage = "run"
  /\ run < NumRuns
  /\ run' = run + 1
  /\ stage' = "init"
  /\ reg' = 0
  /\ tables' = EmptyMux
  /\ streams' = EmptyMux
  /\ tN' = 0
  /\ snaps' = <<>>
  /\ got' = ForAll(<<>>)
  /\ turns' = ForAll(0)
  /\ UNCHANGED <<compiled, file, size, it, func, nextSnap>>

(* create_dispatcher binds the func of the relation to the data_t of this  *)
(* run; the new dispatcher starts with the relation's first tuple.         *)
CreateDispatcher(r) ==
  /\ it' = [it EXCEPT ![r] = 0]
  /\ func' = [func EXCEPT ![r] = run]

(* One iteration of init_dispatchers.                                      *)
InitDispatcher ==
  /\ stage = "init"
  /\ reg < Len(Order)
  /\ reg' = reg + 1
  /\ LET r == Order[reg + 1]
     IN  /\ CreateDispatcher(r)
         /\ IF r \in Static
            THEN tables' = AddDispatcher(tables, r, it', size) /\ UNCHANGED streams
            ELSE streams' = AddDispatcher(streams, r, it', size) /\ UNCHANGED tables
  /\ UNCHANGED <<compiled, file, stage, run, size, tN, nextSnap, snaps, got, turns>>

BeginProcessing ==
  /\ stage = "init"
  /\ reg = Len(Order)
  /\ stage' = "tables"
  /\ UNCHANGED <<compiled, file, run, reg, size, it, tables, streams, func, tN,
                nextSnap, snaps, got, turns>>

(* Dispatcher::next of r: its func gets the next tuples.                   *)
Dispatch(r) ==
  /\ it' = Advance(r, it, size)
  /\ turns' = [turns EXCEPT ![r] = @ + 1]
  /\ got' = IF func[r] = run
            THEN [got EXCEPT ![r] = @ \o [k \in 1..BatchSize(r, it, size) |-> it[r] + k]]
            ELSE got

(* process_tables                                                          *)
TableNext ==
  /\ stage = "tables"
  /\ MuxHasNext(tables)
  /\ Dispatch(Turn(tables))
  /\ tables' = MuxNext(tables, it', size)
  /\ UNCHANGED <<compiled, file, stage, run, reg, size, streams, func, tN, nextSnap, snaps>>

(* process_on_system_ready, and the head of process_streams.               *)
SystemReady ==
  /\ stage = "tables"
  /\ ~MuxHasNext(tables)
  /\ stage' = "streams"
  /\ nextSnap' = 0
  /\ UNCHANGED <<compiled, file, run, reg, size, it, tables, streams, func, tN,
                snaps, got, turns>>

(* The loop body of process_streams_snapshot or process_streams_no_snapshot. *)
StreamNext ==
  /\ stage = "streams"
  /\ MuxHasNext(streams)
  /\ LET r == Turn(streams)
     IN  /\ Dispatch(r)
         /\ tN' = tN + BatchSize(r, it, size)
  /\ streams' = MuxNext(streams, it', size)
  /\ IF compiled /\ tN' >= nextSnap
     THEN /\ snaps' = Append(snaps, tN')
          /\ nextSnap' = tN' + Interval
     ELSE UNCHANGED <<snaps, nextSnap>>
  /\ UNCHANGED <<compiled, file, stage, run, reg, size, tables, func>>

(* process_streams_no_snapshot gives up after four hours: exit(0).         *)
GiveUp ==
  /\ stage = "streams"
  /\ ~compiled
  /\ tN > 0
  /\ stage' = "exited"
  /\ UNCHANGED <<compiled, file, run, reg, size, it, tables, streams, func, tN,
                nextSnap, snaps, got, turns>>

(* Mutant: the final snapshot is always taken.                             *)
StreamsDoneTwice ==
  /\ stage = "streams"
  /\ ~MuxHasNext(streams)
  /\ snaps' = IF compiled THEN Append(snaps, tN) ELSE snaps
  /\ stage' = "end"
  /\ UNCHANGED <<compiled, file, run, reg, size, it, tables, streams, func, tN,
                nextSnap, got, turns>>

(* The end of process_streams: the last snapshot, unless it was just taken. *)
StreamsDone ==
  /\ stage = "streams"
  /\ ~MuxHasNext(streams)
  /\ snaps' = IF compiled /\ nextSnap # tN + Interval THEN Append(snaps, tN) ELSE snaps
  /\ stage' = "end"
  /\ UNCHANGED <<compiled, file, run, reg, size, it, tables, streams, func, tN,
                nextSnap, got, turns>>

(* on_end_processing, clear_dispatchers and the end of the loop body.      *)
EndRun ==
  /\ stage = "end"
  /\ stage' = "run"
  /\ tables' = EmptyMux
  /\ streams' = EmptyMux
  /\ UNCHANGED <<compiled, file, run, reg, size, it, func, tN, nextSnap, snaps, got, turns>>

(* clear_relations after the last run.                                     *)
Finish ==
  /\ stage = "run"
  /\ run = NumRuns
  /\ stage' = "done"
  /\ size' = ForAll(0)
  /\ UNCHANGED <<compiled, file, run, reg, it, tables, streams, func, tN,
                nextSnap, snaps, got, turns>>

AppNext ==
  \/ Load
  \/ BeginRun
  \/ InitDispatcher
  \/ BeginProcessing
  \/ TableNext
  \/ SystemReady
  \/ StreamNext
  \/ GiveUp
  \/ StreamsDone
  \/ EndRun
  \/ Finish

AppSpec == AppInit /\ [][AppNext]_appVars

-----------------------------------------------------------------------------

TypeOK ==
  /\ compiled \in BOOLEAN
  /\ file \in [Relation -> 0..MaxTuples]
  /\ stage \in {"load", "run", "init", "tables", "streams", "end", "done", "exited"}
  /\ run \in 0..NumRuns
  /\ reg \in 0..Len(Order)
  /\ size \in [Relation -> 0..MaxTuples]
  /\ \A r \in Relation : it[r] \in 0..file[r]
  /\ \A mux \in {tables, streams} : /\ mux.v \in Seq(Relation)
                                    /\ mux.idx \in 0..Len(mux.v)
                                    /\ mux.active \in 0..Len(mux.v)
  /\ func \in [Relation -> 0..NumRuns]
  /\ tN \in Nat /\ nextSnap \in Nat /\ snaps \in Seq(Nat)
  /\ got \in [Relation -> Seq(Nat)]
  /\ turns \in [Relation -> Nat]

Unfinished(S, its, sz) == {r \in S : HasNext(r, its, sz)}

(* The first `active` dispatchers of a multiplexer are the unfinished ones *)
(* of S, each once, and the turn is one of theirs.                         *)
Sound(mux, S, its, sz) ==
  /\ {mux.v[i] : i \in 1..mux.active} = Unfinished(S, its, sz)
  /\ \A i, j \in 1..mux.active : mux.v[i] = mux.v[j] => i = j
  /\ mux.idx < mux.active \/ (mux.idx = 0 /\ mux.active = 0)

(* next() is never called on a dispatcher at its end, where EventDispatcher *)
(* would read past the tuples, and no unfinished dispatcher is forgotten.  *)
ActiveAreUnfinished ==
  stage \in {"tables", "streams"} =>
    Sound(tables, Static, it, size) /\ Sound(streams, Dynamic, it, size)

(* The data_t of a run has got every tuple of every file, each once and in *)
(* the order of the file, when the run ends; in every run.                 *)
AllDelivered ==
  stage = "end" => \A r \in Relation : got[r] = [k \in 1..file[r] |-> k]

(* SYSTEM READY separates the tables from the streams: the static views it *)
(* computes see whole tables and no stream tuple came before them.         *)
TablesFirst ==
  /\ stage = "tables" => \A r \in Dynamic : got[r] = <<>>
  /\ stage = "streams" => \A r \in Static : Len(got[r]) = file[r]

(* Round robin: a stream that still has tuples is never more than one turn *)
(* behind any other stream, also after shorter streams dropped out.        *)
BalancedStreams ==
  stage = "streams" =>
    \A r \in Unfinished(Dynamic, it, size), s \in Dynamic : turns[s] <= turns[r] + 1

(* Snapshots come in order and at least the interval apart but for the     *)
(* last, and the last one of a run shows its final state, once, also when  *)
(* a batch jumps over the interval or there are no tuples at all; without  *)
(* SNAPSHOT_INTERVAL there are none (process_streams_snapshot).            *)
SnapshotsAsCompiled ==
  IF compiled
  THEN /\ \A i \in 1..Len(snaps) - 1 : snaps[i] < snaps[i + 1]
       /\ \A i \in 1..Len(snaps) - 2 : snaps[i + 1] >= snaps[i] + Interval
       /\ stage = "end" => snaps # <<>> /\ snaps[Len(snaps)] = tN
  ELSE snaps = <<>>

(* Every run ends: no stream starves another and no dispatcher stays       *)
(* active without tuples.                                                  *)
Termination == <>(stage \in {"done", "exited"})
=============================================================================
