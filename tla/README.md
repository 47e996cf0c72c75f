# F-IVM in TLA+

A verification development for F-IVM, factorized incremental view maintenance:
TLA+ modules translated from the sources under `src/`, TLC configurations that
check them on small instances, and theorems proved with TLAPS for every value
of the constants.

## 1. The system

F-IVM takes a SQL query and a *d-tree* (a variable order with the relations as
leaves) and produces a program that keeps the result of the query up to date
while tuples are inserted into and deleted from its relations.

| Part | Source | State | Operations |
|---|---|---|---|
| Front end | `src/frontend`: `SQLToM3Compiler`, `tree/*.scala`, `CodeGenerator`, `Optimizer`, `core`, `parsing`, `Driver` | none between stages | parse, check, compile, generate, optimize, print, parse again |
| Generated maintenance program | emitted by the front end, run by the backend | the stored views | `on_insert_R`, `on_delete_R`, `on_batch_update_R`, `on_system_ready_event` |
| Application driver | `examples/src/application/application.hpp` and `init_relations` of every application | relations, two multiplexers, the `data_t` of the current run | load, init dispatchers, tables, system ready, streams with snapshots, end |
| Dispatchers, multiplexer, CSV reader | `examples/src/lib` | an iterator per relation; vector, turn and active count | `has_next`, `next`, `add_dispatcher`, `readFromFile` |
| Payload rings | `examples/src/ring/*.hpp` | payload values | lift, `+=`, `*`, scale, `isZero` |
| Factorized enumeration | `examples/src/application/*/*_factorized_join.hpp` | none | nested loops over the stored views |
| Indexed store, pools, strings | `backend/lib/{mmap,pool,string}.hpp` | entry list, hash indexes; chunks and free list; blocks and counters | insert, increment, erase, slice, clear, resize; acquire, new, delete, release; copy, assign, destroy |
| DBToaster library | `backend/dbtoaster/lib/dbt_c++` | sources, event queues, tables, versions, transactions | streams and snapshots (`iprogram`, `program_base`, `streams`), `mmap1`, `mmap2`, `cmmap` with `TransactionManager` |
| Experiment scripts | `examples/aux/*.py` | none | build a variable order, write the d-tree file |

How they interact. A script or a hand-written file gives the d-tree; the
driver of the front end checks it against the SQL file and emits an M3 program
that the backend turns into C++. An application loads every relation once and
replays them in each run: a relation creates a dispatcher bound to the run's
`data_t`, the multiplexer takes turns among the dispatchers of the unfinished
relations, a dispatcher hands a tuple or a batch to the trigger of its
relation, and the trigger runs its statements one after another, each reading
some stored views and adding to one. A stored view is a `MultiHashMap` whose
entries and index nodes come from pools that all maps of the same node type
share. That path runs in one thread. The DBToaster library adds two that do
not: a client thread that asks a running program for snapshots, and threads
that run transactions on multi-version tables.

What is hard, and what makes each part correct:

* Compiler: a view must keep what anything above it needs, every SUM factor and
  WHERE conjunct is applied once, deltas read only stored views which their own
  trigger leaves alone, payload products run in the order of their indices, the
  optimizer moves work without moving it past a change.
* Program: at every point of a trigger each stored view is its definition over
  the relations before the event or, once its statement has run, after it; the
  root is the answer to the query.
* Driver: tables before SYSTEM READY before streams; every tuple of every file
  reaches the `data_t` of every run once; fair turns; snapshots; termination.
* Rings and enumeration: a payload is what the rows under it mean, and the
  loops print the join, every tuple once.
* Stores: list and indexes hold the same entries through resizes, moved heads,
  shrinking slices, updates by copy; nothing leaks or is used twice.
* Stream program: snapshots between events only, and answered; batching, mixing
  and sorting lose no event.
* Transactions: snapshot reads, first-updater-wins, validation in rounds against
  a list that grows, rollback and collection while others walk the chains.

`PROJECT.json` lists these hazards at the lines where they bite.

## 2. Modules

| Module | Models | Kind |
|---|---|---|
| `ViewTree` | d-trees (`tree/*.scala`), where each term goes and what each view keeps | pure |
| `CodeGenerator` | stored views, statement targets of each trigger, delta paths, and what definition and delta expressions evaluate to; `Recompute` and `Query` are the reference definitions | pure |
| `IVM` | the promise: an update moves the result, in one step, to the query over the updated relations | abstract state machine |
| `FIVM` | the generated program, one action per loaded tuple, delivered event and statement; implements `IVM` | state machine |
| `M3`, `M3Program` | types, expressions, comparison and the optimizer; the SQL compiler, d-tree file, typed view tree and the M3 program as it is printed | pure |
| `VariableOrder` | the scripts that write d-tree files | pure |
| `InputRelations` | CSV reading, and which relations an application registers with which handler | pure |
| `Toolchain` | the whole way from a query to a registered program, one action per stage and per eliminated aggregate | state machine |
| `Application` | `Application::run` with its dispatchers and multiplexers | state machine |
| `RingView` | the maintenance program of a join on one variable for any payload type | state machine |
| `RingCofactor` (of degree one and two), `RingCategorical`, `RingGeneral`, `RingRelational`, `RingQueries` | the payload types, each with what it means | pure |
| `FactorizedJoin` | maintenance of factorized payloads over the view tree of each query, and the nested loops as plans | state machine |
| `MemoryPool` | the pool of `pool.hpp` behind the counting `Singleton` of `mmap.hpp` | state machine |
| `ElementPool` | `Pool` and `ValuePool`, used by `PooledTable` and `SharedStrings` | pure |
| `SharedStrings` | the four string types of `string.hpp` | state machine |
| `KeyedStore` | what a table promises: a value per key or none, and what each call does to it | abstract state machine |
| `MultiHashMap` | the map of `backend/lib/mmap.hpp`; implements `KeyedStore` | state machine |
| `PooledTable` | both versions of the map of `mmap1.hpp`; implement `KeyedStore` | state machine |
| `TableIndexes`, `IndexedTable` | the indexes of `mmap2.hpp`, and a table under them | pure, state machine |
| `EventSources`, `StreamProgram` | files to events (`standard_adaptors`, `streams`), and the program with its client thread (`program_base`, `iprogram`) | pure, state machine |
| `Transactions` | `TransactionManager.h`, `Version.h`, `cmmap.hpp`: threads step by step | state machine |
| `MC*` | the instances TLC checks | MC |
| `FiniteSums`, `FIVMProofs`, `ApplicationProofs`, `MemoryPoolProofs`, `TransactionsProofs`, `MultiHashMapProofs`, `StreamProgramProofs`, `RingProofs` | theorems and proofs | proofs |

State and code.

* `FIVM`: `views` are the maps of `data_t`; `todo` is what is left of the
  running trigger; `base` holds the tables and, for streams, which the program
  does not store, the history the views are compared with. A relation or view
  is a function from rows to multiplicities; a row of multiplicity 0 is one
  that is not in the map.
* `Application`: `stage` is the position in `Application::run`, `it` the
  iterators of the dispatchers, `func` the run whose `data_t` a relation's
  `func` captures; `got`, `turns` and `snaps` are history.
* `MemoryPool`: a slot is its chunk and its index in it, slot 0 being the link
  to the previous chunk; `owned` records which container uses a slot, `peak`
  the most slots in use.
* `MultiHashMap`, `PooledTable`, `IndexedTable`: an entry is known by a number
  that stands for its address and is used again; a bucket is the sequence of
  its cells, head first. `call` names the operation of a step, so that the
  refinement of `KeyedStore` compares each call with what that call promises;
  `severed` and `damage` record the two operations that leave a table in which
  the next one may follow a pointer to nowhere (section 6), and what they did.
  `IndexedTable` takes slices apart step by step because the callback may change
  the table.
* `SharedStrings`: `stale` is the string, if any, whose assignment gave back the
  memory it then read; what a program does after that is not followed.
* `StreamProgram`: `pcRun` and `pcClient` are where the two threads are; the
  flags they share are plain booleans and every access is a step. The
  documentation of `run(async)` promises the second thread. In this code the task
  is called on the thread of the caller (`iprogram.cpp:13-16`): `main` gets to
  its `get_snapshot` only when the run has ended. The model has the behaviours of
  a program that starts the run on a thread itself, those of `main` among them.
* `Transactions`: `version` and `entry` are the objects created so far, an
  entry with its newest version; `index`, `rows` and `slice` lead to entries;
  `xact` are the Transaction objects, `th` the threads with their program
  counter and local variables. `reads` and `overlooked` are ghosts: what reads
  returned, and the transactions a collector ran past between the two steps of
  their `begin`. Two actions merge steps of the code. `CutCommitted` is the load
  of the tail, the walk down the list and the compare-and-swap
  (`TransactionManager.h:170-181`): a commit in between is newer than `oldest`
  and only makes the swap fail, which leaves old transactions on the list until
  the next collector. `RemoveEntry` marks one list, erases the key and marks the
  other (`cmmap.hpp:206-212, 1541-1545`): whoever meets the entry half removed
  finds a chain on it with nothing to see, and no one may write it.
* `RingView`, `FactorizedJoin`: the constants are operators or plans of one
  query; a behaviour is one of one query. `RStart` are the payloads the root may
  begin with: the default, or what the default constructor makes of memory
  that held something.

Definitions called mutants are variants of a definition with a plausible bug.
Nothing uses them: replacing the definition by the variant makes TLC report the
property, which shows the property can fail.

## 3. Runs

| Run | Question | Bounds, and why they are enough |
|---|---|---|
| `rst` | Are all stored views right at every step of every trigger, and does the root implement `IVM`? | the tree of `queries/simple/rst.txt` with five variables and two branches, one branching again; one table, two streams; GROUP BY, a factor over two nodes, a conjunct pushed down and one spanning branches; one loaded tuple and two batches of up to two tuples with multiplicities -1 to 1, so that a batch joins what an earlier one left; 3,318 states |
| `rst_branch_factor` | Is the result the query for a factor over two branches? No: section 6 | three streams, three events: every relation has a tuple |
| `toolchain` | Does the optimized program compute the SQL query, and does compilation fail just where documented? | 77 inputs in both modes: some of the shipped `.sql` files with their d-trees, orders of the scripts, and inputs one step away from supported ones; `MaxTemps` 100 is never reached. 16 of the inputs, 32 initial states, are evaluated on sample databases of two values (`TriggersMaintain`, `QueryAnswered`), 21 are meant to be refused, and the rest, with up to 20 relations or many columns, are only compiled; of these the 31 orders of the backup scripts are checked as orders (`RelationsOnOnePath`); 8,553 states |
| `app` | Deliveries, turns, snapshots, termination, CSV rows | the table's file is any text of up to four characters (a letter, the delimiter, a newline) without blank lines, or missing; three streams of 0 to 4 tuples, batches of 1 and 2, interval 3, two runs, compiled with and without snapshots: partial batches, empty files, streams that finish in every order, batches that jump over the interval; 644,500 states |
| `rings` | Does every payload mean its rows, whatever comes and goes? | one to three relations of up to three rows, up to two copies; unset sums are 7 where the default constructor leaves some; for degree two also relations of two variables, and three relations, whose pairs of variables meet in several orders; 176,520 states over twelve queries |
| `factorized` | Do the loops print the join? | six queries, one or two rows per relation, two copies where multiplicities meet, inserts; 6,999 states |
| `pool` | No slot lost or used twice, pool alive while held; texts kept and blocks given back | three containers, chunks of 2, 4 and (capped) 4 slots and up to 7 elements, so that a pool grows in all three ways; three strings of each type with texts shorter than, as long as and longer than a fixed one, assigned also to themselves and from their own text; 374,910 states |
| `map` | List and indexes agree; each call of both maps does what `KeyedStore` promises | four keys (three in the table of mmap1), three in one slice, colliding hashes in both indexes, tables of 1, 2 and 4 buckets: chains, moved heads, slices losing first, middle and last entry, resizes with chains, reused numbers; the constraint `MostlyOne` keeps all values but one at 1 in small tables and all in larger ones, since a value only decides whether its entry stays; `MCView` hides which call the last one was, which the refinement sees on every step and no later step depends on; 31,260 states |
| `table_indexes` | Indexes of mmap2 agree, are ordered, and slices are visited fully | four keys in one slice or three in two, colliding hashes, every kind of secondary index alone and pairs of two, so that `clear` may throw after it has emptied the last; rows that change slice under their key; entries whose copy constructor copies links and entries whose does not; also while a callback changes the slice; 189,426 states |
| `stream_program` | Snapshots consistent and answered; books right; no event lost | all order-book files of three messages over two ids and three times, CSV files of up to three lines, batches of one and two, mixed or not, a client with three requests; orders wrap at 16 as they do at 2^32; 264,086 states |
| `transactions` | Snapshots, write conflicts, validation, rollback, collection | two threads, the transaction that loaded the table and two others of two calls each on two keys in one slice, one after the other or concurrent; `Never` 99 stands for the largest timestamp; 1,141,937 states |
| `transactions_overlooked` | Is every committed transaction valid? No: section 6 | the same |

Deadlock is not checked where the program ends or a bound on the inputs stops
it. Symmetry is used for the containers of `pool`, which only safety
properties see.

Fairness. `Termination` (run `app`) assumes weak fairness of the driver's next
step: it is one thread that blocks on nothing. `SnapshotsAnswered` (run
`stream_program`) assumes weak fairness of the runner and of the client once it
has called `get_snapshot`: both are threads of the operating system, the lock
between them is held for a few instructions, and nothing makes the client call.
No other property is a liveness property: maintenance triggers and tables are
called, they do not run by themselves, and the threads of `Transactions` spin
on locks of the library without any promise to their callers.

## 4. Proofs

The theorems hold for every value of the constants that meets the named
assumptions. `TreeAssumption`, `TermAssumption`, `SourceAssumption`,
`ValueAssumption` and `InputAssumption` say what the constants of the compiler
and the program are; `ApplicationAssumption`, `BatchAssumption`,
`PoolAssumption`, `ContainerAssumption`, `InitSizeAssumption`, `HashAssumption`,
`StringAssumption`, `TransactionAssumption`, `RingViewAssumption`,
`OrderWidthAssumption` and `ProgramsAssumption` do so for the others.
`ValueAssumption` has a WHERE conjunct count 0 or 1, as a comparison does: it is
applied at one or more nodes. Three hypotheses go beyond them. `RingLaws` is
what the headers of `examples/src/ring` owe the generated code, see below.
`WellFormed`: relations are the leaves of the tree and hang below all their
attributes, and the keys of a variable are the variables above it that
relations below it mention. The front end relies on this without checking it;
`MCRst` evaluates it for the tree of the runs, and `RelationsOnOnePath` shows
what happens to the scripts' files. `FactorsPlaced`, for the theorems about the
query: every SUM factor either has a variable that lies below all its others or
is the constant 1. `MCRst` evaluates it too: it holds in the run `rst` and
fails in `rst_branch_factor`, where the answer is wrong (section 6).

**The view tree** (`FiniteSums`, `FIVMProofs`). The main theorem is
`StoredViewsStayRight`: `WellFormed => (Spec => []ViewsMatchBase)`, the
correctness of incremental maintenance for every tree, query, term, set of
streams and sequence of inserts, deletes or batches. The argument:

1. Sums and products over finite sets are folds of the community modules.
   `FiniteSums` shows by induction over the size of the set (a well-founded
   induction over sets of numbers, since theorems with an operator parameter
   cannot be used) that a fold takes one element at a time, hence that it is
   additive, multiplicative in one factor and so on.
2. `Subtree` is the least set closed under children. From the numbering of the
   nodes follow induction and recursion over the tree, that siblings have
   disjoint subtrees, and that of the children of a node exactly one depends on
   a relation below it (`DeltaPathUnique`: the error "# of delta paths not 1"
   of `createDeltaExpr` is unreachable).
3. `JoinAndSum` is linear in each child. So the delta of a view, computed along
   the one path that depends on the relation with the stored siblings as they
   are, is what the definition changes by (`DeltaRight`); and a definition
   that reads stored views where there are some is the view (`DefinitionRight`).
4. The inductive invariant `IndInv` is `Types`, `StreamsEmpty` (before SYSTEM
   READY), `SettingViews` and `AddingDeltas` (while either trigger runs, which
   views have been set and which still are what they were), and
   `ViewsMatchBase`. The last alone is not inductive: it says nothing of static
   views before SYSTEM READY has computed them in post-order, nor which
   statements are left. That a statement reads nothing its trigger writes is
   `DeltaReadsStoredUntouchedViews`.

**The query** (the same modules). `ProgramImplementsIVM` is
`WellFormed /\ FactorsPlaced => (Spec => ImplementsIVM)`: the program implements
the abstract specification `IVM`, whose result moves in one step to the query
over the updated relations.

1. Products of sums over the rows of the children are sums over the rows of all
   of them (`Distribution`), since siblings share only variables the node keeps.
2. So a view, which the code defines by joining and summing node by node, is a
   sum over the natural join of all relations below it (`ViewMeaning`).
3. At the root each SUM factor has been applied at exactly one node and each
   conjunct at one or more, which for 0 and 1 is the same as once: the root is
   the query (`RootIsQuery`), and stays so (`RootStaysTheAnswer`).
4. A loaded tuple maps to `Load`, SYSTEM READY's return to `Start`, the
   statement that adds to the root, which every trigger runs first, to `Update`,
   every other step to a stutter.

`FactorPlacement` says for every tree exactly where a SUM factor goes, and so
when it is lost (section 6); `TermsCovered` that a term never lacks a variable.

**The driver** (`ApplicationProofs`). `IInv` says that the vector of a
multiplexer holds the unfinished dispatchers first and once each, also while
`init_dispatchers` is filling it, and that the streams before the turn have had
one turn more than those behind it; the properties alone are not inductive
because the order of the vector decides who is next. `DInv` adds that what was
delivered is the prefix up to the iterator. `SnapshotsKept` adds that the
snapshots are ascending and spaced and that the next one is due an interval
after the last; `SnapshotsInOrder` follows. It asks for an interval other than
0: with 0 a run without any tuple takes no snapshot, because `next_snapshot`
is still what the final test compares it with. Nothing in the repository
defines `SNAPSHOT_INTERVAL`; who builds with it chooses the value.

**The CSV reader** (`ApplicationProofs`). What `getline` reads is a fold over
the text (`Pieces`); what a reader of the file means by lines and cells is
stated without it, by the places of the separators (`Between`). `ScanStep` is
the invariant of the fold: after n characters it has the pieces between the
separators so far and, apart, what follows the last of them. `PiecesAre`: at
the end, only a piece behind a separator that ends the text is missing. For
lines that is right, for cells it is the empty cell that `readNextRow` adds;
`ReaderKeepsCells` puts the two together for every text without blank lines.

**The pool** (`MemoryPoolProofs`). `PInv`: the counter is the number of
holders, a pool in use has a bump pointer inside its last chunk, and the free
list and the elements split the slots handed out so far. `Sized` adds the
count.

**The strings** (the same module). For any strings, texts and sizes, of
whichever of the four types, `StringsStaySound`: every string keeps its text and
the memory is accounted for, until a counted or pooled string that is alone with
its block is assigned to itself, or one of these or of `VariableLengthString` is
assigned its own `c_str()`. `string.hpp` tests for neither (but for
`VariableLengthString` against itself, line 168) and reads what it has just
freed; the theorem then still has the others keep their texts. Up to that
step `StrInv` is inductive (`StrInvOrStale` adds the step); it speaks of any memory, strings and texts (`Good`), because an assignment first
drops the old block and then allocates or shares, and what is between is good
too, for the other strings. Its parts:

1. `BlocksOwned`, `Readable`: the blocks are those the strings refer to, and
   each string reads as the text it was given.
2. `SharedTogether`: no two strings of `VariableLengthString` have one block;
   counted strings with one counter have one block and, unless it is none, the
   other way round. The property alone is not inductive without it: a counter
   of 2 over two strings with different blocks counts right, and the first of
   the two to be destroyed leaves its block behind.
3. `CountsExact`: the counters are those of the strings, each says how many
   there are, and `PoolWith`: what the pool has not on its free list, where
   nothing is twice, is just the counters in use.

What happens to a string splits into two: it leaves its memory (`DropGood`: as
the only one with a block, or as one of several, `SharedHasTwin`), and it is
good again with a fresh block, a fresh counter or a share of another's
(`AddString` and the lemmas after it).

**Transactions** (`TransactionsProofs`). For any number of threads, keys and
transactions, `IInv` is inductive: types; versions are numbered so that a chain
goes down; a transaction belongs to one thread; the clock is above all
timestamps and below `Never`; who holds the locks; the committed list is in
commit order, and whatever is cut off it is settled for every active
transaction that no collector overlooked; a validation that is under way has
compared all it must, except those still ahead of its current round; and no
version follows one that was committed after its writer began. From it follow
type correctness, mutual exclusion of the commit section (`OneCommitsAtATime`),
`WritersAreNotConcurrent` (first updater wins), `ListIsOrdered` and
`CommitsAreValid`. `CommittedAreValid` speaks of all transactions but the
overlooked ones; that these exist is the finding of section 6. TLC checked
`IInv` on all states of the run before it was proved.

**The versions** (the same module). `VInv` is inductive given `IInv`, and the
other three invariants of the run follow from it. Its parts:

1. `Chains`: every version is above one of the same entry or is the one the
   entry began with, and the numbers of a writer fall on the way down. Chains
   are taken as the least sets closed under `oldV` (`Below`), so that
   `CorrectVersion`, a recursive function, can be shown to find the newest
   visible version: among versions from which the descent went wrong there
   would be a lowest one (`Lowest`, `Descending`).
2. `Reachable` and `Logged`: what has committed, or may still, stands on the
   chain of its entry, and its writer has it in the undo buffer, newer versions
   of a row before older ones. A rollback takes them off in that order; the
   order matters where a transaction has written a row twice.
3. `Topped` and `Founded`: the newest version of a listed entry is committed or
   belongs to a thread that will deal with it, and an entry whose insertion has
   not committed has no other writer.
4. `removed` entries are `Gone`: the insertion was rolled back, or the newest
   version is a deletion stamped with a commit no running transaction began
   before. This needs `OnTheWay`: the `oldest` of a collector is below the
   start of all but the overlooked, from the cut on until it has swept.
5. `ReadsRight`: commit timestamps are distinct from later starts (`Apart`),
   and whoever commits, commits after all starts so far, so that a snapshot read
   earlier stays the snapshot.

From it follow `ReadsSeeSnapshots`, `RollbackLeavesNothing` and
`CollectedStayUnseen`. TLC checked `VInv` on all states of the run first. Steps
that leave all chains alone have one lemma (`Steady`, and `Calm` steps under
it), writes have another (`OnTopWell`); only `Unchain` changes a chain in
another way.

**The map** (`MultiHashMapProofs`). For any keys, slices, hash functions,
initial size and number of entries, `MapStaysWhole` and `MapIsStore`: the list
and the indexes of `MultiHashMap` agree, and it implements `KeyedStore`.

1. An index is what it holds: `Held` is the set of the cells in its buckets.
   `GoodBuckets` says that only a lone head is empty, that every cell is in the
   bucket of its hash and that no object is there twice. Then inserting adds
   one cell to `Held`, erasing takes one away, changing the object of a cell
   replaces one, and growing, bucket by bucket and cell by cell, changes
   nothing, whatever the order of the cells in the new buckets. A lookup finds
   the cell of the object that is equal, if there is one, and counts agree.
2. `Indexed` says that the primary index holds one cell for each entry, under
   the hash of its key; `Sliced` that the secondary one holds one for each
   slice, under the hash of the slice, with the entries of the slice in the
   head object and its chain, each once. `Chained` says that the list is linked
   both ways through all entries.
3. The inductive invariant `IInv` (`MapInvariant`) is these three over one set
   of entries, with `Contents`: keys are not repeated and values are in range.
   The two properties alone are not inductive: a bucket whose head is empty
   before a chain answers all lookups of today and loses the chain when the
   index grows, and an entry in the wrong bucket does harm only after that.
4. What the primary index finds is the function from keys to values that is
   the state of `KeyedStore`. `Insert`, `Erase` and `Assign` change it at one
   key; every call of the map is one of those or none, just as `KeyedStore`
   says of the call of that name (`StepIsAbstract`): `incrementOrAssignNonZero`
   may not leave a zero that `incrementOrAssign` would.

**The stream program** (`StreamProgramProofs`). `SnapshotsAreConsistent` holds
for any program, files and number of calls of the client; of the events its
proof uses nothing, so whatever the adaptors, the batching and the mixing make of the
files, a snapshot is what a whole number of them made. `IInv`
(`ProgramInvariant`) has four parts:

1. `FlagsTell`: `running`, `finished` and the mutex say where the runner is, and
   the mutex whether the client is inside `request_snapshot`.
2. `RequestOnItsWay`: a client that waits is in exactly one of three phases.
   Its request is open; or it is cleared and not yet announced; or it is
   announced. From when it is taken the snapshot is one for this call. A client
   that holds the mutex keeps the runner from falling idle between the look at
   `running` and the request.
3. `AnswerRight`: the result is none, or a snapshot no older than the call.
4. `ContentFollows`: the content is that of `pos` whole events and of the
   `applied` first changes of the next one, and of none where snapshots are
   taken. Content after events is a recursive function; `AppliedNext` and
   `AfterNext` are its steps, by induction over numbers.

The property alone is not inductive: it says nothing of a snapshot before it is
the result, of an open request, nor of the middle of a trigger. TLC checked
`IInv` on all states of the run before it was proved.

**The lines of the files** (the same module). `LinesAllCount` is
`Spec => []EveryLineCounts` for any programs that meet `ProgramsAssumption`:
their sources are of registered relations that have triggers for what is sent
(batches, or else the insertions and deletions the adaptor makes), streams to be
mixed are numbered from 0 on as the array of `streams.cpp:209` needs it, order
numbers are integers, and a relation has either CSV files or order books.
`SourceFits` is that list, and TLC evaluates it for the programs of the run. The
invariant `CInv` (`ContentInvariant`) follows a line through the program:

1. *Arranged.* Sorting, batching backwards, cutting the relations one after the
   other and mixing are all one operator, the values at some places in the order
   of their keys. Its ranks are a bijection (`RanksAre`), so an arrangement has
   what it arranges, each once (`ArrangedTally`), and what is below it in the
   keys before it (`PlacesListed`).
2. *Counted.* `Tally` is how often the events of a queue make a change, a tuple
   with its relation and sign. Batches keep it (`BatchesTally`: the k-th batch
   has exactly the events from (k-1)n + 1 on, and the last one what is left),
   and so do the queue's and the list's (`QueueCounts`, `ListCounts`), mixing
   (`MixedCounts`) and hence `init_source` as a whole (`MultiplexedCounts`).
3. *Read.* `Traced`: the events of CSV relations that were read so far are those
   of the lines before the next one, in their order, in the list or the queue of
   their multiplexer (`ReadReads`). Order books share the queues and add nothing
   of these relations.
4. *Ordered.* Without batches the arrangements keep, relation by relation, the
   events by their order and those of one order by their lines (`MuxInOrder`).
5. *Done.* `NetIs`: a relation holds every tuple as often as the changes done so
   far insert it more than they delete it. A change more is one place more of the
   queue (`OneMore`), and at the end all of them are done (`AllDone`).

**The rings** (`RingProofs`). For any number of relations, rows, copies and
updates, and any payload type whose operators obey `RingLaws`, the views and the
root stay right (`ViewsStayRight`, `RootStaysRight`). The laws are stated in the
model's own terms, what a payload means over a bag of tuples, and say of each
operator which operation on bags it stands for:

1. `ZeroLaw`, `LiftLaw`: the default, and whatever the root may start from
   (`RStart`), is the empty sum, a lifted value the sum over its tuple. `TimesLaw`, `ScaleLaw`: a product, also one with a number of
   rows, joins. `PlusLaw`, `AssignLaw`: a sum adds the counts. `IsZeroLaw`: a
   payload is zero just if its tuples are lifted to zero, and may then be
   dropped. `JoinLaw`: a join variable that is not lifted does not matter.
2. The laws ask nothing of bags with counts of both signs. A payload of one
   tuple inserted and another deleted has count 0, so `isZero` would drop sums
   that are not 0; but an update has one multiplicity, the other operands of its
   product are views, whose counts are not negative, and a view never holds less
   than no copy of a row (`WeightedSign`). That is why the triggers, one
   event at a time, are right although `operator+=` on two arbitrary payloads
   is not.
3. The delta of the root is a product over a path of siblings; by induction over
   its factors (`ProductMeans`) it is the sum over the join of the updated row
   with the rows of the others (`RootDeltaMeans`), and the join after an update
   is the join before plus that (`JoinAdvance`).
4. The inductive invariant (`RingInvariant`): while a trigger runs the views
   stand for the relations without the running update (`Behind`), and the root
   does so until its statement has run, then for those with it. The two
   properties alone speak of the time between triggers only.
5. `CofactorsAreLawful`: the payloads of `ring_cofactor_degree1.hpp` obey the
   laws, for any variables in the order of the relations and any integer
   values: their sums over a join of disjoint variables split into products
   (`SumsOfLeft`, `SumsOfMixed`), whichever factor comes first
   (`TimesIs`).
6. `AveragesAreLawful`, `Query12IsLawful`, `Query01IsLawful`: so do those of
   `ring_avg.hpp`, TPC-H 12 and TPC-H 1. They are a count and sums that are
   linear in the counts (`Linear`); over a join such a sum is each part's times
   the count of the other (`LinearCross`). The short cuts of the code, to skip an
   operand of count 0 and to keep a payload scaled by 1, are right because such
   an operand has no rows left (`AddedNone`, `CrossNone`).
   `PayloadsStayRight` puts all of it together.

That the other payload types obey the laws is not proved; the run `rings` checks
the two properties for each of them on its query. Three do not: the minimum of
`ring_jobs_*` cannot take a row back (`PlusLaw` asks for deletes), TPC-H 14
copies its percentage when it scales by a number, 0 among them (`ScaleLaw`), and
a general cofactor cuts fractions off.

**Only model-checked.** Liveness (`Termination`, `SnapshotsAnswered`): fairness
and ENABLED are out of the prover's reach. What the stream program makes of order
books (`BooksAtTimestamps`) compares the books with a reading of the whole file
that sums the executions of an order, an induction over data. The pooled table and its refinement of
`KeyedStore` and the indexes of `mmap2.hpp` have no proofs yet.
Of the rings, that payloads of more structure (categorical and general cofactors,
those of degree two, relations and listings) obey the laws. The factorized joins and the toolchain are pure algorithms over sequences
and records with recursive operators, where proofs by the installed provers are
not possible or would need a development of their own.

## 5. Not modelled

* Grammars, command line, output formats, binary files, serialization.
* The C++ the DBToaster backend compiles M3 to is not in the repository. An M3
  statement is taken at its meaning, a stream program from the calls the
  library expects.
* The batch gradient descent solver: a floating-point iteration.
* Vendored support code without a protocol: options, statistics, hashing,
  numeric functions. The cuckoo map under the primary index of `cmmap.hpp` is
  taken as a map; its ordered, median and array indexes, list and range indexes
  of `mmap1.hpp` and the aggregates of slices in `mmap2.hpp` are left out.
* Code that does not compile when it is instantiated: `operator=`, `operator+=`
  and `erase` by key in `mmap.hpp:645-673`, `delSlice` and the default `del` of
  `mmap1.hpp`.
* Widths of counts: payload sums are integers, so equal sums are equal. Counts
  are multiplied as `int` in `ring_cofactor_degree1.hpp:80`.
* CSV files with blank lines: `line.back()` of an empty line is undefined. The
  read that fails at the end of every file does the same (`csvreader.hpp:27-45,
  73`); its row is not used, and the model has the reads that succeed.
* Batches whose rows are summed into one payload before they are multiplied: the
  events of `RingView` are single rows (see `ring_cofactor_degree1.hpp:48` in
  section 6). `on_delete` triggers: no application dispatches deletions.
* `HashIndex::sliceResMap` of `mmap2.hpp:501-514`, whose loop over a chain does
  not advance and so does not end unless the first element is the one.
* Memory that is used in passing: after the newer table's destructor the last
  element of a chunk still counts as used, with a link of the free list written
  over it (`dbt_c++/mmap/pool.hpp:134-140`), and `~Pool` runs the destructor of an
  entry on it, which does nothing for entries of numbers; the first entry of an empty list
  of `mmap1.hpp` keeps the `prv` it was constructed with.
* The time of a message of an order book is whole: `event_order` truncates twice
  a double (`standard_adaptors.cpp:369`).

## 6. What the checks found

* A SUM factor whose variables lie in different branches of the tree is applied
  at no node and lost (`ViewTree.scala:72-78`): the filter drops a factor that
  the variables of all children cover together, although no single child does.
  `rst_branch_factor` is the counterexample; a constant factor is lost in the
  same way. `FactorPlacement` says exactly when it happens, and
  `RootIsQuery` that nothing else makes the root differ from the query.
* `TransactionManager::begin` draws `startTS` under the lock and publishes it
  after unlocking. A collector that runs in between does not see the
  transaction, cuts the committed list behind a newer start, and a validation
  round that follows `prevCommitted` then misses a conflict
  (`transactions_overlooked`). With those transactions set aside validation is
  right, which is `CommitsAreValid`.

Behaviour the models keep as it is, met while reading the code:

* A cofactor payload counts as zero when its count is
  (`ring_cofactor_degree1.hpp:48`): sums of rows inserted and deleted in one
  batch have count 0 and are dropped, so deltas must not be added up first.
  The factorized ring loses values under deletes (`ring_factorized.hpp:145`),
  the minimum of `ring_jobs_*` does not come back after one, and
  `ring_cofactor_general.hpp:162` cuts fractions off. These runs have inserts
  only, or whole numbers.
* `RingCofactor()` of the categorical and the general ring sets the count and
  leaves the sums of the continuous variables unset
  (`ring_cofactor_degree1_categorical.hpp:61`, `ring_cofactor_general.hpp:22`).
  A view takes no harm, since its entries are created by assignment. The root of
  a query without GROUP BY is such a default that is added to: `RootMeans` says
  that its sums are off by what the memory held, and that nothing else is.
* Payloads of degree two store the pairs of variables in the order of
  multiplication (`ring_cofactor_degree2.hpp:148-159`). With three relations the
  triggers multiply in different orders, and `+=` adds elements of different
  pairs: `RootMeans` then holds of their total only.
* `add` over a key that is there (`mmap2.hpp:3613-3630`) compares hashes only: an
  ordered index keeps the object where its former columns put it, and an index by
  slices does when two slices have one hash. An entry class whose copy
  constructor copies links and back pointers, as the implicit one of
  `GenericEntry` does, loses its place in the list. `IndexesAgree` and
  `OrderedAnswers` name these indexes and objects as exceptions and hold for all
  others. In `mmap1.hpp:1199-1209` the copy clears `nxt`, and the list ends at an
  entry that had followers.
* `clear` of a table with an ordered index throws (`mmap2.hpp:3727-3731`) after it
  has emptied the indexes behind that one; the table and the others stay full.
* A WHERE conjunct that compares two constants, and folded doubles of 10^7 and
  more, which M3 cannot read again, make compilation fail. `schema_backup.py`
  writes the type `None` for some columns.
* `TreeIndex` puts rows with equal sort columns to the right and looks for them
  on the left (`mmap2.hpp:2515`, `2630`): the run has no equal ones in a slice.
  An object updated by copy is never given back to the pool.
* `Pool::clear` of `dbt_c++/mmap/pool.hpp:134-140` leaves the last element of
  every chunk marked as used.
* In the stream program an execution at time 0 gets an order that wraps
  (`standard_adaptors.cpp:416`), and a batch over several relations carries the
  id of the last (`streams.cpp`).
* `cmmap.hpp` dereferences a null version after a rollback emptied a chain
  (lines 256, 281), and a read of an absent key leaves no predicate; nothing in
  the repository calls `TransactionManager`.
* An assignment of a counted string to itself frees the text it then reads when
  no other string shares it (`string.hpp:239-249`, `357-367`), and so does one of
  its own `c_str()` (`158`, `224`, `341`). `StringsSound` follows a program up to
  there.

## 7. Plan

1. Done: compiler, generated program, driver, stores, rings, factorized joins,
   toolchain, stream program, transactions; proofs of section 4.
2. Next proofs: the pooled table as a `KeyedStore`, the order books of the stream
   program, and the agreement of the indexes of `mmap2.hpp`.
3. Ordered indexes of `cmmap.hpp`, aggregates of slices in `mmap2.hpp`.
