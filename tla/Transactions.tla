---------------------------- MODULE Transactions ----------------------------
(***************************************************************************)
(* Threads that run transactions on one multi-version table: begin, reads, *)
(* updates, inserts and deletes, optimistic validation against what has    *)
(* committed since, commit and rollback, and the garbage collector every   *)
(* commit runs.  A step is one access to shared state, or several that no  *)
(* other thread can tell from one.                                         *)
(*                                                                         *)
(* The programs that run on the threads are not part of the library: here  *)
(* they call its operations in any order, give up when an operation fails  *)
(* or when they please, and never use one Transaction object twice.        *)
(* MaxXacts bounds the transactions of a behaviour and MaxOps the calls of *)
(* one.  Dereferencing a null or marked pointer ends the process.          *)
(***************************************************************************)
EXTENDS Integers, Sequences, FiniteSets

-----------------------------------------------------------------------------
(***************************************************************************)
(* A multi-version table: entries with a chain of versions each, newest    *)
(* first, under a unique hash index, a list of all entries and an index of *)
(* slices.  What a transaction may see and what its predicates match is    *)
(* read off the version records.                                           *)
(*                                                                         *)
(* A transaction is a number, a version is <<writer, count>>, and an entry *)
(* is named after the version it was created with.  Never stands for the   *)
(* timestamps above every real one: the temporary identity of a version    *)
(* and the commit timestamp of a transaction that has none.  The memory of *)
(* versions and entries is never given back, as in the code.               *)
(***************************************************************************)

CONSTANTS Key,       \* the keys of the table
          SliceOf,   \* the column of each key the second index is over
          Never      \* a timestamp above all that are drawn

VARIABLES xact,      \* the Transaction objects
          version,   \* the versions created so far
          entry,     \* the entries created so far, with their newest versions
          index,     \* the hash index: the entry of a key
          rows,      \* the list of entries behind dataHead, newest first
          removed,   \* the entries marked as removed in the lists
          slice      \* the lists of the second index, newest first

storeVars == <<version, entry, index, rows, removed, slice>>

NoXact == 0
Null == <<>>

Writer(v) == v[1]
KeyOf(v) == entry[version[v].entry].key
NewestOf(e) == entry[e].head

IsTemp(v) == version[v].xactid = Never

IsVisible(x, v) ==
  \/ IsTemp(v) /\ (Writer(v) = x \/ xact[Writer(v)].commitTS < xact[x].startTS)
  \/ ~IsTemp(v) /\ version[v].xactid < xact[x].startTS

\* The newest version on the chain of e that x may see, Null if there is none.
CorrectVersion(x, e) ==
  LET from[v \in DOMAIN version \cup {Null}] ==
        IF v = Null THEN Null
        ELSE IF IsVisible(x, v) THEN v ELSE from[version[v].oldV]
  IN  from[NewestOf(e)]

-----------------------------------------------------------------------------
(* Predicates: what a read depends on.                                     *)

GetPred(k) == [kind |-> "get", keys |-> {k}]
SlicePred(s) == [kind |-> "slice", keys |-> {k \in Key : SliceOf[k] = s}]
ForEachPred == [kind |-> "all", keys |-> Key]

InSlice(p, v) == v # Null /\ version[v].valid /\ KeyOf(v) \in p.keys

Matches(p, v) ==
  \/ p.kind = "all"
  \/ p.kind = "get" /\ KeyOf(v) \in p.keys
  \/ p.kind = "slice" /\ (InSlice(p, v) \/ InSlice(p, version[v].oldV))

MatchesAny(p, y) == \E i \in DOMAIN xact[y].undo : Matches(p, xact[y].undo[i])

-----------------------------------------------------------------------------
(* Changes of the table.                                                   *)

Versions(x) == {v \in DOMAIN version : Writer(v) = x}
NewVersion(x) == <<x, Cardinality(Versions(x)) + 1>>

\* The function f with the value y at x.
With(f, x, y) == [z \in DOMAIN f \cup {x} |-> IF z = x THEN y ELSE f[z]]

\* The new version of x becomes the newest one of the entry of v.
Supersede(x, v) ==
  /\ version' = With(version, NewVersion(x), [version[v] EXCEPT !.oldV = v, !.xactid = Never])
  /\ entry' = [entry EXCEPT ![version[v].entry].head = NewVersion(x)]
  /\ UNCHANGED <<index, rows, removed, slice>>

AddToSlice(s, e) ==
  slice' = With(slice, s, <<e>> \o (IF s \in DOMAIN slice THEN slice[s] ELSE <<>>))

\* insert_nocheck of a key the hash index does not hold.
InsertEntry(x, k) ==
  LET e == NewVersion(x)
  IN  /\ version' = With(version, e, [entry |-> e, oldV |-> Null, xactid |-> Never, valid |-> TRUE])
      /\ entry' = With(entry, e, [key |-> k, head |-> e])
      /\ index' = [index EXCEPT ![k] = e]
      /\ rows' = <<e>> \o rows
      /\ AddToSlice(SliceOf[k], e)
      /\ UNCHANGED removed

\* The entry is marked in the lists, and its key erased from the hash index,
\* whatever entry it holds by now.  The code marks one list, erases the key and
\* marks the other list one after another: an atomicity abstraction, whoever
\* meets the entry half removed finds on it a chain with nothing to see.
RemoveEntry(e) ==
  /\ removed' = removed \cup {e}
  /\ index' = [index EXCEPT ![entry[e].key] = Null]

\* A version leaves its chain; the entry it created goes with it.
RemoveFromVersionChain(v) ==
  /\ \/ version[v].oldV = Null /\ RemoveEntry(version[v].entry) /\ UNCHANGED entry
     \/ /\ version[v].oldV # Null
        /\ entry' = [entry EXCEPT ![version[v].entry].head = IF @ = v THEN version[v].oldV ELSE @]
        /\ UNCHANGED <<removed, index>>
  /\ UNCHANGED <<version, rows, slice>>

\* (mutant) Whoever may still look behind the deletion.
IsGarbageAtOnce(v, oldest) == ~version[NewestOf(version[v].entry)].valid

\* A version the collector meets has its entry removed when the newest version
\* of the entry is a deletion no running transaction looks behind.
IsGarbage(v, oldest) ==
  LET head == NewestOf(version[v].entry)
  IN  version[head].xactid <= oldest /\ ~version[head].valid

-----------------------------------------------------------------------------
CONSTANTS Thread, Present, MaxXacts, MaxOps

(* The counter never reaches Never.                                        *)
ASSUME TransactionAssumption ==
  /\ MaxXacts \in Nat \ {0} /\ MaxOps \in Nat
  /\ Never \in Nat /\ 2 * MaxXacts < Never
  /\ Present \subseteq Key /\ IsFiniteSet(Present)

VARIABLES timestampGen, counterLock, commitLock, committedXactsTail,
          isGCActive, activeXactStartTS,
          th,          \* the threads: program counter and local variables
          crashed,
          reads,       \* what the reads of a transaction returned
          overlooked   \* transactions a collector ran past

managerVars == <<timestampGen, counterLock, commitLock, committedXactsTail,
                 isGCActive, activeXactStartTS>>
ghostVars == <<reads, overlooked>>
vars == <<storeVars, xact, managerVars, th, crashed, ghostVars>>

Loader == 1
Xact == 1..MaxXacts

Transaction == [startTS |-> Never, commitTS |-> Never, undo |-> <<>>, preds |-> {}, prev |-> NoXact]

Idle == [pc |-> "idle", x |-> NoXact, calls |-> 0, start |-> NoXact, end |-> NoXact,
         cur |-> NoXact, found |-> Null, pending |-> ForEachPred, drawn |-> 0, oldest |-> 0, slots |-> {}, todo |-> <<>>]

\* The elements of s that lie in S, in order.
Keep(s, S) ==
  LET kept[i \in 0..Len(s)] ==
        IF i = 0 THEN <<>>
        ELSE IF s[i] \in S THEN Append(kept[i - 1], s[i]) ELSE kept[i - 1]
  IN  kept[Len(s)]

\* One transaction has loaded the table.
Loaded(k) == <<Loader, k>>

\* Nothing initialises the slots of activeXactStartTS: a value below every
\* timestamp keeps the collector from working until the thread has run, one
\* above does not.
Init ==
  /\ timestampGen = 2
  /\ counterLock = FALSE /\ commitLock = FALSE /\ isGCActive = FALSE
  /\ committedXactsTail = Loader
  /\ activeXactStartTS \in [Thread -> {0, Never}]
  /\ version = [v \in {Loaded(k) : k \in Present} |->
                  [entry |-> v, oldV |-> Null, xactid |-> 1, valid |-> TRUE]]
  /\ entry = [e \in {Loaded(k) : k \in Present} |-> [key |-> e[2], head |-> e]]
  /\ index = [k \in Key |-> IF k \in Present THEN Loaded(k) ELSE Null]
  /\ rows \in {s \in [1..Cardinality(Present) -> DOMAIN entry] : \A i, j \in DOMAIN s : s[i] = s[j] => i = j}
  /\ xact = [x \in Xact |->
       IF x = Loader
       THEN [Transaction EXCEPT !.startTS = 0, !.commitTS = 1, !.undo = rows]
       ELSE Transaction]
  /\ slice = [s \in {SliceOf[k] : k \in Present} |->
                Keep(rows, {Loaded(k) : k \in {j \in Present : SliceOf[j] = s}})]
  /\ removed = {}
  /\ th = [t \in Thread |-> Idle]
  /\ crashed = FALSE
  /\ reads = [x \in Xact |-> {}]
  /\ overlooked = {}

At(t, pc) == ~crashed /\ th[t].pc = pc
Goto(t, pc) == th' = [th EXCEPT ![t].pc = pc]
Finish(t) == th' = [th EXCEPT ![t] = Idle]

Begun(x) == xact[x].startTS # Never

-----------------------------------------------------------------------------
(* TransactionManager::begin                                               *)

\* (mutant) The start timestamp is drawn without the lock.
BeginUnlocked(t) ==
  /\ At(t, "idle")
  /\ \E x \in Xact :
       /\ ~Begun(x) /\ \A y \in 1..(x - 1) : Begun(y)
       /\ xact' = [xact EXCEPT ![x].startTS = timestampGen]
       /\ th' = [th EXCEPT ![t] = [Idle EXCEPT !.pc = "publish", !.x = x]]
  /\ timestampGen' = timestampGen + 1
  /\ UNCHANGED <<storeVars, counterLock, commitLock, committedXactsTail, isGCActive, activeXactStartTS, crashed, ghostVars>>

Begin(t) ==
  /\ At(t, "idle") /\ ~counterLock
  /\ \E x \in Xact :
       /\ ~Begun(x) /\ \A y \in 1..(x - 1) : Begun(y)
       /\ xact' = [xact EXCEPT ![x].startTS = timestampGen]
       /\ th' = [th EXCEPT ![t] = [Idle EXCEPT !.pc = "publish", !.x = x]]
  /\ timestampGen' = timestampGen + 1
  /\ UNCHANGED <<storeVars, counterLock, commitLock, committedXactsTail, isGCActive, activeXactStartTS, crashed, ghostVars>>

PublishStart(t) ==
  /\ At(t, "publish")
  /\ activeXactStartTS' = [activeXactStartTS EXCEPT ![t] = xact[th[t].x].startTS]
  /\ Goto(t, "run")
  /\ UNCHANGED <<storeVars, xact, timestampGen, counterLock, commitLock, committedXactsTail, isGCActive, crashed, ghostVars>>

-----------------------------------------------------------------------------
(* The operations of MultiHashMapMV.                                       *)

Calls(t) == At(t, "run") /\ th[t].calls < MaxOps
Called(t, pc) == th' = [th EXCEPT ![t].calls = @ + 1, ![t].pc = pc]

Crash == crashed' = TRUE /\ UNCHANGED <<storeVars, xact, managerVars, th, ghostVars>>

\* The call found vs and depends on p.
Found(t, p, vs) ==
  LET x == th[t].x
  IN  /\ xact' = [xact EXCEPT ![x].preds = @ \cup {p}]
      /\ reads' = [reads EXCEPT ![x] = @ \cup {v \in vs : Writer(v) # x}]
      /\ Called(t, "run")
      /\ UNCHANGED <<managerVars, crashed, overlooked>>

FoundNothing(t) ==
  Called(t, "run") /\ UNCHANGED <<storeVars, xact, managerVars, crashed, ghostVars>>

Conflict(t) ==
  Called(t, "abort") /\ UNCHANGED <<storeVars, xact, managerVars, crashed, ghostVars>>

Get(t, k) ==
  /\ Calls(t)
  /\ \/ index[k] = Null /\ FoundNothing(t)
     \/ /\ index[k] # Null
        /\ LET v == CorrectVersion(th[t].x, index[k])
           IN  \/ v = Null /\ Crash
               \/ v # Null /\ ~version[v].valid /\ FoundNothing(t)
               \/ v # Null /\ version[v].valid /\ Found(t, GetPred(k), {v}) /\ UNCHANGED storeVars

\* The list of rows runs through entries that are removed, and breaks there.
Foreach(t) ==
  /\ Calls(t)
  /\ LET seen == {CorrectVersion(th[t].x, rows[i]) : i \in DOMAIN rows}
     IN  IF Null \in seen \/ \E i \in DOMAIN rows : rows[i] \in removed
         THEN Crash
         ELSE Found(t, ForEachPred, seen) /\ UNCHANGED storeVars

Live(s) == Keep(slice[s], DOMAIN entry \ removed)

\* sliceNoUpdate unlinks the removed entries it passes.
SliceNoUpdate(t, s) ==
  /\ Calls(t)
  /\ \/ s \notin DOMAIN slice /\ FoundNothing(t)
     \/ /\ s \in DOMAIN slice
        /\ IF slice[s] = <<>> THEN Crash
           ELSE LET seen == {CorrectVersion(th[t].x, Live(s)[i]) : i \in DOMAIN Live(s)}
                IN  /\ Found(t, SlicePred(s), {v \in seen \ {Null} : version[v].valid})
                    /\ slice' = [slice EXCEPT ![s] = Live(s)]
                    /\ UNCHANGED <<version, entry, index, rows, removed>>

\* (mutant) The newest version is taken without asking whether it is visible.
GetForUpdateUnseen(t, k) ==
  /\ Calls(t)
  /\ \/ index[k] = Null /\ FoundNothing(t)
     \/ /\ index[k] # Null
        /\ LET v == NewestOf(index[k])
           IN  \/ ~version[v].valid /\ FoundNothing(t)
               \/ /\ version[v].valid
                  /\ th' = [th EXCEPT ![t].pc = "supersede", ![t].found = v]
                  /\ UNCHANGED <<storeVars, xact, managerVars, crashed, ghostVars>>

\* getForUpdate: the newest version must be visible, and still be the newest
\* one when the new version takes its place.
GetForUpdate(t, k) ==
  /\ Calls(t)
  /\ \/ index[k] = Null /\ FoundNothing(t)
     \/ /\ index[k] # Null
        /\ LET v == NewestOf(index[k])
           IN  \/ ~IsVisible(th[t].x, v) /\ Conflict(t)
               \/ IsVisible(th[t].x, v) /\ ~version[v].valid /\ FoundNothing(t)
               \/ /\ IsVisible(th[t].x, v) /\ version[v].valid
                  /\ th' = [th EXCEPT ![t].pc = "supersede", ![t].found = v]
                  /\ UNCHANGED <<storeVars, xact, managerVars, crashed, ghostVars>>

SupersedeFound(t) ==
  /\ At(t, "supersede")
  /\ LET x == th[t].x
         v == th[t].found
     IN  IF NewestOf(version[v].entry) # v THEN Conflict(t)
         ELSE /\ Supersede(x, v)
              /\ xact' = [xact EXCEPT ![x].undo = <<NewVersion(x)>> \o @,
                                      ![x].preds = @ \cup {GetPred(KeyOf(v))}]
              /\ reads' = [reads EXCEPT ![x] = @ \cup {u \in {v} : Writer(u) # x}]
              /\ Called(t, "run")
              /\ UNCHANGED <<managerVars, crashed, overlooked>>

\* slice: every row gets a new version; the rows passed keep theirs when a later
\* one conflicts.
SliceForUpdate(t, s) ==
  /\ Calls(t)
  /\ \/ s \notin DOMAIN slice /\ FoundNothing(t)
     \/ /\ s \in DOMAIN slice
        /\ IF slice[s] = <<>> THEN Crash
           ELSE /\ th' = [th EXCEPT ![t].pc = "slice", ![t].todo = slice[s],
                                    ![t].pending = SlicePred(s)]
                /\ UNCHANGED <<storeVars, xact, managerVars, crashed, ghostVars>>

NextRow(t) ==
  /\ At(t, "slice") /\ th[t].todo # <<>>
  /\ LET x == th[t].x
         e == Head(th[t].todo)
         v == NewestOf(e)
         passed == th' = [th EXCEPT ![t].todo = Tail(@)]
     IN  IF e \notin removed /\ ~IsVisible(x, v) THEN Conflict(t)
         ELSE IF e \notin removed /\ version[v].valid
         THEN /\ Supersede(x, v)
              /\ xact' = [xact EXCEPT ![x].undo = <<NewVersion(x)>> \o @]
              /\ reads' = [reads EXCEPT ![x] = @ \cup {u \in {v} : Writer(u) # x}]
              /\ passed /\ UNCHANGED <<managerVars, crashed, overlooked>>
         ELSE passed /\ UNCHANGED <<storeVars, xact, managerVars, crashed, ghostVars>>

\* The predicate is recorded when the last row has been passed.
SliceDone(t) ==
  /\ At(t, "slice") /\ th[t].todo = <<>>
  /\ xact' = [xact EXCEPT ![th[t].x].preds = @ \cup {th[t].pending}]
  /\ Called(t, "run")
  /\ UNCHANGED <<storeVars, managerVars, crashed, ghostVars>>

\* insert_nocheck
Insert(t, k) ==
  /\ Calls(t)
  /\ LET x == th[t].x
     IN  IF index[k] # Null THEN Conflict(t)
         ELSE /\ InsertEntry(x, k)
              /\ xact' = [xact EXCEPT ![x].undo = <<NewVersion(x)>> \o @]
              /\ Called(t, "run")
              /\ UNCHANGED <<managerVars, crashed, ghostVars>>

\* del of an element getForUpdate has just returned.
Delete(t) ==
  /\ Calls(t) /\ xact[th[t].x].undo # <<>>
  /\ LET v == Head(xact[th[t].x].undo)
     IN  /\ version[v].valid
         /\ version' = [version EXCEPT ![v].valid = FALSE]
  /\ Called(t, "run")
  /\ UNCHANGED <<entry, index, rows, removed, slice, xact, managerVars, crashed, ghostVars>>

-----------------------------------------------------------------------------
(* TransactionManager::rollback                                            *)

Abort(t) ==
  /\ At(t, "run") \/ At(t, "abort")
  /\ Goto(t, "rollback")
  /\ UNCHANGED <<storeVars, xact, managerVars, crashed, ghostVars>>

Rollback(t) ==
  /\ At(t, "rollback")
  /\ activeXactStartTS' = [activeXactStartTS EXCEPT ![t] = Never]
  /\ th' = [th EXCEPT ![t].pc = "unchain", ![t].todo = xact[th[t].x].undo]
  /\ UNCHANGED <<storeVars, xact, timestampGen, counterLock, commitLock, committedXactsTail, isGCActive, crashed, ghostVars>>

\* (mutant) Only the newest version is taken off its chain.
UnchainNewest(t) ==
  /\ At(t, "unchain") /\ th[t].todo # <<>>
  /\ RemoveFromVersionChain(Head(th[t].todo))
  /\ th' = [th EXCEPT ![t].todo = <<>>]
  /\ UNCHANGED <<xact, managerVars, crashed, ghostVars>>

Unchain(t) ==
  /\ At(t, "unchain") /\ th[t].todo # <<>>
  /\ RemoveFromVersionChain(Head(th[t].todo))
  /\ th' = [th EXCEPT ![t].todo = Tail(@)]
  /\ UNCHANGED <<xact, managerVars, crashed, ghostVars>>

RolledBack(t) ==
  /\ At(t, "unchain") /\ th[t].todo = <<>>
  /\ xact' = [xact EXCEPT ![th[t].x].undo = <<>>, ![th[t].x].preds = {}]
  /\ Finish(t)
  /\ UNCHANGED <<storeVars, managerVars, crashed, ghostVars>>

-----------------------------------------------------------------------------
(* TransactionManager::validateAndCommit                                   *)

CommitReadOnly(t) ==
  /\ At(t, "run") /\ xact[th[t].x].undo = <<>>
  /\ activeXactStartTS' = [activeXactStartTS EXCEPT ![t] = Never]
  /\ xact' = [xact EXCEPT ![th[t].x].commitTS = xact[th[t].x].startTS]
  /\ Finish(t)
  /\ UNCHANGED <<storeVars, timestampGen, counterLock, commitLock, committedXactsTail, isGCActive, crashed, ghostVars>>

\* A round starts at the tail and ends where the one before it started.
Round(t, end) ==
  th' = [th EXCEPT ![t].pc = "validate", ![t].start = committedXactsTail,
                   ![t].cur = committedXactsTail, ![t].end = end]

ValidateAndCommit(t) ==
  /\ At(t, "run") /\ xact[th[t].x].undo # <<>>
  /\ Round(t, NoXact)
  /\ UNCHANGED <<storeVars, xact, managerVars, crashed, ghostVars>>

RoundOver(t) ==
  LET cur == th[t].cur
  IN  cur \notin {NoXact, th[t].end} => xact[cur].commitTS <= xact[th[t].x].startTS

Validate(t) ==
  /\ At(t, "validate") /\ ~RoundOver(t)
  /\ LET x == th[t].x
         cur == th[t].cur
     IN  IF \E p \in xact[x].preds : MatchesAny(p, cur)
         THEN Goto(t, "rollback")
         ELSE th' = [th EXCEPT ![t].cur = xact[cur].prev]
  /\ UNCHANGED <<storeVars, xact, managerVars, crashed, ghostVars>>

\* (mutant) Who gets the lock goes behind the newest committed transaction, validated or not.
TryLockAtTail(t) ==
  /\ At(t, "validate") /\ RoundOver(t)
  /\ IF commitLock
     THEN Round(t, th[t].start) /\ UNCHANGED <<xact, commitLock>>
     ELSE /\ commitLock' = TRUE
          /\ xact' = [xact EXCEPT ![th[t].x].prev = committedXactsTail]
          /\ th' = [th EXCEPT ![t].pc = "push", ![t].start = committedXactsTail]
  /\ UNCHANGED <<storeVars, timestampGen, counterLock, committedXactsTail, isGCActive, activeXactStartTS, crashed, ghostVars>>

TryLock(t) ==
  /\ At(t, "validate") /\ RoundOver(t)
  /\ IF committedXactsTail # th[t].start \/ commitLock
     THEN Round(t, th[t].start) /\ UNCHANGED <<xact, commitLock>>
     ELSE /\ commitLock' = TRUE
          /\ xact' = [xact EXCEPT ![th[t].x].prev = th[t].start]
          /\ Goto(t, "push")
  /\ UNCHANGED <<storeVars, timestampGen, counterLock, committedXactsTail, isGCActive, activeXactStartTS, crashed, ghostVars>>

\* Only the collector changes the tail without the lock.
Push(t) ==
  /\ At(t, "push")
  /\ IF committedXactsTail = th[t].start
     THEN /\ committedXactsTail' = th[t].x
          /\ Goto(t, "draw")
          /\ UNCHANGED commitLock
     ELSE /\ commitLock' = FALSE
          /\ Round(t, th[t].start)
          /\ UNCHANGED committedXactsTail
  /\ UNCHANGED <<storeVars, xact, timestampGen, counterLock, isGCActive, activeXactStartTS, crashed, ghostVars>>

DrawCommitTS(t) ==
  /\ At(t, "draw") /\ ~counterLock
  /\ counterLock' = TRUE
  /\ timestampGen' = timestampGen + 1
  /\ th' = [th EXCEPT ![t].pc = "store", ![t].drawn = timestampGen]
  /\ UNCHANGED <<storeVars, xact, commitLock, committedXactsTail, isGCActive, activeXactStartTS, crashed, ghostVars>>

StoreCommitTS(t) ==
  /\ At(t, "store")
  /\ xact' = [xact EXCEPT ![th[t].x].commitTS = th[t].drawn]
  /\ counterLock' = FALSE
  /\ commitLock' = FALSE
  /\ Goto(t, "stamp")
  /\ UNCHANGED <<storeVars, timestampGen, committedXactsTail, isGCActive, activeXactStartTS, crashed, ghostVars>>

StampVersions(t) ==
  /\ At(t, "stamp")
  /\ version' = [v \in DOMAIN version |->
       IF Writer(v) = th[t].x THEN [version[v] EXCEPT !.xactid = xact[th[t].x].commitTS] ELSE version[v]]
  /\ Goto(t, "clear")
  /\ UNCHANGED <<entry, index, rows, removed, slice, xact, managerVars, crashed, ghostVars>>

ClearActive(t) ==
  /\ At(t, "clear")
  /\ activeXactStartTS' = [activeXactStartTS EXCEPT ![t] = Never]
  /\ xact' = [xact EXCEPT ![th[t].x].preds = {}]
  /\ Goto(t, "collect")
  /\ UNCHANGED <<storeVars, timestampGen, counterLock, commitLock, committedXactsTail, isGCActive, crashed, ghostVars>>

-----------------------------------------------------------------------------
(* TransactionManager::garbageCollect                                      *)

Collect(t) ==
  /\ At(t, "collect")
  /\ IF isGCActive THEN Finish(t) /\ UNCHANGED isGCActive
     ELSE /\ isGCActive' = TRUE
          /\ th' = [th EXCEPT ![t].pc = "scan", ![t].oldest = timestampGen, ![t].slots = Thread]
  /\ UNCHANGED <<storeVars, xact, timestampGen, counterLock, commitLock, committedXactsTail, activeXactStartTS, crashed, ghostVars>>

ScanActive(t) ==
  /\ At(t, "scan") /\ th[t].slots # {}
  /\ LET u == CHOOSE u \in th[t].slots : TRUE
     IN  th' = [th EXCEPT ![t].slots = @ \ {u},
                          ![t].oldest = IF activeXactStartTS[u] < @ THEN activeXactStartTS[u] ELSE @]
  /\ UNCHANGED <<storeVars, xact, managerVars, crashed, ghostVars>>

\* The committed transactions from x on, newest first.
CommittedFrom(x) ==
  LET list[y \in 0..MaxXacts] == IF y = NoXact THEN <<>> ELSE <<y>> \o list[xact[y].prev]
  IN  list[x]

Concat(ss) == LET all[i \in 0..Len(ss)] == IF i = 0 THEN <<>> ELSE all[i - 1] \o ss[i] IN all[Len(ss)]

Running(x) == Begun(x) /\ \E t \in Thread : th[t].x = x /\ xact[x].commitTS = Never

\* The list is cut below the last transaction that is newer than oldest; when
\* none is, the tail is reset.  The code loads the tail, walks the list and then
\* resets the tail by compare-and-swap: an atomicity abstraction.  A commit in
\* between is newer than oldest and hides nothing; it makes the swap fail, which
\* leaves the old transactions on the list until the next collector.
CutCommitted(t) ==
  /\ At(t, "scan") /\ th[t].slots = {}
  /\ LET list == CommittedFrom(committedXactsTail)
         oldest == th[t].oldest
         newer == {i \in DOMAIN list : xact[list[i]].commitTS > oldest}
         n == Cardinality(newer)
         old == SubSeq(list, n + 1, Len(list))
     IN  /\ th' = [th EXCEPT ![t].pc = "sweep",
                             ![t].todo = Concat([i \in DOMAIN old |-> xact[old[i]].undo])]
         /\ IF old = <<>> THEN UNCHANGED <<xact, committedXactsTail>>
            ELSE IF n = 0 THEN committedXactsTail' = NoXact /\ UNCHANGED xact
            ELSE xact' = [xact EXCEPT ![list[n]].prev = NoXact] /\ UNCHANGED committedXactsTail
         /\ overlooked' = overlooked \cup {x \in Xact : Running(x) /\ xact[x].startTS < oldest}
  /\ UNCHANGED <<storeVars, timestampGen, counterLock, commitLock, isGCActive, activeXactStartTS, crashed, reads>>

Sweep(t) ==
  /\ At(t, "sweep") /\ th[t].todo # <<>>
  /\ LET v == Head(th[t].todo)
     IN  IF IsGarbage(v, th[t].oldest)
         THEN RemoveEntry(version[v].entry) /\ UNCHANGED <<version, entry, rows, slice>>
         ELSE UNCHANGED storeVars
  /\ th' = [th EXCEPT ![t].todo = Tail(@)]
  /\ UNCHANGED <<xact, managerVars, crashed, ghostVars>>

Collected(t) ==
  /\ At(t, "sweep") /\ th[t].todo = <<>>
  /\ isGCActive' = FALSE
  /\ Finish(t)
  /\ UNCHANGED <<storeVars, xact, timestampGen, counterLock, commitLock, committedXactsTail, activeXactStartTS, crashed, ghostVars>>

-----------------------------------------------------------------------------
Operations(t) ==
  \/ \E k \in Key : Get(t, k) \/ GetForUpdate(t, k) \/ Insert(t, k)
  \/ SupersedeFound(t) \/ Delete(t) \/ Foreach(t)
  \/ \E s \in {SliceOf[k] : k \in Key} : SliceNoUpdate(t, s) \/ SliceForUpdate(t, s)
  \/ NextRow(t) \/ SliceDone(t)

Commit(t) ==
  \/ CommitReadOnly(t) \/ ValidateAndCommit(t) \/ Validate(t) \/ TryLock(t) \/ Push(t)
  \/ DrawCommitTS(t) \/ StoreCommitTS(t) \/ StampVersions(t) \/ ClearActive(t)

GarbageCollect(t) == Collect(t) \/ ScanActive(t) \/ CutCommitted(t) \/ Sweep(t) \/ Collected(t)

\* The threads have nothing left to run.
Ended ==
  /\ crashed \/ \A x \in Xact : Begun(x)
  /\ crashed \/ \A t \in Thread : th[t].pc = "idle"
  /\ UNCHANGED vars

Next ==
  \/ \E t \in Thread : Begin(t) \/ PublishStart(t) \/ Operations(t) \/ Abort(t) \/ Rollback(t)
                        \/ Unchain(t) \/ RolledBack(t) \/ Commit(t) \/ GarbageCollect(t)
  \/ Ended

Spec == Init /\ [][Next]_vars

-----------------------------------------------------------------------------
(* Properties.                                                             *)

Working == {"run", "abort", "supersede", "slice"}
Uncommitted == Working \cup {"publish", "rollback", "unchain", "validate", "push", "draw", "store"}
Holding == {"push", "draw", "store"}
Pc == Uncommitted \cup {"idle", "stamp", "clear", "collect", "scan", "sweep"}

Pred == [kind : {"get", "slice", "all"}, keys : SUBSET Key]
NoneOr(S) == S \cup {NoXact}

VersionType == [entry : DOMAIN entry, oldV : DOMAIN version \cup {Null}, xactid : Nat, valid : BOOLEAN]
XactType == [startTS : Nat, commitTS : Nat, undo : Seq(DOMAIN version), preds : SUBSET Pred,
             prev : NoneOr(Xact)]
ThreadType == [pc : Pc, x : NoneOr(Xact), calls : Nat, start : NoneOr(Xact), end : NoneOr(Xact),
               cur : NoneOr(Xact), found : DOMAIN version \cup {Null}, pending : Pred, drawn : Nat,
               oldest : Nat, slots : SUBSET Thread, todo : Seq(DOMAIN version)]

StoreTypes ==
  /\ version \in [DOMAIN version -> VersionType]
  /\ entry \in [DOMAIN entry -> [key : Key, head : DOMAIN version]]
  /\ DOMAIN entry \subseteq DOMAIN version
  /\ \A v \in DOMAIN version : Writer(v) \in Xact
  /\ index \in [Key -> DOMAIN entry \cup {Null}]
  /\ rows \in Seq(DOMAIN entry)
  /\ slice \in [DOMAIN slice -> Seq(DOMAIN entry)]

ManagerTypes ==
  /\ timestampGen \in Nat
  /\ {counterLock, commitLock, isGCActive, crashed} \subseteq BOOLEAN
  /\ committedXactsTail \in NoneOr(Xact)
  /\ activeXactStartTS \in [Thread -> Nat]
  /\ xact \in [Xact -> XactType]
  /\ th \in [Thread -> ThreadType]

(* Type correctness: a thread's program counter and locals, the Transaction  *)
(* objects, and chains and lists whose members are entries and versions that *)
(* exist.                                                                    *)
TypeOK == StoreTypes /\ ManagerTypes

Committed(x) == xact[x].commitTS # Never

\* What a transaction has read, of the versions others wrote, is what had been
\* committed when it began: no later commit, and no older version, is ever seen,
\* however the read falls between the steps of a commit
\* (TransactionManager::begin, commit; Version::isVisible).
ReadsAreSnapshot ==
  \A x \in Xact : \A v \in reads[x] :
    LET before == {u \in DOMAIN version : /\ version[u].entry = version[v].entry
                                         /\ xact[Writer(u)].commitTS < xact[x].startTS}
    IN  /\ v \in before
        /\ \A u \in before : xact[Writer(u)].commitTS <= xact[Writer(v)].commitTS

\* Who writes over another transaction's version began after that one had
\* committed: of two concurrent writers of a row the second fails
\* (getForUpdate).
FirstUpdaterWins ==
  \A v \in DOMAIN version :
    LET u == version[v].oldV
    IN  u # Null /\ Writer(u) # Writer(v) => xact[Writer(u)].commitTS < xact[Writer(v)].startTS

\* The transactions reached from the tail have decreasing commit timestamps, so
\* that a validation that stops at the first one older than its start has met
\* all newer ones (validateAndCommit, commit).
CommitListOrdered ==
  LET list == CommittedFrom(committedXactsTail)
  IN  \A i, j \in DOMAIN list : i < j => xact[list[j]].commitTS < xact[list[i]].commitTS

\* x has just committed, and still holds its predicates.
JustCommitted(x) == \E t \in Thread : th[t].x = x /\ th[t].pc \in {"stamp", "clear"}

Unaffected(x) ==
  \A y \in Xact :
    xact[x].startTS < xact[y].commitTS /\ xact[y].commitTS < xact[x].commitTS
      => \A p \in xact[x].preds : ~MatchesAny(p, y)

\* A transaction that commits depends on nothing a transaction wrote that
\* committed since it began, if no collector overlooked it
\* (validateAndCommit).
CommittedAreValid ==
  /\ CommitListOrdered
  /\ \A x \in Xact \ overlooked : JustCommitted(x) => Unaffected(x)

\* The same without exception, as the comment at TransactionManager.h:115 has it.
AllCommittedAreValid == \A x \in Xact : JustCommitted(x) => Unaffected(x)

\* A transaction that has ended without committing has left no version on the
\* chain of an entry that can still be found (rollback).
RolledBackLeaveNothing ==
  \A e \in DOMAIN entry \ removed :
    LET w == Writer(NewestOf(e))
    IN  Committed(w) \/ \E t \in Thread : th[t].x = w

\* An entry taken out of the lists holds no row for a transaction that is still
\* running, unless a collector overlooked it (commit, garbageCollect).
CollectedAreUnseen ==
  \A e \in removed, x \in Xact \ overlooked :
    Running(x) => LET v == CorrectVersion(x, e)
                  IN  v # Null => ~version[v].valid \/ Writer(v) = x
=============================================================================
