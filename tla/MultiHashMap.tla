---------------------------- MODULE MultiHashMap ----------------------------
(***************************************************************************)
(* class MultiHashMap of backend/lib/mmap.hpp with one secondary index: a  *)
(* doubly linked list of entries and two hash indexes that point into it.  *)
(* An entry is an element of a memory pool, known by a number that is used *)
(* again after the entry is deleted: the lowest one that is free.          *)
(***************************************************************************)
EXTENDS Integers, Sequences, FiniteSetsExt, SequencesExt

-----------------------------------------------------------------------------
(***************************************************************************)
(* The hash indexes of backend/lib/mmap.hpp as operations on their state.  *)
(* A bucket is the sequence of its cells: the first is its head, in the    *)
(* bucket array, and has no object if the head is empty; the others are    *)
(* the chain, each a node of a memory pool.  nodes and links count the     *)
(* pool nodes the index holds, allocated minus deallocated.  A cell of a   *)
(* secondary index stands for a slice, the entries with equal key under    *)
(* the index: obj is one of them and rest the chain of the others; in a    *)
(* primary index rest stays empty.                                         *)
(***************************************************************************)

CONSTANT InitSize  \* DEFAULT_CHUNK_SIZE: the number of buckets, a power of 2

ASSUME InitSizeAssumption ==
  /\ InitSize \in Nat \ {0}
  /\ \E n \in 0..31 : InitSize = 2 ^ n

Null == 0

NewCell(obj, h) == [obj |-> obj, hash |-> h, rest |-> <<>>]

EmptyCell == NewCell(Null, 0)

EmptyBuckets(size) == [b \in 0..size - 1 |-> <<EmptyCell>>]

NewIndex == [size |-> InitSize, count |-> 0, bucket |-> EmptyBuckets(InitSize),
             nodes |-> 0, links |-> 0]

(* threshold_: load factor 0.75, truncated.                                *)
Threshold(idx) == (idx.size * 3) \div 4

BucketOf(idx, h) == h % idx.size

HeadOf(idx, b) == idx.bucket[b][1]

(* Puts a cell that holds a node (held = 1) or none (held = 0) into its    *)
(* bucket: into the head, which takes no node, or first into the chain.    *)
Place(idx, c, held) ==
  LET b == BucketOf(idx, c.hash)
  IN  IF HeadOf(idx, b).obj = Null
      THEN [idx EXCEPT !.bucket[b] = <<c>>, !.nodes = @ - held]
      ELSE [idx EXCEPT !.bucket[b] = InsertAt(@, 2, c), !.nodes = @ + 1 - held]

(* The cells of a bucket move into idx, the head before the chain.         *)
MoveAll(idx, cells) ==
  LET moved[i \in 0..Len(cells)] ==
        IF i = 0 THEN idx ELSE Place(moved[i - 1], cells[i], IF i = 1 THEN 0 ELSE 1)
  IN  moved[Len(cells)]

(* resize_ of both indexes: bucket by bucket; a bucket with an empty head  *)
(* is skipped.                                                             *)
Resize(idx, newSize) ==
  LET moved[b \in 0..idx.size] ==
        IF b = 0
        THEN [idx EXCEPT !.size = newSize, !.bucket = EmptyBuckets(newSize)]
        ELSE IF HeadOf(idx, b - 1).obj = Null THEN moved[b - 1]
        ELSE MoveAll(moved[b - 1], idx.bucket[b - 1])
  IN  moved[idx.size]

Grown(idx) == IF idx.count > Threshold(idx) THEN Resize(idx, 2 * idx.size) ELSE idx

(* The position of the first cell of hash h whose object is one of objs,   *)
(* those equal to the key looked up; 0 if there is none.                   *)
Find(idx, h, objs) ==
  SelectInSeq(idx.bucket[BucketOf(idx, h)], LAMBDA c : c.hash = h /\ c.obj \in objs)

CellAt(idx, h, i) == idx.bucket[BucketOf(idx, h)][i]

(* Removes the cell at position i; the next cell moves into a freed head.  *)
(* A cell alone in its bucket leaves an empty head; any other removal      *)
(* frees a node.                                                           *)
Unlink(idx, b, i) ==
  IF Len(idx.bucket[b]) = 1
  THEN [idx EXCEPT !.bucket[b] = <<EmptyCell>>, !.count = @ - 1]
  ELSE [idx EXCEPT !.bucket[b] = RemoveAt(@, i), !.nodes = @ - 1, !.count = @ - 1]

-----------------------------------------------------------------------------

(* PrimaryHashIndex                                                        *)

Get(idx, h, objs) ==
  LET i == Find(idx, h, objs) IN IF i = 0 THEN Null ELSE CellAt(idx, h, i).obj

PrimaryInsert(idx, obj, h) ==
  [Place(Grown(idx), NewCell(obj, h), 0) EXCEPT !.count = @ + 1]

(* Pointer comparison, whatever the hash of the cell.                      *)
PrimaryErase(idx, obj, h) ==
  LET b == BucketOf(idx, h)
      i == SelectInSeq(idx.bucket[b], LAMBDA c : c.obj = obj)
  IN  IF i = 0 THEN idx ELSE Unlink(idx, b, i)

-----------------------------------------------------------------------------

(* SecondaryHashIndex                                                      *)

(* slice(key, h), and the walk over it: the objects of the slice.          *)
GetSlice(idx, h, objs) ==
  LET i == Find(idx, h, objs)
  IN  IF i = 0 THEN <<>> ELSE <<CellAt(idx, h, i).obj>> \o CellAt(idx, h, i).rest

AddToSlice(idx, h, i, obj) ==
  [idx EXCEPT !.bucket[BucketOf(idx, h)][i].rest = <<obj>> \o @, !.links = @ + 1]

(* count_ counts the distinct slices.                                      *)
SecondaryInsert(idx, obj, h, objs) ==
  LET grown == Grown(idx)
      i == Find(grown, h, objs)
  IN  IF HeadOf(grown, BucketOf(grown, h)).obj # Null /\ i # 0
      THEN AddToSlice(grown, h, i, obj)
      ELSE [Place(grown, NewCell(obj, h), 0) EXCEPT !.count = @ + 1]

(* Removes obj from its slice: the first of the rest takes the place of a  *)
(* removed first element, and a slice without elements is unlinked.        *)
SecondaryErase(idx, obj, h, objs) ==
  LET b == BucketOf(idx, h)
      i == Find(idx, h, objs)
      slice == GetSlice(idx, h, objs)
      without == RemoveFirst(slice, obj)
  IN  IF obj \notin ToSet(slice) THEN idx
      ELSE IF without = <<>> THEN Unlink(idx, b, i)
      ELSE [idx EXCEPT !.bucket[b][i] = [@ EXCEPT !.obj = Head(without), !.rest = Tail(without)],
                       !.links = @ - 1]

ChainLength(idx) == MapThenSumSet(LAMBDA b : Len(idx.bucket[b]) - 1, DOMAIN idx.bucket)

SliceLinks(idx) ==
  MapThenSumSet(LAMBDA b : MapThenSumSet(LAMBDA i : Len(idx.bucket[b][i].rest),
                                         DOMAIN idx.bucket[b]),
                DOMAIN idx.bucket)

(* clear() of both indexes: the buckets stay.                              *)
ClearIndex(idx) ==
  IF idx.count = 0 THEN idx
  ELSE [idx EXCEPT !.bucket = EmptyBuckets(idx.size), !.count = 0,
                   !.nodes = @ - ChainLength(idx), !.links = @ - SliceLinks(idx)]

-----------------------------------------------------------------------------
CONSTANTS
  Key,        \* entries are equal when their keys are
  Slice,      \* the part of a key the secondary index is on
  Hash,       \* the hash of a key: T::hash of the primary index
  SliceHash,  \* the hash of that part: T::hash of the secondary index
  Operand,    \* the values operations are called with
  MaxValue    \* bound on the absolute value of a stored value

ASSUME HashAssumption ==
  /\ \A k \in Key : Hash[k] \in Nat /\ SliceHash[Slice[k]] \in Nat
  /\ MaxValue \in Nat
  /\ Operand \subseteq -MaxValue..MaxValue

VARIABLES
  entries,    \* the entries in the pool, [key, val, prv, nxt] by number
  head,       \* the first entry of the list
  primary,    \* primary_index
  secondary,  \* secondary_indexes[0]
  call        \* history: the last call, and a turn that tells it from the one before

vars == <<entries, head, primary, secondary, call>>

Fresh == CHOOSE o \in 1..Cardinality(DOMAIN entries) + 1 :
           o \notin DOMAIN entries /\ \A p \in 1..o - 1 : p \in DOMAIN entries

EqualKey(k) == {o \in DOMAIN entries : entries[o].key = k}

EqualSlice(k) == {o \in DOMAIN entries : Slice[entries[o].key] = Slice[k]}

(* primary_index->get(k, h)                                                *)
Lookup(k) == Get(primary, Hash[k], EqualKey(k))

Init ==
  /\ entries = <<>>
  /\ head = Null
  /\ primary = NewIndex
  /\ secondary = NewIndex
  /\ call = [op |-> <<>>, turn |-> FALSE]

(* insert(elem, h): the new entry becomes the head of the list.            *)
Insert(k, v) ==
  LET o == Fresh
      new == [key |-> k, val |-> v, prv |-> Null, nxt |-> head]
  IN  /\ entries' = [p \in DOMAIN entries \cup {o} |->
                       IF p = o THEN new
                       ELSE IF p = head THEN [entries[p] EXCEPT !.prv = o]
                       ELSE entries[p]]
      /\ head' = o
      /\ primary' = PrimaryInsert(primary, o, Hash[k])
      /\ secondary' = SecondaryInsert(secondary, o, SliceHash[Slice[k]], EqualSlice(k))

(* Mutant: the list behind the erased entry keeps pointing back to it.     *)
EraseKeepingPrv(o) ==
  LET e == entries[o]
      k == e.key
  IN  /\ entries' = [p \in DOMAIN entries \ {o} |->
                       IF p = e.prv THEN [entries[p] EXCEPT !.nxt = e.nxt] ELSE entries[p]]
      /\ head' = IF o = head THEN e.nxt ELSE head
      /\ primary' = PrimaryErase(primary, o, Hash[k])
      /\ secondary' = SecondaryErase(secondary, o, SliceHash[Slice[k]], EqualSlice(k))

(* erase(elem, h): unlinked from the list and both indexes, then deleted.  *)
Erase(o) ==
  LET e == entries[o]
      k == e.key
  IN  /\ entries' = [p \in DOMAIN entries \ {o} |->
                       IF p = e.prv THEN [entries[p] EXCEPT !.nxt = e.nxt]
                       ELSE IF p = e.nxt THEN [entries[p] EXCEPT !.prv = e.prv]
                       ELSE entries[p]]
      /\ head' = IF o = head THEN e.nxt ELSE head
      /\ primary' = PrimaryErase(primary, o, Hash[k])
      /\ secondary' = SecondaryErase(secondary, o, SliceHash[Slice[k]], EqualSlice(k))

Assign(o, v) ==
  /\ v \in -MaxValue..MaxValue
  /\ entries' = [entries EXCEPT ![o].val = v]
  /\ UNCHANGED <<head, primary, secondary>>

InsertOrAssign(k, v) ==
  LET o == Lookup(k) IN IF o # Null THEN Assign(o, v) ELSE Insert(k, v)

InsertOrAssignNonZero(k, v) ==
  LET o == Lookup(k)
  IN  IF o # Null
      THEN IF v = 0 THEN Erase(o) ELSE Assign(o, v)
      ELSE v # 0 /\ Insert(k, v)

IncrementOrAssign(k, v) ==
  LET o == Lookup(k)
  IN  IF o # Null THEN Assign(o, entries[o].val + v) ELSE Insert(k, v)

(* Seeded bug: a value that has become zero is kept.                       *)
IncrementKeepingZero(k, v) ==
  LET o == Lookup(k)
  IN  /\ v # 0
      /\ IF o # Null THEN Assign(o, entries[o].val + v) ELSE Insert(k, v)

IncrementOrAssignNonZero(k, v) ==
  LET o == Lookup(k)
  IN  /\ v # 0
      /\ IF o # Null
         THEN IF entries[o].val + v = 0 THEN Erase(o) ELSE Assign(o, entries[o].val + v)
         ELSE Insert(k, v)

(* clear(): the primary count decides whether there is anything to do.     *)
Clear ==
  /\ primary.count # 0
  /\ primary' = ClearIndex(primary)
  /\ secondary' = ClearIndex(secondary)
  /\ entries' = <<>>
  /\ head' = Null

Called(c) == call' = [op |-> c, turn |-> ~call.turn]

Next ==
  \/ \E k \in Key, v \in Operand :
       \/ InsertOrAssign(k, v) /\ Called(<<"insertOrAssign", k, v>>)
       \/ InsertOrAssignNonZero(k, v) /\ Called(<<"insertOrAssignNonZero", k, v>>)
       \/ IncrementOrAssign(k, v) /\ Called(<<"incrementOrAssign", k, v>>)
       \/ IncrementOrAssignNonZero(k, v) /\ Called(<<"incrementOrAssignNonZero", k, v>>)
  \/ Clear /\ Called(<<"clear">>)

Spec == Init /\ [][Next]_vars

-----------------------------------------------------------------------------

(* The list holds every entry once, and its links backward undo those      *)
(* forward: iterating over the map sees what is in it, and erase can       *)
(* unlink any entry.                                                       *)
ListHoldsEntries ==
  LET list[n \in 0..Cardinality(DOMAIN entries)] ==
        IF n = 0 THEN <<head>> ELSE Append(list[n - 1], entries[Last(list[n - 1])].nxt)
      reached == list[Cardinality(DOMAIN entries)]
  IN  /\ ToSet(Front(reached)) = DOMAIN entries
      /\ Last(reached) = Null
      /\ \A i \in DOMAIN Front(reached) :
           entries[reached[i]].prv = IF i = 1 THEN Null ELSE reached[i - 1]

(* Both indexes answer from the entries there are: a lookup of a key gives *)
(* its entry and a slice gives each of its entries once.                   *)
LookupsComplete ==
  /\ \A k \in Key : EqualKey(k) = IF Lookup(k) = Null THEN {} ELSE {Lookup(k)}
  /\ \A k \in Key :
       LET slice == GetSlice(secondary, SliceHash[Slice[k]], EqualSlice(k))
       IN  ToSet(slice) = EqualSlice(k) /\ Len(slice) = Cardinality(EqualSlice(k))

(* What iterating, looking up and slicing see is the same set of entries,  *)
(* after any insertions, erasures, resizes and clears (insert, erase,      *)
(* resize_, clear).                                                        *)
ListAndIndexesAgree == ListHoldsEntries /\ LookupsComplete

StoredValue(k) == LET o == Lookup(k) IN IF o = Null THEN 2 * MaxValue + 1 ELSE entries[o].val

Abstract == INSTANCE KeyedStore WITH store <- [k \in Key |-> StoredValue(k)]

(* Whatever collides, is resized, erased or inserted again, each call does *)
(* to the map what it promises its caller: no other key changes, and a     *)
(* value that becomes zero by a call that keeps none is gone.              *)
ImplementsKeyedStore == Abstract!Spec
=============================================================================
