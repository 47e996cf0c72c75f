---------------------------- MODULE PooledTable -----------------------------
(***************************************************************************)
(* class MultiHashMap of mmap1.hpp, which dbt_c++/mmap/mmap.hpp picks for  *)
(* plain C++, with an index on a part of the key: entries in a Pool, linked *)
(* in a list, and two indexes on them.  The header holds two versions of   *)
(* the class; useOldMap is the macro that chooses.                         *)
(***************************************************************************)
EXTENDS ElementPool, Functions

-----------------------------------------------------------------------------
(***************************************************************************)
(* The hash indexes of mmap1.hpp.  With USE_OLD_MAP there is one class,    *)
(* HashIndex: the entries of a slice stand next to each other in the chain *)
(* of their bucket.  Otherwise PrimaryHashIndex is like a unique HashIndex *)
(* and SecondaryHashIndex keeps in the chain one cell per slice, and the   *)
(* other entries of the slice as the children of that cell.  The first     *)
(* cell of a bucket lies in the bucket array (node Null) and stays there   *)
(* without an object when the bucket is empty; every other cell and every  *)
(* child is a node of the index's own pool.                                *)
(***************************************************************************)

Null == <<0, 0>>

Cell(node, obj, h) == [node |-> node, obj |-> obj, hash |-> h, children |-> <<>>]

EmptyBuckets(size) == [b \in 0 .. size - 1 |-> <<Cell(Null, Null, 0)>>]

NewIndex(size) ==
  [bucket |-> EmptyBuckets(size), count |-> 0, pooled |-> FALSE, pool |-> PoolOf(size)]

Buckets(idx) == Cardinality(DOMAIN idx.bucket)

BucketOf(idx, h) == h % Buckets(idx)

Threshold(idx) == (3 * Buckets(idx)) \div 4

Vacant(cells) == cells[1].obj = Null

InArray(cell) == [cell EXCEPT !.node = Null]

\* The cell takes the place in the bucket array and the one there before
\* moves into the node.
Displaced(cells, cell, node) ==
  <<InArray(cell), [cells[1] EXCEPT !.node = node]>> \o Tail(cells)

InOrder(idx) ==
  SelectSeq(FlattenSeq([i \in 1 .. Buckets(idx) |-> idx.bucket[i - 1]]), LAMBDA c : c.obj # Null)

Nodes(cells) == [i \in DOMAIN cells |-> cells[i].node]

\* The nodes of the chain of a bucket.
Chained(cells) == Nodes(Tail(cells))

Chains(idx) == [i \in 1 .. Buckets(idx) |-> Chained(idx.bucket[i - 1])]

-----------------------------------------------------------------------------

\* The nodes of an index come from a Pool or, with the newer map, a ValuePool.
Take(kind, memory) == IF kind = "Pool" THEN PoolAdd(memory) ELSE ValueAdd(memory)

Give(kind, memory, element) ==
  IF kind = "Pool" THEN PoolDel(memory, element) ELSE ValueDel(memory, element)

\* resize_ moves one cell: it takes a node for the head it displaces before
\* the node it was in itself is given back.
Move(idx, cell, kind) ==
  LET b == BucketOf(idx, cell.hash)
      cells == idx.bucket[b]
      moved == IF Vacant(cells)
               THEN [idx EXCEPT !.bucket[b] = <<InArray(cell)>>]
               ELSE [idx EXCEPT !.bucket[b] = Displaced(cells, cell, NextElement(idx.pool)),
                                !.pool = Take(kind, @)]
  IN  IF cell.node = Null THEN moved ELSE [moved EXCEPT !.pool = Give(kind, @, cell.node)]

Resized(idx, kind) ==
  FoldLeft(LAMBDA i, c : Move(i, c, kind),
           [idx EXCEPT !.bucket = EmptyBuckets(2 * Buckets(idx))], InOrder(idx))

\* A new cell into an empty head, or first into the chain behind the head.
Placed(idx, obj, h, kind) ==
  LET b == BucketOf(idx, h)
  IN  IF Vacant(idx.bucket[b])
      THEN [idx EXCEPT !.bucket[b] = <<Cell(Null, obj, h)>>]
      ELSE [idx EXCEPT !.bucket[b] = InsertAt(@, 2, Cell(NextElement(idx.pool), obj, h)),
                       !.pool = Take(kind, @)]

\* Without the cell at position i: the second cell moves into a freed head.
Cut(idx, b, i, kind) ==
  LET cells == idx.bucket[b]
  IN  IF Len(cells) = 1 THEN [idx EXCEPT !.bucket[b] = <<Cell(Null, Null, 0)>>]
      ELSE IF i = 1 THEN [idx EXCEPT !.bucket[b] = <<InArray(cells[2])>> \o SubSeq(cells, 3, Len(cells)),
                                     !.pool = Give(kind, @, cells[2].node)]
      ELSE [idx EXCEPT !.bucket[b] = RemoveAt(cells, i), !.pool = Give(kind, @, cells[i].node)]

\* get(key, h): the first cell of the hash with an equal object, 0 for none.
Find(idx, h, equal) ==
  SelectInSeq(idx.bucket[BucketOf(idx, h)], LAMBDA c : c.hash = h /\ c.obj \in equal)

Get(idx, h, equal) ==
  LET i == Find(idx, h, equal) IN IF i = 0 THEN Null ELSE idx.bucket[BucketOf(idx, h)][i].obj

-----------------------------------------------------------------------------

\* USE_OLD_MAP: HashIndex.

\* resize_; allocated_from_pool_ says whether a cell was displaced.
ChainResize(idx) ==
  LET resized == Resized(idx, "Pool")
  IN  [resized EXCEPT !.pooled = \E b \in DOMAIN resized.bucket : Len(resized.bucket[b]) > 1]

ChainGrown(idx) == IF idx.count > Threshold(idx) THEN ChainResize(idx) ELSE idx

ChainAddUnique(idx, obj, h) ==
  LET grown == ChainGrown(idx)
  IN  [Placed(grown, obj, h, "Pool") EXCEPT
         !.count = @ + 1, !.pooled = @ \/ ~Vacant(grown.bucket[BucketOf(grown, h)])]

\* An index that is not unique: behind the first entry of the same slice,
\* or in front of the chain; count_ counts slices.
ChainAdd(idx, obj, h, equal) ==
  LET grown == ChainGrown(idx)
      b == BucketOf(grown, h)
      cells == grown.bucket[b]
      i == Find(grown, h, equal)
      node == NextElement(grown.pool)
      linked == [grown EXCEPT !.pool = PoolAdd(@), !.pooled = TRUE]
  IN  IF Vacant(cells)
      THEN [grown EXCEPT !.bucket[b] = <<Cell(Null, obj, h)>>, !.count = @ + 1]
      ELSE IF i # 0 THEN [linked EXCEPT !.bucket[b] = InsertAt(cells, i + 1, Cell(node, obj, h))]
      ELSE [linked EXCEPT !.bucket[b] = Displaced(cells, Cell(Null, obj, h), node),
                          !.count = @ + 1]

\* del(obj, h): by pointer; a slice is counted as gone when no neighbour of
\* the removed cell belongs to it.
ChainDel(idx, obj, h, equal, unique) ==
  LET b == BucketOf(idx, h)
      i == SelectInSeq(idx.bucket[b], LAMBDA c : c.obj = obj)
      cut == Cut(idx, b, i, "Pool")
      beside == {j \in {i - 1, i} : j \in DOMAIN cut.bucket[b]
                                    /\ cut.bucket[b][j].hash = h
                                    /\ cut.bucket[b][j].obj \in equal}
  IN  IF i = 0 THEN idx
      ELSE IF unique \/ beside = {} THEN [cut EXCEPT !.count = @ - 1]
      ELSE cut

\* slice(key, f): from the first entry of the slice as far as they follow.
ChainSlice(idx, h, equal) ==
  LET cells == idx.bucket[BucketOf(idx, h)]
      i == Find(idx, h, equal)
      from == SubSeq(cells, i, Len(cells))
      stop == SelectInSeq(from, LAMBDA c : ~(c.hash = h /\ c.obj \in equal))
      run == IF stop = 0 THEN from ELSE SubSeq(from, 1, stop - 1)
  IN  IF i = 0 THEN <<>> ELSE [j \in DOMAIN run |-> run[j].obj]

\* clear(): all chains in one list, the last bucket's first.
ChainClear(idx) ==
  [idx EXCEPT !.bucket = EmptyBuckets(Buckets(idx)), !.count = 0, !.pooled = FALSE,
              !.pool = IF idx.pooled THEN PoolDeleteAll(@, FlattenSeq(Reverse(Chains(idx)))) ELSE @]

-----------------------------------------------------------------------------

\* PrimaryHashIndex.

PrimaryGrown(idx) ==
  IF idx.count > Threshold(idx) THEN Resized(idx, "ValuePool") ELSE idx

PrimaryInsert(idx, obj, h) ==
  [Placed(PrimaryGrown(idx), obj, h, "ValuePool") EXCEPT !.count = @ + 1]

\* Seeded bug: a removed head leaves its place empty before the chain.
PrimaryDelEmptyHead(idx, obj, h) ==
  LET b == BucketOf(idx, h)
      i == SelectInSeq(idx.bucket[b], LAMBDA c : c.obj = obj)
  IN  IF i = 0 THEN idx
      ELSE IF i = 1
      THEN [idx EXCEPT !.bucket[b] = <<Cell(Null, Null, 0)>> \o Tail(@), !.count = @ - 1]
      ELSE [Cut(idx, b, i, "ValuePool") EXCEPT !.count = @ - 1]

PrimaryDel(idx, obj, h) ==
  LET b == BucketOf(idx, h)
      i == SelectInSeq(idx.bucket[b], LAMBDA c : c.obj = obj)
  IN  IF i = 0 THEN idx ELSE [Cut(idx, b, i, "ValuePool") EXCEPT !.count = @ - 1]

PrimaryClear(idx) ==
  IF idx.count = 0 THEN idx
  ELSE [idx EXCEPT !.bucket = EmptyBuckets(Buckets(idx)), !.count = 0,
                   !.pool = FoldLeft(ValueDeleteAll, @, Chains(idx))]

-----------------------------------------------------------------------------

\* SecondaryHashIndex.

SecondaryGrown(idx) ==
  IF idx.count > Threshold(idx) THEN Resized(idx, "ValuePool") ELSE idx

\* slice(key, h) and the walk over the cell and its children.
SecondarySlice(idx, h, equal) ==
  LET i == Find(idx, h, equal)
      cell == idx.bucket[BucketOf(idx, h)][i]
  IN  IF i = 0 THEN <<>>
      ELSE <<cell.obj>> \o [j \in DOMAIN cell.children |-> cell.children[j].obj]

\* An entry of a slice the index has becomes the first child of its cell.
SecondaryInsert(idx, obj, h, equal) ==
  LET grown == SecondaryGrown(idx)
      b == BucketOf(grown, h)
      cells == grown.bucket[b]
      i == Find(grown, h, equal)
      node == NextElement(grown.pool)
  IN  IF Vacant(cells)
      THEN [grown EXCEPT !.bucket[b] = <<Cell(Null, obj, h)>>, !.count = @ + 1]
      ELSE IF i # 0
      THEN [grown EXCEPT !.bucket[b][i].children = <<[node |-> node, obj |-> obj]>> \o @,
                         !.pool = ValueAdd(@)]
      ELSE [grown EXCEPT !.bucket[b] = Displaced(cells, Cell(Null, obj, h), node),
                         !.pool = ValueAdd(@), !.count = @ + 1]

\* The first child takes the place of a removed first entry; a slice left
\* without entries is cut out of the chain.
SecondaryDel(idx, obj, h, equal) ==
  LET b == BucketOf(idx, h)
      i == Find(idx, h, equal)
      cell == idx.bucket[b][i]
      j == SelectInSeq(cell.children, LAMBDA c : c.obj = obj)
      Without(n) == [idx EXCEPT !.bucket[b][i].children = RemoveAt(@, n),
                                !.pool = ValueDel(@, cell.children[n].node)]
  IN  IF i = 0 THEN idx
      ELSE IF cell.obj # obj THEN IF j = 0 THEN idx ELSE Without(j)
      ELSE IF cell.children # <<>>
      THEN [Without(1) EXCEPT !.bucket[b][i].obj = cell.children[1].obj]
      ELSE [Cut(idx, b, i, "ValuePool") EXCEPT !.count = @ - 1]

\* What clear() gives back of a chain: the children of its cells, its nodes.
Freed(cells) ==
  [i \in 1 .. Len(cells) - 1 |-> Nodes(cells[i + 1].children)] \o <<Chained(cells)>>

\* Seeded bug: the children of the cell in the bucket array are not freed.
SecondaryClearChains(idx) ==
  IF idx.count = 0 THEN idx
  ELSE [idx EXCEPT
          !.bucket = EmptyBuckets(Buckets(idx)), !.count = 0,
          !.pool = FoldLeft(ValueDeleteAll, @,
                     FlattenSeq([i \in 1 .. Buckets(idx) |-> Freed(idx.bucket[i - 1])]))]

\* clear(): bucket by bucket the children in the chain, the chain, and the
\* children of the cell in the bucket array.
SecondaryClear(idx) ==
  IF idx.count = 0 THEN idx
  ELSE [idx EXCEPT
          !.bucket = EmptyBuckets(Buckets(idx)), !.count = 0,
          !.pool = FoldLeft(ValueDeleteAll, @,
                     FlattenSeq([i \in 1 .. Buckets(idx) |->
                       Freed(idx.bucket[i - 1]) \o <<Nodes(idx.bucket[i - 1][1].children)>>]))]

-----------------------------------------------------------------------------
CONSTANTS
  InitSize,   \* DEFAULT_CHUNK_SIZE and DEFAULT_POOL_CHUNK_SIZE
  Key,        \* entries are equal when their keys are
  Slice,      \* the part of a key the second index is on
  Hash,       \* the hash of a key
  SliceHash,  \* the hash of that part
  Operand,    \* the values operations are called with
  MaxValue    \* bound on the absolute value of a stored value

VARIABLES
  useOldMap,  \* whether USE_OLD_MAP is defined
  destroyed,  \* whether the destructor has begun
  severed,    \* whether add() has cut the list (see AddCopy)
  pool,       \* the pool of the entries
  entries,    \* the entries constructed and not destroyed, by their element
  head,       \* the first entry of the list
  main,       \* index[0], primary_index
  slices,     \* index[1], secondary_indexes[0]
  call        \* history: the last call, and a turn that tells it from the one before

vars == <<useOldMap, destroyed, severed, pool, entries, head, main, slices, call>>

EqualKey(k) == {e \in DOMAIN entries : entries[e].key = k}

EqualSlice(k) == {e \in DOMAIN entries : Slice[entries[e].key] = Slice[k]}

Lookup(k) == Get(main, Hash[k], EqualKey(k))

SliceOf(k) ==
  IF useOldMap THEN ChainSlice(slices, SliceHash[Slice[k]], EqualSlice(k))
  ELSE SecondarySlice(slices, SliceHash[Slice[k]], EqualSlice(k))

NewTable ==
  [pool |-> PoolOf(InitSize), entries |-> <<>>, head |-> Null,
   main |-> NewIndex(InitSize), slices |-> NewIndex(InitSize)]

Become(t) ==
  /\ pool' = t.pool
  /\ entries' = t.entries
  /\ head' = t.head
  /\ main' = t.main
  /\ slices' = t.slices

Init ==
  /\ useOldMap \in BOOLEAN
  /\ destroyed = FALSE
  /\ severed = FALSE
  /\ pool = NewTable.pool
  /\ entries = NewTable.entries
  /\ head = NewTable.head
  /\ main = NewTable.main
  /\ slices = NewTable.slices
  /\ call = [op |-> <<>>, turn |-> FALSE]

\* The table with a new entry, at the head of the list and in both indexes.
Inserted(t, k, v) ==
  LET e == NextElement(t.pool)
      new == [key |-> k, val |-> v, prv |-> Null, nxt |-> t.head]
      equal == {d \in DOMAIN t.entries : Slice[t.entries[d].key] = Slice[k]}
      h == SliceHash[Slice[k]]
  IN  [pool |-> PoolAdd(t.pool),
       entries |-> [d \in DOMAIN t.entries \cup {e} |->
                      IF d = e THEN new
                      ELSE IF d = t.head THEN [t.entries[d] EXCEPT !.prv = e]
                      ELSE t.entries[d]],
       head |-> e,
       main |-> IF useOldMap THEN ChainAddUnique(t.main, e, Hash[k])
                ELSE PrimaryInsert(t.main, e, Hash[k]),
       slices |-> IF useOldMap THEN ChainAdd(t.slices, e, h, equal)
                  ELSE SecondaryInsert(t.slices, e, h, equal)]

Now == [pool |-> pool, entries |-> entries, head |-> head, main |-> main, slices |-> slices]

Insert(k, v) == Become(Inserted(Now, k, v))

\* del(elem, h): out of the list and the indexes, then back to the pool.
Erase(e) ==
  LET k == entries[e].key
      prv == entries[e].prv
      nxt == entries[e].nxt
      h == SliceHash[Slice[k]]
  IN  /\ entries' = [d \in DOMAIN entries \ {e} |->
                       IF d = prv THEN [entries[d] EXCEPT !.nxt = nxt]
                       ELSE IF d = nxt THEN [entries[d] EXCEPT !.prv = prv]
                       ELSE entries[d]]
      /\ head' = IF e = head THEN nxt ELSE head
      /\ main' = IF useOldMap THEN ChainDel(main, e, Hash[k], {}, TRUE)
                 ELSE PrimaryDel(main, e, Hash[k])
      /\ slices' = IF useOldMap THEN ChainDel(slices, e, h, EqualSlice(k), FALSE)
                   ELSE SecondaryDel(slices, e, h, EqualSlice(k))
      /\ pool' = PoolDel(pool, e)

Assign(e, v) ==
  /\ v \in -MaxValue .. MaxValue
  /\ entries' = [entries EXCEPT ![e].val = v]
  /\ UNCHANGED <<pool, head, main, slices>>

-----------------------------------------------------------------------------

\* insert(k), insert_nocheck(elem): the caller knows that the key is absent.
InsertAbsent(k, v) == Lookup(k) = Null /\ Insert(k, v)

\* add(elem) of USE_OLD_MAP.  Over an entry there is it copy-constructs the
\* new one, whose copy constructor clears nxt and clears prv or leaves it: an
\* entry with neighbours is cut out of the list, which then leads nowhere.
\* The hashes are those it had, so that no index is told.
AddCopy(k, v) ==
  LET e == Lookup(k)
      old == entries[e]
  IN  /\ useOldMap
      /\ \/ e = Null /\ Insert(k, v) /\ UNCHANGED severed
         \/ /\ e # Null
            /\ \E prv \in {Null, old.prv} :
                 /\ entries' = [entries EXCEPT
                                  ![e] = [key |-> k, val |-> v, prv |-> prv, nxt |-> Null]]
                 /\ severed' = (prv # old.prv \/ old.nxt # Null)
            /\ UNCHANGED <<pool, head, main, slices>>

\* add(k, v) and add_to_temp_map.
AddValue(k, v) ==
  LET e == Lookup(k)
  IN  /\ v # 0
      /\ IF e # Null THEN Assign(e, entries[e].val + v) ELSE Insert(k, v)

AddOrDelOnZero(k, v) ==
  LET e == Lookup(k)
  IN  /\ v # 0
      /\ CASE e = Null -> Insert(k, v)
           [] e # Null /\ entries[e].val + v = 0 -> Erase(e)
           [] OTHER -> Assign(e, entries[e].val + v)

SetOrDelOnZero(k, v) ==
  LET e == Lookup(k)
  IN  CASE e = Null -> v # 0 /\ Insert(k, v)
        [] e # Null /\ v = 0 -> Erase(e)
        [] OTHER -> Assign(e, v)

\* del(key).
Delete(k) == useOldMap /\ Lookup(k) # Null /\ Erase(Lookup(k))

\* The entries in the order of the list, and in that of foreach of index[0].
InList ==
  LET list[n \in 0 .. Cardinality(DOMAIN entries)] ==
        IF n = 0 THEN <<>>
        ELSE Append(list[n - 1], IF n = 1 THEN head ELSE entries[Last(list[n - 1])].nxt)
  IN  list[Cardinality(DOMAIN entries)]

InIndex == LET cells == InOrder(main) IN [i \in DOMAIN cells |-> cells[i].obj]

\* The copy constructor; the original goes away.
Copy ==
  Become(FoldLeft(LAMBDA t, e : Inserted(t, entries[e].key, entries[e].val), NewTable,
                  IF useOldMap THEN InIndex ELSE InList))

Clear ==
  /\ useOldMap \/ main.count # 0
  /\ main' = IF useOldMap THEN ChainClear(main) ELSE PrimaryClear(main)
  /\ slices' = IF useOldMap THEN ChainClear(slices) ELSE SecondaryClear(slices)
  /\ pool' = PoolDeleteAll(pool, InList)
  /\ entries' = <<>>
  /\ head' = Null

\* ~MultiHashMap.  The newer one clears the pool before it goes: the elements
\* that stay marked as used are overwritten, and ~Elem destroys what is there.
Destroy ==
  /\ destroyed' = TRUE
  /\ pool' = IF useOldMap THEN pool ELSE PoolClear(pool)
  /\ entries' = IF useOldMap THEN entries ELSE <<>>
  /\ UNCHANGED <<useOldMap, severed, head, main, slices>>

Called(c) == call' = [op |-> c, turn |-> ~call.turn]

Operation ==
  \/ \E k \in Key, v \in Operand :
       \/ AddCopy(k, v) /\ Called(<<"insertOrAssign", k, v>>)
       \/ /\ UNCHANGED severed
          /\ \/ InsertAbsent(k, v) /\ Called(<<"insertOrAssign", k, v>>)
             \/ AddValue(k, v) /\ Called(<<"incrementOrAssign", k, v>>)
             \/ AddOrDelOnZero(k, v) /\ Called(<<"incrementOrAssignNonZero", k, v>>)
             \/ SetOrDelOnZero(k, v) /\ Called(<<"insertOrAssignNonZero", k, v>>)
  \/ \E k \in Key : Delete(k) /\ Called(<<"remove", k>>) /\ UNCHANGED severed
  \/ Copy /\ Called(<<"copy">>) /\ UNCHANGED severed
  \/ Clear /\ Called(<<"clear">>) /\ UNCHANGED severed

\* A table with a cut list is only destroyed: del() and clear() would follow
\* links to elements that were given back.
Next ==
  \/ ~destroyed /\ ~severed /\ Operation /\ UNCHANGED <<useOldMap, destroyed>>
  \/ ~destroyed /\ Destroy /\ Called(<<"clear">>)

Spec == Init /\ [][Next]_vars

-----------------------------------------------------------------------------

\* The table its callers see: the list holds every entry once and its links
\* backward undo those forward, the main index finds each key's entry, and
\* the slice of a key is every entry of its slice, each once, after any
\* collisions, resizes, removals, copies and clears.  Only add() over an entry
\* with neighbours, in the old version, cuts the list; the indexes stay right.
ListAndIndexesAgree ==
  ~destroyed =>
    /\ ~severed =>
         /\ ToSet(InList) = DOMAIN entries /\ IsInjective(InList)
         /\ \A i \in DOMAIN InList :
              /\ entries[InList[i]].prv = IF i = 1 THEN Null ELSE InList[i - 1]
              /\ i = Len(InList) => entries[InList[i]].nxt = Null
         /\ entries = <<>> => head = Null
    /\ \A k \in Key : /\ EqualKey(k) = {Lookup(k)} \ {Null}
                      /\ ToSet(SliceOf(k)) = EqualSlice(k) /\ IsInjective(SliceOf(k))

HeldNodes(idx) ==
  FlattenSeq([i \in 1 .. Buckets(idx) |-> FlattenSeq(Freed(idx.bucket[i - 1]))
                                          \o Nodes(idx.bucket[i - 1][1].children)])

\* No element of a pool is lost, or handed out while something still stands
\* in it: what is not on the free list is a node of the index, or an entry,
\* and only one; and a destructor runs for just those elements that hold an
\* entry.  But when the newer table goes, those of the last elements of chunks
\* run on memory that holds a link of the free list.
ElementsAccounted ==
  /\ \A idx \in {main, slices} :
       /\ IsInjective(idx.pool.free \o HeldNodes(idx))
       /\ ToSet(idx.pool.free \o HeldNodes(idx)) = Elements(idx.pool)
       /\ useOldMap => idx.pool.used = ToSet(HeldNodes(idx))
  /\ DOMAIN entries \subseteq pool.used
  /\ pool.used \ DOMAIN entries \subseteq
       IF destroyed /\ ~useOldMap THEN LastOfChunk(pool) ELSE {}
  /\ ~destroyed => IsInjective(pool.free) /\ ToSet(pool.free) = Elements(pool) \ pool.used
  /\ ~destroyed => /\ main.count = Cardinality(DOMAIN entries)
                   /\ slices.count = Cardinality({Slice[entries[e].key] : e \in DOMAIN entries})

Promise == INSTANCE KeyedStore WITH store <-
             [k \in Key |-> IF destroyed \/ Lookup(k) = Null THEN 2 * MaxValue + 1
                            ELSE entries[Lookup(k)].val]

\* In both versions each call does to the table what it promises: that of
\* backend/lib/mmap.hpp's map it corresponds to, add() an assignment, del(key)
\* a removal, and a copy, entry by entry into a new table, nothing.
ImplementsKeyedStore == Promise!Spec
=============================================================================
