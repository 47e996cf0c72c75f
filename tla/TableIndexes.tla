---------------------------- MODULE TableIndexes ----------------------------
(***************************************************************************)
(* The indexes of dbt_c++/mmap/mmap2.hpp as operations on their state.     *)
(* An object is a pointer to a row; r maps the objects to their columns:   *)
(* key is what the primary index is over, grp slices the secondary ones,   *)
(* ord orders a slice.                                                     *)
(*                                                                         *)
(* A bucket is the sequence of its nodes.  In a hash or tree index the     *)
(* first node lies in the bucket array and the others are of a pool.  A    *)
(* node has the hash it was created with.  back is what an index keeps in  *)
(* backPtrs: which of the places an object can be at it is at.             *)
(***************************************************************************)
EXTENDS Integers, FiniteSets, SequencesExt

CONSTANTS InitSize,         \* the buckets of a new index
          KeyHash, GrpHash,
          IsMax             \* is_max of the ordered indexes

Null == 0

NoNodes(size) == [b \in 0..size - 1 |-> <<>>]

NewIndex == [size |-> InitSize, count |-> 0, chain |-> NoNodes(InitSize), back |-> <<>>]

BucketOf(idx, h) == h % idx.size

Threshold(idx) == (idx.size * 3) \div 4

Nodes(idx) == UNION {Range(idx.chain[b]) : b \in DOMAIN idx.chain}

\* A node goes into the array if the bucket is empty, else first behind its
\* head; those of heaps and medians are in front of the ones there are.
Linked(nodes, x, inFront) ==
  IF inFront \/ nodes = <<>> THEN <<x>> \o nodes ELSE InsertAt(nodes, 2, x)

Put(idx, x, inFront) == [idx EXCEPT !.chain[BucketOf(idx, x.hash)] = Linked(@, x, inFront)]

\* resize_: all nodes, bucket by bucket and head first, into a larger array.
Resize(idx, inFront) ==
  LET size == 2 * idx.size
  IN  FoldLeft(LAMBDA new, x : Put(new, x, inFront),
               [idx EXCEPT !.size = size, !.chain = NoNodes(size)],
               FlattenSeq([b \in 1..idx.size |-> idx.chain[b - 1]]))

Grown(idx, inFront) == IF idx.count > Threshold(idx) THEN Resize(idx, inFront) ELSE idx

PutNew(idx, x, inFront) == [Put(idx, x, inFront) EXCEPT !.count = @ + 1]

\* The position in its bucket of the first node of hash h that is Wanted.
Search(idx, h, Wanted(_)) ==
  SelectInSeq(idx.chain[BucketOf(idx, h)], LAMBDA x : x.hash = h /\ Wanted(x))

NodeAt(idx, h, i) == idx.chain[BucketOf(idx, h)][i]

SetNode(idx, h, i, x) == [idx EXCEPT !.chain[BucketOf(idx, h)][i] = x]

DropNode(idx, h, i) ==
  [idx EXCEPT !.chain[BucketOf(idx, h)] = RemoveAt(@, i), !.count = @ - 1]

-----------------------------------------------------------------------------
(* HashIndex, unique: a node for every object.                             *)

FirstOf(x) == x.objs[1]

Lookup(r, idx, k) ==
  LET i == Search(idx, KeyHash[k], LAMBDA x : r[FirstOf(x)].key = k)
  IN  IF i = 0 THEN Null ELSE FirstOf(NodeAt(idx, KeyHash[k], i))

HashAdd(r, idx, o) ==
  LET h == KeyHash[r[o].key]
      grown == Grown(idx, FALSE)
      InArray(new, p) == \E b \in DOMAIN new.chain : new.chain[b] # <<>> /\ p = FirstOf(new.chain[b][1])
      put == PutNew(grown, [hash |-> h, objs |-> <<o>>], FALSE)
      moved == IF grown.size # idx.size THEN DOMAIN idx.back ELSE {}
  IN  [put EXCEPT !.back = [p \in DOMAIN idx.back \cup {o} |->
         IF p \in moved \cup {o}
         THEN IF InArray(put, p) THEN "array" ELSE "pool"
         ELSE idx.back[p]]]

\* The node of the array goes by taking over the one behind it.
HashDel(r, idx, o) ==
  LET h == KeyHash[r[o].key]
      i == IF idx.back[o] = "array" THEN 1 ELSE Search(idx, h, LAMBDA x : FirstOf(x) = o)
      dropped == DropNode(idx, h, i)
      rest == dropped.chain[BucketOf(idx, h)]
  IN  [dropped EXCEPT !.back = [p \in DOMAIN @ \ {o} |->
         IF i = 1 /\ rest # <<>> /\ p = FirstOf(rest[1]) THEN "array" ELSE @[p]]]

\* The update of an object in place, with orig = o, or by a copy o of it.
HashUpdate(r, idx, orig, o) == HashAdd(r, HashDel(r, idx, orig), o)

\* clear: the nodes of the pool go back to it, the array keeps its size.
HashClear(idx) == [idx EXCEPT !.count = 0, !.chain = NoNodes(idx.size), !.back = <<>>]

-----------------------------------------------------------------------------
(* HashIndex, not unique: a node for every slice, the first object inside  *)
(* it and the others in nodes of their own.                                *)

InGroup(r, g, o) == r[o].grp = g

SliceOf(r, idx, g) ==
  LET i == Search(idx, GrpHash[g], LAMBDA x : InGroup(r, g, FirstOf(x)))
  IN  IF i = 0 THEN <<>> ELSE NodeAt(idx, GrpHash[g], i).objs

(* Seeded bug: the slice is found by its hash alone.                           *)
SliceAddByHash(r, idx, o) ==
  LET h == GrpHash[r[o].grp]
      grown == Grown(idx, FALSE)
      i == Search(grown, h, LAMBDA x : TRUE)
  IN  IF i = 0
      THEN PutNew([grown EXCEPT !.back = (o :> "inside") @@ grown.back], [hash |-> h, objs |-> <<o>>], FALSE)
      ELSE LET x == NodeAt(grown, h, i)
           IN  SetNode([grown EXCEPT !.back = (o :> "own") @@ grown.back], h, i, [x EXCEPT !.objs = InsertAt(x.objs, 2, o)])

SliceAdd(r, idx, o) ==
  LET h == GrpHash[r[o].grp]
      grown == Grown(idx, FALSE)
      i == Search(grown, h, LAMBDA x : InGroup(r, r[o].grp, FirstOf(x)))
  IN  IF i = 0
      THEN PutNew([grown EXCEPT !.back = (o :> "inside") @@ grown.back], [hash |-> h, objs |-> <<o>>], FALSE)
      ELSE LET x == NodeAt(grown, h, i)
           IN  SetNode([grown EXCEPT !.back = (o :> "own") @@ grown.back], h, i, [x EXCEPT !.objs = InsertAt(x.objs, 2, o)])

\* The node an object's back pointer leads to, whatever its row says by now.
HolderOf(idx, Holds(_)) == CHOOSE x \in Nodes(idx) : Holds(x)

SliceDel(r, idx, o) ==
  LET x == HolderOf(idx, LAMBDA y : o \in Range(y.objs))
      i == SelectInSeq(idx.chain[BucketOf(idx, x.hash)], LAMBDA y : y = x)
      j == IF idx.back[o] = "inside" THEN 1 ELSE SelectInSeq(x.objs, LAMBDA p : p = o)
      rest == RemoveAt(x.objs, j)
      gone == [idx EXCEPT !.back = [p \in DOMAIN @ \ {o} |->
                 IF rest # <<>> /\ p = rest[1] THEN "inside" ELSE @[p]]]
  IN  IF rest = <<>> THEN DropNode(gone, x.hash, i)
                     ELSE SetNode(gone, x.hash, i, [x EXCEPT !.objs = rest])

SliceUpdate(r, idx, orig, o) == SliceAdd(r, SliceDel(r, idx, orig), o)

\* clear: the nodes of the objects and those of the slices.
SliceClear(idx) == [idx EXCEPT !.count = 0, !.chain = NoNodes(idx.size), !.back = <<>>]

-----------------------------------------------------------------------------
(* The heaps: an array of objects, the one that wins over all first.       *)

Wins(max, r, x, y) == IF max THEN r[x].ord > r[y].ord ELSE r[x].ord < r[y].ord

RECURSIVE PercolateUp(_, _, _, _, _)
PercolateUp(max, r, a, hole, e) ==
  IF hole > 1 /\ Wins(max, r, e, a[hole \div 2])
  THEN PercolateUp(max, r, [a EXCEPT ![hole] = a[hole \div 2]], hole \div 2, e)
  ELSE [a EXCEPT ![hole] = e]

RECURSIVE PercolateInto(_, _, _, _, _)
PercolateInto(max, r, a, hole, e) ==
  LET left == 2 * hole
      child == IF left < Len(a) /\ Wins(max, r, a[left + 1], a[left]) THEN left + 1 ELSE left
  IN  IF left <= Len(a) /\ Wins(max, r, a[child], e)
      THEN PercolateInto(max, r, [a EXCEPT ![hole] = a[child]], child, e)
      ELSE [a EXCEPT ![hole] = e]

PercolateDown(max, r, a) == IF Len(a) < 2 THEN a ELSE PercolateInto(max, r, a, 1, a[1])

HeapAdd(max, r, a, e) == PercolateUp(max, r, Append(a, e), Len(a) + 1, e)

HeapReplace(max, r, a, old, new) ==
  PercolateUp(max, r, a, SelectInSeq(a, LAMBDA o : o = old), new)

\* From the place of e up every parent moves down; the last object fills the root.
HeapRemove(max, r, a, e) ==
  LET p == SelectInSeq(a, LAMBDA o : o = e)
      path == {p \div 2 ^ k : k \in 0..Len(a)} \ {0}
      Down(i) == IF i \in path \ {1} THEN a[i \div 2] ELSE a[i]
  IN  IF p = 0 THEN a
      ELSE PercolateDown(max, r, Front([i \in DOMAIN a |-> Down(IF i = 1 THEN Len(a) ELSE i)]))

-----------------------------------------------------------------------------
(* SlicedHeapIndex: a heap for every slice, kept when it becomes empty.    *)

Extremum(r, idx, g) ==
  LET i == Search(idx, GrpHash[g], LAMBDA x : x.heap # <<>> /\ InGroup(r, g, x.heap[1]))
  IN  IF i = 0 THEN Null ELSE NodeAt(idx, GrpHash[g], i).heap[1]

HeapIndexAdd(r, idx, o) ==
  LET g == r[o].grp
      h == GrpHash[g]
      grown == Grown(idx, TRUE)
      i == Search(grown, h, LAMBDA x : x.heapKey = g)
  IN  IF i = 0
      THEN PutNew(grown, [hash |-> h, heapKey |-> g, heap |-> <<o>>], TRUE)
      ELSE LET x == NodeAt(grown, h, i)
           IN  SetNode(grown, h, i, [x EXCEPT !.heap = HeapAdd(IsMax, r, x.heap, o)])

HeapIndexDel(r, idx, o) ==
  LET x == HolderOf(idx, LAMBDA y : o \in Range(y.heap))
      i == SelectInSeq(idx.chain[BucketOf(idx, x.hash)], LAMBDA y : y = x)
  IN  SetNode(idx, x.hash, i, [x EXCEPT !.heap = HeapRemove(IsMax, r, x.heap, o)])

HeapIndexUpdate(r, idx, orig, o) == HeapIndexAdd(r, HeapIndexDel(r, idx, orig), o)

-----------------------------------------------------------------------------
(* SlicedMedHeapIndex: the lower half of a slice in a max heap, the upper  *)
(* half in a min heap; the root of the lower half is the median.           *)

AddToHalves(r, x, o) ==
  LET max == TRUE
      min == FALSE
      l == Len(x.left)
      u == Len(x.right)
      Add(left, right) == [x EXCEPT !.left = left, !.right = right]
  IN  CASE l = 0 -> Add(<<o>>, x.right)
        [] l > 0 /\ Wins(max, r, o, x.left[1]) /\ l # u ->
             Add(x.left, HeapAdd(min, r, x.right, o))
        [] l > 0 /\ Wins(max, r, o, x.left[1]) /\ l = u ->
             IF Wins(max, r, o, x.right[1])
             THEN Add(HeapAdd(max, r, x.left, x.right[1]),
                      PercolateDown(min, r, [x.right EXCEPT ![1] = o]))
             ELSE Add(HeapAdd(max, r, x.left, o), x.right)
        [] l > 0 /\ ~Wins(max, r, o, x.left[1]) ->
             IF l > u
             THEN Add(PercolateDown(max, r, [x.left EXCEPT ![1] = o]),
                      HeapAdd(min, r, x.right, x.left[1]))
             ELSE Add(HeapAdd(max, r, x.left, o), x.right)

\* The order tells the half an object is in, if no other object of the slice
\* has an equal ord: with ties the code may look in the wrong one and throw.
RemoveFromHalves(r, x, o) ==
  LET max == TRUE
      min == FALSE
      l == Len(x.left)
      u == Len(x.right)
      Keep(left, right) == [x EXCEPT !.left = left, !.right = right]
  IN  IF Wins(max, r, o, x.left[1])
      THEN IF l > u
           THEN Keep(HeapRemove(max, r, x.left, x.left[1]),
                     HeapReplace(min, r, x.right, o, x.left[1]))
           ELSE Keep(x.left, HeapRemove(min, r, x.right, o))
      ELSE IF l = u
           THEN Keep(HeapReplace(max, r, x.left, o, x.right[1]),
                     HeapRemove(min, r, x.right, x.right[1]))
           ELSE Keep(HeapRemove(max, r, x.left, o), x.right)

Median(r, idx, g) ==
  LET i == Search(idx, GrpHash[g], LAMBDA x : InGroup(r, g, x.left[1]))
  IN  IF i = 0 THEN Null ELSE NodeAt(idx, GrpHash[g], i).left[1]

MedianIndexAdd(r, idx, o) ==
  LET h == GrpHash[r[o].grp]
      grown == Grown(idx, TRUE)
      i == Search(grown, h, LAMBDA x : InGroup(r, r[o].grp, x.left[1]))
  IN  IF i = 0
      THEN PutNew(grown, [hash |-> h, left |-> <<o>>, right |-> <<>>], TRUE)
      ELSE SetNode(grown, h, i, AddToHalves(r, NodeAt(grown, h, i), o))

MedianIndexDel(r, idx, o) ==
  LET x == HolderOf(idx, LAMBDA y : o \in Range(y.left \o y.right))
      i == SelectInSeq(idx.chain[BucketOf(idx, x.hash)], LAMBDA y : y = x)
      rest == RemoveFromHalves(r, x, o)
  IN  IF rest.left = <<>> THEN DropNode(idx, x.hash, i) ELSE SetNode(idx, x.hash, i, rest)

MedianIndexUpdate(r, idx, orig, o) == MedianIndexAdd(r, MedianIndexDel(r, idx, orig), o)

-----------------------------------------------------------------------------
(* TreeIndex: an AVL tree for every slice, the winner leftmost.            *)

Leaf(o) == [obj |-> o, height |-> 1, left |-> <<>>, right |-> <<>>]

Height(t) == IF t = <<>> THEN 0 ELSE t.height

BFactor(t) == Height(t.right) - Height(t.left)

FixHeight(t) ==
  [t EXCEPT !.height = 1 + (IF Height(t.left) > Height(t.right) THEN Height(t.left) ELSE Height(t.right))]

RotateRight(t) == FixHeight([t.left EXCEPT !.right = FixHeight([t EXCEPT !.left = t.left.right])])

RotateLeft(t) == FixHeight([t.right EXCEPT !.left = FixHeight([t EXCEPT !.right = t.right.left])])

(* Seeded bug: one rotation whatever the child leans to.                       *)
BalanceOnce(t) ==
  LET p == FixHeight(t)
  IN  CASE BFactor(p) = 2  -> RotateLeft(p)
        [] BFactor(p) = -2 -> RotateRight(p)
        [] OTHER -> p

Balance(t) ==
  LET p == FixHeight(t)
  IN  CASE BFactor(p) = 2 ->
             RotateLeft(IF BFactor(p.right) < 0 THEN [p EXCEPT !.right = RotateRight(p.right)] ELSE p)
        [] BFactor(p) = -2 ->
             RotateRight(IF BFactor(p.left) > 0 THEN [p EXCEPT !.left = RotateLeft(p.left)] ELSE p)
        [] OTHER -> p

RECURSIVE InsertBST(_, _, _)
InsertBST(r, t, o) ==
  IF t = <<>> THEN Leaf(o)
  ELSE IF t.obj = o THEN t
  ELSE IF Wins(IsMax, r, o, t.obj) THEN Balance([t EXCEPT !.left = InsertBST(r, t.left, o)])
  ELSE Balance([t EXCEPT !.right = InsertBST(r, t.right, o)])

RECURSIVE Rightmost(_), RemoveRightmost(_), RemoveBST(_, _, _)
Rightmost(t) == IF t.right = <<>> THEN t.obj ELSE Rightmost(t.right)

RemoveRightmost(t) ==
  IF t.right = <<>> THEN t.left ELSE Balance([t EXCEPT !.right = RemoveRightmost(t.right)])

RemoveBST(r, t, o) ==
  IF t = <<>> THEN t
  ELSE IF t.obj = o
  THEN IF t.left # <<>> /\ t.right # <<>>
       THEN Balance([t EXCEPT !.obj = Rightmost(t.left), !.left = RemoveRightmost(t.left)])
       ELSE IF t.left # <<>> THEN t.left ELSE t.right
  ELSE IF Wins(IsMax, r, t.obj, o) THEN Balance([t EXCEPT !.right = RemoveBST(r, t.right, o)])
  ELSE Balance([t EXCEPT !.left = RemoveBST(r, t.left, o)])

RECURSIVE InOrder(_)
InOrder(t) == IF t = <<>> THEN <<>> ELSE InOrder(t.left) \o <<t.obj>> \o InOrder(t.right)

RootOf(r, idx, g) ==
  LET i == Search(idx, GrpHash[g], LAMBDA x : InGroup(r, g, x.tree.obj))
  IN  IF i = 0 THEN Null ELSE NodeAt(idx, GrpHash[g], i).tree.obj

TreeIndexAdd(r, idx, o) ==
  LET h == GrpHash[r[o].grp]
      grown == Grown(idx, FALSE)
      i == Search(grown, h, LAMBDA x : InGroup(r, r[o].grp, x.tree.obj))
  IN  IF i = 0
      THEN PutNew(grown, [hash |-> h, tree |-> Leaf(o)], FALSE)
      ELSE LET x == NodeAt(grown, h, i)
           IN  SetNode(grown, h, i, [x EXCEPT !.tree = InsertBST(r, x.tree, o)])

\* Nothing is removed if the columns of o lead to no slice.
TreeIndexDel(r, idx, o) ==
  LET h == GrpHash[r[o].grp]
      i == Search(idx, h, LAMBDA x : InGroup(r, r[o].grp, x.tree.obj))
      x == NodeAt(idx, h, i)
      rest == RemoveBST(r, x.tree, o)
  IN  IF i = 0 THEN idx
      ELSE IF rest = <<>> THEN DropNode(idx, h, i)
      ELSE SetNode(idx, h, i, [x EXCEPT !.tree = rest])

TreeIndexUpdate(r, idx, orig, o) == TreeIndexAdd(r, TreeIndexDel(r, idx, orig), o)

-----------------------------------------------------------------------------
(* ListIndex: all objects, oldest first; a back pointer names the object   *)
(* before, not the one itself.                                             *)

NewList == [objs |-> <<>>, back |-> <<>>]

ListAdd(lst, o) ==
  [objs |-> Append(lst.objs, o),
   back |-> (o :> IF lst.objs = <<>> THEN Null ELSE Last(lst.objs)) @@ lst.back]

ListDel(lst, o) ==
  LET prev == lst.back[o]
      i == 1 + SelectInSeq(lst.objs, LAMBDA p : p = prev)
      next == IF i < Len(lst.objs) THEN lst.objs[i + 1] ELSE Null
  IN  [objs |-> RemoveAt(lst.objs, i),
       back |-> [p \in DOMAIN lst.back \ {o} |-> IF p = next THEN prev ELSE lst.back[p]]]

ListUpdate(lst, orig, o) == ListAdd(ListDel(lst, orig), o)

-----------------------------------------------------------------------------
(* ArrayIndex: the hash is a slot of its own for every key. What slice and *)
(* count would do, which throw, is left out.                               *)

NewArray == [k \in DOMAIN KeyHash |-> Null]

ArrayGet(array, k) == array[k]

ArrayAdd(r, array, o) == [array EXCEPT ![r[o].key] = o]

ArrayDel(r, array, o) == [array EXCEPT ![r[o].key] = Null]

ArrayUpdate(r, array, orig, o) == ArrayAdd(r, ArrayDel(r, array, orig), o)

ArrayForeach(array) == SelectSeq(array, LAMBDA o : o # Null)
=============================================================================
