----------------------------- MODULE ElementPool -----------------------------
(***************************************************************************)
(* Pool and ValuePool: elements in chunks, each chunk twice as large as    *)
(* the one before, and a list free_ of those not handed out.  A pool is    *)
(*   chunks  the sizes of the chunks, the oldest first (data_ is the last),*)
(*   free    the elements of the free list in order,                       *)
(*   used    the elements whose flag Elem::used is set.                    *)
(* A ValuePool constructs and destroys nothing and has no flags.  An       *)
(* element is known by its chunk and its index there, from 1 on.           *)
(***************************************************************************)
EXTENDS Integers, Sequences, SequencesExt

NewestSize(pool) == Last(pool.chunks)

Chunk(c, size) == [i \in 1 .. size |-> <<c, i>>]

AddChunk(pool, size) ==
  [pool EXCEPT !.chunks = Append(@, size), !.free = Chunk(Len(pool.chunks) + 1, size)]

PoolOf(size) == AddChunk([chunks |-> <<>>, free |-> <<>>, used |-> {}], size)

WithFree(pool) ==
  IF pool.free = <<>> THEN AddChunk(pool, 2 * NewestSize(pool)) ELSE pool

\* The element the next add() hands out.
NextElement(pool) == Head(WithFree(pool).free)

Elements(pool) == UNION {{c} \X (1 .. pool.chunks[c]) : c \in DOMAIN pool.chunks}

-----------------------------------------------------------------------------

\* ValuePool: add, del, delete_all over a list of elements, clear.
ValueAdd(pool) == LET stocked == WithFree(pool) IN [stocked EXCEPT !.free = Tail(@)]

ValueDel(pool, element) == [pool EXCEPT !.free = <<element>> \o @]

ValueDeleteAll(pool, elements) == [pool EXCEPT !.free = elements \o @]

\* Every element is free again, from the newest chunk to the oldest.
Everything(pool) ==
  FlattenSeq(Reverse([c \in DOMAIN pool.chunks |-> Chunk(c, pool.chunks[c])]))

ValueClear(pool) == [pool EXCEPT !.free = Everything(pool)]

-----------------------------------------------------------------------------

\* Elem::deactivate ends the life of the object in an element in use.
Deactivate(pool, elements) == [pool EXCEPT !.used = @ \ elements]

\* Pool: add marks the element, the others deactivate it before it is free.
PoolAdd(pool) ==
  LET stocked == WithFree(pool)
  IN  [stocked EXCEPT !.free = Tail(@), !.used = @ \cup {Head(stocked.free)}]

PoolDel(pool, element) == ValueDel(Deactivate(pool, {element}), element)

PoolDeleteAll(pool, elements) ==
  ValueDeleteAll(Deactivate(pool, ToSet(elements)), elements)

\* clear() deactivates all but the last element of each chunk: one in use
\* stays marked although its memory now holds the link of the free list.
LastOfChunk(pool) == {<<c, pool.chunks[c]>> : c \in DOMAIN pool.chunks}

PoolClear(pool) ==
  ValueClear(Deactivate(pool, ToSet(Everything(pool)) \ LastOfChunk(pool)))
=============================================================================
