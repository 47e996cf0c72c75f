----------------------------- MODULE MemoryPool -----------------------------
(***************************************************************************)
(* A memory pool shared by the containers of one element type: the pool of *)
(* pool.hpp behind the counting Singleton of mmap.hpp.  A container        *)
(* acquires the pool in its constructor and, in its destructor, frees all  *)
(* its elements and then releases the pool; the last one deletes it.       *)
(***************************************************************************)
EXTENDS Integers, Sequences, FiniteSets

-----------------------------------------------------------------------------
(***************************************************************************)
(* class MemoryPool of backend/lib/pool.hpp as operations on its state: the *)
(* chunks from the oldest on (each known by its number of slots), the slot *)
(* currentSlot_ of the last chunk, and the list freeSlots_.  A slot is its *)
(* chunk and its index there; slot 0 of a chunk links to the chunk before. *)
(***************************************************************************)

CONSTANTS
  ChunkSize,  \* DEFAULT_POOL_CHUNK_SIZE
  MaxChunk    \* MAX_POOL_CHUNK_SIZE

ASSUME PoolAssumption ==
  /\ ChunkSize \in Nat /\ ChunkSize > 1
  /\ MaxChunk \in Nat /\ MaxChunk > 1

AllocateChunk(pool, sz) ==
  [pool EXCEPT !.chunks = Append(@, IF sz < MaxChunk THEN sz ELSE MaxChunk), !.current = 1]

NewPool == AllocateChunk([chunks |-> <<>>, current |-> 0, free |-> <<>>], ChunkSize)

LastSize(pool) == pool.chunks[Len(pool.chunks)]

(* currentSlot_ > lastSlot_                                                *)
Exhausted(pool) == pool.current > LastSize(pool) - 1

WithCurrent(pool) ==
  IF Exhausted(pool) THEN AllocateChunk(pool, LastSize(pool) * 2) ELSE pool

(* allocate(): the slot it returns and the pool it leaves.                 *)
Allocated(pool) ==
  IF pool.free # <<>> THEN Head(pool.free)
  ELSE <<Len(WithCurrent(pool).chunks), WithCurrent(pool).current>>

(* Mutant: the head of the free list stays on it.                          *)
AllocateKeepsHead(pool) ==
  IF pool.free # <<>> THEN pool ELSE [WithCurrent(pool) EXCEPT !.current = @ + 1]

Allocate(pool) ==
  IF pool.free # <<>> THEN [pool EXCEPT !.free = Tail(@)]
  ELSE [WithCurrent(pool) EXCEPT !.current = @ + 1]

(* Mutant: the slot is not linked to the rest of the free list.            *)
DeallocateUnlinked(pool, slot) == [pool EXCEPT !.free = <<slot>>]

Deallocate(pool, slot) == [pool EXCEPT !.free = <<slot>> \o @]

(* The slots of the chunks and those of them handed out at least once.     *)
SlotsOf(pool) == {s \in (DOMAIN pool.chunks) \X (1..MaxChunk) : s[2] < pool.chunks[s[1]]}

Bumped(pool) ==
  {s \in SlotsOf(pool) : s[1] = Len(pool.chunks) => s[2] < pool.current}

FreeSlots(pool) == {pool.free[i] : i \in DOMAIN pool.free}

-----------------------------------------------------------------------------
CONSTANTS
  Container,  \* hash maps or indexes with the same node type
  MaxLive     \* bound on the elements in use at a time

ASSUME ContainerAssumption == IsFiniteSet(Container) /\ MaxLive \in Nat

VARIABLES
  instance,  \* Singleton::instance_, NoPool when null
  counter,   \* Singleton::counter_
  holds,     \* the containers between constructor and destructor
  owned,     \* the slots of each container's elements
  peak       \* history: most elements in use at a time, since the pool exists

vars == <<instance, counter, holds, owned, peak>>

NoPool == [chunks |-> <<>>, current |-> 0, free |-> <<>>]

Live == UNION {owned[c] : c \in Container}

Init ==
  /\ instance = NoPool
  /\ counter = 0
  /\ holds = {}
  /\ owned = [c \in Container |-> {}]
  /\ peak = 0

(* Singleton::acquire                                                      *)
Acquire(c) ==
  /\ c \notin holds
  /\ counter' = counter + 1
  /\ instance' = IF instance = NoPool THEN NewPool ELSE instance
  /\ holds' = holds \cup {c}
  /\ UNCHANGED <<owned, peak>>

(* allocate and newElement                                                 *)
NewElement(c) ==
  /\ c \in holds
  /\ Cardinality(Live) < MaxLive
  /\ instance' = Allocate(instance)
  /\ owned' = [owned EXCEPT ![c] = @ \cup {Allocated(instance)}]
  /\ peak' = IF Cardinality(Live) + 1 > peak THEN Cardinality(Live) + 1 ELSE peak
  /\ UNCHANGED <<counter, holds>>

(* deallocate and deleteElement                                            *)
DeleteElement(c) ==
  /\ c \in holds
  /\ \E s \in owned[c] : /\ instance' = Deallocate(instance, s)
                         /\ owned' = [owned EXCEPT ![c] = @ \ {s}]
  /\ UNCHANGED <<counter, holds, peak>>

(* Mutants: the counter is tested before it is decremented; it stays.      *)
ReleaseTestsFirst(c) ==
  /\ c \in holds
  /\ owned[c] = {}
  /\ counter' = counter - 1
  /\ instance' = IF counter = 0 THEN NoPool ELSE instance
  /\ peak' = IF counter = 0 THEN 0 ELSE peak
  /\ holds' = holds \ {c}
  /\ UNCHANGED owned

(* Singleton::release                                                      *)
Release(c) ==
  /\ c \in holds
  /\ owned[c] = {}
  /\ counter' = counter - 1
  /\ instance' = IF counter' = 0 THEN NoPool ELSE instance
  /\ peak' = IF counter' = 0 THEN 0 ELSE peak
  /\ holds' = holds \ {c}
  /\ UNCHANGED owned

Next ==
  \E c \in Container : Acquire(c) \/ NewElement(c) \/ DeleteElement(c) \/ Release(c)

Spec == Init /\ [][Next]_vars

-----------------------------------------------------------------------------

TypeOK ==
  /\ instance.chunks \in Seq(Nat)
  /\ instance.current \in Nat
  /\ instance.free \in Seq(Nat \X Nat)
  /\ counter \in 0..Cardinality(Container)
  /\ holds \subseteq Container
  /\ owned \in [Container -> SUBSET (Nat \X Nat)]
  /\ peak \in 0..MaxLive

(* No memory is used twice: an element's slot is inside a chunk, behind its *)
(* link, belongs to one container, and is not on the free list, where the  *)
(* link of the union would overwrite the element.                          *)
NoAliasing ==
  /\ Live \subseteq SlotsOf(instance)
  /\ \A c, d \in Container : c # d => owned[c] \cap owned[d] = {}
  /\ Live \cap FreeSlots(instance) = {}
  /\ \A i, j \in DOMAIN instance.free : instance.free[i] = instance.free[j] => i = j

(* No memory is lost: a slot taken from a chunk is in use or can be reused. *)
NoLeak == Bumped(instance) = Live \cup FreeSlots(instance)

(* The pool takes from its chunks no more slots than were ever in use at   *)
(* the same time.                                                          *)
GrowsWithPeak == Cardinality(Live) + Len(instance.free) = peak

(* The pool lives exactly as long as some container does.                  *)
InstanceWhileHeld == (instance = NoPool) <=> (holds = {})
=============================================================================
