-------------------------- MODULE MemoryPoolProofs --------------------------
(***************************************************************************)
(* The memory pool never hands out a slot twice and never loses one, for   *)
(* any chunk sizes, number of containers and order of their calls.  The    *)
(* strings, of any of the four types, keep their texts and account for the *)
(* memory they share, for any strings, texts and sizes.                    *)
(***************************************************************************)
EXTENDS MemoryPool, SharedStrings, FiniteSetTheorems, TLAPS

(* The slots of a pool, by chunk and place, and the pool's fields.         *)

Slot == Nat \X Nat

PoolType == [chunks : Seq(Nat), current : Nat, free : Seq(Slot)]

(* A pool between its construction and its destruction.                    *)
InUse(pool) ==
  /\ pool \in PoolType
  /\ Len(pool.chunks) > 0
  /\ \A i \in 1..Len(pool.chunks) : pool.chunks[i] \in 2..MaxChunk
  /\ pool.current \in 1..LastSize(pool)

Injective(free) == \A i, j \in DOMAIN free : free[i] = free[j] => i = j

(* The free list splits the slots handed out with the elements in use.     *)
Split(pool, live) ==
  /\ Bumped(pool) = live \cup FreeSlots(pool)
  /\ live \cap FreeSlots(pool) = {}
  /\ Injective(pool.free)

-----------------------------------------------------------------------------

(* A new chunk, allocated when the last one is used up or there is none.   *)
LEMMA AllocateChunkFacts ==
  ASSUME NEW pool \in PoolType,
         \A i \in 1..Len(pool.chunks) : pool.chunks[i] \in 2..MaxChunk,
         Len(pool.chunks) > 0 => pool.current = LastSize(pool),
         NEW sz \in Nat, sz > 1,
         NEW more, more = AllocateChunk(pool, sz)
  PROVE  /\ InUse(more)
         /\ more.current = 1 /\ more.free = pool.free
         /\ Len(more.chunks) = Len(pool.chunks) + 1
         /\ LastSize(more) > 1
         /\ Bumped(more) = Bumped(pool)
<1> DEFINE size == IF sz < MaxChunk THEN sz ELSE MaxChunk
           chunks == Append(pool.chunks, size)
           n == Len(pool.chunks)
<1>1. pool.chunks \in Seq(Nat) /\ n \in Nat /\ pool.free \in Seq(Slot)
  BY DEF PoolType
<1>2. size \in 2..MaxChunk /\ size \in Nat
  BY PoolAssumption
<1>3. more = [pool EXCEPT !.chunks = chunks, !.current = 1]
  BY DEF AllocateChunk
<1> HIDE DEF size
<1>4. /\ chunks \in Seq(Nat) /\ Len(chunks) = n + 1
      /\ \A i \in 1..n : chunks[i] = pool.chunks[i]
      /\ chunks[n + 1] = size
  BY <1>1, <1>2
<1> HIDE DEF chunks
<1>5. /\ more \in PoolType /\ more.chunks = chunks /\ more.current = 1
      /\ more.free = pool.free
  <2>1. pool = [chunks |-> pool.chunks, current |-> pool.current, free |-> pool.free]
    BY DEF PoolType
  <2>2. more = [chunks |-> chunks, current |-> 1, free |-> pool.free]
    BY <1>3, <2>1
  <2> QED
    BY <1>1, <1>4, <2>2 DEF PoolType
<1>6. LastSize(more) = size
  BY <1>4, <1>5 DEF LastSize
<1>7. ASSUME NEW i \in 1..n + 1
      PROVE  chunks[i] \in 2..MaxChunk
  <2>1. CASE i = n + 1
    BY <1>2, <1>4, <2>1
  <2>2. CASE i # n + 1
    <3>1. i \in 1..n
      BY <1>1, <2>2
    <3>2. pool.chunks[i] \in 2..MaxChunk
      BY <3>1
    <3> QED
      BY <1>4, <3>1, <3>2
  <2> QED
    BY <2>1, <2>2
<1>8. InUse(more)
  BY <1>1, <1>2, <1>4, <1>5, <1>6, <1>7 DEF InUse
<1>9. Bumped(more) = Bumped(pool)
  <2>1. DOMAIN pool.chunks = 1..n /\ DOMAIN more.chunks = 1..n + 1
    BY <1>1, <1>4, <1>5
  <2>2. ASSUME NEW s \in Bumped(more)
        PROVE  s \in Bumped(pool)
    <3>1. /\ s[1] \in 1..n + 1 /\ s[2] \in 1..MaxChunk /\ s[2] < chunks[s[1]]
          /\ s \in (1..n + 1) \X (1..MaxChunk)
          /\ s[1] = n + 1 => s[2] < 1
      BY <1>4, <1>5, <2>1 DEF Bumped, SlotsOf
    <3>2. s[1] \in 1..n /\ s \in (1..n) \X (1..MaxChunk)
      BY <1>1, <3>1
    <3>3. s[2] < pool.chunks[s[1]]
      BY <1>4, <3>1, <3>2
    <3>4. s[1] = n => s[2] < pool.current
      BY <1>1, <3>2, <3>3 DEF LastSize
    <3> QED
      BY <2>1, <3>2, <3>3, <3>4 DEF Bumped, SlotsOf
  <2>3. ASSUME NEW s \in Bumped(pool)
        PROVE  s \in Bumped(more)
    <3>1. /\ s[1] \in 1..n /\ s \in (1..n) \X (1..MaxChunk)
          /\ s[2] < pool.chunks[s[1]]
      BY <2>1 DEF Bumped, SlotsOf
    <3>2. s \in (1..n + 1) \X (1..MaxChunk) /\ s[1] # n + 1
      BY <1>1, <3>1
    <3>3. s[2] < chunks[s[1]]
      BY <1>4, <3>1
    <3> QED
      BY <1>4, <1>5, <2>1, <3>2, <3>3 DEF Bumped, SlotsOf
  <2> QED
    BY <2>2, <2>3
<1> QED
  BY <1>2, <1>4, <1>5, <1>6, <1>8, <1>9

(* The slot taken from the last chunk is new.                              *)
LEMMA BumpFacts ==
  ASSUME NEW pool, InUse(pool), pool.current < LastSize(pool),
         NEW more, more = [pool EXCEPT !.current = @ + 1]
  PROVE  LET slot == <<Len(pool.chunks), pool.current>>
         IN  /\ InUse(more) /\ more.free = pool.free
             /\ slot \in Slot /\ slot \notin Bumped(pool)
             /\ Bumped(more) = Bumped(pool) \cup {slot}
<1> DEFINE n == Len(pool.chunks)
           k == pool.current
           slot == <<n, k>>
<1>1. /\ pool \in PoolType /\ pool.chunks \in Seq(Nat) /\ pool.free \in Seq(Slot)
      /\ n \in Nat /\ n > 0 /\ k \in Nat /\ k >= 1
      /\ \A i \in 1..n : pool.chunks[i] \in 2..MaxChunk
      /\ DOMAIN pool.chunks = 1..n
  BY DEF InUse, PoolType
<1>2. /\ more \in PoolType /\ more.chunks = pool.chunks /\ more.free = pool.free
      /\ more.current = k + 1
  <2>1. pool = [chunks |-> pool.chunks, current |-> k, free |-> pool.free]
    BY <1>1 DEF PoolType
  <2>2. more = [chunks |-> pool.chunks, current |-> k + 1, free |-> pool.free]
    BY <2>1
  <2> HIDE DEF k
  <2> QED
    BY <1>1, <2>2 DEF PoolType
<1>3. LastSize(more) = LastSize(pool) /\ LastSize(pool) \in 2..MaxChunk
  <2>1. n \in 1..n
    BY <1>1
  <2>2. pool.chunks[n] \in 2..MaxChunk
    BY <1>1, <2>1
  <2> HIDE DEF n
  <2> QED
    BY <1>2, <2>2 DEF LastSize, n
<1>4. InUse(more)
  BY <1>1, <1>2, <1>3 DEF InUse
<1>5. slot \in Slot /\ slot \notin Bumped(pool)
  BY <1>1 DEF Slot, Bumped
<1>6. Bumped(more) = Bumped(pool) \cup {slot}
  <2>1. k < pool.chunks[n]
    BY DEF LastSize
  <2>2. slot \in Bumped(more)
    <3>1. slot \in (1..n) \X (1..MaxChunk)
      <4>1. n \in 1..n
        BY <1>1
      <4>2. k \in 1..MaxChunk
        BY <1>1, <1>3, PoolAssumption
      <4> QED
        BY <4>1, <4>2
    <3> QED
      BY <1>1, <1>2, <2>1, <3>1 DEF Bumped, SlotsOf
  <2>3. ASSUME NEW s \in Bumped(pool)
        PROVE  s \in Bumped(more)
    BY <1>1, <1>2 DEF Bumped, SlotsOf
  <2>4. ASSUME NEW s \in Bumped(more), s # slot
        PROVE  s \in Bumped(pool)
    <3>1. /\ s \in (1..n) \X (1..MaxChunk) /\ s[2] < pool.chunks[s[1]]
          /\ s[1] = n => s[2] < k + 1
      BY <1>1, <1>2 DEF Bumped, SlotsOf
    <3>2. s = <<s[1], s[2]>> /\ s[1] \in Nat /\ s[2] \in Nat
      BY <3>1
    <3>3. s[1] = n => s[2] < k
      BY <1>1, <2>4, <3>1, <3>2
    <3> QED
      BY <1>1, <3>1, <3>3 DEF Bumped, SlotsOf
  <2> QED
    BY <2>2, <2>3, <2>4
<1> QED
  BY <1>2, <1>4, <1>5, <1>6

(* allocate() hands out a slot that is neither in use nor free afterwards. *)
LEMMA AllocateFacts ==
  ASSUME NEW pool, InUse(pool), NEW live, Split(pool, live),
         NEW slot, slot = Allocated(pool),
         NEW more, more = Allocate(pool)
  PROVE  /\ InUse(more) /\ slot \in Slot /\ slot \notin live
         /\ Split(more, live \cup {slot})
<1> DEFINE free == pool.free
<1>1. /\ pool \in PoolType /\ pool.chunks \in Seq(Nat) /\ free \in Seq(Slot)
      /\ pool.current \in 1..LastSize(pool) /\ Len(pool.chunks) > 0
      /\ \A i \in 1..Len(pool.chunks) : pool.chunks[i] \in 2..MaxChunk
  BY DEF InUse, PoolType
<1>2. CASE free # <<>>
  <2> DEFINE tail == Tail(free)
  <2>1. slot = Head(free) /\ more = [pool EXCEPT !.free = tail]
    BY <1>2 DEF Allocated, Allocate
  <2>2. /\ tail \in Seq(Slot) /\ Len(tail) = Len(free) - 1 /\ Len(free) \in Nat \ {0}
        /\ \A i \in 1..Len(tail) : tail[i] = free[i + 1]
        /\ slot = free[1] /\ slot \in Slot
    BY <1>1, <1>2, <2>1
  <2>3. DOMAIN free = 1..Len(free) /\ DOMAIN tail = 1..Len(tail)
    BY <1>1, <2>2
  <2> HIDE DEF tail
  <2>4. /\ more.chunks = pool.chunks /\ more.current = pool.current
        /\ more.free = tail /\ more \in PoolType
    <3>1. pool = [chunks |-> pool.chunks, current |-> pool.current, free |-> free]
      BY <1>1 DEF PoolType
    <3>2. more = [chunks |-> pool.chunks, current |-> pool.current, free |-> tail]
      BY <2>1, <3>1
    <3> QED
      BY <1>1, <2>2, <3>2 DEF PoolType
  <2>5. InUse(more) /\ Bumped(more) = Bumped(pool)
    BY <2>4 DEF InUse, LastSize, Bumped, SlotsOf
  <2>6. FreeSlots(pool) = FreeSlots(more) \cup {slot}
    <3>1. ASSUME NEW i \in DOMAIN free
          PROVE  free[i] \in FreeSlots(more) \cup {slot}
      <4>1. CASE i # 1
        <5>1. i - 1 \in 1..Len(tail) /\ (i - 1) + 1 = i
          BY <2>2, <2>3, <4>1
        <5>2. tail[i - 1] = free[i]
          BY <2>2, <5>1
        <5> QED
          BY <2>3, <2>4, <5>1, <5>2 DEF FreeSlots
      <4> QED
        BY <2>2, <4>1
    <3>2. ASSUME NEW i \in DOMAIN tail
          PROVE  tail[i] \in FreeSlots(pool)
      <4>1. i + 1 \in DOMAIN free /\ tail[i] = free[i + 1]
        BY <2>2, <2>3
      <4> QED
        BY <4>1 DEF FreeSlots
    <3>3. slot \in FreeSlots(pool)
      <4>1. 1 \in DOMAIN free
        BY <2>2, <2>3
      <4> QED
        BY <2>2, <4>1 DEF FreeSlots
    <3>4. FreeSlots(pool) \subseteq FreeSlots(more) \cup {slot}
      BY <3>1 DEF FreeSlots
    <3>5. FreeSlots(more) \subseteq FreeSlots(pool)
      BY <2>4, <3>2 DEF FreeSlots
    <3> QED
      BY <3>3, <3>4, <3>5
  <2>7. slot \notin FreeSlots(more)
    <3>1. SUFFICES ASSUME NEW i \in DOMAIN tail, tail[i] = slot
                   PROVE  FALSE
      BY <2>4 DEF FreeSlots
    <3>2. /\ i + 1 \in DOMAIN free /\ 1 \in DOMAIN free /\ i + 1 # 1
          /\ free[i + 1] = free[1]
      BY <2>2, <2>3, <3>1
    <3> QED
      BY <3>2 DEF Split, Injective
  <2>8. Injective(more.free)
    <3>1. SUFFICES ASSUME NEW i \in DOMAIN tail, NEW j \in DOMAIN tail, tail[i] = tail[j]
                   PROVE  i = j
      BY <2>4 DEF Injective
    <3>2. i + 1 \in DOMAIN free /\ tail[i] = free[i + 1]
      BY <2>2, <2>3
    <3>3. j + 1 \in DOMAIN free /\ tail[j] = free[j + 1]
      BY <2>2, <2>3
    <3>4. free[i + 1] = free[j + 1]
      BY <3>1, <3>2, <3>3
    <3>5. i + 1 = j + 1
      BY <3>2, <3>3, <3>4 DEF Split, Injective
    <3> QED
      BY <2>2, <2>3, <3>5
  <2> QED
    BY <2>2, <2>5, <2>6, <2>7, <2>8 DEF Split
<1>3. CASE free = <<>>
  <2> DEFINE mid == WithCurrent(pool)
  <2>1. slot = <<Len(mid.chunks), mid.current>> /\ more = [mid EXCEPT !.current = @ + 1]
    BY <1>3 DEF Allocated, Allocate
  <2>2. /\ InUse(mid) /\ mid.current < LastSize(mid) /\ mid.free = free
        /\ Bumped(mid) = Bumped(pool)
    <3>1. LastSize(pool) \in 2..MaxChunk /\ LastSize(pool) \in Nat
      BY <1>1, PoolAssumption DEF LastSize
    <3>2. CASE Exhausted(pool)
      <4>1. mid = AllocateChunk(pool, LastSize(pool) * 2) /\ pool.current = LastSize(pool)
        BY <1>1, <3>1, <3>2 DEF WithCurrent, Exhausted
      <4>2. LastSize(pool) * 2 \in Nat /\ LastSize(pool) * 2 > 1
        BY <3>1
      <4> HIDE DEF mid
      <4> QED
        BY <1>1, <4>1, <4>2, AllocateChunkFacts
    <3>3. CASE ~Exhausted(pool)
      <4>1. mid = pool /\ pool.current < LastSize(pool)
        BY <1>1, <3>1, <3>3 DEF WithCurrent, Exhausted
      <4> QED
        BY <4>1
    <3> QED
      BY <3>2, <3>3
  <2> HIDE DEF mid
  <2>3. /\ InUse(more) /\ more.free = mid.free
        /\ slot \in Slot /\ slot \notin Bumped(mid)
        /\ Bumped(more) = Bumped(mid) \cup {slot}
    BY <2>1, <2>2, BumpFacts
  <2>4. FreeSlots(pool) = {} /\ FreeSlots(more) = {} /\ Injective(more.free)
    <3>1. more.free = <<>> /\ DOMAIN <<>> = {}
      BY <1>3, <2>2, <2>3
    <3> QED
      BY <1>3, <3>1 DEF FreeSlots, Injective
  <2> QED
    BY <2>2, <2>3, <2>4 DEF Split
<1> QED
  BY <1>2, <1>3

(* deallocate() moves a slot from the elements in use to the free list.    *)
LEMMA DeallocateFacts ==
  ASSUME NEW pool, InUse(pool), NEW live, Split(pool, live),
         NEW slot \in Slot, slot \in live,
         NEW more, more = Deallocate(pool, slot)
  PROVE  InUse(more) /\ Split(more, live \ {slot})
<1> DEFINE free == pool.free
           longer == <<slot>> \o free
<1>1. pool \in PoolType /\ free \in Seq(Slot)
  BY DEF InUse, PoolType
<1>2. more = [pool EXCEPT !.free = longer]
  BY DEF Deallocate
<1>3. /\ longer \in Seq(Slot) /\ Len(longer) = Len(free) + 1 /\ Len(free) \in Nat
      /\ longer[1] = slot
      /\ \A i \in 1..Len(free) : longer[i + 1] = free[i]
      /\ DOMAIN longer = 1..Len(free) + 1 /\ DOMAIN free = 1..Len(free)
  BY <1>1
<1> HIDE DEF longer
<1>4. /\ more.chunks = pool.chunks /\ more.current = pool.current
      /\ more.free = longer /\ more \in PoolType
  <2>1. pool = [chunks |-> pool.chunks, current |-> pool.current, free |-> free]
    BY <1>1 DEF PoolType
  <2>2. more = [chunks |-> pool.chunks, current |-> pool.current, free |-> longer]
    BY <1>2, <2>1
  <2> QED
    BY <1>1, <1>3, <2>2 DEF PoolType
<1>5. InUse(more) /\ Bumped(more) = Bumped(pool)
  BY <1>4 DEF InUse, LastSize, Bumped, SlotsOf
<1>6. \A i \in DOMAIN longer : i # 1 => i - 1 \in DOMAIN free /\ longer[i] = free[i - 1]
  <2>1. SUFFICES ASSUME NEW i \in DOMAIN longer, i # 1
                 PROVE  i - 1 \in DOMAIN free /\ longer[i] = free[i - 1]
    OBVIOUS
  <2>2. i - 1 \in 1..Len(free) /\ (i - 1) + 1 = i
    BY <1>3, <2>1
  <2> QED
    BY <1>3, <2>2
<1>7. FreeSlots(more) = FreeSlots(pool) \cup {slot}
  <2>1. ASSUME NEW i \in DOMAIN longer
        PROVE  longer[i] \in FreeSlots(pool) \cup {slot}
    BY <1>3, <1>6 DEF FreeSlots
  <2>2. ASSUME NEW i \in DOMAIN free
        PROVE  free[i] \in FreeSlots(more)
    <3>1. i + 1 \in DOMAIN longer /\ longer[i + 1] = free[i]
      BY <1>3
    <3> QED
      BY <1>4, <3>1 DEF FreeSlots
  <2>3. slot \in FreeSlots(more)
    <3>1. 1 \in DOMAIN longer
      BY <1>3
    <3> QED
      BY <1>3, <1>4, <3>1 DEF FreeSlots
  <2>4. FreeSlots(more) \subseteq FreeSlots(pool) \cup {slot}
    BY <1>4, <2>1 DEF FreeSlots
  <2>5. FreeSlots(pool) \subseteq FreeSlots(more)
    BY <2>2 DEF FreeSlots
  <2> QED
    BY <2>3, <2>4, <2>5
<1>8. slot \notin FreeSlots(pool)
  BY DEF Split
<1>9. Injective(more.free)
  <2>1. SUFFICES ASSUME NEW i \in DOMAIN longer, NEW j \in DOMAIN longer,
                        longer[i] = longer[j]
                 PROVE  i = j
    BY <1>4 DEF Injective
  <2>2. (i = 1) <=> (j = 1)
    BY <1>3, <1>6, <1>8, <2>1 DEF FreeSlots
  <2>3. CASE i # 1 /\ j # 1
    <3>1. i - 1 = j - 1
      BY <1>6, <2>1, <2>3 DEF Split, Injective
    <3> QED
      BY <1>3, <3>1
  <2> QED
    BY <2>2, <2>3
<1> QED
  BY <1>5, <1>7, <1>8, <1>9 DEF Split

-----------------------------------------------------------------------------

(* The pool exists while some container holds it, as the counter tells.    *)
Held ==
  /\ holds \subseteq Container
  /\ counter = Cardinality(holds)
  /\ instance = NoPool <=> holds = {}
  /\ holds # {} => InUse(instance)

(* Elements belong to containers that hold the pool, each to one of them.  *)
Owners ==
  /\ owned \in [Container -> SUBSET Slot]
  /\ \A c \in Container \ holds : owned[c] = {}
  /\ \A c, d \in Container : c # d => owned[c] \cap owned[d] = {}

PInv == Held /\ Owners /\ Split(instance, Live)

LEMMA NoPoolFacts ==
  NoPool \in PoolType /\ ~InUse(NoPool) /\ Split(NoPool, {})
<1>1. NoPool.chunks = <<>> /\ NoPool.free = <<>> /\ Len(<<>>) = 0 /\ DOMAIN <<>> = {}
  BY DEF NoPool
<1>2. Bumped(NoPool) = {} /\ FreeSlots(NoPool) = {} /\ Injective(NoPool.free)
  BY <1>1 DEF Bumped, SlotsOf, FreeSlots, Injective
<1>3. NoPool \in PoolType
  <2>1. <<>> \in Seq(Nat) /\ <<>> \in Seq(Slot)
    OBVIOUS
  <2> QED
    BY <2>1 DEF NoPool, PoolType
<1> QED
  BY <1>1, <1>2, <1>3 DEF InUse, Split

(* The constructor allocates the first chunk.                              *)
LEMMA NewPoolFacts ==
  InUse(NewPool) /\ NewPool # NoPool /\ Split(NewPool, {})
<1>1. NewPool = AllocateChunk(NoPool, ChunkSize)
  BY DEF NewPool, NoPool
<1>2. NoPool \in PoolType /\ NoPool.chunks = <<>> /\ Len(<<>>) = 0 /\ NoPool.free = <<>>
  BY NoPoolFacts DEF NoPool
<1> DEFINE more == NewPool
<1>3. /\ InUse(more) /\ more.free = NoPool.free
      /\ Bumped(more) = Bumped(NoPool)
  <2> HIDE DEF more
  <2>1. \A i \in 1..Len(NoPool.chunks) : NoPool.chunks[i] \in 2..MaxChunk
    BY <1>2
  <2>2. more = AllocateChunk(NoPool, ChunkSize)
    BY <1>1 DEF more
  <2> QED
    BY <1>2, <2>1, <2>2, PoolAssumption, AllocateChunkFacts
<1>4. Split(NewPool, {})
  BY <1>3, NoPoolFacts DEF Split, FreeSlots
<1> QED
  BY <1>3, <1>4, NoPoolFacts

(* What giving one container the slots new makes of the slots in use.      *)
LEMMA LiveFacts ==
  ASSUME Owners, NEW c \in Container, NEW new \in SUBSET Slot,
         owned' = [owned EXCEPT ![c] = new]
  PROVE  /\ owned' \in [Container -> SUBSET Slot]
         /\ Live' = (Live \ owned[c]) \cup new
         /\ owned[c] \subseteq Live
<1>1. owned' \in [Container -> SUBSET Slot]
  BY DEF Owners
<1>2. \A d \in Container : owned'[d] = IF d = c THEN new ELSE owned[d]
  BY DEF Owners
<1>3. \A s : s \in Live <=> \E d \in Container : s \in owned[d]
  BY DEF Live
<1>4. \A s : s \in Live' <=> \E d \in Container : s \in owned'[d]
  BY DEF Live
<1>5. ASSUME NEW s
      PROVE  s \in Live' <=> s \in (Live \ owned[c]) \cup new
  <2>1. \A d \in Container : d # c => owned[c] \cap owned[d] = {}
    BY DEF Owners
  <2> QED
    BY <1>2, <1>3, <1>4, <2>1
<1> QED
  BY <1>1, <1>3, <1>5

LEMMA PInit == Init => PInv
<1> SUFFICES ASSUME Init PROVE PInv
  OBVIOUS
<1>1. Live = {}
  BY DEF Init, Live
<1>2. Cardinality({}) = 0
  BY FS_EmptySet
<1>3. Held
  BY <1>2 DEF Init, Held
<1>4. Owners
  BY DEF Init, Owners
<1> QED
  BY <1>1, <1>3, <1>4, NoPoolFacts DEF Init, PInv

LEMMA PStep == PInv /\ [Next]_vars => PInv'
<1> SUFFICES ASSUME PInv, [Next]_vars PROVE PInv'
  OBVIOUS
<1> USE DEF PInv
<1>1. CASE UNCHANGED vars
  BY <1>1 DEF vars, Held, Owners, Live
<1>2. ASSUME NEW c \in Container, Acquire(c)
      PROVE  PInv'
  <2>1. /\ holds' = holds \cup {c} /\ c \notin holds /\ counter' = counter + 1
        /\ UNCHANGED owned /\ Live' = Live
        /\ instance' = IF instance = NoPool THEN NewPool ELSE instance
    BY <1>2 DEF Acquire, Live
  <2>2. IsFiniteSet(holds)
    BY FS_Subset, ContainerAssumption DEF Held
  <2>3. Cardinality(holds') = counter'
    BY <2>1, <2>2, FS_AddElement DEF Held
  <2>4. Owners'
    BY <2>1 DEF Owners
  <2>5. CASE instance = NoPool
    <3>1. holds = {} /\ Live = {}
      BY <2>5 DEF Held, Owners, Live
    <3>2. Held'
      BY <1>2, <2>1, <2>3, <2>5, NewPoolFacts DEF Held
    <3>3. Split(instance', Live')
      BY <2>1, <2>5, <3>1, NewPoolFacts
    <3> QED
      BY <2>4, <3>2, <3>3
  <2>6. CASE instance # NoPool
    <3>1. Held'
      BY <1>2, <2>1, <2>3, <2>6 DEF Held
    <3> QED
      BY <2>1, <2>4, <2>6, <3>1
  <2> QED
    BY <2>5, <2>6
<1>3. ASSUME NEW c \in Container, NewElement(c)
      PROVE  PInv'
  <2> DEFINE slot == Allocated(instance)
             more == Allocate(instance)
             live == Live
             new == owned[c] \cup {slot}
  <2>1. /\ c \in holds /\ UNCHANGED <<counter, holds>>
        /\ instance' = more /\ owned' = [owned EXCEPT ![c] = new]
    BY <1>3 DEF NewElement
  <2>2. InUse(instance) /\ Split(instance, live)
    BY <2>1 DEF Held
  <2>3. slot = Allocated(instance) /\ more = Allocate(instance)
    OBVIOUS
  <2> HIDE DEF slot, more, live
  <2>4. /\ InUse(more) /\ slot \in Slot /\ slot \notin live
        /\ Split(more, live \cup {slot})
    BY <2>2, <2>3, AllocateFacts
  <2>5. new \in SUBSET Slot
    BY <2>4 DEF Owners
  <2> HIDE DEF new
  <2>6. /\ owned' \in [Container -> SUBSET Slot]
        /\ Live' = (Live \ owned[c]) \cup new
        /\ owned[c] \subseteq Live
    BY <2>1, <2>5, LiveFacts
  <2>7. Live' = live \cup {slot}
    BY <2>6 DEF live, new
  <2>8. Held'
    BY <2>1, <2>4, NoPoolFacts DEF Held
  <2>9. Owners'
    <3>1. \A d \in Container : owned'[d] = IF d = c THEN new ELSE owned[d]
      BY <2>1 DEF Owners
    <3>2. \A d \in Container : slot \notin owned[d]
      BY <2>4 DEF live, Live
    <3>3. ASSUME NEW d \in Container \ holds'
          PROVE  owned'[d] = {}
      BY <2>1, <3>1 DEF Owners
    <3>4. ASSUME NEW a \in Container, NEW b \in Container, a # b
          PROVE  owned'[a] \cap owned'[b] = {}
      BY <3>1, <3>2, <3>4 DEF Owners, new
    <3> QED
      BY <2>6, <3>3, <3>4 DEF Owners
  <2> QED
    BY <2>1, <2>4, <2>7, <2>8, <2>9
<1>4. ASSUME NEW c \in Container, DeleteElement(c)
      PROVE  PInv'
  <2>1. PICK slot \in owned[c] :
          /\ instance' = Deallocate(instance, slot)
          /\ owned' = [owned EXCEPT ![c] = @ \ {slot}]
    BY <1>4 DEF DeleteElement
  <2> DEFINE more == Deallocate(instance, slot)
             live == Live
             new == owned[c] \ {slot}
  <2>2. c \in holds /\ UNCHANGED <<counter, holds>> /\ instance' = more
        /\ owned' = [owned EXCEPT ![c] = new]
    BY <1>4, <2>1 DEF DeleteElement
  <2>3. InUse(instance) /\ Split(instance, live) /\ slot \in Slot /\ slot \in live
    BY <2>2 DEF Held, Owners, Live
  <2>4. more = Deallocate(instance, slot)
    OBVIOUS
  <2> HIDE DEF more, live
  <2>5. InUse(more) /\ Split(more, live \ {slot})
    BY <2>3, <2>4, DeallocateFacts
  <2>6. new \in SUBSET Slot
    BY DEF Owners
  <2> HIDE DEF new
  <2>7. /\ owned' \in [Container -> SUBSET Slot]
        /\ Live' = (Live \ owned[c]) \cup new
        /\ owned[c] \subseteq Live
    BY <2>2, <2>6, LiveFacts
  <2>8. Live' = live \ {slot}
    BY <2>1, <2>7 DEF live, new
  <2>9. Held'
    BY <2>2, <2>5, NoPoolFacts DEF Held
  <2>10. Owners'
    <3>1. \A d \in Container : owned'[d] = IF d = c THEN new ELSE owned[d]
      BY <2>2 DEF Owners
    <3>2. ASSUME NEW d \in Container \ holds'
          PROVE  owned'[d] = {}
      BY <2>2, <3>1 DEF Owners
    <3>3. ASSUME NEW a \in Container, NEW b \in Container, a # b
          PROVE  owned'[a] \cap owned'[b] = {}
      BY <3>1, <3>3 DEF Owners, new
    <3> QED
      BY <2>7, <3>2, <3>3 DEF Owners
  <2> QED
    BY <2>2, <2>5, <2>8, <2>9, <2>10
<1>5. ASSUME NEW c \in Container, Release(c)
      PROVE  PInv'
  <2>1. /\ c \in holds /\ owned[c] = {} /\ counter' = counter - 1
        /\ holds' = holds \ {c} /\ UNCHANGED owned /\ Live' = Live
        /\ instance' = IF counter' = 0 THEN NoPool ELSE instance
    BY <1>5 DEF Release, Live
  <2>2. IsFiniteSet(holds) /\ IsFiniteSet(holds')
    BY <2>1, FS_Subset, ContainerAssumption DEF Held
  <2>3. Cardinality(holds') = counter'
    BY <2>1, <2>2, FS_RemoveElement DEF Held
  <2>4. counter' = 0 <=> holds' = {}
    BY <2>2, <2>3, FS_EmptySet
  <2>5. Owners'
    BY <2>1 DEF Owners
  <2>6. CASE holds' = {}
    <3>1. instance' = NoPool
      BY <2>1, <2>4, <2>6
    <3>2. Live' = {}
      BY <2>5, <2>6 DEF Owners, Live
    <3>3. Held'
      BY <2>3, <2>6, <3>1 DEF Held
    <3> QED
      BY <2>5, <3>1, <3>2, <3>3, NoPoolFacts
  <2>7. CASE holds' # {}
    <3>1. instance' = instance
      BY <2>1, <2>4, <2>7
    <3>2. Held'
      BY <2>1, <2>3, <2>7, <3>1 DEF Held
    <3> QED
      BY <2>1, <2>5, <3>1, <3>2
  <2> QED
    BY <2>6, <2>7
<1> QED
  BY <1>1, <1>2, <1>3, <1>4, <1>5 DEF Next

-----------------------------------------------------------------------------

(* Elements never share memory: a slot in use lies in a chunk, belongs to  *)
(* one container and is not on the free list, which names no slot twice.   *)
THEOREM SlotsNeverAliased == Spec => []NoAliasing
<1>1. PInv => NoAliasing
  BY DEF PInv, Split, Injective, Owners, Bumped, NoAliasing
<1> QED
  BY <1>1, PInit, PStep, PTL DEF Spec

(* Every slot ever handed out is in use or will be handed out again.       *)
THEOREM SlotsNeverLost == Spec => []NoLeak
<1>1. PInv => NoLeak
  BY DEF PInv, Split, NoLeak
<1> QED
  BY <1>1, PInit, PStep, PTL DEF Spec

(* The pool is deleted by the last container, not before and not later.    *)
THEOREM PoolLivesWhileHeld == Spec => []InstanceWhileHeld
<1>1. PInv => InstanceWhileHeld
  BY DEF PInv, Held, InstanceWhileHeld
<1> QED
  BY <1>1, PInit, PStep, PTL DEF Spec

-----------------------------------------------------------------------------

(* The slots ever handed out are as many as were in use at the same time.  *)
Sized ==
  /\ IsFiniteSet(Live)
  /\ peak \in 0..MaxLive
  /\ GrowsWithPeak

LEMMA NoPoolSized ==
  NoPool.free = <<>> /\ Len(<<>>) = 0 /\ NewPool.free = NoPool.free
<1> DEFINE chunks == Append(<<>>, IF ChunkSize < MaxChunk THEN ChunkSize ELSE MaxChunk)
           empty == [chunks |-> <<>>, current |-> 0, free |-> <<>>]
<1>1. NewPool = [empty EXCEPT !.chunks = chunks, !.current = 1]
  BY DEF NewPool, AllocateChunk
<1> HIDE DEF chunks
<1>2. NewPool.free = empty.free
  BY <1>1
<1> QED
  BY <1>2 DEF NoPool

(* The length of the free list, by operation; the other parts stay.        *)
LEMMA FreeLengths ==
  ASSUME NEW pool, InUse(pool), NEW slot \in Slot
  PROVE  /\ Len(pool.free) \in Nat
         /\ Len(Allocate(pool).free) = IF pool.free = <<>> THEN 0 ELSE Len(pool.free) - 1
         /\ pool.free = <<>> <=> Len(pool.free) = 0
         /\ Len(Deallocate(pool, slot).free) = Len(pool.free) + 1
<1>1. pool \in PoolType /\ pool.free \in Seq(Slot)
  BY DEF InUse, PoolType
<1>2. Len(pool.free) \in Nat /\ (pool.free = <<>> <=> Len(pool.free) = 0)
  BY <1>1
<1>3. ASSUME pool.free # <<>>
      PROVE  Len(Allocate(pool).free) = Len(pool.free) - 1
  <2>1. Allocate(pool) = [pool EXCEPT !.free = Tail(pool.free)]
    BY <1>3 DEF Allocate
  <2>2. Allocate(pool).free = Tail(pool.free)
    BY <1>1, <2>1 DEF PoolType
  <2> QED
    BY <1>1, <1>3, <2>2
<1>4. ASSUME pool.free = <<>>
      PROVE  Len(Allocate(pool).free) = 0
  <2> DEFINE sz == LastSize(pool) * 2
             chunks == Append(pool.chunks, IF sz < MaxChunk THEN sz ELSE MaxChunk)
             fresh == [pool EXCEPT !.chunks = chunks, !.current = 1]
             mid == IF Exhausted(pool) THEN fresh ELSE pool
  <2>1. Allocate(pool) = [mid EXCEPT !.current = @ + 1]
    BY <1>4 DEF Allocate, WithCurrent, AllocateChunk
  <2> HIDE DEF chunks
  <2>2. pool = [chunks |-> pool.chunks, current |-> pool.current, free |-> pool.free]
    BY <1>1 DEF PoolType
  <2>3. fresh = [chunks |-> chunks, current |-> 1, free |-> pool.free]
    <3> HIDE DEF fresh
    <3>1. fresh = [pool EXCEPT !.chunks = chunks, !.current = 1]
      BY DEF fresh
    <3> QED
      BY <2>2, <3>1
  <2> HIDE DEF fresh
  <2>4. PICK a, b : mid = [chunks |-> a, current |-> b, free |-> pool.free]
    BY <2>2, <2>3
  <2> HIDE DEF mid
  <2>5. Allocate(pool).free = <<>>
    BY <1>4, <2>1, <2>4
  <2> QED
    BY <2>5
<1>5. Len(Deallocate(pool, slot).free) = Len(pool.free) + 1
  <2>1. Deallocate(pool, slot) = [pool EXCEPT !.free = <<slot>> \o pool.free]
    BY DEF Deallocate
  <2>2. Deallocate(pool, slot).free = <<slot>> \o pool.free
    BY <1>1, <2>1 DEF PoolType
  <2> QED
    BY <1>1, <2>2
<1> QED
  BY <1>2, <1>3, <1>4, <1>5

LEMMA SizedInit == Init => Sized
<1> SUFFICES ASSUME Init PROVE Sized
  OBVIOUS
<1>1. Live = {}
  BY DEF Init, Live
<1> QED
  BY <1>1, FS_EmptySet, NoPoolSized, ContainerAssumption DEF Init, Sized, GrowsWithPeak

LEMMA SizedStep == PInv /\ Sized /\ [Next]_vars => Sized'
<1> SUFFICES ASSUME PInv, Sized, [Next]_vars PROVE Sized'
  OBVIOUS
<1> USE DEF PInv
<1>1. CASE UNCHANGED vars
  BY <1>1 DEF vars, Live, Sized, GrowsWithPeak
<1>2. ASSUME NEW c \in Container, Acquire(c)
      PROVE  Sized'
  <2>1. Live' = Live /\ UNCHANGED peak /\ instance'.free = instance.free
    BY <1>2, NoPoolSized DEF Acquire, Live
  <2> QED
    BY <2>1 DEF Sized, GrowsWithPeak
<1>3. ASSUME NEW c \in Container, NewElement(c)
      PROVE  Sized'
  <2> DEFINE slot == Allocated(instance)
             live == Live
             new == owned[c] \cup {slot}
  <2>1. /\ c \in holds /\ Cardinality(Live) < MaxLive
        /\ instance' = Allocate(instance) /\ owned' = [owned EXCEPT ![c] = new]
        /\ peak' = IF Cardinality(Live) + 1 > peak THEN Cardinality(Live) + 1 ELSE peak
    BY <1>3 DEF NewElement
  <2>2. InUse(instance) /\ Split(instance, live)
    BY <2>1 DEF Held
  <2>3. slot = Allocated(instance)
    OBVIOUS
  <2> HIDE DEF slot, live
  <2>4. slot \in Slot /\ slot \notin live
    <3> DEFINE more == Allocate(instance)
    <3>1. more = Allocate(instance)
      OBVIOUS
    <3> HIDE DEF more
    <3> QED
      BY <2>2, <2>3, <3>1, AllocateFacts
  <2>5. new \in SUBSET Slot
    BY <2>4 DEF Owners
  <2> HIDE DEF new
  <2>6. Live' = (Live \ owned[c]) \cup new /\ owned[c] \subseteq Live
    BY <2>1, <2>5, LiveFacts
  <2>7. Live' = live \cup {slot}
    BY <2>6 DEF live, new
  <2>8. IsFiniteSet(Live') /\ Cardinality(Live') = Cardinality(Live) + 1
    BY <2>4, <2>7, FS_AddElement DEF live, Sized
  <2>9. Cardinality(Live) \in Nat
    BY FS_CardinalityType DEF Sized
  <2>10. peak' \in 0..MaxLive
    BY <2>1, <2>9, ContainerAssumption DEF Sized
  <2>11. Cardinality(Live') + Len(instance'.free) = peak'
    BY <2>1, <2>2, <2>4, <2>8, <2>9, FreeLengths DEF Sized, GrowsWithPeak
  <2> QED
    BY <2>8, <2>10, <2>11 DEF Sized, GrowsWithPeak
<1>4. ASSUME NEW c \in Container, DeleteElement(c)
      PROVE  Sized'
  <2>1. PICK slot \in owned[c] :
          /\ instance' = Deallocate(instance, slot)
          /\ owned' = [owned EXCEPT ![c] = @ \ {slot}]
    BY <1>4 DEF DeleteElement
  <2> DEFINE new == owned[c] \ {slot}
  <2>2. c \in holds /\ UNCHANGED peak /\ owned' = [owned EXCEPT ![c] = new]
    BY <1>4, <2>1 DEF DeleteElement
  <2>3. InUse(instance) /\ slot \in Slot /\ slot \in Live
    BY <2>2 DEF Held, Owners, Live
  <2>4. new \in SUBSET Slot
    BY DEF Owners
  <2> HIDE DEF new
  <2>5. Live' = (Live \ owned[c]) \cup new /\ owned[c] \subseteq Live
    BY <2>2, <2>4, LiveFacts
  <2>6. Live' = Live \ {slot}
    BY <2>1, <2>5 DEF new
  <2>7. /\ IsFiniteSet(Live') /\ Cardinality(Live') = Cardinality(Live) - 1
        /\ Cardinality(Live) \in Nat
    BY <2>3, <2>6, FS_RemoveElement, FS_CardinalityType DEF Sized
  <2>8. Cardinality(Live') + Len(instance'.free) = peak'
    BY <2>1, <2>2, <2>3, <2>7, FreeLengths DEF Sized, GrowsWithPeak
  <2> QED
    BY <2>2, <2>7, <2>8 DEF Sized, GrowsWithPeak
<1>5. ASSUME NEW c \in Container, Release(c)
      PROVE  Sized'
  <2>1. /\ owned[c] = {} /\ UNCHANGED owned /\ Live' = Live /\ c \in holds
        /\ counter' = counter - 1 /\ holds' = holds \ {c}
        /\ instance' = IF counter' = 0 THEN NoPool ELSE instance
        /\ peak' = IF counter' = 0 THEN 0 ELSE peak
    BY <1>5 DEF Release, Live
  <2>2. CASE counter' = 0
    <3>1. Held' /\ Owners'
      BY <1>5, PStep DEF Next
    <3>2. holds' = {}
      BY <2>1, <2>2, <3>1, NoPoolFacts DEF Held
    <3>3. Live' = {}
      BY <3>1, <3>2 DEF Owners, Live
    <3> QED
      BY <2>1, <2>2, <3>3, FS_EmptySet, NoPoolSized, ContainerAssumption
         DEF Sized, GrowsWithPeak
  <2>3. CASE counter' # 0
    BY <2>1, <2>3 DEF Sized, GrowsWithPeak
  <2> QED
    BY <2>2, <2>3
<1> QED
  BY <1>1, <1>2, <1>3, <1>4, <1>5 DEF Next

(* The pool takes from its chunks as many slots as were ever in use at the *)
(* same time, and no more: what is deleted is handed out first.            *)
THEOREM PoolGrowsWithPeak == Spec => []GrowsWithPeak
<1>1. Sized => GrowsWithPeak
  BY DEF Sized
<1> QED
  BY <1>1, PInit, PStep, SizedInit, SizedStep, PTL DEF Spec

(* The state of the pool, of its counter and of its users is well-typed.   *)
THEOREM PoolTypeCorrect == Spec => []TypeOK
<1>1. PInv /\ Sized => TypeOK
  <2> SUFFICES ASSUME PInv, Sized PROVE TypeOK
    OBVIOUS
  <2>1. instance \in PoolType
    <3>1. CASE holds = {}
      BY <3>1, NoPoolFacts DEF PInv, Held
    <3>2. CASE holds # {}
      BY <3>2 DEF PInv, Held, InUse
    <3> QED
      BY <3>1, <3>2
  <2>2. counter \in 0..Cardinality(Container)
    BY FS_Subset, FS_CardinalityType, ContainerAssumption DEF PInv, Held
  <2> QED
    BY <2>1, <2>2 DEF PInv, Held, Owners, Sized, Slot, PoolType, TypeOK
<1> QED
  BY <1>1, PInit, PStep, SizedInit, SizedStep, PTL DEF Spec

-----------------------------------------------------------------------------

(* The invariant of the strings, over their memory, the strings alive and  *)
(* the texts they were given.  That a counter says how many strings have   *)
(* it is of use only with two facts the code never writes down: strings    *)
(* with one counter have one block, and strings with one block have one    *)
(* counter; and the counters taken from the pool are not free in it.       *)
Kinds == {"fixed", "variable"} \cup Counted

(* The fields of the pool, which keeps no list of what is used.            *)
IsPool(pool) == pool = [chunks |-> pool.chunks, free |-> pool.free, used |-> {}]

(* A pool all of whose elements are free but those that are taken.         *)
PoolWith(pool, taken) ==
  /\ IsPool(pool)
  /\ pool.chunks \in Seq(Nat \ {0})
  /\ pool.chunks # <<>>
  /\ pool.free \in Seq(Elements(pool))
  /\ \A i, j \in DOMAIN pool.free : pool.free[i] = pool.free[j] => i = j
  /\ taken \subseteq Elements(pool)
  /\ {pool.free[i] : i \in DOMAIN pool.free} = Elements(pool) \ taken

(* The fields of the memory, a function, and the fields of a string.       *)
IsMemory(m) == m = [chars |-> m.chars, counter |-> m.counter, pool |-> m.pool]

IsTable(f) == f = [b \in DOMAIN f |-> f[b]]

(* Memory, strings and texts as the code lays them out.                    *)
MemoryLayout(m) ==
  /\ IsMemory(m)
  /\ IsTable(m.chars) /\ IsTable(m.counter)
  /\ DOMAIN m.chars \subseteq Nat \ {NoBlock} /\ IsFiniteSet(DOMAIN m.chars)
  /\ IsFiniteSet(DOMAIN m.counter)

IsString(s) == s = [data |-> s.data, count |-> s.count]

StringLayout(S, G) ==
  /\ IsTable(S) /\ IsTable(G)
  /\ DOMAIN S \subseteq String
  /\ DOMAIN G = DOMAIN S
  /\ \A x \in DOMAIN S : IsString(S[x])

(* The strings with a counter.                                             *)
Sharers(S, c) == {x \in DOMAIN S : S[x].count = c}

(* The blocks are those of the strings, and the characters in them theirs. *)
BlocksOwned(m, S) ==
  /\ kind = "fixed" => m.chars = <<>>
  /\ kind # "fixed" => DOMAIN m.chars = {S[x].data : x \in DOMAIN S} \ {NoBlock}

(* TextOf, and that every string reads as it should, in any memory.        *)
TextIn(m, s) ==
  IF kind = "fixed" THEN s.data
  ELSE IF s.data = NoBlock THEN <<>> ELSE m.chars[s.data]

Readable(m, S, G) == \A x \in DOMAIN S : TextIn(m, S[x]) = G[x]

(* The strings that share a counter share a block, and no others do.       *)
SharedTogether(S) ==
  \A x, y \in DOMAIN S :
    /\ kind = "variable" /\ S[x].data = S[y].data /\ S[x].data # NoBlock => x = y
    /\ kind \in Counted /\ S[x].count = S[y].count => S[x].data = S[y].data
    /\ kind \in Counted /\ S[x].data = S[y].data /\ S[x].data # NoBlock =>
         S[x].count = S[y].count

(* The counters are those of the strings, count them, and are the pool's.  *)
CountsExact(m, S) ==
  /\ kind \in Counted => DOMAIN m.counter = {S[x].count : x \in DOMAIN S}
  /\ kind \notin Counted => m.counter = <<>>
  /\ \A c \in DOMAIN m.counter : m.counter[c] = Cardinality(Sharers(S, c))
  /\ PoolWith(m.pool, IF kind = "pooled" THEN DOMAIN m.counter ELSE {})

(* All of it, and the invariant: of the memory as it is.                   *)
Good(m, S, G) ==
  /\ MemoryLayout(m)
  /\ StringLayout(S, G)
  /\ BlocksOwned(m, S)
  /\ Readable(m, S, G)
  /\ SharedTogether(S)
  /\ CountsExact(m, S)

StrInv == kind \in Kinds /\ Good(memory, string, given)

(* Of the strings other than one that was read after it was freed, only    *)
(* that they can be read is still known.                                   *)
StrInvOrStale == IF stale = {} THEN StrInv ELSE TextsKept

-----------------------------------------------------------------------------

LEMMA PoolRecord ==
  ASSUME NEW p, NEW T, PoolWith(p, T), NEW f, NEW q, q = [p EXCEPT !.free = f]
  PROVE  q = [chunks |-> p.chunks, free |-> f, used |-> {}]
<1>1. PICK a, b : p = [chunks |-> a, free |-> b, used |-> {}]
  BY DEF PoolWith, IsPool
<1> QED
  BY <1>1

LEMMA ElementIn ==
  ASSUME NEW p, NEW c, NEW i
  PROVE  <<c, i>> \in Elements(p) <=> c \in DOMAIN p.chunks /\ i \in 1 .. p.chunks[c]
<1>1. ASSUME <<c, i>> \in Elements(p)
      PROVE  c \in DOMAIN p.chunks /\ i \in 1 .. p.chunks[c]
  <2>1. PICK d \in DOMAIN p.chunks : <<c, i>> \in {d} \X (1 .. p.chunks[d])
    BY <1>1 DEF Elements
  <2> QED
    BY <2>1
<1>2. ASSUME c \in DOMAIN p.chunks, i \in 1 .. p.chunks[c]
      PROVE  <<c, i>> \in Elements(p)
  <2>1. <<c, i>> \in {c} \X (1 .. p.chunks[c])
    BY <1>2
  <2> QED
    BY <1>2, <2>1 DEF Elements
<1> QED
  BY <1>1, <1>2

LEMMA ElementIs ==
  ASSUME NEW p, NEW e \in Elements(p)
  PROVE  \E c, i : c \in DOMAIN p.chunks /\ i \in 1 .. p.chunks[c] /\ e = <<c, i>>
<1>1. PICK c \in DOMAIN p.chunks : e \in {c} \X (1 .. p.chunks[c])
  BY DEF Elements
<1> QED
  BY <1>1

(* A new chunk, all of it free, for a pool with no other free element.     *)
LEMMA AddChunkFacts ==
  ASSUME NEW p, NEW T, IsPool(p),
         p.chunks \in Seq(Nat \ {0}), Elements(p) = T, NEW size \in Nat \ {0}
  PROVE  PoolWith(AddChunk(p, size), T) /\ AddChunk(p, size).free # <<>>
<1> DEFINE n == Len(p.chunks) + 1
           q == AddChunk(p, size)
<1>1. size \in Nat \ {0} /\ n \in Nat \ {0} /\ DOMAIN p.chunks = 1 .. n - 1
  OBVIOUS
<1>2. q = [chunks |-> Append(p.chunks, size), free |-> Chunk(n, size), used |-> {}]
  <2> DEFINE c == Append(p.chunks, size)
             f == Chunk(n, size)
  <2>1. q = [p EXCEPT !.chunks = c, !.free = f]
    BY DEF AddChunk
  <2> HIDE DEF c, f, q
  <2>2. PICK a, b : p = [chunks |-> a, free |-> b, used |-> {}]
    BY DEF IsPool
  <2>3. q = [chunks |-> c, free |-> f, used |-> {}]
    BY <2>1, <2>2
  <2> QED
    BY <2>3 DEF c, f
<1>3. /\ q.chunks \in Seq(Nat \ {0}) /\ DOMAIN q.chunks = 1 .. n
      /\ q.chunks[n] = size /\ \A c \in 1 .. n - 1 : q.chunks[c] = p.chunks[c]
  <2>1. p.chunks \in Seq(Nat \ {0}) /\ Len(p.chunks) = n - 1
    BY <1>1
  <2>2. q.chunks = Append(p.chunks, size)
    BY <1>2
  <2> HIDE DEF n, q
  <2> QED
    BY <1>1, <2>1, <2>2
<1>4. q.free = [i \in 1 .. size |-> <<n, i>>]
  BY <1>2 DEF Chunk
<1>5. DOMAIN q.free = 1 .. size /\ \A i \in 1 .. size : q.free[i] = <<n, i>>
  BY <1>4
<1> HIDE DEF n, q
<1>7. \A e : e \in Elements(q) <=> e \in T \/ \E i \in 1 .. size : e = <<n, i>>
  <2>1. ASSUME NEW e \in Elements(q)
        PROVE  e \in T \/ \E i \in 1 .. size : e = <<n, i>>
    <3>1. PICK c, i : c \in DOMAIN q.chunks /\ i \in 1 .. q.chunks[c] /\ e = <<c, i>>
      BY ElementIs
    <3>2. CASE c = n
      BY <1>3, <3>1, <3>2
    <3>3. CASE c # n
      <4>1. c \in 1 .. n - 1
        BY <1>1, <1>3, <3>1, <3>3
      <4>2. p.chunks[c] = q.chunks[c]
        BY <1>3, <4>1
      <4>3. i \in 1 .. p.chunks[c]
        BY <3>1, <4>2
      <4> QED
        BY <1>1, <3>1, <4>1, <4>3, ElementIn
    <3> QED
      BY <3>2, <3>3
  <2>2. ASSUME NEW e \in T
        PROVE  e \in Elements(q)
    <3>1. PICK c, i : c \in DOMAIN p.chunks /\ i \in 1 .. p.chunks[c] /\ e = <<c, i>>
      BY <2>2, ElementIs
    <3>2. c \in 1 .. n - 1 /\ c \in DOMAIN q.chunks
      BY <1>1, <1>3, <3>1
    <3>3. p.chunks[c] = q.chunks[c]
      BY <1>3, <3>2
    <3>4. i \in 1 .. q.chunks[c]
      BY <3>1, <3>3
    <3> QED
      BY <3>1, <3>2, <3>4, ElementIn
  <2>3. ASSUME NEW i \in 1 .. size
        PROVE  <<n, i>> \in Elements(q)
    <3>1. n \in DOMAIN q.chunks /\ i \in 1 .. q.chunks[n]
      BY <1>1, <1>3, <2>3
    <3> QED
      BY <3>1, ElementIn
  <2> QED
    BY <2>1, <2>2, <2>3
<1>8. \A i : <<n, i>> \notin T
  <2>1. ASSUME NEW i, <<n, i>> \in T
        PROVE  FALSE
    <3>1. n \in DOMAIN p.chunks
      BY <2>1, ElementIn
    <3> QED
      BY <1>1, <3>1
  <2> QED
    BY <2>1
<1>9. {q.free[i] : i \in DOMAIN q.free} = Elements(q) \ T
  BY <1>5, <1>7, <1>8
<1>10. q.free \in Seq(Elements(q)) /\ q.free # <<>>
  <2>1. \A i \in 1 .. size : <<n, i>> \in Elements(q)
    BY <1>7
  <2>2. [i \in 1 .. size |-> <<n, i>>] \in [1 .. size -> Elements(q)]
    BY <2>1
  <2>3. q.free \in Seq(Elements(q))
    BY <1>1, <1>4, <2>2
  <2> QED
    BY <1>1, <1>5, <2>3
<1>11. \A i, j \in DOMAIN q.free : q.free[i] = q.free[j] => i = j
  BY <1>5
<1>12. IsPool(q) /\ q.chunks # <<>>
  BY <1>1, <1>2, <1>3 DEF IsPool
<1>13. T \subseteq Elements(q)
  BY <1>7
<1>14. PoolWith(q, T) /\ q.free # <<>>
  BY <1>3, <1>9, <1>10, <1>11, <1>12, <1>13 DEF PoolWith
<1> QED
  BY <1>14 DEF q

LEMMA WithFreeFacts ==
  ASSUME NEW p, NEW T, PoolWith(p, T)
  PROVE  PoolWith(WithFree(p), T) /\ WithFree(p).free # <<>>
<1>1. CASE p.free # <<>>
  BY <1>1 DEF WithFree
<1>2. CASE p.free = <<>>
  <2>1. 2 * NewestSize(p) \in Nat \ {0}
    <3>1. p.chunks \in Seq(Nat \ {0}) /\ p.chunks # <<>>
      BY DEF PoolWith
    <3>2. p.chunks[Len(p.chunks)] \in Nat \ {0}
      BY <3>1
    <3> QED
      BY <3>2 DEF NewestSize, Last
  <2>2. Elements(p) = T
    <3>1. DOMAIN p.free = {}
      BY <1>2
    <3> QED
      BY <3>1 DEF PoolWith
  <2>3. /\ IsPool(p)
        /\ p.chunks \in Seq(Nat \ {0})
    BY DEF PoolWith
  <2> QED
    BY <1>2, <2>1, <2>2, <2>3, AddChunkFacts DEF WithFree
<1> QED
  BY <1>1, <1>2

(* The element handed out was free and is taken.                           *)
LEMMA ValueAddFacts ==
  ASSUME NEW p, NEW T, PoolWith(p, T)
  PROVE  /\ NextElement(p) \notin T
         /\ PoolWith(ValueAdd(p), T \cup {NextElement(p)})
<1> DEFINE q == WithFree(p)
           r == ValueAdd(p)
           e == NextElement(p)
<1>1. PoolWith(q, T) /\ q.free # <<>>
  BY WithFreeFacts
<1>2. e = q.free[1] /\ Len(q.free) \in Nat \ {0} /\ DOMAIN q.free = 1 .. Len(q.free)
  BY <1>1 DEF NextElement, PoolWith
<1>3. r = [chunks |-> q.chunks, free |-> Tail(q.free), used |-> {}]
  <2>1. r = [q EXCEPT !.free = Tail(@)]
    BY DEF ValueAdd
  <2> QED
    BY <1>1, <2>1, PoolRecord
<1>4. /\ DOMAIN Tail(q.free) = 1 .. Len(q.free) - 1
      /\ \A i \in 1 .. Len(q.free) - 1 : Tail(q.free)[i] = q.free[i + 1]
      /\ Tail(q.free) \in Seq(Elements(q))
  BY <1>1, <1>2 DEF PoolWith
<1>5. Elements(r) = Elements(q)
  BY <1>3 DEF Elements
<1>6. /\ r.chunks = q.chunks /\ r.free = Tail(q.free)
      /\ IsPool(r)
  BY <1>3 DEF IsPool
<1>7. e \in Elements(q) \ T
  <2>1. {q.free[i] : i \in DOMAIN q.free} = Elements(q) \ T
    BY <1>1 DEF PoolWith
  <2>2. 1 \in DOMAIN q.free
    BY <1>2
  <2> HIDE DEF e, q
  <2> QED
    BY <1>2, <2>1, <2>2
<1> HIDE DEF q, r, e
<1>8. \A i, j \in DOMAIN r.free : r.free[i] = r.free[j] => i = j
  <2> SUFFICES ASSUME NEW i \in 1 .. Len(q.free) - 1, NEW j \in 1 .. Len(q.free) - 1,
                      q.free[i + 1] = q.free[j + 1]
               PROVE  i = j
    BY <1>4, <1>6
  <2>1. i + 1 \in DOMAIN q.free /\ j + 1 \in DOMAIN q.free
    BY <1>2
  <2>2. i + 1 = j + 1
    BY <1>1, <2>1 DEF PoolWith
  <2> QED
    BY <2>2
<1>9. {r.free[i] : i \in DOMAIN r.free} = Elements(q) \ (T \cup {e})
  <2>1. ASSUME NEW i \in DOMAIN r.free
        PROVE  r.free[i] \in Elements(q) \ (T \cup {e})
    <3>1. r.free[i] = q.free[i + 1] /\ i + 1 \in DOMAIN q.free /\ i + 1 # 1 /\ 1 \in DOMAIN q.free
      BY <1>2, <1>4, <1>6
    <3>2. q.free[i + 1] \in Elements(q) \ T /\ q.free[i + 1] # q.free[1]
      BY <1>1, <3>1 DEF PoolWith
    <3> QED
      BY <1>2, <3>1, <3>2
  <2>2. ASSUME NEW f \in Elements(q) \ (T \cup {e})
        PROVE  \E i \in DOMAIN r.free : f = r.free[i]
    <3>1. PICK k \in DOMAIN q.free : f = q.free[k]
      BY <1>1 DEF PoolWith
    <3>2. k # 1
      BY <1>2, <3>1
    <3>3. k - 1 \in 1 .. Len(q.free) - 1 /\ k - 1 + 1 = k
      BY <1>2, <3>2
    <3> QED
      BY <1>4, <1>6, <3>1, <3>3
  <2> QED
    BY <2>1, <2>2
<1>10. PoolWith(r, T \cup {e})
  BY <1>1, <1>4, <1>5, <1>6, <1>7, <1>8, <1>9 DEF PoolWith
<1> QED
  BY <1>7, <1>10 DEF e, r

(* An element given back is free.                                          *)
LEMMA ValueDelFacts ==
  ASSUME NEW p, NEW T, NEW e \in T, PoolWith(p, T)
  PROVE  PoolWith(ValueDel(p, e), T \ {e})
<1> DEFINE r == ValueDel(p, e)
           n == Len(p.free)
<1>1. r = [chunks |-> p.chunks, free |-> <<e>> \o p.free, used |-> {}]
  BY PoolRecord DEF ValueDel
<1>2. e \in Elements(p)
  BY DEF PoolWith
<1>3. p.free \in Seq(Elements(p)) /\ n \in Nat /\ DOMAIN p.free = 1 .. n
  BY DEF PoolWith
<1>4. /\ r.chunks = p.chunks /\ r.free = <<e>> \o p.free
      /\ IsPool(r)
  BY <1>1 DEF IsPool
<1>5. Elements(r) = Elements(p)
  BY <1>4 DEF Elements
<1>6. /\ r.free \in Seq(Elements(p)) /\ DOMAIN r.free = 1 .. n + 1
      /\ r.free[1] = e /\ \A i \in 2 .. n + 1 : r.free[i] = p.free[i - 1]
  BY <1>2, <1>3, <1>4
<1>7. \A i \in DOMAIN p.free : p.free[i] # e /\ p.free[i] \in Elements(p) \ T
  BY DEF PoolWith
<1> HIDE DEF r, n
<1>8. \A i, j \in DOMAIN r.free : r.free[i] = r.free[j] => i = j
  <2> SUFFICES ASSUME NEW i \in 1 .. n + 1, NEW j \in 1 .. n + 1, r.free[i] = r.free[j]
               PROVE  i = j
    BY <1>6
  <2>1. CASE i = 1 /\ j = 1
    BY <2>1
  <2>2. CASE i # 1 /\ j = 1
    <3>1. i \in 2 .. n + 1 /\ i - 1 \in DOMAIN p.free
      BY <1>3, <2>2
    <3> QED
      BY <1>6, <1>7, <2>2, <3>1
  <2>3. CASE i = 1 /\ j # 1
    <3>1. j \in 2 .. n + 1 /\ j - 1 \in DOMAIN p.free
      BY <1>3, <2>3
    <3> QED
      BY <1>6, <1>7, <2>3, <3>1
  <2>4. CASE i # 1 /\ j # 1
    <3>1. /\ i \in 2 .. n + 1 /\ i - 1 \in DOMAIN p.free
          /\ j \in 2 .. n + 1 /\ j - 1 \in DOMAIN p.free
      BY <1>3, <2>4
    <3>2. p.free[i - 1] = p.free[j - 1]
      BY <1>6, <3>1
    <3>3. i - 1 = j - 1
      BY <3>1, <3>2 DEF PoolWith
    <3> QED
      BY <3>1, <3>3
  <2> QED
    BY <2>1, <2>2, <2>3, <2>4
<1>9. {r.free[i] : i \in DOMAIN r.free} = Elements(p) \ (T \ {e})
  <2>1. ASSUME NEW i \in DOMAIN r.free
        PROVE  r.free[i] \in Elements(p) \ (T \ {e})
    <3>1. CASE i = 1
      BY <1>2, <1>6, <3>1
    <3>2. CASE i # 1
      <4>1. i \in 2 .. n + 1 /\ i - 1 \in DOMAIN p.free
        BY <1>3, <1>6, <3>2
      <4> QED
        BY <1>6, <1>7, <4>1
    <3> QED
      BY <3>1, <3>2
  <2>2. ASSUME NEW f \in Elements(p) \ (T \ {e})
        PROVE  \E i \in DOMAIN r.free : f = r.free[i]
    <3>1. CASE f = e
      <4>1. 1 \in DOMAIN r.free
        BY <1>3, <1>6
      <4> QED
        BY <1>6, <3>1, <4>1
    <3>2. CASE f # e
      <4>1. PICK k \in DOMAIN p.free : f = p.free[k]
        BY <3>2 DEF PoolWith
      <4>2. PICK j \in 2 .. n + 1 : j - 1 = k
        <5>1. k \in 1 .. n /\ n \in Nat
          BY <1>3
        <5>2. \A l \in Nat : \A i \in 1 .. l : \E j \in 2 .. l + 1 : j - 1 = i
          <6> TAKE l \in Nat
          <6> TAKE i \in 1 .. l
          <6> WITNESS i + 1 \in 2 .. l + 1
          <6> QED
            OBVIOUS
        <5> QED
          BY <5>1, <5>2
      <4>3. r.free[j] = p.free[k] /\ j \in DOMAIN r.free
        BY <1>3, <1>6, <4>2
      <4> QED
        BY <4>1, <4>3
    <3> QED
      BY <3>1, <3>2
  <2> QED
    BY <2>1, <2>2
<1>10. PoolWith(r, T \ {e})
  BY <1>4, <1>5, <1>6, <1>8, <1>9 DEF PoolWith
<1> QED
  BY <1>10 DEF r

-----------------------------------------------------------------------------

LEMMA WithFacts ==
  ASSUME NEW f, NEW a, NEW v
  PROVE  /\ DOMAIN With(f, a, v) = DOMAIN f \cup {a}
         /\ With(f, a, v)[a] = v
         /\ \A b \in DOMAIN f \ {a} : With(f, a, v)[b] = f[b]
         /\ IsTable(With(f, a, v))
BY DEF With, IsTable

LEMMA WithoutFacts ==
  ASSUME NEW f, NEW a
  PROVE  /\ DOMAIN Without(f, a) = DOMAIN f \ {a}
         /\ \A b \in DOMAIN f \ {a} : Without(f, a)[b] = f[b]
         /\ IsTable(Without(f, a))
BY DEF Without, IsTable

LEMMA NoTable == IsTable(<<>>) /\ DOMAIN <<>> = {}
<1>1. DOMAIN <<>> = {}
  OBVIOUS
<1>2. <<>> = [b \in {} |-> <<>>[b]]
  OBVIOUS
<1> QED
  BY <1>1, <1>2 DEF IsTable

LEMMA Replaced ==
  ASSUME NEW f, NEW a, NEW v
  PROVE  With(Without(f, a), a, v) = With(f, a, v)
<1>1. DOMAIN Without(f, a) \cup {a} = DOMAIN f \cup {a}
  BY WithoutFacts
<1>2. \A b \in DOMAIN f \cup {a} :
        (IF b = a THEN v ELSE Without(f, a)[b]) = (IF b = a THEN v ELSE f[b])
  BY WithoutFacts
<1> QED
  BY <1>1, <1>2 DEF With

(* There is always another block.                                          *)
LEMMA UnusedFacts ==
  ASSUME NEW A, IsFiniteSet(A)
  PROVE  Unused(A) \in Nat \ {0} /\ Unused(A) \notin A
<1> DEFINE n == Cardinality(A)
<1>1. n \in Nat
  BY FS_CardinalityType
<1>2. 1 .. n + 1 \subseteq A => FALSE
  <2>1. IsFiniteSet(1 .. n + 1) /\ Cardinality(1 .. n + 1) = n + 1
    <3>1. \A k \in Nat : 1 \in Int /\ k + 1 \in Int /\ (IF 1 > k + 1 THEN 0 ELSE (k + 1) - 1 + 1) = k + 1
      OBVIOUS
    <3> QED
      BY <1>1, <3>1, FS_Interval
  <2>2. 1 .. n + 1 \subseteq A => n + 1 <= n
    BY <2>1, FS_Subset
  <2> QED
    BY <1>1, <2>2
<1>3. \E b \in 1 .. n + 1 : b \notin A
  BY <1>2
<1>4. Unused(A) \in 1 .. n + 1 /\ Unused(A) \notin A
  BY <1>3 DEF Unused
<1> QED
  BY <1>1, <1>4

(* What the operations do to the parts of the memory.                      *)
LEMMA NewCharsFields ==
  ASSUME NEW m, IsMemory(m), NEW text
  PROVE  NewChars(m, text) = [chars |-> With(m.chars, NextChars(m), text),
                              counter |-> m.counter, pool |-> m.pool]
<1>1. PICK a, b, c : m = [chars |-> a, counter |-> b, pool |-> c]
  BY DEF IsMemory
<1> DEFINE q == NewChars(m, text)
           v == With(m.chars, NextChars(m), text)
<1>2. q = [m EXCEPT !.chars = v]
  BY DEF NewChars
<1> HIDE DEF q, v
<1>3. q = [chars |-> v, counter |-> m.counter, pool |-> m.pool]
  BY <1>1, <1>2
<1> QED
  BY <1>3 DEF q, v

LEMMA FreeCharsFields ==
  ASSUME NEW m, IsMemory(m), NEW b
  PROVE  FreeChars(m, b) = [chars |-> IF b = NoBlock THEN m.chars ELSE Without(m.chars, b),
                            counter |-> m.counter, pool |-> m.pool]
<1>1. CASE b = NoBlock
  BY <1>1 DEF FreeChars, IsMemory
<1>2. CASE b # NoBlock
  <2>1. PICK x, y, z : m = [chars |-> x, counter |-> y, pool |-> z]
    BY DEF IsMemory
  <2> DEFINE q == FreeChars(m, b)
             v == Without(m.chars, b)
  <2>2. q = [m EXCEPT !.chars = v]
    BY <1>2 DEF FreeChars
  <2> HIDE DEF q, v
  <2>3. q = [chars |-> v, counter |-> m.counter, pool |-> m.pool]
    BY <2>1, <2>2
  <2> QED
    BY <1>2, <2>3 DEF q, v
<1> QED
  BY <1>1, <1>2

LEMMA NewCounterFields ==
  ASSUME NEW m, IsMemory(m)
  PROVE  NewCounter(m) = [chars |-> m.chars, counter |-> With(m.counter, NextCounter(m), 1),
                          pool |-> IF kind = "pooled" THEN ValueAdd(m.pool) ELSE m.pool]
<1>1. PICK a, b, c : m = [chars |-> a, counter |-> b, pool |-> c]
  BY DEF IsMemory
<1> DEFINE q == NewCounter(m)
           v == With(m.counter, NextCounter(m), 1)
           w == IF kind = "pooled" THEN ValueAdd(m.pool) ELSE m.pool
<1>2. q = [m EXCEPT !.counter = v, !.pool = w]
  BY DEF NewCounter
<1> HIDE DEF q, v, w
<1>3. q = [chars |-> m.chars, counter |-> v, pool |-> w]
  BY <1>1, <1>2
<1> QED
  BY <1>3 DEF q, v, w

LEMMA FreeCounterFields ==
  ASSUME NEW m, IsMemory(m), NEW e
  PROVE  FreeCounter(m, e) = [chars |-> m.chars, counter |-> Without(m.counter, e),
                              pool |-> IF kind = "pooled" THEN ValueDel(m.pool, e) ELSE m.pool]
<1>1. PICK a, b, c : m = [chars |-> a, counter |-> b, pool |-> c]
  BY DEF IsMemory
<1> DEFINE q == FreeCounter(m, e)
           v == Without(m.counter, e)
           w == IF kind = "pooled" THEN ValueDel(m.pool, e) ELSE m.pool
<1>2. q = [m EXCEPT !.counter = v, !.pool = w]
  BY DEF FreeCounter
<1> HIDE DEF q, v, w
<1>3. q = [chars |-> m.chars, counter |-> v, pool |-> w]
  BY <1>1, <1>2
<1> QED
  BY <1>3 DEF q, v, w

LEMMA CountFields ==
  ASSUME NEW m, IsMemory(m), NEW e, NEW d, NEW q, q = [m EXCEPT !.counter[e] = d]
  PROVE  q = [chars |-> m.chars, counter |-> [m.counter EXCEPT ![e] = d], pool |-> m.pool]
<1>1. PICK a, b, c : m = [chars |-> a, counter |-> b, pool |-> c]
  BY DEF IsMemory
<1> DEFINE v == [m.counter EXCEPT ![e] = d]
<1>2. q = [m EXCEPT !.counter = v]
  OBVIOUS
<1> HIDE DEF v
<1>3. q = [chars |-> m.chars, counter |-> v, pool |-> m.pool]
  BY <1>1, <1>2
<1> QED
  BY <1>3 DEF v

-----------------------------------------------------------------------------

LEMMA SharersFinite ==
  ASSUME NEW S, DOMAIN S \subseteq String, NEW c
  PROVE  IsFiniteSet(Sharers(S, c)) /\ Cardinality(Sharers(S, c)) \in Nat
<1>1. Sharers(S, c) \subseteq String
  BY DEF Sharers
<1> QED
  BY <1>1, StringAssumption, FS_Subset, FS_CardinalityType

LEMMA SharersAlone ==
  ASSUME NEW S, DOMAIN S \subseteq String, NEW c, NEW x \in Sharers(S, c)
  PROVE  /\ Cardinality(Sharers(S, c)) = 1 => Sharers(S, c) = {x}
         /\ Cardinality(Sharers(S, c)) # 1 => \E z \in Sharers(S, c) : z # x
<1> DEFINE A == Sharers(S, c)
<1>1. IsFiniteSet(A) /\ Cardinality(A) \in Nat
  BY SharersFinite
<1>2. IsFiniteSet(A \ {x}) /\ Cardinality(A \ {x}) = Cardinality(A) - 1
  BY <1>1, FS_RemoveElement
<1>3. ASSUME Cardinality(A) = 1
      PROVE  A = {x}
  <2>1. Cardinality(A \ {x}) = 0
    BY <1>2, <1>3
  <2>2. A \ {x} = {}
    BY <1>2, <2>1, FS_EmptySet
  <2> QED
    BY <2>2
<1>4. ASSUME Cardinality(A) # 1
      PROVE  \E z \in A : z # x
  <2>1. Cardinality({x}) = 1
    BY FS_Singleton
  <2>2. A # {x}
    BY <1>4, <2>1
  <2> QED
    BY <2>2
<1> QED
  BY <1>3, <1>4

LEMMA SharersWithout ==
  ASSUME NEW S, NEW x \in DOMAIN S, NEW c
  PROVE  Sharers(Without(S, x), c) = Sharers(S, c) \ {x}
<1> DEFINE S1 == Without(S, x)
<1>1. DOMAIN S1 = DOMAIN S \ {x} /\ \A b \in DOMAIN S \ {x} : S1[b] = S[b]
  BY WithoutFacts
<1> HIDE DEF S1
<1>2. Sharers(S1, c) = Sharers(S, c) \ {x}
  BY <1>1 DEF Sharers
<1> QED
  BY <1>2 DEF S1

LEMMA SharersWith ==
  ASSUME NEW S, NEW x, x \notin DOMAIN S, NEW s, NEW c
  PROVE  Sharers(With(S, x, s), c) =
           IF s.count = c THEN Sharers(S, c) \cup {x} ELSE Sharers(S, c)
<1> DEFINE S1 == With(S, x, s)
<1>1. DOMAIN S1 = DOMAIN S \cup {x} /\ S1[x] = s /\ \A b \in DOMAIN S \ {x} : S1[b] = S[b]
  BY DEF With
<1> HIDE DEF S1
<1>2. \A b \in DOMAIN S : S1[b] = S[b]
  BY <1>1
<1>3. Sharers(S1, c) = IF s.count = c THEN Sharers(S, c) \cup {x} ELSE Sharers(S, c)
  BY <1>1, <1>2 DEF Sharers
<1> QED
  BY <1>3 DEF S1

(* A string that is gone disturbs no other.                                *)
LEMMA WithoutStrings ==
  ASSUME NEW S, NEW G, NEW x \in DOMAIN S, StringLayout(S, G), SharedTogether(S)
  PROVE  /\ StringLayout(Without(S, x), Without(G, x))
         /\ SharedTogether(Without(S, x))
<1> DEFINE S1 == Without(S, x)
           G1 == Without(G, x)
<1>1. /\ DOMAIN S1 = DOMAIN S \ {x} /\ IsTable(S1)
      /\ \A b \in DOMAIN S1 : b \in DOMAIN S /\ S1[b] = S[b]
  BY WithoutFacts
<1>2. DOMAIN G1 = DOMAIN G \ {x} /\ IsTable(G1)
  BY WithoutFacts
<1> HIDE DEF S1, G1
<1>3. StringLayout(S1, G1)
  BY <1>1, <1>2 DEF StringLayout
<1>4. SharedTogether(S1)
  BY <1>1 DEF SharedTogether
<1> QED
  BY <1>3, <1>4 DEF S1, G1

(* What is read of the others is the same when their blocks are.           *)
LEMMA WithoutReadable ==
  ASSUME NEW m, NEW q, NEW S, NEW G, NEW x \in DOMAIN S, StringLayout(S, G),
         Readable(m, S, G),
         \A y \in DOMAIN S \ {x} : TextIn(q, S[y]) = TextIn(m, S[y])
  PROVE  Readable(q, Without(S, x), Without(G, x))
<1> DEFINE S1 == Without(S, x)
           G1 == Without(G, x)
<1>1. DOMAIN G = DOMAIN S
  BY DEF StringLayout
<1>2. DOMAIN S1 = DOMAIN S \ {x} /\ \A b \in DOMAIN S \ {x} : S1[b] = S[b]
  BY WithoutFacts
<1>3. \A b \in DOMAIN G \ {x} : G1[b] = G[b]
  BY WithoutFacts
<1> HIDE DEF S1, G1
<1>4. Readable(q, S1, G1)
  BY <1>1, <1>2, <1>3 DEF Readable
<1> QED
  BY <1>4 DEF S1, G1

LEMMA DropFixed ==
  ASSUME NEW m, NEW S, NEW G, NEW x \in DOMAIN S, kind = "fixed", Good(m, S, G)
  PROVE  Good(m, Without(S, x), Without(G, x))
<1>1. /\ MemoryLayout(m) /\ StringLayout(S, G) /\ BlocksOwned(m, S) /\ Readable(m, S, G)
      /\ SharedTogether(S) /\ CountsExact(m, S)
  BY DEF Good
<1>2. StringLayout(Without(S, x), Without(G, x)) /\ SharedTogether(Without(S, x))
  BY <1>1, WithoutStrings
<1>3. Readable(m, Without(S, x), Without(G, x))
  BY <1>1, WithoutReadable
<1>4. BlocksOwned(m, Without(S, x))
  BY <1>1 DEF BlocksOwned
<1>5. CountsExact(m, Without(S, x))
  <2>1. m.counter = <<>> /\ DOMAIN m.counter = {}
    BY <1>1, NoTable DEF CountsExact, Counted
  <2> QED
    BY <1>1, <2>1 DEF CountsExact, Counted
<1> QED
  BY <1>1, <1>2, <1>3, <1>4, <1>5 DEF Good

LEMMA DropVariable ==
  ASSUME NEW m, NEW S, NEW G, NEW x \in DOMAIN S, kind = "variable", Good(m, S, G)
  PROVE  Good(FreeChars(m, S[x].data), Without(S, x), Without(G, x))
<1> DEFINE q == FreeChars(m, S[x].data)
           S1 == Without(S, x)
           G1 == Without(G, x)
<1>1. /\ MemoryLayout(m) /\ StringLayout(S, G) /\ BlocksOwned(m, S) /\ Readable(m, S, G)
      /\ SharedTogether(S) /\ CountsExact(m, S)
  BY DEF Good
<1>2. StringLayout(S1, G1) /\ SharedTogether(S1)
  BY <1>1, WithoutStrings
<1>3. q = [chars |-> IF S[x].data = NoBlock THEN m.chars ELSE Without(m.chars, S[x].data),
           counter |-> m.counter, pool |-> m.pool]
  BY <1>1, FreeCharsFields DEF MemoryLayout
<1>4. /\ q.chars = IF S[x].data = NoBlock THEN m.chars ELSE Without(m.chars, S[x].data)
      /\ q.counter = m.counter /\ q.pool = m.pool
      /\ IsMemory(q)
  BY <1>3 DEF IsMemory
<1>5. /\ DOMAIN S1 = DOMAIN S \ {x} /\ \A b \in DOMAIN S1 : S1[b] = S[b]
  BY WithoutFacts
<1> HIDE DEF q, S1, G1
<1>6. DOMAIN q.chars = DOMAIN m.chars \ {S[x].data} /\ IsTable(q.chars)
      /\ \A b \in DOMAIN q.chars : q.chars[b] = m.chars[b]
  <2>1. CASE S[x].data = NoBlock
    BY <1>1, <1>4, <2>1 DEF MemoryLayout
  <2>2. CASE S[x].data # NoBlock
    <3> DEFINE w == Without(m.chars, S[x].data)
    <3>1. q.chars = w
      BY <1>4, <2>2
    <3>2. /\ DOMAIN w = DOMAIN m.chars \ {S[x].data} /\ IsTable(w)
          /\ \A b \in DOMAIN m.chars \ {S[x].data} : w[b] = m.chars[b]
      BY WithoutFacts
    <3> HIDE DEF w
    <3> QED
      BY <3>1, <3>2
  <2> QED
    BY <2>1, <2>2
<1>7. MemoryLayout(q)
  <2>1. IsFiniteSet(DOMAIN q.chars)
    BY <1>1, <1>6, FS_Subset DEF MemoryLayout
  <2> QED
    BY <1>1, <1>4, <1>6, <2>1 DEF MemoryLayout
<1>8. \A y \in DOMAIN S \ {x} : S[y].data # NoBlock => S[y].data # S[x].data
  BY <1>1 DEF SharedTogether
<1>9. BlocksOwned(q, S1)
  <2>1. DOMAIN m.chars = {S[y].data : y \in DOMAIN S} \ {NoBlock}
    BY <1>1 DEF BlocksOwned
  <2>2. DOMAIN q.chars = {S1[y].data : y \in DOMAIN S1} \ {NoBlock}
    BY <1>5, <1>6, <1>8, <2>1
  <2> QED
    BY <2>2 DEF BlocksOwned
<1>10. Readable(q, S1, G1)
  <2>1. ASSUME NEW y \in DOMAIN S \ {x}
        PROVE  TextIn(q, S[y]) = TextIn(m, S[y])
    <3>1. CASE S[y].data = NoBlock
      BY <3>1 DEF TextIn
    <3>2. CASE S[y].data # NoBlock
      <4>1. S[y].data \in DOMAIN q.chars
        BY <1>1, <1>6, <1>8, <3>2 DEF BlocksOwned
      <4> QED
        BY <1>6, <4>1 DEF TextIn
    <3> QED
      BY <3>1, <3>2
  <2> QED
    BY <1>1, <2>1, WithoutReadable DEF S1, G1
<1>11. CountsExact(q, S1)
  <2>1. q.counter = <<>> /\ DOMAIN q.counter = {}
    BY <1>1, <1>4, NoTable DEF CountsExact, Counted
  <2> QED
    BY <1>1, <1>4, <2>1 DEF CountsExact, Counted
<1>12. Good(q, S1, G1)
  BY <1>2, <1>7, <1>9, <1>10, <1>11 DEF Good
<1> QED
  BY <1>12 DEF q, S1, G1

LEMMA CountedKind ==
  kind \in Counted => kind # "fixed" /\ kind # "variable" /\ (kind = "pooled" \/ kind = "counted")
BY DEF Counted

(* The last string with a block gives back block and counter.              *)
LEMMA DropLast ==
  ASSUME NEW m, NEW S, NEW G, NEW x \in DOMAIN S, kind \in Counted, Good(m, S, G),
         m.counter[S[x].count] = 1
  PROVE  Good(FreeChars(FreeCounter(m, S[x].count), S[x].data), Without(S, x), Without(G, x))
<1> DEFINE c == S[x].count
           d == S[x].data
           p == FreeCounter(m, c)
           q == FreeChars(p, d)
           S1 == Without(S, x)
           G1 == Without(G, x)
<1>1. /\ MemoryLayout(m) /\ StringLayout(S, G) /\ BlocksOwned(m, S) /\ Readable(m, S, G)
      /\ SharedTogether(S) /\ CountsExact(m, S)
  BY DEF Good
<1>2. StringLayout(S1, G1) /\ SharedTogether(S1)
  BY <1>1, WithoutStrings
<1>3. p = [chars |-> m.chars, counter |-> Without(m.counter, c),
           pool |-> IF kind = "pooled" THEN ValueDel(m.pool, c) ELSE m.pool]
  BY <1>1, FreeCounterFields DEF MemoryLayout
<1>4. /\ p.chars = m.chars /\ p.counter = Without(m.counter, c)
      /\ p.pool = IF kind = "pooled" THEN ValueDel(m.pool, c) ELSE m.pool
      /\ IsMemory(p)
  BY <1>3 DEF IsMemory
<1>5. q = [chars |-> IF d = NoBlock THEN p.chars ELSE Without(p.chars, d),
           counter |-> p.counter, pool |-> p.pool]
  BY <1>4, FreeCharsFields
<1>6. /\ q.chars = IF d = NoBlock THEN m.chars ELSE Without(m.chars, d)
      /\ q.counter = Without(m.counter, c) /\ q.pool = p.pool
      /\ IsMemory(q)
  BY <1>4, <1>5 DEF IsMemory
<1>7. DOMAIN S1 = DOMAIN S \ {x} /\ \A b \in DOMAIN S1 : S1[b] = S[b]
  BY WithoutFacts
<1>8. DOMAIN q.chars = DOMAIN m.chars \ {d} /\ IsTable(q.chars)
      /\ \A b \in DOMAIN q.chars : q.chars[b] = m.chars[b]
  <2>1. CASE d = NoBlock
    <3>1. q.chars = m.chars /\ NoBlock \notin DOMAIN m.chars /\ IsTable(m.chars)
      BY <1>1, <1>6, <2>1 DEF MemoryLayout
    <3> QED
      BY <2>1, <3>1
  <2>2. CASE d # NoBlock
    <3> DEFINE w == Without(m.chars, d)
    <3>1. q.chars = w
      BY <1>6, <2>2
    <3>2. /\ DOMAIN w = DOMAIN m.chars \ {d} /\ IsTable(w)
          /\ \A b \in DOMAIN m.chars \ {d} : w[b] = m.chars[b]
      BY WithoutFacts
    <3> HIDE DEF w
    <3> QED
      BY <3>1, <3>2
  <2> QED
    BY <2>1, <2>2
<1>9. DOMAIN q.counter = DOMAIN m.counter \ {c} /\ IsTable(q.counter)
      /\ \A b \in DOMAIN m.counter \ {c} : q.counter[b] = m.counter[b]
  <2> DEFINE w == Without(m.counter, c)
  <2>1. q.counter = w
    BY <1>6
  <2>2. /\ DOMAIN w = DOMAIN m.counter \ {c} /\ IsTable(w)
        /\ \A b \in DOMAIN m.counter \ {c} : w[b] = m.counter[b]
    BY WithoutFacts
  <2> HIDE DEF w, c, q
  <2> QED
    BY <2>1, <2>2
<1>10. Sharers(S, c) = {x}
  <2>1. x \in Sharers(S, c) /\ DOMAIN S \subseteq String
    BY <1>1 DEF Sharers, StringLayout
  <2>2. c \in DOMAIN m.counter
    BY <1>1 DEF CountsExact
  <2>3. Cardinality(Sharers(S, c)) = 1
    BY <1>1, <2>2 DEF CountsExact
  <2> QED
    BY <2>1, <2>3, SharersAlone
<1>11. \A y \in DOMAIN S \ {x} : S[y].count # c /\ (S[y].data # NoBlock => S[y].data # d)
  <2>1. \A y \in DOMAIN S \ {x} : S[y].count # c
    BY <1>10 DEF Sharers
  <2> QED
    BY <1>1, <2>1 DEF SharedTogether
<1> HIDE DEF c, d, p, q, S1, G1
<1>12. MemoryLayout(q)
  <2>1. IsFiniteSet(DOMAIN q.chars) /\ IsFiniteSet(DOMAIN q.counter)
    BY <1>1, <1>8, <1>9, FS_Subset DEF MemoryLayout
  <2> QED
    BY <1>1, <1>6, <1>8, <1>9, <2>1 DEF MemoryLayout
<1>13. BlocksOwned(q, S1)
  <2>1. DOMAIN m.chars = {S[y].data : y \in DOMAIN S} \ {NoBlock}
    BY <1>1, CountedKind DEF BlocksOwned
  <2>2. DOMAIN q.chars = {S1[y].data : y \in DOMAIN S1} \ {NoBlock}
    BY <1>7, <1>8, <1>11, <2>1 DEF d
  <2> QED
    BY <2>2, CountedKind DEF BlocksOwned
<1>14. Readable(q, S1, G1)
  <2>1. ASSUME NEW y \in DOMAIN S \ {x}
        PROVE  TextIn(q, S[y]) = TextIn(m, S[y])
    <3>1. CASE S[y].data = NoBlock
      BY <3>1, CountedKind DEF TextIn
    <3>2. CASE S[y].data # NoBlock
      <4>1. S[y].data \in DOMAIN q.chars
        BY <1>1, <1>8, <1>11, <3>2, CountedKind DEF BlocksOwned
      <4> QED
        BY <1>8, <3>2, <4>1, CountedKind DEF TextIn
    <3> QED
      BY <3>1, <3>2
  <2> QED
    BY <1>1, <2>1, WithoutReadable DEF S1, G1
<1>15. CountsExact(q, S1)
  <2>1. DOMAIN m.counter = {S[y].count : y \in DOMAIN S} /\ c \in DOMAIN m.counter
    BY <1>1 DEF CountsExact, c
  <2>2. DOMAIN q.counter = {S1[y].count : y \in DOMAIN S1}
    BY <1>7, <1>9, <1>11, <2>1 DEF c
  <2>3. ASSUME NEW e \in DOMAIN q.counter
        PROVE  q.counter[e] = Cardinality(Sharers(S1, e))
    <3>1. Sharers(S1, e) = Sharers(S, e) \ {x}
      BY SharersWithout DEF S1
    <3>2. x \notin Sharers(S, e)
      BY <1>9 DEF Sharers, c
    <3>3. Sharers(S1, e) = Sharers(S, e)
      BY <3>1, <3>2
    <3>4. m.counter[e] = Cardinality(Sharers(S, e)) /\ q.counter[e] = m.counter[e]
      BY <1>1, <1>9 DEF CountsExact
    <3> QED
      BY <3>3, <3>4
  <2>4. PoolWith(q.pool, IF kind = "pooled" THEN DOMAIN q.counter ELSE {})
    <3>1. CASE kind = "pooled"
      <4>1. PoolWith(m.pool, DOMAIN m.counter)
        BY <1>1, <3>1 DEF CountsExact
      <4>2. PoolWith(ValueDel(m.pool, c), DOMAIN m.counter \ {c})
        BY <2>1, <4>1, ValueDelFacts
      <4> QED
        BY <1>4, <1>6, <1>9, <3>1, <4>2
    <3>2. CASE kind # "pooled"
      BY <1>1, <1>4, <1>6, <3>2 DEF CountsExact
    <3> QED
      BY <3>1, <3>2
  <2> QED
    BY <2>2, <2>3, <2>4 DEF CountsExact
<1>16. Good(q, S1, G1)
  BY <1>2, <1>12, <1>13, <1>14, <1>15 DEF Good
<1> QED
  BY <1>16 DEF c, d, p, q, S1, G1

(* A counter that is not 1 has a second string with it. *)
LEMMA SharedHasTwin ==
  ASSUME NEW m, NEW S, NEW G, NEW x \in DOMAIN S, kind \in Counted, Good(m, S, G),
         m.counter[S[x].count] # 1
  PROVE  \E z \in DOMAIN S : z # x /\ S[z].count = S[x].count
<1> DEFINE c == S[x].count
<1>1. StringLayout(S, G) /\ CountsExact(m, S)
  BY DEF Good
<1>2. x \in Sharers(S, c) /\ DOMAIN S \subseteq String
  BY <1>1 DEF Sharers, StringLayout
<1>3. c \in DOMAIN m.counter
  BY <1>1 DEF CountsExact
<1>4. Cardinality(Sharers(S, c)) # 1
  BY <1>1, <1>3 DEF CountsExact
<1> HIDE DEF c
<1>5. PICK z \in Sharers(S, c) : z # x
  BY <1>2, <1>4, SharersAlone
<1> QED
  BY <1>5 DEF Sharers, c

(* A string that shares its block leaves it, and the counter, to others.   *)
LEMMA DropShared ==
  ASSUME NEW m, NEW S, NEW G, NEW x \in DOMAIN S, kind \in Counted, Good(m, S, G),
         m.counter[S[x].count] # 1,
         NEW q, q = [m EXCEPT !.counter[S[x].count] = @ - 1]
  PROVE  /\ Good(q, Without(S, x), Without(G, x))
         /\ DOMAIN q.counter = DOMAIN m.counter /\ q.pool = m.pool /\ q.chars = m.chars
<1> DEFINE c == S[x].count
           S1 == Without(S, x)
           G1 == Without(G, x)
<1>1. /\ MemoryLayout(m) /\ StringLayout(S, G) /\ BlocksOwned(m, S) /\ Readable(m, S, G)
      /\ SharedTogether(S) /\ CountsExact(m, S)
  BY DEF Good
<1>2. StringLayout(S1, G1) /\ SharedTogether(S1)
  BY <1>1, WithoutStrings
<1>3. q = [chars |-> m.chars, counter |-> [m.counter EXCEPT ![c] = m.counter[c] - 1],
           pool |-> m.pool]
  <2>1. q = [m EXCEPT !.counter[c] = m.counter[c] - 1]
    OBVIOUS
  <2> HIDE DEF c
  <2> QED
    BY <1>1, <2>1, CountFields DEF MemoryLayout
<1>4. /\ q.chars = m.chars /\ q.counter = [m.counter EXCEPT ![c] = m.counter[c] - 1]
      /\ q.pool = m.pool /\ IsMemory(q)
  BY <1>3 DEF IsMemory
<1>5. DOMAIN S1 = DOMAIN S \ {x} /\ \A b \in DOMAIN S1 : S1[b] = S[b]
  BY WithoutFacts
<1>6. x \in Sharers(S, c) /\ DOMAIN S \subseteq String
  BY <1>1 DEF Sharers, StringLayout
<1>7. c \in DOMAIN m.counter
  BY <1>1 DEF CountsExact
<1>8. \E z \in DOMAIN S : z # x /\ S[z].count = c
  BY SharedHasTwin
<1> HIDE DEF c, S1, G1
<1>9. PICK z \in DOMAIN S \ {x} : S[z].count = c
  BY <1>8
<1>10. S[z].data = S[x].data
  BY <1>1, <1>9 DEF SharedTogether, c
<1>11. /\ DOMAIN q.counter = DOMAIN m.counter /\ IsTable(q.counter)
       /\ q.counter[c] = m.counter[c] - 1
       /\ \A e \in DOMAIN m.counter \ {c} : q.counter[e] = m.counter[e]
  BY <1>4, <1>7 DEF IsTable
<1>12. MemoryLayout(q)
  BY <1>1, <1>4, <1>11 DEF MemoryLayout
<1>13. BlocksOwned(q, S1)
  <2>1. DOMAIN m.chars = {S[y].data : y \in DOMAIN S} \ {NoBlock}
    BY <1>1, CountedKind DEF BlocksOwned
  <2>2. {S1[y].data : y \in DOMAIN S1} = {S[y].data : y \in DOMAIN S}
    BY <1>5, <1>9, <1>10
  <2> QED
    BY <1>4, <2>1, <2>2, CountedKind DEF BlocksOwned
<1>14. Readable(q, S1, G1)
  <2>1. \A y \in DOMAIN S \ {x} : TextIn(q, S[y]) = TextIn(m, S[y])
    BY <1>4 DEF TextIn
  <2> QED
    BY <1>1, <2>1, WithoutReadable DEF S1, G1
<1>15. CountsExact(q, S1)
  <2>1. DOMAIN q.counter = {S1[y].count : y \in DOMAIN S1}
    <3>1. DOMAIN m.counter = {S[y].count : y \in DOMAIN S}
      BY <1>1 DEF CountsExact
    <3>2. {S1[y].count : y \in DOMAIN S1} = {S[y].count : y \in DOMAIN S}
      BY <1>5, <1>9 DEF c
    <3> QED
      BY <1>11, <3>1, <3>2
  <2>2. ASSUME NEW e \in DOMAIN q.counter
        PROVE  q.counter[e] = Cardinality(Sharers(S1, e))
    <3>1. Sharers(S1, e) = Sharers(S, e) \ {x}
      BY SharersWithout DEF S1
    <3>2. m.counter[e] = Cardinality(Sharers(S, e))
      BY <1>1, <1>11 DEF CountsExact
    <3>3. CASE e = c
      <4>1. IsFiniteSet(Sharers(S, c))
        BY <1>6, SharersFinite
      <4>2. Cardinality(Sharers(S, c) \ {x}) = Cardinality(Sharers(S, c)) - 1
        BY <1>6, <4>1, FS_RemoveElement
      <4> QED
        BY <1>11, <3>1, <3>2, <3>3, <4>2
    <3>4. CASE e # c
      <4>1. x \notin Sharers(S, e)
        BY <3>4 DEF Sharers, c
      <4>2. Sharers(S1, e) = Sharers(S, e)
        BY <3>1, <4>1
      <4> QED
        BY <1>11, <3>2, <3>4, <4>2
    <3> QED
      BY <3>3, <3>4
  <2>3. PoolWith(q.pool, IF kind = "pooled" THEN DOMAIN q.counter ELSE {})
    BY <1>1, <1>4, <1>11 DEF CountsExact
  <2> QED
    BY <2>1, <2>2, <2>3 DEF CountsExact
<1>16. Good(q, S1, G1)
  BY <1>2, <1>12, <1>13, <1>14, <1>15 DEF Good
<1> QED
  BY <1>4, <1>9, <1>11, <1>16 DEF c, S1, G1

-----------------------------------------------------------------------------

(* What the memory must be for a new string s with the text g.             *)
Fits(S, s) ==
  \A y \in DOMAIN S :
    /\ kind = "variable" /\ s.data = S[y].data => s.data = NoBlock
    /\ kind \in Counted /\ s.count = S[y].count => s.data = S[y].data
    /\ kind \in Counted /\ s.data = S[y].data /\ s.data # NoBlock => s.count = S[y].count

(* The blocks of the memory with the string, and its counters.             *)
GrownBlocks(m, q, s, g) ==
  /\ kind = "fixed" => q.chars = <<>>
  /\ kind # "fixed" => DOMAIN q.chars = (DOMAIN m.chars \cup {s.data}) \ {NoBlock}
  /\ \A b \in DOMAIN m.chars : q.chars[b] = m.chars[b]
  /\ TextIn(q, s) = g

GrownCounts(m, q, s) ==
  /\ kind \notin Counted => q.counter = <<>>
  /\ kind \in Counted =>
       /\ DOMAIN q.counter = DOMAIN m.counter \cup {s.count}
       /\ \A e \in DOMAIN m.counter \ {s.count} : q.counter[e] = m.counter[e]
       /\ q.counter[s.count] =
            IF s.count \in DOMAIN m.counter THEN m.counter[s.count] + 1 ELSE 1
  /\ PoolWith(q.pool, IF kind = "pooled" THEN DOMAIN q.counter ELSE {})

LEMMA WithStrings ==
  ASSUME NEW S, NEW G, NEW x \in String \ DOMAIN S, StringLayout(S, G), SharedTogether(S),
         NEW s, IsString(s), NEW g, Fits(S, s)
  PROVE  /\ StringLayout(With(S, x, s), With(G, x, g))
         /\ SharedTogether(With(S, x, s))
<1> DEFINE S1 == With(S, x, s)
           G1 == With(G, x, g)
<1>1. DOMAIN S1 = DOMAIN S \cup {x} /\ IsTable(S1) /\ S1[x] = s
  BY DEF With, IsTable
<1>2. \A b \in DOMAIN S : S1[b] = S[b]
  BY DEF With
<1>3. DOMAIN G1 = DOMAIN G \cup {x} /\ IsTable(G1)
  BY DEF With, IsTable
<1> HIDE DEF S1, G1
<1>4. StringLayout(S1, G1)
  BY <1>1, <1>2, <1>3 DEF StringLayout
<1>5. SharedTogether(S1)
  <2> SUFFICES ASSUME NEW y \in DOMAIN S1, NEW z \in DOMAIN S1
               PROVE
                 /\ kind = "variable" /\ S1[y].data = S1[z].data /\ S1[y].data # NoBlock => y = z
                 /\ kind \in Counted /\ S1[y].count = S1[z].count => S1[y].data = S1[z].data
                 /\ kind \in Counted /\ S1[y].data = S1[z].data /\ S1[y].data # NoBlock =>
                      S1[y].count = S1[z].count
    BY DEF SharedTogether
  <2>1. CASE y = x /\ z = x
    BY <2>1
  <2>2. CASE y = x /\ z # x
    BY <1>1, <1>2, <2>2 DEF Fits
  <2>3. CASE y # x /\ z = x
    BY <1>1, <1>2, <2>3 DEF Fits
  <2>4. CASE y # x /\ z # x
    BY <1>1, <1>2, <2>4 DEF SharedTogether
  <2> QED
    BY <2>1, <2>2, <2>3, <2>4
<1> QED
  BY <1>4, <1>5 DEF S1, G1

LEMMA AddString ==
  ASSUME NEW m, NEW S, NEW G, kind \in Kinds, Good(m, S, G),
         NEW x \in String \ DOMAIN S,
         NEW s, IsString(s), NEW g, Fits(S, s),
         NEW q, MemoryLayout(q), GrownBlocks(m, q, s, g), GrownCounts(m, q, s)
  PROVE  Good(q, With(S, x, s), With(G, x, g))
<1> DEFINE S1 == With(S, x, s)
           G1 == With(G, x, g)
<1>1. /\ MemoryLayout(m) /\ StringLayout(S, G) /\ BlocksOwned(m, S) /\ Readable(m, S, G)
      /\ SharedTogether(S) /\ CountsExact(m, S)
  BY DEF Good
<1>2. StringLayout(S1, G1) /\ SharedTogether(S1)
  BY <1>1, WithStrings
<1>3. DOMAIN S1 = DOMAIN S \cup {x} /\ S1[x] = s
  BY DEF With
<1>4. \A b \in DOMAIN S : S1[b] = S[b]
  BY DEF With
<1>5. G1[x] = g /\ DOMAIN G = DOMAIN S
  BY <1>1 DEF StringLayout, With
<1>6. \A b \in DOMAIN G : b \in String \ {x} => G1[b] = G[b]
  BY DEF With
<1>7. DOMAIN S \subseteq String \ {x}
  BY <1>1 DEF StringLayout
<1>8. \A e : Sharers(S1, e) = IF s.count = e THEN Sharers(S, e) \cup {x} ELSE Sharers(S, e)
  BY SharersWith
<1> HIDE DEF S1, G1
<1>9. BlocksOwned(q, S1)
  <2>1. CASE kind = "fixed"
    BY <2>1 DEF BlocksOwned, GrownBlocks
  <2>2. CASE kind # "fixed"
    <3>1. DOMAIN q.chars = (DOMAIN m.chars \cup {s.data}) \ {NoBlock}
      BY <2>2 DEF GrownBlocks
    <3>2. DOMAIN m.chars = {S[y].data : y \in DOMAIN S} \ {NoBlock}
      BY <1>1, <2>2 DEF BlocksOwned
    <3>3. {S1[y].data : y \in DOMAIN S1} = {S[y].data : y \in DOMAIN S} \cup {s.data}
      BY <1>3, <1>4
    <3> QED
      BY <2>2, <3>1, <3>2, <3>3 DEF BlocksOwned
  <2> QED
    BY <2>1, <2>2
<1>10. Readable(q, S1, G1)
  <2>1. ASSUME NEW y \in DOMAIN S
        PROVE  TextIn(q, S[y]) = G[y]
    <3>1. TextIn(m, S[y]) = G[y]
      BY <1>1 DEF Readable
    <3>2. CASE kind = "fixed" \/ S[y].data = NoBlock
      BY <3>1, <3>2 DEF TextIn
    <3>3. CASE kind # "fixed" /\ S[y].data # NoBlock
      <4>1. S[y].data \in DOMAIN m.chars
        BY <1>1, <3>3 DEF BlocksOwned
      <4> QED
        BY <3>1, <3>3, <4>1 DEF TextIn, GrownBlocks
    <3> QED
      BY <3>2, <3>3
  <2>2. TextIn(q, s) = g
    BY DEF GrownBlocks
  <2>3. ASSUME NEW y \in DOMAIN S1
        PROVE  TextIn(q, S1[y]) = G1[y]
    <3>1. CASE y = x
      BY <1>3, <1>5, <2>2, <3>1
    <3>2. CASE y # x
      <4>1. y \in DOMAIN S /\ S1[y] = S[y] /\ G1[y] = G[y]
        BY <1>3, <1>4, <1>5, <1>6, <1>7, <3>2
      <4> QED
        BY <2>1, <4>1
    <3> QED
      BY <3>1, <3>2
  <2> QED
    BY <2>3 DEF Readable
<1>11. CountsExact(q, S1)
  <2>1. CASE kind \notin Counted
    <3>1. DOMAIN q.counter = {} /\ q.counter = <<>>
      BY <2>1, NoTable DEF GrownCounts
    <3> QED
      BY <2>1, <3>1 DEF CountsExact, GrownCounts, Counted
  <2>2. CASE kind \in Counted
    <3>1. DOMAIN q.counter = {S1[y].count : y \in DOMAIN S1}
      <4>1. DOMAIN m.counter = {S[y].count : y \in DOMAIN S}
        BY <1>1, <2>2 DEF CountsExact
      <4>2. {S1[y].count : y \in DOMAIN S1} = {S[y].count : y \in DOMAIN S} \cup {s.count}
        BY <1>3, <1>4
      <4> QED
        BY <2>2, <4>1, <4>2 DEF GrownCounts
    <3>2. ASSUME NEW e \in DOMAIN q.counter
          PROVE  q.counter[e] = Cardinality(Sharers(S1, e))
      <4>1. CASE e # s.count
        <5>1. e \in DOMAIN m.counter /\ q.counter[e] = m.counter[e]
          BY <2>2, <4>1 DEF GrownCounts
        <5>2. m.counter[e] = Cardinality(Sharers(S, e))
          BY <1>1, <5>1 DEF CountsExact
        <5> QED
          BY <1>8, <4>1, <5>1, <5>2
      <4>2. CASE e = s.count /\ e \in DOMAIN m.counter
        <5>1. q.counter[e] = m.counter[e] + 1 /\ m.counter[e] = Cardinality(Sharers(S, e))
          BY <1>1, <2>2, <4>2 DEF GrownCounts, CountsExact
        <5>2. IsFiniteSet(Sharers(S, e)) /\ x \notin Sharers(S, e)
          <6>1. DOMAIN S \subseteq String
            BY <1>7
          <6> QED
            BY <6>1, SharersFinite DEF Sharers
        <5>3. Cardinality(Sharers(S, e) \cup {x}) = Cardinality(Sharers(S, e)) + 1
          BY <5>2, FS_AddElement
        <5> QED
          BY <1>8, <4>2, <5>1, <5>3
      <4>3. CASE e = s.count /\ e \notin DOMAIN m.counter
        <5>1. q.counter[e] = 1
          BY <2>2, <4>3 DEF GrownCounts
        <5>2. Sharers(S, e) = {}
          BY <1>1, <2>2, <4>3 DEF CountsExact, Sharers
        <5>3. Sharers(S1, e) = {x} /\ Cardinality({x}) = 1
          BY <1>8, <4>3, <5>2, FS_Singleton
        <5> QED
          BY <5>1, <5>3
      <4> QED
        BY <4>1, <4>2, <4>3
    <3> QED
      BY <2>2, <3>1, <3>2 DEF CountsExact, GrownCounts
  <2> QED
    BY <2>1, <2>2
<1>12. Good(q, S1, G1)
  BY <1>2, <1>9, <1>10, <1>11 DEF Good
<1> QED
  BY <1>12 DEF S1, G1

-----------------------------------------------------------------------------
(* The constructors and assignments.                                       *)

LEMMA TextOfIn == \A s : TextOf(s) = TextIn(memory, s)
BY DEF TextOf, TextIn

LEMMA CutText ==
  ASSUME NEW text
  PROVE  kind # "fixed" => Cut(text) = text
BY DEF Cut

LEMMA FixedGood ==
  ASSUME NEW m, NEW S, NEW G, kind = "fixed", Good(m, S, G), NEW x \in String \ DOMAIN S,
         NEW text
  PROVE  Good(m, With(S, x, Inside(text)), With(G, x, Cut(text)))
<1> DEFINE s == Inside(text)
<1>1. MemoryLayout(m) /\ BlocksOwned(m, S) /\ CountsExact(m, S)
  BY DEF Good
<1>2. IsString(s) /\ s.data = Cut(text)
  BY DEF IsString, Inside
<1>3. kind \in Kinds /\ kind \notin Counted
  BY DEF Kinds, Counted
<1> HIDE DEF s
<1>4. Fits(S, s)
  BY <1>3 DEF Fits
<1>5. GrownBlocks(m, m, s, Cut(text))
  <2>1. m.chars = <<>>
    BY <1>1 DEF BlocksOwned
  <2>2. TextIn(m, s) = Cut(text)
    BY <1>2 DEF TextIn
  <2> QED
    BY <2>1, <2>2 DEF GrownBlocks
<1>6. GrownCounts(m, m, s)
  BY <1>1, <1>3 DEF GrownCounts, CountsExact
<1>7. Good(m, With(S, x, s), With(G, x, Cut(text)))
  BY <1>1, <1>2, <1>3, <1>4, <1>5, <1>6, AddString
<1> QED
  BY <1>7 DEF s

(* A block that is new.                                                    *)
LEMMA NewBlock ==
  ASSUME NEW m, MemoryLayout(m), NEW text
  PROVE  LET q == NewChars(m, text)
             b == NextChars(m)
         IN  /\ MemoryLayout(q)
             /\ b # NoBlock /\ b \notin DOMAIN m.chars
             /\ DOMAIN q.chars = DOMAIN m.chars \cup {b}
             /\ q.chars[b] = text
             /\ \A a \in DOMAIN m.chars : q.chars[a] = m.chars[a]
             /\ q.counter = m.counter /\ q.pool = m.pool
<1> DEFINE q == NewChars(m, text)
           b == NextChars(m)
           w == With(m.chars, b, text)
<1>1. b \in Nat \ {0} /\ b \notin DOMAIN m.chars
  BY UnusedFacts DEF NextChars, MemoryLayout
<1>2. q = [chars |-> w, counter |-> m.counter, pool |-> m.pool]
  BY NewCharsFields DEF MemoryLayout
<1>3. q.chars = w /\ q.counter = m.counter /\ q.pool = m.pool /\ IsMemory(q)
  BY <1>2 DEF IsMemory
<1>4. /\ DOMAIN w = DOMAIN m.chars \cup {b} /\ w[b] = text /\ IsTable(w)
      /\ \A a \in DOMAIN m.chars \ {b} : w[a] = m.chars[a]
  <2> HIDE DEF q, b
  <2> QED
    BY DEF With, IsTable
<1> HIDE DEF q, b, w
<1>5. IsFiniteSet(DOMAIN m.chars \cup {b})
  BY <1>1, FS_AddElement DEF MemoryLayout
<1>6. MemoryLayout(q)
  BY <1>1, <1>3, <1>4, <1>5 DEF MemoryLayout, NoBlock
<1>7. \A a \in DOMAIN m.chars : q.chars[a] = m.chars[a]
  BY <1>1, <1>3, <1>4
<1> QED
  BY <1>1, <1>3, <1>4, <1>6, <1>7 DEF q, b, NoBlock

(* A counter that is new.                                                  *)
LEMMA NewCount ==
  ASSUME NEW m, MemoryLayout(m), kind \in Counted,
         PoolWith(m.pool, IF kind = "pooled" THEN DOMAIN m.counter ELSE {})
  PROVE  LET q == NewCounter(m)
             c == NextCounter(m)
         IN  /\ MemoryLayout(q)
             /\ c \notin DOMAIN m.counter
             /\ DOMAIN q.counter = DOMAIN m.counter \cup {c}
             /\ q.counter[c] = 1
             /\ \A a \in DOMAIN m.counter : q.counter[a] = m.counter[a]
             /\ q.chars = m.chars
             /\ PoolWith(q.pool, IF kind = "pooled" THEN DOMAIN q.counter ELSE {})
<1> DEFINE q == NewCounter(m)
           c == NextCounter(m)
           w == With(m.counter, c, 1)
           p == IF kind = "pooled" THEN ValueAdd(m.pool) ELSE m.pool
<1>1. c \notin DOMAIN m.counter
  <2>1. CASE kind = "pooled"
    BY <2>1, ValueAddFacts DEF NextCounter
  <2>2. CASE kind # "pooled"
    BY <2>2, UnusedFacts DEF NextCounter, MemoryLayout
  <2> QED
    BY <2>1, <2>2
<1>2. q = [chars |-> m.chars, counter |-> w, pool |-> p]
  BY NewCounterFields DEF MemoryLayout
<1>3. q.chars = m.chars /\ q.counter = w /\ q.pool = p /\ IsMemory(q)
  BY <1>2 DEF IsMemory
<1>4. /\ DOMAIN w = DOMAIN m.counter \cup {c} /\ w[c] = 1 /\ IsTable(w)
      /\ \A a \in DOMAIN m.counter \ {c} : w[a] = m.counter[a]
  <2> HIDE DEF q, c, p
  <2> QED
    BY DEF With, IsTable
<1>5. PoolWith(p, IF kind = "pooled" THEN DOMAIN m.counter \cup {c} ELSE {})
  <2>1. CASE kind = "pooled"
    BY <2>1, ValueAddFacts DEF NextCounter
  <2>2. CASE kind # "pooled"
    BY <2>2
  <2> QED
    BY <2>1, <2>2
<1> HIDE DEF q, c, w, p
<1>6. IsFiniteSet(DOMAIN m.counter \cup {c})
  BY <1>1, FS_AddElement DEF MemoryLayout
<1>7. MemoryLayout(q)
  BY <1>3, <1>4, <1>6 DEF MemoryLayout
<1>8. \A a \in DOMAIN m.counter : q.counter[a] = m.counter[a]
  BY <1>1, <1>3, <1>4
<1> QED
  BY <1>1, <1>3, <1>4, <1>5, <1>7, <1>8 DEF q, c

LEMMA VariableGood ==
  ASSUME NEW m, NEW S, NEW G, kind = "variable", Good(m, S, G), NEW x \in String \ DOMAIN S,
         NEW text
  PROVE  /\ Good(NewChars(m, text), With(S, x, Apart(NextChars(m))), With(G, x, text))
         /\ Good(m, With(S, x, Apart(NoBlock)), With(G, x, <<>>))
<1> DEFINE q == NewChars(m, text)
           b == NextChars(m)
           s == Apart(b)
           e == Apart(NoBlock)
<1>1. MemoryLayout(m) /\ BlocksOwned(m, S) /\ CountsExact(m, S)
  BY DEF Good
<1>2. IsString(s) /\ s.data = b /\ IsString(e) /\ e.data = NoBlock
  BY DEF IsString, Apart
<1>3. kind \in Kinds /\ kind \notin Counted /\ kind # "fixed" /\ kind # "pooled"
  BY DEF Kinds, Counted
<1>4. /\ MemoryLayout(q) /\ b # NoBlock /\ b \notin DOMAIN m.chars
      /\ DOMAIN q.chars = DOMAIN m.chars \cup {b} /\ q.chars[b] = text
      /\ \A a \in DOMAIN m.chars : q.chars[a] = m.chars[a]
      /\ q.counter = m.counter /\ q.pool = m.pool
  BY <1>1, NewBlock
<1> HIDE DEF q, b, s, e
<1>5. DOMAIN m.chars = {S[y].data : y \in DOMAIN S} \ {NoBlock}
  BY <1>1, <1>3 DEF BlocksOwned
<1>6. Fits(S, s) /\ Fits(S, e)
  BY <1>2, <1>3, <1>4, <1>5 DEF Fits
<1>7. GrownBlocks(m, q, s, text)
  BY <1>2, <1>3, <1>4, <1>5 DEF GrownBlocks, TextIn
<1>8. GrownCounts(m, q, s)
  BY <1>1, <1>3, <1>4 DEF GrownCounts, CountsExact
<1>9. GrownBlocks(m, m, e, <<>>)
  BY <1>2, <1>3, <1>5 DEF GrownBlocks, TextIn
<1>10. GrownCounts(m, m, e)
  BY <1>1, <1>3 DEF GrownCounts, CountsExact
<1>11. Good(q, With(S, x, s), With(G, x, text))
  BY <1>2, <1>3, <1>4, <1>6, <1>7, <1>8, AddString
<1>12. Good(m, With(S, x, e), With(G, x, <<>>))
  BY <1>1, <1>2, <1>3, <1>6, <1>9, <1>10, AddString
<1> QED
  BY <1>11, <1>12 DEF q, b, s, e

(* A block with a counter of its own.                                      *)
Fresh(m, q, b, c, text) ==
  /\ MemoryLayout(q)
  /\ b # NoBlock /\ b \notin DOMAIN m.chars
  /\ DOMAIN q.chars = DOMAIN m.chars \cup {b} /\ q.chars[b] = text
  /\ \A a \in DOMAIN m.chars : q.chars[a] = m.chars[a]
  /\ c \notin DOMAIN m.counter
  /\ DOMAIN q.counter = DOMAIN m.counter \cup {c} /\ q.counter[c] = 1
  /\ \A a \in DOMAIN m.counter : q.counter[a] = m.counter[a]
  /\ PoolWith(q.pool, IF kind = "pooled" THEN DOMAIN q.counter ELSE {})

LEMMA FreshGood ==
  ASSUME NEW m, NEW S, NEW G, kind \in Counted, Good(m, S, G), NEW x \in String \ DOMAIN S,
         NEW q, NEW b, NEW c, NEW text, Fresh(m, q, b, c, text)
  PROVE  Good(q, With(S, x, [data |-> b, count |-> c]), With(G, x, text))
<1> DEFINE s == [data |-> b, count |-> c]
<1>1. MemoryLayout(m) /\ BlocksOwned(m, S) /\ CountsExact(m, S)
  BY DEF Good
<1>2. IsString(s) /\ s.data = b /\ s.count = c
  BY DEF IsString
<1>3. kind \in Kinds /\ kind # "fixed" /\ kind # "variable"
  BY CountedKind DEF Kinds
<1> HIDE DEF s
<1>4. DOMAIN m.chars = {S[y].data : y \in DOMAIN S} \ {NoBlock}
  BY <1>1, <1>3 DEF BlocksOwned
<1>5. DOMAIN m.counter = {S[y].count : y \in DOMAIN S}
  BY <1>1 DEF CountsExact
<1>6. Fits(S, s)
  BY <1>2, <1>3, <1>4, <1>5 DEF Fits, Fresh
<1>7. GrownBlocks(m, q, s, text)
  <2>1. NoBlock \notin DOMAIN m.chars
    BY <1>4
  <2> QED
    BY <1>2, <1>3, <2>1 DEF GrownBlocks, TextIn, Fresh
<1>8. GrownCounts(m, q, s)
  BY <1>2 DEF GrownCounts, Fresh
<1>9. Good(q, With(S, x, s), With(G, x, text))
  BY <1>2, <1>3, <1>6, <1>7, <1>8, AddString DEF Fresh
<1> QED
  BY <1>9 DEF s

LEMMA CountedTextGood ==
  ASSUME NEW m, NEW S, NEW G, kind \in Counted, Good(m, S, G), NEW x \in String \ DOMAIN S,
         NEW text
  PROVE  /\ Good(NewCounter(NewChars(m, text)),
                 With(S, x, [data |-> NextChars(m), count |-> NextCounter(m)]),
                 With(G, x, text))
         /\ Good(NewChars(NewCounter(m), text),
                 With(S, x, [data |-> NextChars(NewCounter(m)), count |-> NextCounter(m)]),
                 With(G, x, text))
<1> DEFINE p == NewChars(m, text)
           q == NewCounter(p)
           v == NewCounter(m)
           w == NewChars(v, text)
           b == NextChars(m)
           c == NextCounter(m)
<1>1. MemoryLayout(m) /\ CountsExact(m, S)
  BY DEF Good
<1>2. PoolWith(m.pool, IF kind = "pooled" THEN DOMAIN m.counter ELSE {})
  BY <1>1 DEF CountsExact
<1>3. /\ MemoryLayout(p) /\ b # NoBlock /\ b \notin DOMAIN m.chars
      /\ DOMAIN p.chars = DOMAIN m.chars \cup {b} /\ p.chars[b] = text
      /\ \A a \in DOMAIN m.chars : p.chars[a] = m.chars[a]
      /\ p.counter = m.counter /\ p.pool = m.pool
  BY <1>1, NewBlock
<1>4. NextCounter(p) = c
  <2> HIDE DEF p
  <2> QED
    BY <1>3 DEF NextCounter
<1>5. PoolWith(p.pool, IF kind = "pooled" THEN DOMAIN p.counter ELSE {})
  <2> HIDE DEF p
  <2> QED
    BY <1>2, <1>3
<1>6. /\ MemoryLayout(q) /\ NextCounter(p) \notin DOMAIN p.counter
      /\ DOMAIN q.counter = DOMAIN p.counter \cup {NextCounter(p)}
      /\ q.counter[NextCounter(p)] = 1
      /\ \A a \in DOMAIN p.counter : q.counter[a] = p.counter[a]
      /\ q.chars = p.chars
      /\ PoolWith(q.pool, IF kind = "pooled" THEN DOMAIN q.counter ELSE {})
  <2> HIDE DEF p
  <2> QED
    BY <1>3, <1>5, NewCount
<1>7. /\ MemoryLayout(v) /\ c \notin DOMAIN m.counter
      /\ DOMAIN v.counter = DOMAIN m.counter \cup {c} /\ v.counter[c] = 1
      /\ \A a \in DOMAIN m.counter : v.counter[a] = m.counter[a]
      /\ v.chars = m.chars
      /\ PoolWith(v.pool, IF kind = "pooled" THEN DOMAIN v.counter ELSE {})
  BY <1>1, <1>2, NewCount
<1>8. /\ MemoryLayout(w) /\ NextChars(v) # NoBlock /\ NextChars(v) \notin DOMAIN v.chars
      /\ DOMAIN w.chars = DOMAIN v.chars \cup {NextChars(v)} /\ w.chars[NextChars(v)] = text
      /\ \A a \in DOMAIN v.chars : w.chars[a] = v.chars[a]
      /\ w.counter = v.counter /\ w.pool = v.pool
  <2> HIDE DEF v
  <2> QED
    BY <1>7, NewBlock
<1> HIDE DEF p, q, v, w, b, c
<1>9. Fresh(m, q, b, c, text)
  BY <1>3, <1>4, <1>6 DEF Fresh
<1>10. Fresh(m, w, NextChars(v), c, text)
  BY <1>7, <1>8 DEF Fresh
<1>11. Good(q, With(S, x, [data |-> b, count |-> c]), With(G, x, text))
  BY <1>9, FreshGood
<1>12. Good(w, With(S, x, [data |-> NextChars(v), count |-> c]), With(G, x, text))
  BY <1>10, FreshGood
<1> QED
  BY <1>11, <1>12 DEF p, q, v, w, b, c

(* The default constructor has a counter but no block.                     *)
LEMMA CountedEmptyGood ==
  ASSUME NEW m, NEW S, NEW G, kind \in Counted, Good(m, S, G), NEW x \in String \ DOMAIN S
  PROVE  Good(NewCounter(m), With(S, x, [data |-> NoBlock, count |-> NextCounter(m)]),
              With(G, x, <<>>))
<1> DEFINE q == NewCounter(m)
           c == NextCounter(m)
           s == [data |-> NoBlock, count |-> c]
<1>1. MemoryLayout(m) /\ BlocksOwned(m, S) /\ CountsExact(m, S)
  BY DEF Good
<1>2. IsString(s) /\ s.data = NoBlock /\ s.count = c
  BY DEF IsString
<1>3. kind \in Kinds /\ kind # "fixed" /\ kind # "variable"
  BY CountedKind DEF Kinds
<1>4. PoolWith(m.pool, IF kind = "pooled" THEN DOMAIN m.counter ELSE {})
  BY <1>1 DEF CountsExact
<1>5. /\ MemoryLayout(q) /\ c \notin DOMAIN m.counter
      /\ DOMAIN q.counter = DOMAIN m.counter \cup {c} /\ q.counter[c] = 1
      /\ \A a \in DOMAIN m.counter : q.counter[a] = m.counter[a]
      /\ q.chars = m.chars
      /\ PoolWith(q.pool, IF kind = "pooled" THEN DOMAIN q.counter ELSE {})
  BY <1>1, <1>4, NewCount
<1> HIDE DEF q, c, s
<1>6. DOMAIN m.chars = {S[y].data : y \in DOMAIN S} \ {NoBlock}
  BY <1>1, <1>3 DEF BlocksOwned
<1>7. DOMAIN m.counter = {S[y].count : y \in DOMAIN S}
  BY <1>1 DEF CountsExact
<1>8. Fits(S, s)
  BY <1>2, <1>3, <1>5, <1>7 DEF Fits
<1>9. GrownBlocks(m, q, s, <<>>)
  <2>1. DOMAIN q.chars = (DOMAIN m.chars \cup {NoBlock}) \ {NoBlock}
    BY <1>5, <1>6
  <2>2. TextIn(q, s) = <<>>
    BY <1>2, <1>3 DEF TextIn
  <2> QED
    BY <1>2, <1>3, <1>5, <2>1, <2>2 DEF GrownBlocks
<1>10. GrownCounts(m, q, s)
  BY <1>2, <1>5 DEF GrownCounts
<1>11. Good(q, With(S, x, s), With(G, x, <<>>))
  BY <1>2, <1>3, <1>5, <1>8, <1>9, <1>10, AddString
<1> QED
  BY <1>11 DEF q, c, s

(* A copy shares the block of a string and is counted.                     *)
LEMMA ShareGood ==
  ASSUME NEW m, NEW S, NEW G, kind \in Counted, Good(m, S, G), NEW x \in String \ DOMAIN S,
         NEW z \in DOMAIN S
  PROVE  Good(Share(m, S[z]), With(S, x, S[z]), With(G, x, G[z]))
<1> DEFINE q == Share(m, S[z])
           c == S[z].count
           s == S[z]
<1>1. /\ MemoryLayout(m) /\ StringLayout(S, G) /\ BlocksOwned(m, S) /\ Readable(m, S, G)
      /\ SharedTogether(S) /\ CountsExact(m, S)
  BY DEF Good
<1>2. IsString(s)
  BY <1>1 DEF StringLayout
<1>3. kind \in Kinds /\ kind # "fixed" /\ kind # "variable"
  BY CountedKind DEF Kinds
<1>4. q = [chars |-> m.chars, counter |-> [m.counter EXCEPT ![c] = m.counter[c] + 1],
           pool |-> m.pool]
  <2>1. q = [m EXCEPT !.counter[c] = m.counter[c] + 1]
    BY DEF Share
  <2> HIDE DEF q, c
  <2> QED
    BY <1>1, <2>1, CountFields DEF MemoryLayout
<1>5. /\ q.chars = m.chars /\ q.counter = [m.counter EXCEPT ![c] = m.counter[c] + 1]
      /\ q.pool = m.pool /\ IsMemory(q)
  BY <1>4 DEF IsMemory
<1>6. c \in DOMAIN m.counter
  BY <1>1 DEF CountsExact
<1>7. SharedTogether(S)
  BY <1>1
<1>8. Fits(S, s)
  BY <1>3, <1>7 DEF Fits, SharedTogether
<1>9. s.count = c
  OBVIOUS
<1>10. TextIn(m, s) = G[z]
  BY <1>1 DEF Readable
<1>11. NoBlock \notin DOMAIN m.chars /\ (s.data = NoBlock \/ s.data \in DOMAIN m.chars)
  BY <1>1, <1>3 DEF BlocksOwned
<1> HIDE DEF q, c, s
<1>12. /\ DOMAIN q.counter = DOMAIN m.counter /\ IsTable(q.counter)
       /\ q.counter[c] = m.counter[c] + 1
       /\ \A e \in DOMAIN m.counter \ {c} : q.counter[e] = m.counter[e]
  BY <1>5, <1>6 DEF IsTable
<1>13. MemoryLayout(q)
  BY <1>1, <1>5, <1>12 DEF MemoryLayout
<1>14. GrownBlocks(m, q, s, G[z])
  <2>1. TextIn(q, s) = G[z]
    BY <1>5, <1>10 DEF TextIn
  <2>2. DOMAIN q.chars = (DOMAIN m.chars \cup {s.data}) \ {NoBlock}
    BY <1>5, <1>11
  <2> QED
    BY <1>3, <1>5, <2>1, <2>2 DEF GrownBlocks
<1>15. GrownCounts(m, q, s)
  <2>1. PoolWith(q.pool, IF kind = "pooled" THEN DOMAIN q.counter ELSE {})
    BY <1>1, <1>5, <1>12 DEF CountsExact
  <2> QED
    BY <1>6, <1>9, <1>12, <2>1 DEF GrownCounts
<1>16. Good(q, With(S, x, s), With(G, x, G[z]))
  BY <1>1, <1>2, <1>3, <1>8, <1>13, <1>14, <1>15, AddString
<1> QED
  BY <1>16 DEF q, s

(* A string that is alone with its counter keeps it: a new block only.     *)
LEMMA AloneGood ==
  ASSUME NEW m, NEW S, NEW G, kind \in Counted, Good(m, S, G), NEW x \in DOMAIN S,
         m.counter[S[x].count] = 1, NEW text
  PROVE  LET p == FreeChars(m, S[x].data)
         IN  Good(NewChars(p, text),
                  With(S, x, [data |-> NextChars(p), count |-> S[x].count]), With(G, x, text))
<1> DEFINE c == S[x].count
           d == S[x].data
           p == FreeChars(m, d)
           u == FreeCounter(m, c)
           v == FreeChars(u, d)
           q == NewChars(p, text)
           b == NextChars(p)
           S1 == Without(S, x)
           G1 == Without(G, x)
<1>1. MemoryLayout(m) /\ CountsExact(m, S) /\ StringLayout(S, G)
  BY DEF Good
<1>2. Good(v, S1, G1)
  BY DropLast
<1>3. p = [chars |-> IF d = NoBlock THEN m.chars ELSE Without(m.chars, d),
           counter |-> m.counter, pool |-> m.pool]
  BY <1>1, FreeCharsFields DEF MemoryLayout
<1>4. u = [chars |-> m.chars, counter |-> Without(m.counter, c),
           pool |-> IF kind = "pooled" THEN ValueDel(m.pool, c) ELSE m.pool]
  BY <1>1, FreeCounterFields DEF MemoryLayout
<1>5. u.chars = m.chars /\ u.counter = Without(m.counter, c) /\ IsMemory(u)
  BY <1>4 DEF IsMemory
<1>6. v = [chars |-> IF d = NoBlock THEN u.chars ELSE Without(u.chars, d),
           counter |-> u.counter, pool |-> u.pool]
  BY <1>5, FreeCharsFields
<1>7. /\ p.chars = v.chars /\ p.counter = m.counter /\ p.pool = m.pool /\ IsMemory(p)
      /\ v.counter = Without(m.counter, c)
  BY <1>3, <1>5, <1>6 DEF IsMemory
<1>8. c \in DOMAIN m.counter
  BY <1>1 DEF CountsExact
<1>9. DOMAIN Without(m.counter, c) = DOMAIN m.counter \ {c}
      /\ \A e \in DOMAIN m.counter \ {c} : Without(m.counter, c)[e] = m.counter[e]
  BY WithoutFacts
<1>10. x \notin DOMAIN S1 /\ x \in String
  BY <1>1, WithoutFacts DEF StringLayout
<1>11. With(S1, x, [data |-> b, count |-> c]) = With(S, x, [data |-> b, count |-> c])
       /\ With(G1, x, text) = With(G, x, text)
  BY Replaced
<1> HIDE DEF c, d, p, u, v, q, b, S1, G1
<1>12. MemoryLayout(v)
  BY <1>2 DEF Good
<1>13. MemoryLayout(p)
  BY <1>1, <1>7, <1>12 DEF MemoryLayout
<1>14. /\ MemoryLayout(q) /\ b # NoBlock /\ b \notin DOMAIN p.chars
       /\ DOMAIN q.chars = DOMAIN p.chars \cup {b} /\ q.chars[b] = text
       /\ \A a \in DOMAIN p.chars : q.chars[a] = p.chars[a]
       /\ q.counter = p.counter /\ q.pool = p.pool
  BY <1>13, NewBlock DEF q, b
<1>15. /\ c \notin DOMAIN v.counter /\ DOMAIN q.counter = DOMAIN v.counter \cup {c}
       /\ \A a \in DOMAIN v.counter : q.counter[a] = v.counter[a]
  BY <1>7, <1>8, <1>9, <1>14
<1>16. q.counter[c] = 1
  BY <1>7, <1>14 DEF c
<1>17. PoolWith(q.pool, IF kind = "pooled" THEN DOMAIN q.counter ELSE {})
  BY <1>1, <1>7, <1>14 DEF CountsExact
<1>18. Fresh(v, q, b, c, text)
  BY <1>7, <1>14, <1>15, <1>16, <1>17 DEF Fresh
<1>19. Good(q, With(S1, x, [data |-> b, count |-> c]), With(G1, x, text))
  BY <1>2, <1>10, <1>18, FreshGood
<1>20. Good(q, With(S, x, [data |-> b, count |-> c]), With(G, x, text))
  BY <1>11, <1>19
<1> QED
  BY <1>20 DEF c, d, p, q, b

-----------------------------------------------------------------------------
(* The invariant is kept.                                                  *)

LEMMA InvariantAfter ==
  ASSUME kind \in Kinds, UNCHANGED kind, Good(memory', string', given')
  PROVE  StrInv'
<1>1. /\ MemoryLayout(memory') /\ StringLayout(string', given')
      /\ BlocksOwned(memory', string') /\ Readable(memory', string', given')
      /\ SharedTogether(string') /\ CountsExact(memory', string')
  BY DEF Good
<1>2. (kind \in Kinds)' /\ MemoryLayout(memory)' /\ StringLayout(string, given)'
  BY <1>1 DEF Kinds, Counted, MemoryLayout, StringLayout, IsMemory, IsTable, IsString
<1>3. BlocksOwned(memory, string)'
  BY <1>1 DEF BlocksOwned
<1>4. Readable(memory, string, given)'
  BY <1>1 DEF Readable, TextIn
<1>5. SharedTogether(string)'
  BY <1>1 DEF SharedTogether, Counted
<1>6. CountsExact(memory, string)'
  BY <1>1 DEF CountsExact, Counted, Sharers, PoolWith, IsPool, Elements
<1> QED
  BY <1>2, <1>3, <1>4, <1>5, <1>6 DEF StrInv, Good

LEMMA BecomesKeeps ==
  ASSUME kind \in Kinds, NEW x, NEW s, NEW m, NEW text, Becomes(x, s, m, text),
         Good(m, With(string, x, s), With(given, x, Cut(text)))
  PROVE  StrInv'
BY InvariantAfter DEF Becomes

LEMMA FromTextKeeps ==
  ASSUME StrInv, NEW x \in String \ Alive, NEW text, FromText(x, text)
  PROVE  StrInv'
<1>1. kind \in Kinds /\ Good(memory, string, given) /\ x \in String \ DOMAIN string
  BY DEF StrInv, Alive
<1>2. CASE FixedFromText(x, text)
  <2>1. kind = "fixed" /\ Becomes(x, Inside(text), memory, text)
    BY <1>2 DEF FixedFromText
  <2>2. Good(memory, With(string, x, Inside(text)), With(given, x, Cut(text)))
    BY <1>1, <2>1, FixedGood
  <2> QED
    BY <1>1, <2>1, <2>2, BecomesKeeps
<1>3. CASE VariableFromText(x, text)
  <2>1. kind = "variable"
        /\ Becomes(x, Apart(NextChars(memory)), NewChars(memory, text), text)
    BY <1>3 DEF VariableFromText
  <2>2. Cut(text) = text
    BY <2>1, CutText
  <2>3. Good(NewChars(memory, text), With(string, x, Apart(NextChars(memory))),
             With(given, x, text))
    BY <1>1, <2>1, VariableGood
  <2> QED
    BY <1>1, <2>1, <2>2, <2>3, BecomesKeeps
<1>4. CASE CountedFromText(x, text)
  <2> DEFINE s == [data |-> NextChars(memory), count |-> NextCounter(memory)]
             m == NewCounter(NewChars(memory, text))
  <2>1. kind \in Counted /\ Becomes(x, s, m, text)
    BY <1>4 DEF CountedFromText
  <2>2. Cut(text) = text
    BY <2>1, CutText, CountedKind
  <2>3. Good(m, With(string, x, s), With(given, x, text))
    BY <1>1, <2>1, CountedTextGood
  <2> HIDE DEF s, m
  <2> QED
    BY <1>1, <2>1, <2>2, <2>3, BecomesKeeps
<1> QED
  BY <1>2, <1>3, <1>4 DEF FromText

LEMMA ConstructKeeps ==
  ASSUME StrInv, NEW x \in String \ Alive, Construct(x)
  PROVE  StrInv'
<1>1. kind \in Kinds /\ Good(memory, string, given) /\ x \in String \ DOMAIN string
  BY DEF StrInv, Alive
<1>2. CASE FixedFromText(x, <<>>)
  BY <1>2, FromTextKeeps DEF FromText
<1>3. CASE VariableEmpty(x)
  <2>1. kind = "variable" /\ Becomes(x, Apart(NoBlock), memory, <<>>)
    BY <1>3 DEF VariableEmpty
  <2>2. Cut(<<>>) = <<>>
    BY <2>1, CutText
  <2>3. Good(memory, With(string, x, Apart(NoBlock)), With(given, x, <<>>))
    BY <1>1, <2>1, VariableGood
  <2> QED
    BY <1>1, <2>1, <2>2, <2>3, BecomesKeeps
<1>4. CASE CountedEmpty(x)
  <2> DEFINE s == [data |-> NoBlock, count |-> NextCounter(memory)]
             m == NewCounter(memory)
  <2>1. kind \in Counted /\ Becomes(x, s, m, <<>>)
    BY <1>4 DEF CountedEmpty
  <2>2. Cut(<<>>) = <<>>
    BY <2>1, CutText, CountedKind
  <2>3. Good(m, With(string, x, s), With(given, x, <<>>))
    BY <1>1, <2>1, CountedEmptyGood
  <2> HIDE DEF s, m
  <2> QED
    BY <1>1, <2>1, <2>2, <2>3, BecomesKeeps
<1> QED
  BY <1>2, <1>3, <1>4 DEF Construct

LEMMA CopyOfKeeps ==
  ASSUME StrInv, NEW x \in String \ Alive, NEW y \in Alive, CopyOf(x, y)
  PROVE  StrInv'
<1>1. kind \in Kinds /\ Good(memory, string, given) /\ x \in String \ DOMAIN string
      /\ y \in DOMAIN string
  BY DEF StrInv, Alive
<1>2. CASE kind \notin Counted /\ FromText(x, TextOf(string[y]))
  BY <1>2, FromTextKeeps
<1>3. CASE kind \in Counted
  <2>1. Becomes(x, string[y], Share(memory, string[y]), given[y])
    BY <1>3 DEF CopyOf
  <2>2. Cut(given[y]) = given[y]
    BY <1>3, CutText, CountedKind
  <2>3. Good(Share(memory, string[y]), With(string, x, string[y]), With(given, x, given[y]))
    BY <1>1, <1>3, ShareGood
  <2> QED
    BY <1>1, <2>1, <2>2, <2>3, BecomesKeeps
<1> QED
  BY <1>2, <1>3 DEF CopyOf

LEMMA SubstrKeeps ==
  ASSUME StrInv, NEW x \in String \ Alive, NEW y \in Alive, NEW pos, NEW len,
         Substr(x, y, pos, len)
  PROVE  StrInv'
BY FromTextKeeps, ConstructKeeps DEF Substr

(* What a string leaves behind.                                            *)
LEMMA DropGood ==
  ASSUME StrInv, NEW x \in Alive
  PROVE  Good(Drop(memory, string[x]), Without(string, x), Without(given, x))
<1> DEFINE s == string[x]
<1>1. kind \in Kinds /\ Good(memory, string, given) /\ x \in DOMAIN string
  BY DEF StrInv, Alive
<1>2. CASE kind = "fixed"
  <2>1. Drop(memory, s) = memory
    BY <1>2 DEF Drop, Counted
  <2> QED
    BY <1>1, <1>2, <2>1, DropFixed
<1>3. CASE kind = "variable"
  <2>1. Drop(memory, s) = FreeChars(memory, s.data)
    BY <1>3 DEF Drop, Counted
  <2> QED
    BY <1>1, <1>3, <2>1, DropVariable
<1>4. CASE kind \in Counted /\ memory.counter[s.count] = 1
  <2>1. Drop(memory, s) = FreeChars(FreeCounter(memory, s.count), s.data)
    BY <1>4, CountedKind DEF Drop
  <2> QED
    BY <1>1, <1>4, <2>1, DropLast
<1>5. CASE kind \in Counted /\ memory.counter[s.count] # 1
  <2> DEFINE q == Drop(memory, s)
  <2>1. q = [memory EXCEPT !.counter[s.count] = @ - 1]
    BY <1>5, CountedKind DEF Drop
  <2> HIDE DEF q
  <2>2. Good(q, Without(string, x), Without(given, x))
    BY <1>1, <1>5, <2>1, DropShared
  <2> QED
    BY <2>2 DEF q
<1> QED
  BY <1>1, <1>2, <1>3, <1>4, <1>5 DEF Kinds

LEMMA DestroyKeeps ==
  ASSUME StrInv, NEW x \in Alive, Destroy(x)
  PROVE  StrInv'
<1>1. kind \in Kinds
  BY DEF StrInv
<1>2. Good(Drop(memory, string[x]), Without(string, x), Without(given, x))
  BY DropGood
<1> QED
  BY <1>1, <1>2, InvariantAfter DEF Destroy

LEMMA AssignTextKeeps ==
  ASSUME StrInv, NEW x \in Alive, NEW text, AssignText(x, text)
  PROVE  StrInv'
<1> DEFINE S1 == Without(string, x)
           G1 == Without(given, x)
           s == string[x]
<1>1. kind \in Kinds /\ Good(memory, string, given) /\ x \in DOMAIN string
  BY DEF StrInv, Alive
<1>2. x \in String \ DOMAIN S1
  BY <1>1, WithoutFacts DEF Good, StringLayout
<1>3. Good(Drop(memory, s), S1, G1)
  BY DropGood
<1>4. \A v, w : With(S1, x, v) = With(string, x, v) /\ With(G1, x, w) = With(given, x, w)
  BY Replaced
<1> HIDE DEF S1, G1
<1>5. CASE FixedAssign(x, text)
  <2>1. kind = "fixed" /\ Becomes(x, Inside(text), memory, text)
    BY <1>5 DEF FixedAssign
  <2>2. Drop(memory, s) = memory
    BY <2>1 DEF Drop, Counted
  <2>3. Good(memory, With(S1, x, Inside(text)), With(G1, x, Cut(text)))
    BY <1>2, <1>3, <2>1, <2>2, FixedGood
  <2> QED
    BY <1>1, <1>4, <2>1, <2>3, BecomesKeeps
<1>6. CASE VariableAssign(x, text)
  <2> DEFINE m == FreeChars(memory, s.data)
  <2>1. kind = "variable" /\ Becomes(x, Apart(NextChars(m)), NewChars(m, text), text)
    BY <1>6 DEF VariableAssign
  <2>2. Drop(memory, s) = m
    BY <2>1 DEF Drop, Counted
  <2> HIDE DEF m
  <2>3. Good(NewChars(m, text), With(S1, x, Apart(NextChars(m))), With(G1, x, text))
    BY <1>2, <1>3, <2>1, <2>2, VariableGood
  <2>4. Cut(text) = text
    BY <2>1, CutText
  <2> QED
    BY <1>1, <1>4, <2>1, <2>3, <2>4, BecomesKeeps
<1>7. CASE CountedAssign(x, text) /\ memory.counter[s.count] = 1
  <2> DEFINE m == FreeChars(memory, s.data)
             t == [data |-> NextChars(m), count |-> s.count]
  <2>1. kind \in Counted /\ Becomes(x, t, NewChars(m, text), text)
    BY <1>7 DEF CountedAssign
  <2>2. Good(NewChars(m, text), With(string, x, t), With(given, x, text))
    BY <1>1, <1>7, <2>1, AloneGood
  <2>3. Cut(text) = text
    BY <2>1, CutText, CountedKind
  <2> HIDE DEF m, t
  <2> QED
    BY <1>1, <2>1, <2>2, <2>3, BecomesKeeps
<1>8. CASE CountedAssign(x, text) /\ memory.counter[s.count] # 1
  <2> DEFINE p == Drop(memory, s)
             m == NewCounter(p)
             t == [data |-> NextChars(m), count |-> NextCounter(p)]
  <2>1. /\ kind \in Counted
        /\ Becomes(x, [data |-> NextChars(m), count |-> NextCounter(memory)],
                   NewChars(m, text), text)
    BY <1>8 DEF CountedAssign
  <2>2. p = [memory EXCEPT !.counter[s.count] = @ - 1]
    BY <1>8, <2>1, CountedKind DEF Drop
  <2> HIDE DEF p
  <2>3. DOMAIN p.counter = DOMAIN memory.counter /\ p.pool = memory.pool
    BY <1>1, <1>8, <2>1, <2>2, DropShared
  <2>4. NextCounter(p) = NextCounter(memory)
    BY <2>3 DEF NextCounter
  <2>5. Good(NewChars(m, text), With(S1, x, t), With(G1, x, text))
    <3>1. Good(p, S1, G1)
      BY <1>3 DEF p
    <3> QED
      BY <1>2, <2>1, <3>1, CountedTextGood
  <2>6. Cut(text) = text
    BY <2>1, CutText, CountedKind
  <2>7. Becomes(x, t, NewChars(m, text), text)
    BY <2>1, <2>4
  <2> HIDE DEF m, t
  <2>8. Good(NewChars(m, text), With(string, x, t), With(given, x, Cut(text)))
    BY <1>4, <2>5, <2>6
  <2> QED
    BY <1>1, <2>7, <2>8, BecomesKeeps
<1> QED
  BY <1>5, <1>6, <1>7, <1>8 DEF AssignText

(* A string that reads its freed block takes no other's text with it.      *)
LEMMA OthersKept ==
  ASSUME StrInv, NEW x \in Alive, NEW m, m.chars = Drop(memory, string[x]).chars,
         ReadsFreed(x, m)
  PROVE  StrInvOrStale'
<1> DEFINE p == Drop(memory, string[x])
           S1 == Without(string, x)
           G1 == Without(given, x)
<1>1. BlocksOwned(p, S1) /\ Readable(p, S1, G1)
  BY DropGood DEF Good
<1>2. /\ stale' = {x} /\ memory' = m
      /\ kind' = kind /\ string' = string /\ given' = given
  BY DEF ReadsFreed
<1>3. DOMAIN S1 = DOMAIN string \ {x} /\ \A z \in DOMAIN S1 : S1[z] = string[z]
  BY WithoutFacts
<1>4. \A z \in DOMAIN given \ {x} : G1[z] = given[z]
  BY WithoutFacts
<1>5. DOMAIN given = DOMAIN string
  BY DEF StrInv, Good, StringLayout
<1> HIDE DEF p, S1, G1
<1>6. m.chars = p.chars
  BY DEF p
<1>7. ASSUME NEW z \in DOMAIN string \ {x}
      PROVE  /\ kind = "fixed" \/ string[z].data \in DOMAIN m.chars \cup {NoBlock}
             /\ TextIn(m, string[z]) = given[z]
  <2>1. z \in DOMAIN S1 /\ S1[z] = string[z] /\ G1[z] = given[z]
    BY <1>3, <1>4, <1>5
  <2>2. kind = "fixed" \/ string[z].data \in DOMAIN p.chars \cup {NoBlock}
    BY <1>1, <2>1 DEF BlocksOwned
  <2>3. TextIn(p, string[z]) = given[z]
    BY <1>1, <2>1 DEF Readable
  <2>4. TextIn(m, string[z]) = TextIn(p, string[z])
    BY <1>6 DEF TextIn
  <2> QED
    BY <1>6, <2>2, <2>3, <2>4
<1>8. TextsKept'
  <2>1. ASSUME NEW z \in DOMAIN string \ {x}
        PROVE  /\ kind' = "fixed" \/ string'[z].data \in DOMAIN memory'.chars \cup {NoBlock}
               /\ TextOf(string[z])' = given'[z]
    BY <1>2, <1>7 DEF TextOf, TextIn
  <2> QED
    BY <1>2, <2>1 DEF TextsKept, Alive
<1> QED
  BY <1>2, <1>8 DEF StrInvOrStale

LEMMA AssignOwnKeeps ==
  ASSUME StrInv, stale = {}, NEW x \in Alive, AssignOwnText(x)
  PROVE  StrInvOrStale'
<1> DEFINE s == string[x]
           f == FreeChars(memory, s.data)
<1>1. CASE Alone(x)
  <2>1. ReadsFreed(x, f)
    BY <1>1 DEF AssignOwnText
  <2>2. f.chars = Drop(memory, s).chars
    <3>1. CASE kind = "variable"
      BY <3>1 DEF Drop, Counted
    <3>2. CASE kind \in Counted /\ memory.counter[s.count] = 1
      <4> DEFINE n == FreeCounter(memory, s.count)
      <4>1. Drop(memory, s) = FreeChars(n, s.data)
        BY <3>2, CountedKind DEF Drop
      <4>2. IsMemory(memory)
        BY DEF StrInv, Good, MemoryLayout
      <4>3. n = [chars |-> memory.chars, counter |-> Without(memory.counter, s.count),
                 pool |-> IF kind = "pooled" THEN ValueDel(memory.pool, s.count)
                          ELSE memory.pool]
        BY <4>2, FreeCounterFields
      <4>4. n.chars = memory.chars /\ IsMemory(n)
        BY <4>3 DEF IsMemory
      <4> HIDE DEF n
      <4>5. FreeChars(n, s.data).chars = FreeChars(memory, s.data).chars
        BY <4>2, <4>4, FreeCharsFields
      <4> QED
        BY <4>1, <4>5
    <3> QED
      BY <1>1, <3>1, <3>2 DEF Alone
  <2> HIDE DEF f
  <2> QED
    BY <2>1, <2>2, OthersKept
<1>2. CASE ~Alone(x)
  <2>1. AssignText(x, TextOf(s))
    BY <1>2 DEF AssignOwnText
  <2>2. StrInv'
    BY <2>1, AssignTextKeeps
  <2>3. stale' = stale
    BY <2>1 DEF AssignText, FixedAssign, VariableAssign, CountedAssign, Becomes
  <2> QED
    BY <2>2, <2>3 DEF StrInvOrStale
<1> QED
  BY <1>1, <1>2

LEMMA AssignShareKeeps ==
  ASSUME StrInv, NEW x \in Alive, NEW y \in Alive, AssignShare(x, y),
         ~(x = y /\ Alone(x))
  PROVE  StrInv'
<1> DEFINE S1 == Without(string, x)
           G1 == Without(given, x)
           s == string[x]
           p == Drop(memory, s)
           q == Share(p, string[y])
<1>1. kind \in Kinds /\ Good(memory, string, given) /\ x \in DOMAIN string
      /\ y \in DOMAIN string
  BY DEF StrInv, Alive
<1>2. x \in String \ DOMAIN S1
  BY <1>1, WithoutFacts DEF Good, StringLayout
<1>3. Good(p, S1, G1)
  BY DropGood
<1>4. \A v, w : With(S1, x, v) = With(string, x, v) /\ With(G1, x, w) = With(given, x, w)
  BY Replaced
<1>5. kind \in Counted /\ Becomes(x, string[y], q, given[y])
      /\ (x = y => memory.counter[s.count] # 1)
  BY DEF AssignShare, Alone
<1>6. DOMAIN S1 = DOMAIN string \ {x} /\ \A z \in DOMAIN S1 : S1[z] = string[z]
  BY WithoutFacts
<1>7. \A z \in DOMAIN given \ {x} : G1[z] = given[z]
  BY WithoutFacts
<1>8. DOMAIN given = DOMAIN string
  BY <1>1 DEF Good, StringLayout
<1>9. \E z \in DOMAIN S1 : S1[z] = string[y] /\ G1[z] = given[y]
  <2>1. CASE x # y
    <3>1. y \in DOMAIN S1
      BY <1>1, <1>6, <2>1
    <3> HIDE DEF S1, G1
    <3> QED
      BY <1>6, <1>7, <1>8, <2>1, <3>1
  <2>2. CASE x = y
    <3>1. memory.counter[s.count] # 1
      BY <1>5, <2>2
    <3>2. \E z \in DOMAIN string : z # x /\ string[z].count = string[x].count
      BY <1>1, <1>5, <3>1, SharedHasTwin
    <3>3. PICK z \in DOMAIN string \ {x} : string[z].count = s.count
      BY <3>2
    <3>4. string[z].data = s.data
      BY <1>1, <1>5, <3>3 DEF Good, SharedTogether
    <3>5. IsString(string[z]) /\ IsString(string[x])
      BY <1>1, <3>3 DEF Good, StringLayout
    <3>6. string[z] = string[x]
      <4>1. string[z] = [data |-> string[z].data, count |-> string[z].count]
        BY <3>5 DEF IsString
      <4>2. string[x] = [data |-> string[x].data, count |-> string[x].count]
        BY <3>5 DEF IsString
      <4> QED
        BY <3>3, <3>4, <4>1, <4>2, Zenon
    <3>7. TextIn(memory, string[z]) = given[z] /\ TextIn(memory, string[x]) = given[x]
      BY <1>1, <3>3 DEF Good, Readable
    <3>8. given[z] = given[x]
      BY <3>6, <3>7
    <3> HIDE DEF S1, G1
    <3> QED
      BY <1>6, <1>7, <1>8, <2>2, <3>3, <3>6, <3>8
  <2> QED
    BY <2>1, <2>2
<1> HIDE DEF S1, G1
<1>10. PICK z \in DOMAIN S1 : S1[z] = string[y] /\ G1[z] = given[y]
  BY <1>9
<1>11. Good(q, With(S1, x, string[y]), With(G1, x, given[y]))
  <2>1. Good(Share(p, S1[z]), With(S1, x, S1[z]), With(G1, x, G1[z]))
    <3> HIDE DEF p
    <3> QED
      BY <1>2, <1>3, <1>5, ShareGood
  <2> QED
    BY <1>10, <2>1
<1>12. Cut(given[y]) = given[y]
  BY <1>5, CutText, CountedKind
<1> HIDE DEF q
<1>13. Good(q, With(string, x, string[y]), With(given, x, Cut(given[y])))
  BY <1>4, <1>11, <1>12
<1> QED
  BY <1>1, <1>5, <1>13, BecomesKeeps

LEMMA StringInitGood == StringInit => StrInv
<1> SUFFICES ASSUME StringInit PROVE StrInv
  OBVIOUS
<1> DEFINE e == [chunks |-> <<>>, free |-> <<>>, used |-> {}]
           p == PoolOf(PoolSize)
<1>1. IsPool(e) /\ e.chunks \in Seq(Nat \ {0}) /\ DOMAIN e.chunks = {}
  BY DEF IsPool
<1>2. Elements(e) = {}
  BY <1>1, ElementIs
<1>3. PoolWith(p, {})
  <2>1. p = AddChunk(e, PoolSize)
    BY DEF PoolOf
  <2> HIDE DEF e, p
  <2> QED
    BY <1>1, <1>2, <2>1, AddChunkFacts, StringAssumption
<1>4. kind \in Kinds /\ string = <<>> /\ given = <<>>
      /\ memory = [chars |-> <<>>, counter |-> <<>>, pool |-> p]
  BY DEF StringInit, Kinds
<1> HIDE DEF p
<1>5. /\ memory.chars = <<>> /\ memory.counter = <<>> /\ memory.pool = p
      /\ IsMemory(memory)
  BY <1>4 DEF IsMemory
<1>6. IsTable(<<>>) /\ DOMAIN <<>> = {}
  BY NoTable
<1>7. MemoryLayout(memory)
  BY <1>5, <1>6, FS_EmptySet DEF MemoryLayout
<1>8. StringLayout(string, given)
  BY <1>4, <1>6 DEF StringLayout
<1>9. BlocksOwned(memory, string)
  BY <1>4, <1>5, <1>6 DEF BlocksOwned
<1>10. Readable(memory, string, given) /\ SharedTogether(string)
  BY <1>4, <1>6 DEF Readable, SharedTogether
<1>11. CountsExact(memory, string)
  BY <1>3, <1>4, <1>5, <1>6 DEF CountsExact
<1> QED
  BY <1>4, <1>7, <1>8, <1>9, <1>10, <1>11 DEF StrInv, Good

LEMMA StringStep == StrInvOrStale /\ [StringNext]_stringVars => StrInvOrStale'
<1> SUFFICES ASSUME StrInvOrStale, [StringNext]_stringVars PROVE StrInvOrStale'
  OBVIOUS
<1>1. ASSUME stale = {}, NEW x \in String \ Alive,
             \/ Construct(x)
             \/ \E text \in Text : FromText(x, text)
             \/ \E y \in Alive : CopyOf(x, y) \/ \E pos, len \in 0 .. 2 : Substr(x, y, pos, len)
      PROVE  StrInvOrStale'
  <2>1. StrInv
    BY <1>1 DEF StrInvOrStale
  <2>2. StrInv'
    BY <1>1, <2>1, ConstructKeeps, FromTextKeeps, CopyOfKeeps, SubstrKeeps
  <2>3. \A text : FromText(x, text) => stale' = stale
    BY DEF FromText, FixedFromText, VariableFromText, CountedFromText, Becomes
  <2>4. Construct(x) => stale' = stale
    BY <2>3 DEF Construct, FixedFromText, VariableEmpty, CountedEmpty, Becomes
  <2>5. \A y \in Alive : CopyOf(x, y) => stale' = stale
    BY <2>3 DEF CopyOf, Becomes
  <2>6. \A y \in Alive, pos, len \in 0 .. 2 : Substr(x, y, pos, len) => stale' = stale
    BY <2>3, <2>4 DEF Substr
  <2> QED
    BY <1>1, <2>2, <2>3, <2>4, <2>5, <2>6 DEF StrInvOrStale
<1>2. ASSUME stale = {}, NEW x \in Alive,
             \/ Destroy(x)
             \/ AssignOwnText(x)
             \/ \E text \in Text : AssignText(x, text)
             \/ \E y \in Alive : AssignCopy(x, y) \/ AssignShare(x, y)
      PROVE  StrInvOrStale'
  <2>1. StrInv
    BY <1>2 DEF StrInvOrStale
  <2>2. ASSUME NEW text, AssignText(x, text)
        PROVE  StrInvOrStale'
    <3>1. stale' = stale
      BY <2>2 DEF AssignText, FixedAssign, VariableAssign, CountedAssign, Becomes
    <3> QED
      BY <1>2, <2>1, <2>2, <3>1, AssignTextKeeps DEF StrInvOrStale
  <2>3. CASE Destroy(x)
    BY <1>2, <2>1, <2>3, DestroyKeeps DEF StrInvOrStale, Destroy
  <2>4. ASSUME NEW y \in Alive, AssignShare(x, y)
        PROVE  StrInvOrStale'
    <3>1. CASE x = y /\ Alone(x)
      <4>1. ReadsFreed(x, Drop(memory, string[x]))
        BY <2>4, <3>1 DEF AssignShare
      <4> QED
        BY <2>1, <4>1, OthersKept
    <3>2. CASE ~(x = y /\ Alone(x))
      <4>1. StrInv'
        BY <2>1, <2>4, <3>2, AssignShareKeeps
      <4>2. stale' = stale
        BY <2>4, <3>2 DEF AssignShare, Becomes
      <4> QED
        BY <1>2, <4>1, <4>2 DEF StrInvOrStale
    <3> QED
      BY <3>1, <3>2
  <2> QED
    BY <1>2, <2>1, <2>2, <2>3, <2>4, AssignOwnKeeps DEF AssignCopy
<1>3. CASE UNCHANGED stringVars
  <2>1. UNCHANGED <<kind, memory, string, given>> /\ stale' = stale
    BY <1>3 DEF stringVars
  <2>2. CASE stale = {}
    BY <2>1, <2>2, InvariantAfter DEF StrInvOrStale, StrInv
  <2>3. CASE stale # {}
    BY <2>1, <2>3 DEF StrInvOrStale, TextsKept, Alive, TextOf
  <2> QED
    BY <2>2, <2>3
<1> QED
  BY <1>1, <1>2, <1>3 DEF StringNext

LEMMA ListLength ==
  ASSUME NEW A, NEW f \in Seq(A), \A i, j \in DOMAIN f : f[i] = f[j] => i = j
  PROVE  Len(f) = Cardinality(Range(f))
<1> DEFINE n == Len(f)
<1>1. n \in Nat /\ DOMAIN f = 1 .. n
  OBVIOUS
<1>2. f \in Bijection(1 .. n, Range(f))
  <2>1. f \in [1 .. n -> Range(f)]
    BY <1>1 DEF Range
  <2>2. IsInjective(f)
    BY DEF IsInjective
  <2>3. \A t \in Range(f) : \E k \in 1 .. n : f[k] = t
    BY <1>1 DEF Range
  <2> HIDE DEF n
  <2> QED
    BY <2>1, <2>2, <2>3 DEF Bijection, Injection, Surjection
<1>3. ExistsBijection(1 .. n, Range(f))
  BY <1>2 DEF ExistsBijection
<1>4. IsFiniteSet(1 .. n) /\ Cardinality(1 .. n) = n
  <2>1. \A k \in Nat : 1 \in Int /\ k \in Int /\ (IF 1 > k THEN 0 ELSE k - 1 + 1) = k
    OBVIOUS
  <2> QED
    BY <1>1, <2>1, FS_Interval
<1> QED
  BY <1>3, <1>4, FS_Bijection

LEMMA InvariantSuffices == StrInv => StringsSound
<1> SUFFICES ASSUME StrInv PROVE StringsSound
  OBVIOUS
<1> DEFINE m == memory
           S == string
<1>1. /\ MemoryLayout(m) /\ StringLayout(S, given) /\ BlocksOwned(m, S)
      /\ Readable(m, S, given) /\ SharedTogether(S) /\ CountsExact(m, S)
  BY DEF StrInv, Good
<1>2. TextsKept
  BY <1>1, TextOfIn DEF TextsKept, Alive, BlocksOwned, Readable
<1>3. \A c : Sharers(S, c) = {x \in Alive : string[x].count = c}
  BY DEF Sharers, Alive
<1>4. \A c \in DOMAIN m.counter : m.counter[c] = Cardinality({x \in Alive : string[x].count = c})
  BY <1>1, <1>3 DEF CountsExact
<1>5. PoolWith(m.pool, IF kind = "pooled" THEN DOMAIN m.counter ELSE {})
  BY <1>1 DEF CountsExact
<1>6. Len(m.pool.free) = Cardinality(Range(m.pool.free))
  BY <1>5, ListLength DEF PoolWith
<1>7. Range(m.pool.free) = IF kind = "pooled" THEN Elements(m.pool) \ DOMAIN m.counter
                           ELSE Elements(m.pool)
  BY <1>5 DEF PoolWith, Range
<1>8. kind # "fixed" => DOMAIN m.chars = {string[x].data : x \in Alive} \ {NoBlock}
  BY <1>1 DEF BlocksOwned, Alive
<1>9. kind \in Counted => DOMAIN m.counter = {string[x].count : x \in Alive}
  BY <1>1 DEF CountsExact, Alive
<1>10. MemoryAccounted
  BY <1>4, <1>6, <1>7, <1>8, <1>9 DEF MemoryAccounted
<1> QED
  BY <1>2, <1>10 DEF StringsSound

(* However the strings of a program are constructed, copied, assigned and  *)
(* destroyed, whatever their type, and for any number of them and size of  *)
(* the pool's chunks: each keeps the text it was given, the counters say   *)
(* how many strings there are with a block, and nothing is lost, until one *)
(* that is alone with its block is assigned itself or its own c_str(), and *)
(* is read after it was freed; the others can still be read then.          *)
THEOREM StringsStaySound == StringSpec => []StringsSound
<1>1. StringInit => StrInvOrStale
  BY StringInitGood DEF StrInvOrStale, StringInit
<1>2. StrInvOrStale /\ [StringNext]_stringVars => StrInvOrStale'
  BY StringStep
<1>3. StrInvOrStale => StringsSound
  BY InvariantSuffices DEF StrInvOrStale, StringsSound
<1> QED
  BY <1>1, <1>2, <1>3, PTL DEF StringSpec
=============================================================================
