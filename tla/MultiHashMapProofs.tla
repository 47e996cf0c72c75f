------------------------- MODULE MultiHashMapProofs -------------------------
(***************************************************************************)
(* The map of backend/lib/mmap.hpp, for any keys, any hashes and any       *)
(* number of entries: its list and its two indexes always hold the same    *)
(* entries, and it is the store its caller thinks it is.                   *)
(*                                                                         *)
(* The indexes come first, as operations on the set of the cells they      *)
(* hold: whatever moves in the buckets, insert adds a cell, erase takes    *)
(* one away and a lookup finds the one there is.  Then the invariant ties  *)
(* the cells and the list to the entries.                                  *)
(***************************************************************************)
EXTENDS MultiHashMap, SequenceTheorems, FiniteSums

Cell == [obj : Nat, hash : Nat, rest : Seq(Nat)]

(* The cells of a bucket that hold an object.                              *)
Filled(cells) == {c \in Cell : c.obj # Null /\ \E i \in 1..Len(cells) : cells[i] = c}

(* The bucket b of an index of the given size: only a head alone is empty, *)
(* and no object is there twice.                                           *)
GoodBucket(cells, b, size) ==
  /\ cells \in Seq(Cell)
  /\ Len(cells) >= 1
  /\ \A i \in 1..Len(cells) :
       /\ Len(cells) > 1 => cells[i].obj # Null
       /\ cells[i].obj # Null => cells[i].hash % size = b
  /\ \A i, j \in 1..Len(cells) :
       cells[i].obj = cells[j].obj /\ cells[i].obj # Null => i = j

GoodBuckets(idx) ==
  /\ idx.size \in Nat \ {0}
  /\ \A b \in 0..idx.size - 1 : GoodBucket(idx.bucket[b], b, idx.size)

IndexRecord(idx) ==
  /\ DOMAIN idx = {"size", "count", "bucket", "nodes", "links"}
  /\ DOMAIN idx.bucket = 0..idx.size - 1

(* The cells of an index that hold an object.                              *)
Held(idx) == {c \in Cell : \E b \in 0..idx.size - 1 : c \in Filled(idx.bucket[b])}

(* No two of them hold the same.                                           *)
Apart(cells) == \A c, d \in cells : c.obj = d.obj => c = d

Well(idx) == IndexRecord(idx) /\ GoodBuckets(idx) /\ Apart(Held(idx))

Counted(idx) ==
  idx.count \in Nat /\ IsFiniteSet(Held(idx)) /\ Cardinality(Held(idx)) = idx.count

-----------------------------------------------------------------------------

(* The bucket of a cell that an index holds is that of its hash.           *)
LEMMA HeldInBucket ==
  ASSUME NEW idx, GoodBuckets(idx), NEW c
  PROVE  /\ c \in Held(idx) =>
              /\ c.hash % idx.size \in 0..idx.size - 1
              /\ c \in Filled(idx.bucket[c.hash % idx.size])
         /\ \A b \in 0..idx.size - 1 :
              c \in Filled(idx.bucket[b]) => c \in Held(idx) /\ c.hash % idx.size = b
<1>1. ASSUME NEW b \in 0..idx.size - 1, c \in Filled(idx.bucket[b])
      PROVE  c \in Held(idx) /\ c.hash % idx.size = b
  <2>1. GoodBucket(idx.bucket[b], b, idx.size)
    BY DEF GoodBuckets
  <2>2. PICK i \in 1..Len(idx.bucket[b]) : idx.bucket[b][i] = c
    BY <1>1 DEF Filled
  <2>3. c.obj # Null /\ c \in Cell
    BY <1>1 DEF Filled
  <2> QED
    BY <1>1, <2>1, <2>2, <2>3 DEF GoodBucket, Held
<1>2. ASSUME c \in Held(idx)
      PROVE  /\ c.hash % idx.size \in 0..idx.size - 1
             /\ c \in Filled(idx.bucket[c.hash % idx.size])
  <2>1. PICK b \in 0..idx.size - 1 : c \in Filled(idx.bucket[b])
    BY <1>2 DEF Held
  <2> QED
    BY <1>1, <2>1
<1> QED
  BY <1>1, <1>2

(* One bucket of an index is another sequence of cells.                    *)
Rebucketed(new, idx, b, cells) ==
  /\ IndexRecord(new)
  /\ new.size = idx.size
  /\ new.bucket = [idx.bucket EXCEPT ![b] = cells]

LEMMA BucketReplaced ==
  ASSUME NEW idx, Well(idx), NEW b \in 0..idx.size - 1, NEW cells,
         GoodBucket(cells, b, idx.size),
         NEW new, Rebucketed(new, idx, b, cells), NEW held,
         held = (Held(idx) \ Filled(idx.bucket[b])) \cup Filled(cells), Apart(held)
  PROVE  Well(new) /\ Held(new) = held
<1>1. /\ DOMAIN idx.bucket = 0..idx.size - 1 /\ GoodBuckets(idx)
      /\ idx.size \in Nat \ {0} /\ new.size = idx.size
  BY DEF Well, IndexRecord, GoodBuckets, Rebucketed
<1>2. /\ new.bucket[b] = cells
      /\ \A a \in 0..idx.size - 1 : a # b => new.bucket[a] = idx.bucket[a]
  BY <1>1 DEF Rebucketed
<1>3. GoodBuckets(new)
  BY <1>1, <1>2 DEF GoodBuckets
<1>4. ASSUME NEW c
      PROVE  c \in Held(new) <=> c \in held
  <2>1. ASSUME c \in Held(new)
        PROVE  c \in held
    <3>1. PICK a \in 0..idx.size - 1 : c \in Filled(new.bucket[a])
      BY <1>1, <2>1 DEF Held
    <3>2. CASE a = b
      BY <1>2, <3>1, <3>2
    <3>3. CASE a # b
      <4>1. c \in Filled(idx.bucket[a])
        BY <1>2, <3>1, <3>3
      <4>2. c \in Held(idx) /\ c.hash % idx.size = a
        BY <1>1, <4>1, HeldInBucket
      <4>3. c \notin Filled(idx.bucket[b])
        BY <1>1, <3>3, <4>2, HeldInBucket
      <4> QED
        BY <4>2, <4>3
    <3> QED
      BY <3>2, <3>3
  <2>2. ASSUME c \in held
        PROVE  c \in Held(new)
    <3>1. CASE c \in Filled(cells)
      <4>1. c \in Filled(new.bucket[b])
        BY <1>2, <3>1
      <4> QED
        BY <1>1, <1>3, <4>1, HeldInBucket
    <3>2. CASE c \in Held(idx) /\ c \notin Filled(idx.bucket[b])
      <4>1. PICK a \in 0..idx.size - 1 : c \in Filled(idx.bucket[a])
        BY <3>2 DEF Held
      <4>2. c \in Filled(new.bucket[a])
        BY <1>2, <3>2, <4>1
      <4> QED
        BY <1>1, <1>3, <4>2, HeldInBucket
    <3> QED
      BY <2>2, <3>1, <3>2
  <2> QED
    BY <2>1, <2>2
<1>5. Held(new) = held
  BY <1>4
<1> QED
  BY <1>3, <1>5 DEF Well, Rebucketed

-----------------------------------------------------------------------------
(***************************************************************************)
(* The operators on sequences.                                             *)
(***************************************************************************)

LEMMA InsertSecond ==
  ASSUME NEW S, NEW s \in Seq(S), Len(s) >= 1, NEW e \in S
  PROVE  /\ InsertAt(s, 2, e) \in Seq(S)
         /\ Len(InsertAt(s, 2, e)) = Len(s) + 1
         /\ \A i \in 1..Len(s) + 1 :
              InsertAt(s, 2, e)[i] = IF i < 2 THEN s[i] ELSE IF i = 2 THEN e ELSE s[i - 1]
<1>1. PICK n \in Nat : n = Len(s)
  OBVIOUS
<1>2. n >= 1 /\ \A i \in 1..n : s[i] \in S
  BY <1>1
<1>3. PICK u : u = SubSeq(s, 1, 2 - 1)
  OBVIOUS
<1>4. PICK w : w = SubSeq(s, 2, n)
  OBVIOUS
<1>5. u \in Seq(S) /\ Len(u) = 1 /\ u[1] = s[1]
  <2>1. \A i \in 1..1 : s[i] \in S
    BY <1>2
  <2> QED
    BY <1>3, <2>1, SubSeqProperties
<1>6. w \in Seq(S) /\ Len(w) = n - 1 /\ \A i \in 1..n - 1 : w[i] = s[2 + i - 1]
  <2>1. \A i \in 2..n : s[i] \in S
    BY <1>2
  <2>2. /\ w \in Seq(S) /\ Len(w) = IF 2 <= n THEN n - 2 + 1 ELSE 0
        /\ \A i \in 1..n - 2 + 1 : w[i] = s[2 + i - 1]
    BY <1>4, <2>1, SubSeqProperties
  <2>3. n - 2 + 1 = n - 1
    BY <1>1
  <2> QED
    BY <1>2, <2>2, <2>3
<1>7. InsertAt(s, 2, e) = (u \o <<e>>) \o w
  BY <1>1, <1>3, <1>4 DEF InsertAt
<1>8. PICK v : v = u \o <<e>>
  OBVIOUS
<1>9. v \in Seq(S) /\ Len(v) = 2 /\ v[1] = s[1] /\ v[2] = e
  <2>1. <<e>> \in Seq(S) /\ Len(<<e>>) = 1 /\ <<e>>[1] = e
    OBVIOUS
  <2>2. /\ v \in Seq(S) /\ Len(v) = Len(u) + Len(<<e>>)
        /\ \A i \in 1..Len(u) + Len(<<e>>) : v[i] = IF i <= Len(u) THEN u[i] ELSE <<e>>[i - Len(u)]
    BY <1>5, <1>8, <2>1, ConcatProperties
  <2>3. \A i \in 1..2 : v[i] = IF i <= 1 THEN u[i] ELSE <<e>>[i - 1]
    BY <1>5, <2>1, <2>2
  <2> QED
    BY <1>5, <2>1, <2>2, <2>3
<1>10. PICK x : x = v \o w
  OBVIOUS
<1>11. /\ x \in Seq(S) /\ Len(x) = 2 + (n - 1)
       /\ \A i \in 1..2 + (n - 1) : x[i] = IF i <= 2 THEN v[i] ELSE w[i - 2]
  <2>1. /\ x \in Seq(S) /\ Len(x) = Len(v) + Len(w)
        /\ \A i \in 1..Len(v) + Len(w) : x[i] = IF i <= Len(v) THEN v[i] ELSE w[i - Len(v)]
    BY <1>6, <1>9, <1>10, ConcatProperties
  <2> QED
    BY <1>6, <1>9, <2>1
<1>12. \A i \in 1..n + 1 : x[i] = IF i < 2 THEN s[i] ELSE IF i = 2 THEN e ELSE s[i - 1]
  <2> SUFFICES ASSUME NEW i \in 1..n + 1
               PROVE  x[i] = IF i < 2 THEN s[i] ELSE IF i = 2 THEN e ELSE s[i - 1]
    OBVIOUS
  <2>1. x[i] = IF i <= 2 THEN v[i] ELSE w[i - 2]
    BY <1>1, <1>11
  <2>2. CASE i > 2
    <3>1. i - 2 \in 1..n - 1 /\ 2 + (i - 2) - 1 = i - 1
      BY <1>1, <2>2
    <3> QED
      BY <1>6, <2>1, <2>2, <3>1
  <2>3. CASE ~(i > 2)
    BY <1>9, <2>1, <2>3
  <2> QED
    BY <2>2, <2>3
<1>13. x = InsertAt(s, 2, e) /\ 2 + (n - 1) = n + 1
  BY <1>1, <1>7, <1>8, <1>10
<1> QED
  BY <1>1, <1>11, <1>12, <1>13

LEMMA RemoveOne ==
  ASSUME NEW S, NEW s \in Seq(S), NEW k \in 1..Len(s)
  PROVE  /\ RemoveAt(s, k) \in Seq(S)
         /\ Len(RemoveAt(s, k)) = Len(s) - 1
         /\ \A i \in 1..Len(s) - 1 : RemoveAt(s, k)[i] = s[IF i < k THEN i ELSE i + 1]
<1>1. PICK n \in Nat : n = Len(s)
  OBVIOUS
<1>2. k \in 1..n /\ \A i \in 1..n : s[i] \in S
  BY <1>1
<1>3. PICK u : u = SubSeq(s, 1, k - 1)
  OBVIOUS
<1>4. PICK w : w = SubSeq(s, k + 1, n)
  OBVIOUS
<1>5. u \in Seq(S) /\ Len(u) = k - 1 /\ \A i \in 1..k - 1 : u[i] = s[i]
  <2>1. \A i \in 1..k - 1 : s[i] \in S
    BY <1>1, <1>2
  <2>2. /\ u \in Seq(S) /\ Len(u) = IF 1 <= k - 1 THEN k - 1 - 1 + 1 ELSE 0
        /\ \A i \in 1..k - 1 - 1 + 1 : u[i] = s[1 + i - 1]
    BY <1>2, <1>3, <2>1, SubSeqProperties
  <2>3. k - 1 - 1 + 1 = k - 1 /\ \A i \in 1..k - 1 : 1 + i - 1 = i
    BY <1>2
  <2> QED
    BY <1>1, <1>2, <2>2, <2>3
<1>6. w \in Seq(S) /\ Len(w) = n - k /\ \A i \in 1..n - k : w[i] = s[k + i]
  <2>1. \A i \in k + 1..n : s[i] \in S
    BY <1>1, <1>2
  <2>2. /\ w \in Seq(S) /\ Len(w) = IF k + 1 <= n THEN n - (k + 1) + 1 ELSE 0
        /\ \A i \in 1..n - (k + 1) + 1 : w[i] = s[(k + 1) + i - 1]
    BY <1>1, <1>2, <1>4, <2>1, SubSeqProperties
  <2>3. n - (k + 1) + 1 = n - k /\ \A i \in 1..n - k : (k + 1) + i - 1 = k + i
    BY <1>1, <1>2
  <2> QED
    BY <1>1, <1>2, <2>2, <2>3
<1>7. RemoveAt(s, k) = u \o w
  BY <1>1, <1>3, <1>4 DEF RemoveAt
<1>8. PICK x : x = u \o w
  OBVIOUS
<1>9. /\ x \in Seq(S) /\ Len(x) = (k - 1) + (n - k)
      /\ \A i \in 1..(k - 1) + (n - k) : x[i] = IF i <= k - 1 THEN u[i] ELSE w[i - (k - 1)]
  <2>1. /\ x \in Seq(S) /\ Len(x) = Len(u) + Len(w)
        /\ \A i \in 1..Len(u) + Len(w) : x[i] = IF i <= Len(u) THEN u[i] ELSE w[i - Len(u)]
    BY <1>5, <1>6, <1>8, ConcatProperties
  <2> QED
    BY <1>5, <1>6, <2>1
<1>10. \A i \in 1..n - 1 : x[i] = s[IF i < k THEN i ELSE i + 1]
  <2> SUFFICES ASSUME NEW i \in 1..n - 1
               PROVE  x[i] = s[IF i < k THEN i ELSE i + 1]
    OBVIOUS
  <2>1. x[i] = IF i <= k - 1 THEN u[i] ELSE w[i - (k - 1)]
    BY <1>1, <1>2, <1>9
  <2>2. CASE i < k
    <3>1. i \in 1..k - 1
      BY <1>1, <1>2, <2>2
    <3> QED
      BY <1>5, <2>1, <2>2, <3>1
  <2>3. CASE ~(i < k)
    <3>1. i - (k - 1) \in 1..n - k /\ k + (i - (k - 1)) = i + 1 /\ ~(i <= k - 1)
      BY <1>1, <1>2, <2>3
    <3> QED
      BY <1>6, <2>1, <2>3, <3>1
  <2> QED
    BY <2>2, <2>3
<1>11. (k - 1) + (n - k) = n - 1
  BY <1>1, <1>2
<1> QED
  BY <1>1, <1>7, <1>8, <1>9, <1>10, <1>11

-----------------------------------------------------------------------------
(***************************************************************************)
(* What happens to one bucket.                                             *)
(***************************************************************************)

LEMMA EmptyBucket ==
  ASSUME NEW b, NEW size
  PROVE  GoodBucket(<<EmptyCell>>, b, size) /\ Filled(<<EmptyCell>>) = {}
<1>1. EmptyCell \in Cell /\ EmptyCell.obj = Null
  BY DEF EmptyCell, NewCell, Cell, Null
<1> HIDE DEF EmptyCell
<1>2. /\ <<EmptyCell>> \in Seq(Cell) /\ Len(<<EmptyCell>>) = 1
      /\ \A i \in 1..1 : <<EmptyCell>>[i] = EmptyCell
  BY <1>1
<1> QED
  BY <1>1, <1>2 DEF GoodBucket, Filled

LEMMA SingleBucket ==
  ASSUME NEW c \in Cell, c.obj # Null, NEW b, NEW size, c.hash % size = b
  PROVE  GoodBucket(<<c>>, b, size) /\ Filled(<<c>>) = {c}
<1>1. <<c>> \in Seq(Cell) /\ Len(<<c>>) = 1 /\ \A i \in 1..1 : <<c>>[i] = c
  OBVIOUS
<1>2. GoodBucket(<<c>>, b, size)
  BY <1>1 DEF GoodBucket
<1>3. Filled(<<c>>) = {c}
  BY <1>1 DEF Filled
<1> QED
  BY <1>2, <1>3

(* If the head is empty, so is the bucket.                                 *)
LEMMA EmptyHead ==
  ASSUME NEW cells, NEW b, NEW size, GoodBucket(cells, b, size)
  PROVE  /\ cells[1].obj = Null => Filled(cells) = {} /\ Len(cells) = 1
         /\ cells[1].obj # Null => \A i \in 1..Len(cells) : cells[i].obj # Null
<1>1. PICK n \in Nat : n = Len(cells) /\ n >= 1
  BY DEF GoodBucket
<1>2. ASSUME cells[1].obj = Null
      PROVE  n = 1
  <2>1. 1 \in 1..n
    BY <1>1
  <2>2. ~(n > 1)
    BY <1>1, <1>2, <2>1 DEF GoodBucket
  <2> QED
    BY <1>1, <2>2
<1>3. ASSUME cells[1].obj = Null
      PROVE  Filled(cells) = {}
  <2>1. \A i \in 1..Len(cells) : cells[i].obj = Null
    <3>1. Len(cells) = 1
      BY <1>1, <1>2, <1>3
    <3>2. \A i \in 1..1 : cells[i].obj = Null
      BY <1>3
    <3> QED
      BY <3>1, <3>2
  <2> QED
    BY <2>1 DEF Filled
<1>4. ASSUME cells[1].obj # Null, NEW i \in 1..Len(cells)
      PROVE  cells[i].obj # Null
  <2>1. CASE n > 1
    BY <1>1, <2>1 DEF GoodBucket
  <2>2. CASE n = 1
    BY <1>1, <1>4, <2>2
  <2> QED
    BY <1>1, <2>1, <2>2
<1> QED
  BY <1>1, <1>2, <1>3, <1>4

(* A cell goes behind the head.                                            *)
LEMMA BucketInsert ==
  ASSUME NEW cells, NEW b, NEW size, GoodBucket(cells, b, size), cells[1].obj # Null,
         NEW c \in Cell, c.obj # Null, c.hash % size = b,
         \A d \in Filled(cells) : d.obj # c.obj
  PROVE  /\ GoodBucket(InsertAt(cells, 2, c), b, size)
         /\ Filled(InsertAt(cells, 2, c)) = Filled(cells) \cup {c}
<1> DEFINE n == Len(cells)
           new == InsertAt(cells, 2, c)
<1>1. cells \in Seq(Cell) /\ n \in Nat /\ n >= 1
  BY DEF GoodBucket
<1>2. new \in Seq(Cell) /\ Len(new) = n + 1
      /\ \A i \in 1..n + 1 : new[i] = IF i < 2 THEN cells[i] ELSE IF i = 2 THEN c ELSE cells[i - 1]
  BY <1>1, InsertSecond
<1> HIDE DEF new, n
<1>3. \A i \in 1..n : cells[i].obj # Null /\ cells[i] \in Cell /\ cells[i] \in Filled(cells)
  BY <1>1, EmptyHead DEF Filled, n
<1>4. \A i \in 1..n + 1 : new[i].obj # Null /\ new[i].hash % size = b
  <2> SUFFICES ASSUME NEW i \in 1..n + 1
               PROVE  new[i].obj # Null /\ new[i].hash % size = b
    OBVIOUS
  <2>1. CASE i = 2
    BY <1>2, <2>1
  <2>2. CASE i # 2
    <3>1. (IF i < 2 THEN i ELSE i - 1) \in 1..n
      BY <1>1, <2>2
    <3>2. PICK j \in 1..n : new[i] = cells[j]
      BY <1>1, <1>2, <2>2, <3>1
    <3> QED
      BY <1>3, <3>2 DEF GoodBucket, n
  <2> QED
    BY <2>1, <2>2
<1>5. ASSUME NEW i \in 1..n + 1, NEW j \in 1..n + 1, new[i].obj = new[j].obj
      PROVE  i = j
  <2>1. CASE i = 2 /\ j # 2
    <3>1. PICK k \in 1..n : new[j] = cells[k]
      BY <1>1, <1>2, <2>1
    <3> QED
      BY <1>2, <1>3, <1>5, <2>1, <3>1
  <2>2. CASE i # 2 /\ j = 2
    <3>1. PICK k \in 1..n : new[i] = cells[k]
      BY <1>1, <1>2, <2>2
    <3> QED
      BY <1>2, <1>3, <1>5, <2>2, <3>1
  <2>3. CASE i # 2 /\ j # 2
    <3>1. PICK k \in 1..n : new[i] = cells[k] /\ k = IF i < 2 THEN i ELSE i - 1
      BY <1>1, <1>2, <2>3
    <3>2. PICK l \in 1..n : new[j] = cells[l] /\ l = IF j < 2 THEN j ELSE j - 1
      BY <1>1, <1>2, <2>3
    <3>3. k = l
      BY <1>3, <1>5, <3>1, <3>2 DEF GoodBucket, n
    <3> QED
      BY <2>3, <3>1, <3>2, <3>3
  <2> QED
    BY <2>1, <2>2, <2>3
<1>6. GoodBucket(new, b, size)
  BY <1>1, <1>2, <1>4, <1>5 DEF GoodBucket
<1>7. Filled(new) = Filled(cells) \cup {c}
  <2>1. ASSUME NEW d \in Filled(new)
        PROVE  d \in Filled(cells) \cup {c}
    <3>1. PICK i \in 1..n + 1 : new[i] = d
      BY <1>2, <2>1 DEF Filled
    <3>2. CASE i = 2
      BY <1>2, <3>1, <3>2
    <3>3. CASE i # 2
      <4>1. (IF i < 2 THEN i ELSE i - 1) \in 1..n
        BY <1>1, <3>3
      <4>2. PICK j \in 1..n : new[i] = cells[j]
        BY <1>1, <1>2, <3>3, <4>1
      <4> QED
        BY <1>3, <3>1, <4>2
    <3> QED
      BY <3>2, <3>3
  <2>2. ASSUME NEW d \in Filled(cells)
        PROVE  d \in Filled(new)
    <3>1. PICK i \in 1..n : cells[i] = d
      BY <2>2 DEF Filled, n
    <3>2. PICK j \in 1..n + 1 : new[j] = d
      <4>1. CASE i < 2
        <5>1. i \in 1..n + 1 /\ new[i] = d
          BY <1>1, <1>2, <3>1, <4>1
        <5> QED
          BY <5>1
      <4>2. CASE i >= 2
        <5>1. i + 1 \in 1..n + 1 /\ new[i + 1] = d
          BY <1>1, <1>2, <3>1, <4>2
        <5> QED
          BY <5>1
      <4> QED
        BY <1>1, <4>1, <4>2
    <3> QED
      BY <1>2, <2>2, <3>2 DEF Filled
  <2>3. c \in Filled(new)
    <3>1. 2 \in 1..n + 1 /\ new[2] = c
      BY <1>1, <1>2
    <3> QED
      BY <1>2, <3>1 DEF Filled
  <2> QED
    BY <2>1, <2>2, <2>3
<1> QED
  BY <1>6, <1>7 DEF new

(* The cell at position k goes, and another stays.                         *)
LEMMA BucketRemove ==
  ASSUME NEW cells, NEW b, NEW size, GoodBucket(cells, b, size), Len(cells) > 1,
         NEW k \in 1..Len(cells)
  PROVE  /\ GoodBucket(RemoveAt(cells, k), b, size)
         /\ Filled(RemoveAt(cells, k)) = Filled(cells) \ {cells[k]}
<1>1. PICK n \in Nat : n = Len(cells) /\ n > 1 /\ cells \in Seq(Cell) /\ k \in 1..n
  BY DEF GoodBucket
<1>2. PICK new : new = RemoveAt(cells, k)
  OBVIOUS
<1>3. new \in Seq(Cell) /\ Len(new) = n - 1
      /\ \A i \in 1..n - 1 : new[i] = cells[IF i < k THEN i ELSE i + 1]
  BY <1>1, <1>2, RemoveOne
<1>4. /\ \A i \in 1..n : /\ cells[i].obj # Null /\ cells[i].hash % size = b
                         /\ cells[i] \in Cell /\ cells[i] \in Filled(cells)
      /\ \A i, j \in 1..n : cells[i].obj = cells[j].obj => i = j
  BY <1>1 DEF GoodBucket, Filled
<1>5. \A i \in 1..n - 1 : (IF i < k THEN i ELSE i + 1) \in (1..n) \ {k}
  BY <1>1
<1>6. \A i \in 1..n - 1 : new[i].obj # Null /\ new[i].hash % size = b
  BY <1>3, <1>4, <1>5
<1>7. ASSUME NEW i \in 1..n - 1, NEW j \in 1..n - 1, new[i].obj = new[j].obj
      PROVE  i = j
  <2>1. PICK p \in 1..n : p = (IF i < k THEN i ELSE i + 1) /\ new[i] = cells[p]
    BY <1>3, <1>5
  <2>2. PICK q \in 1..n : q = (IF j < k THEN j ELSE j + 1) /\ new[j] = cells[q]
    BY <1>3, <1>5
  <2>3. p = q
    BY <1>4, <1>7, <2>1, <2>2
  <2> QED
    BY <1>1, <2>1, <2>2, <2>3
<1>8. GoodBucket(new, b, size)
  BY <1>1, <1>3, <1>6, <1>7 DEF GoodBucket
<1>9. ASSUME NEW d \in Filled(new)
      PROVE  d \in Filled(cells) \ {cells[k]}
  <2>1. PICK i \in 1..n - 1 : new[i] = d
    BY <1>3 DEF Filled
  <2>2. PICK j \in (1..n) \ {k} : d = cells[j]
    BY <1>3, <1>5, <2>1
  <2> QED
    BY <1>1, <1>4, <2>2
<1>10. ASSUME NEW d \in Filled(cells) \ {cells[k]}
       PROVE  d \in Filled(new)
  <2>1. PICK j \in 1..n : cells[j] = d /\ j # k
    BY <1>1 DEF Filled
  <2>2. PICK i \in 1..n - 1 : j = IF i < k THEN i ELSE i + 1
    <3>1. CASE j < k
      <4>1. j \in 1..n - 1
        BY <1>1, <3>1
      <4> QED
        BY <3>1, <4>1
    <3>2. CASE j > k
      <4>1. j - 1 \in 1..n - 1 /\ ~(j - 1 < k) /\ (j - 1) + 1 = j
        BY <1>1, <3>2
      <4> QED
        BY <4>1
    <3> QED
      BY <1>1, <2>1, <3>1, <3>2
  <2>3. new[i] = d
    BY <1>3, <2>1, <2>2
  <2> QED
    BY <1>3, <2>3 DEF Filled
<1> QED
  BY <1>2, <1>8, <1>9, <1>10

(* The cell at position k becomes another of the same hash.                *)
NoOther(cells, old, c) == \A d \in cells : d # old => d.obj # c.obj

ChangedAt(new, cells, k, c) == new = [cells EXCEPT ![k] = c]

LEMMA BucketChange ==
  ASSUME NEW cells, NEW b, NEW size, GoodBucket(cells, b, size),
         NEW k \in 1..Len(cells), NEW old, old = cells[k], old.obj # Null,
         NEW c \in Cell, c.obj # Null, c.hash = old.hash,
         NoOther(Filled(cells), old, c), NEW new, ChangedAt(new, cells, k, c)
  PROVE  /\ GoodBucket(new, b, size)
         /\ Filled(new) = (Filled(cells) \ {old}) \cup {c}
<1>1. PICK n \in Nat : n = Len(cells) /\ n >= 1 /\ cells \in Seq(Cell) /\ k \in 1..n
  BY DEF GoodBucket
<1>2. new \in Seq(Cell) /\ Len(new) = n /\ new[k] = c /\ \A i \in (1..n) \ {k} : new[i] = cells[i]
  BY <1>1 DEF ChangedAt
<1>3. \A i \in 1..n : /\ cells[i].obj # Null /\ cells[i].hash % size = b
                      /\ cells[i] \in Cell /\ cells[i] \in Filled(cells)
  <2> SUFFICES ASSUME NEW i \in 1..n
               PROVE  /\ cells[i].obj # Null /\ cells[i].hash % size = b
                      /\ cells[i] \in Cell /\ cells[i] \in Filled(cells)
    OBVIOUS
  <2>1. cells[i] \in Cell
    BY <1>1
  <2>2. cells[i].obj # Null
    <3>1. CASE n > 1
      BY <1>1, <3>1 DEF GoodBucket
    <3>2. CASE n = 1
      <4>1. i = k
        BY <1>1, <3>2
      <4> QED
        BY <4>1
    <3> QED
      BY <1>1, <3>1, <3>2
  <2> QED
    BY <1>1, <2>1, <2>2 DEF GoodBucket, Filled
<1>4. \A i, j \in 1..n : cells[i].obj = cells[j].obj => i = j
  BY <1>1, <1>3 DEF GoodBucket
<1>5. \A i \in 1..n : new[i].obj # Null /\ new[i].hash % size = b
  BY <1>2, <1>3
<1>6. ASSUME NEW i \in 1..n, NEW j \in 1..n, new[i].obj = new[j].obj
      PROVE  i = j
  <2>1. CASE i = k /\ j # k
    <3>1. cells[j] # old
      BY <1>1, <1>4, <2>1
    <3> QED
      BY <1>2, <1>3, <1>6, <2>1, <3>1 DEF NoOther
  <2>2. CASE i # k /\ j = k
    <3>1. cells[i] # old
      BY <1>1, <1>4, <2>2
    <3> QED
      BY <1>2, <1>3, <1>6, <2>2, <3>1 DEF NoOther
  <2>3. CASE i # k /\ j # k
    BY <1>2, <1>4, <1>6, <2>3
  <2> QED
    BY <2>1, <2>2, <2>3
<1>7. GoodBucket(new, b, size)
  BY <1>1, <1>2, <1>5, <1>6 DEF GoodBucket
<1>8. ASSUME NEW d \in Filled(new)
      PROVE  d \in (Filled(cells) \ {old}) \cup {c}
  <2>1. PICK i \in 1..n : new[i] = d
    BY <1>2 DEF Filled
  <2>2. CASE i # k
    <3>1. d = cells[i] /\ cells[i] # old
      BY <1>1, <1>2, <1>4, <2>1, <2>2
    <3> QED
      BY <1>3, <3>1
  <2>3. CASE i = k
    BY <1>2, <2>1, <2>3
  <2> QED
    BY <2>2, <2>3
<1>9. ASSUME NEW d \in (Filled(cells) \ {old}) \cup {c}
       PROVE  d \in Filled(new)
  <2>1. CASE d = c
    BY <1>1, <1>2, <2>1 DEF Filled
  <2>2. CASE d # c
    <3>1. PICK j \in 1..n : cells[j] = d /\ j # k
      BY <1>1, <1>9, <2>2 DEF Filled
    <3>2. new[j] = d
      BY <1>2, <3>1
    <3> QED
      BY <1>2, <1>9, <2>2, <3>2 DEF Filled
  <2> QED
    BY <2>1, <2>2
<1> QED
  BY <1>7, <1>8, <1>9

-----------------------------------------------------------------------------
(***************************************************************************)
(* Looking for a cell.                                                     *)
(***************************************************************************)

LEMMA LeastOfRange ==
  ASSUME NEW n \in Nat, NEW I \in SUBSET (1..n), I # {}
  PROVE  Min(I) \in I
<1>1. \E x \in I : \A y \in I : x <= y
  BY LeastNumber
<1> QED
  BY <1>1 DEF Min

(* Find returns the position of a cell that fits, if there is one.         *)
LEMMA FindFinds ==
  ASSUME NEW idx, Well(idx), NEW h \in Nat, NEW objs \in SUBSET (Nat \ {0}),
         NEW i, i = Find(idx, h, objs), NEW b, b = BucketOf(idx, h)
  PROVE  /\ b \in 0..idx.size - 1
         /\ i = 0 => \A c \in Held(idx) : ~(c.hash = h /\ c.obj \in objs)
         /\ i # 0 => /\ i \in 1..Len(idx.bucket[b])
                     /\ idx.bucket[b][i] \in Held(idx) \cap Filled(idx.bucket[b])
                     /\ idx.bucket[b][i].hash = h /\ idx.bucket[b][i].obj \in objs
<1>1. idx.size \in Nat \ {0} /\ GoodBuckets(idx)
  BY DEF Well, GoodBuckets
<1>2. b = h % idx.size /\ b \in 0..idx.size - 1
  BY <1>1 DEF BucketOf
<1>3. PICK cells : cells = idx.bucket[b]
  OBVIOUS
<1>4. GoodBucket(cells, b, idx.size)
  BY <1>1, <1>2, <1>3 DEF GoodBuckets
<1>5. PICK n \in Nat : n = Len(cells) /\ cells \in Seq(Cell)
  BY <1>4 DEF GoodBucket
<1>6. PICK I : I = {j \in 1..n : cells[j].hash = h /\ cells[j].obj \in objs}
  OBVIOUS
<1>7. i = IF I # {} THEN Min(I) ELSE 0
  <2>1. i = LET J == {j \in 1..Len(cells) : cells[j].hash = h /\ cells[j].obj \in objs}
            IN  IF J # {} THEN Min(J) ELSE 0
    BY <1>3 DEF Find, SelectInSeq
  <2> QED
    BY <1>5, <1>6, <2>1
<1>8. CASE I # {}
  <2>1. I \in SUBSET (1..n)
    BY <1>6
  <2>2. i \in I
    BY <1>5, <1>7, <1>8, <2>1, LeastOfRange
  <2>3. /\ i \in 1..n /\ cells[i].hash = h /\ cells[i].obj \in objs /\ cells[i] \in Cell
        /\ cells[i].obj # Null
    BY <1>5, <1>6, <2>2 DEF Null
  <2>4. cells[i] \in Filled(cells)
    BY <1>5, <2>3 DEF Filled
  <2>5. cells[i] \in Held(idx)
    BY <1>1, <1>2, <1>3, <2>4, HeldInBucket
  <2> QED
    BY <1>2, <1>3, <1>5, <2>3, <2>4, <2>5
<1>9. CASE I = {}
  <2>1. i = 0
    BY <1>7, <1>9
  <2>2. ASSUME NEW c \in Held(idx), c.hash = h, c.obj \in objs
        PROVE  FALSE
    <3>1. c \in Filled(cells)
      BY <1>1, <1>2, <1>3, <2>2, HeldInBucket
    <3>2. PICK j \in 1..n : cells[j] = c
      BY <1>5, <3>1 DEF Filled
    <3> QED
      BY <1>6, <1>9, <2>2, <3>2
  <2> QED
    BY <1>2, <2>1, <2>2
<1> QED
  BY <1>8, <1>9

(* So does the search of erase, by the object.                             *)
Search(idx, b, obj) == SelectInSeq(idx.bucket[b], LAMBDA d : d.obj = obj)

LEMMA SearchFinds ==
  ASSUME NEW idx, Well(idx), NEW c \in Held(idx), NEW b, b = BucketOf(idx, c.hash),
         NEW i, i = Search(idx, b, c.obj)
  PROVE  b \in 0..idx.size - 1 /\ i \in 1..Len(idx.bucket[b]) /\ idx.bucket[b][i] = c
<1>1. idx.size \in Nat \ {0} /\ GoodBuckets(idx) /\ c \in Cell
  BY DEF Well, GoodBuckets, Held
<1>2. b = c.hash % idx.size /\ b \in 0..idx.size - 1
  BY <1>1 DEF BucketOf, Cell
<1>3. PICK cells : cells = idx.bucket[b]
  OBVIOUS
<1>4. GoodBucket(cells, b, idx.size)
  BY <1>1, <1>2, <1>3 DEF GoodBuckets
<1>5. PICK n \in Nat : n = Len(cells) /\ cells \in Seq(Cell)
  BY <1>4 DEF GoodBucket
<1>6. PICK I : I = {j \in 1..n : cells[j].obj = c.obj}
  OBVIOUS
<1>7. i = IF I # {} THEN Min(I) ELSE 0
  <2>1. i = LET J == {j \in 1..Len(cells) : cells[j].obj = c.obj}
            IN  IF J # {} THEN Min(J) ELSE 0
    BY <1>3 DEF Search, SelectInSeq
  <2> QED
    BY <1>5, <1>6, <2>1
<1>8. PICK k \in 1..n : cells[k] = c /\ c.obj # Null
  <2>1. c \in Filled(cells)
    BY <1>1, <1>2, <1>3, HeldInBucket
  <2> QED
    BY <1>5, <2>1 DEF Filled
<1>9. I = {k}
  BY <1>4, <1>5, <1>6, <1>8 DEF GoodBucket
<1>10. Min(I) = k
  BY <1>9 DEF Min
<1> QED
  BY <1>2, <1>3, <1>5, <1>7, <1>8, <1>9, <1>10

-----------------------------------------------------------------------------
(***************************************************************************)
(* The steps of the indexes, on the set of cells they hold.                *)
(***************************************************************************)

(* An index with another bucket has the same fields.                       *)
LEMMA IndexChanged ==
  ASSUME NEW idx, IndexRecord(idx), NEW b, NEW cells, NEW new,
         DOMAIN new = DOMAIN idx, new.size = idx.size,
         new.bucket = [idx.bucket EXCEPT ![b] = cells]
  PROVE  Rebucketed(new, idx, b, cells)
BY DEF Rebucketed, IndexRecord

LEMMA PlaceFields ==
  ASSUME NEW idx, IndexRecord(idx), NEW c, NEW held, NEW b, b = BucketOf(idx, c.hash)
  PROVE  /\ Place(idx, c, held).count = idx.count
         /\ Rebucketed(Place(idx, c, held), idx, b,
                       IF idx.bucket[b][1].obj = Null THEN <<c>>
                       ELSE InsertAt(idx.bucket[b], 2, c))
<1>1. PICK P : P = Place(idx, c, held)
  OBVIOUS
<1>2. CASE idx.bucket[b][1].obj = Null
  <2>1. P = [idx EXCEPT !.bucket[b] = <<c>>, !.nodes = idx.nodes - held]
    BY <1>1, <1>2 DEF Place, HeadOf
  <2>2. /\ DOMAIN P = DOMAIN idx /\ P.size = idx.size /\ P.count = idx.count
        /\ P.bucket = [idx.bucket EXCEPT ![b] = <<c>>]
    BY <2>1 DEF IndexRecord
  <2>3. Rebucketed(P, idx, b, <<c>>) /\ P.count = idx.count
    BY <2>2, IndexChanged
  <2> QED
    BY <1>1, <1>2, <2>3
<1>3. CASE idx.bucket[b][1].obj # Null
  <2>1. P = [idx EXCEPT !.bucket[b] = InsertAt(idx.bucket[b], 2, c),
                        !.nodes = idx.nodes + 1 - held]
    BY <1>1, <1>3 DEF Place, HeadOf
  <2>2. /\ DOMAIN P = DOMAIN idx /\ P.size = idx.size /\ P.count = idx.count
        /\ P.bucket = [idx.bucket EXCEPT ![b] = InsertAt(idx.bucket[b], 2, c)]
    BY <2>1 DEF IndexRecord
  <2>3. Rebucketed(P, idx, b, InsertAt(idx.bucket[b], 2, c)) /\ P.count = idx.count
    BY <2>2, IndexChanged
  <2> QED
    BY <1>1, <1>3, <2>3
<1> QED
  BY <1>2, <1>3

(* A cell that holds a new object is added.                                *)
LEMMA PlaceAdds ==
  ASSUME NEW idx, Well(idx), NEW c \in Cell, c.obj # Null,
         \A d \in Held(idx) : d.obj # c.obj, NEW held
  PROVE  /\ Well(Place(idx, c, held))
         /\ Held(Place(idx, c, held)) = Held(idx) \cup {c}
         /\ Place(idx, c, held).size = idx.size
         /\ Place(idx, c, held).count = idx.count
<1>1. idx.size \in Nat \ {0} /\ GoodBuckets(idx) /\ IndexRecord(idx) /\ c.hash \in Nat
  BY DEF Well, GoodBuckets, Cell
<1>2. PICK b \in 0..idx.size - 1 : b = BucketOf(idx, c.hash) /\ c.hash % idx.size = b
  BY <1>1 DEF BucketOf
<1>3. PICK cells : cells = idx.bucket[b] /\ GoodBucket(cells, b, idx.size)
  BY <1>1 DEF GoodBuckets
<1>4. PICK P : P = Place(idx, c, held)
  OBVIOUS
<1>5. PICK more : more = IF cells[1].obj = Null THEN <<c>> ELSE InsertAt(cells, 2, c)
  OBVIOUS
<1>6. Rebucketed(P, idx, b, more) /\ P.count = idx.count
  BY <1>1, <1>2, <1>3, <1>4, <1>5, PlaceFields
<1>7. Filled(cells) \subseteq Held(idx)
  BY <1>1, <1>3, HeldInBucket
<1>8. GoodBucket(more, b, idx.size) /\ Filled(more) = Filled(cells) \cup {c}
  <2>1. CASE cells[1].obj = Null
    BY <1>2, <1>3, <1>5, <2>1, SingleBucket, EmptyHead
  <2>2. CASE cells[1].obj # Null
    BY <1>2, <1>3, <1>5, <1>7, <2>2, BucketInsert
  <2> QED
    BY <2>1, <2>2
<1>9. PICK new : new = Held(idx) \cup {c}
  OBVIOUS
<1>10. new = (Held(idx) \ Filled(idx.bucket[b])) \cup Filled(more)
  BY <1>3, <1>7, <1>8, <1>9
<1>11. Apart(new)
  BY <1>9 DEF Apart, Well
<1>12. Well(P) /\ Held(P) = new
  BY <1>6, <1>8, <1>10, <1>11, BucketReplaced
<1> QED
  BY <1>4, <1>6, <1>9, <1>12 DEF Rebucketed

(* So are all cells of a bucket.                                           *)
Fresher(cells, idx) ==
  \A i \in 1..Len(cells) :
    /\ cells[i].obj # Null
    /\ \A d \in Held(idx) : d.obj # cells[i].obj
    /\ \A j \in 1..Len(cells) : cells[i].obj = cells[j].obj => i = j

LEMMA MoveAllUnfold ==
  ASSUME NEW idx, NEW cells, Len(cells) \in Nat
  PROVE  \E f : /\ f[0] = idx
                /\ \A i \in 1..Len(cells) :
                     f[i] = Place(f[i - 1], cells[i], IF i = 1 THEN 0 ELSE 1)
                /\ MoveAll(idx, cells) = f[Len(cells)]
<1> DEFINE n == Len(cells)
           Rec(f, m) == [i \in 0..m |-> IF i = 0 THEN idx
                                        ELSE Place(f[i - 1], cells[i], IF i = 1 THEN 0 ELSE 1)]
           all == CHOOSE f : f = Rec(f, n)
           N == {m \in Nat : \E f : f = Rec(f, m)}
<1>1. 0 \in N
  <2>1. [i \in 0..0 |-> idx] = Rec([i \in 0..0 |-> idx], 0)
    OBVIOUS
  <2> QED
    BY <2>1
<1>2. ASSUME NEW m \in N
      PROVE  m + 1 \in N
  <2>1. PICK f : f = Rec(f, m)
    OBVIOUS
  <2> DEFINE g == [i \in 0..m + 1 |->
                     IF i = m + 1 THEN Place(f[m], cells[m + 1], IF m + 1 = 1 THEN 0 ELSE 1)
                     ELSE f[i]]
  <2>2. m \in Nat
    OBVIOUS
  <2>3. ASSUME NEW i \in 0..m + 1
        PROVE  g[i] = Rec(g, m + 1)[i]
    <3>1. CASE i = m + 1
      <4>1. g[m] = f[m] /\ m + 1 # 0 /\ (m + 1) - 1 = m
        BY <2>2
      <4> QED
        BY <2>2, <3>1, <4>1
    <3>2. CASE i # m + 1 /\ i # 0
      <4>1. i \in 0..m /\ i - 1 \in 0..m /\ i - 1 # m + 1 /\ i - 1 \in 0..m + 1
        BY <2>2, <3>2
      <4>2. g[i - 1] = f[i - 1] /\ g[i] = f[i]
        BY <3>2, <4>1
      <4>3. f[i] = Place(f[i - 1], cells[i], IF i = 1 THEN 0 ELSE 1)
        BY <2>1, <3>2, <4>1
      <4> QED
        BY <3>2, <4>2, <4>3
    <3>3. CASE i = 0
      <4>1. 0 \in 0..m /\ 0 # m + 1
        BY <2>2
      <4>2. f[0] = idx
        BY <2>1, <4>1
      <4> QED
        BY <3>3, <4>1, <4>2
    <3> QED
      BY <3>1, <3>2, <3>3
  <2>4. g = Rec(g, m + 1)
    BY <2>3
  <2> HIDE DEF g, Rec
  <2> QED
    BY <2>2, <2>4
<1>3. N = Nat
  <2> HIDE DEF N
  <2>1. N \in SUBSET Nat
    BY DEF N
  <2> QED
    BY <1>1, <1>2, <2>1, NumberInduction
<1>4. \E f : f = Rec(f, n)
  BY <1>3
<1>5. all = Rec(all, n)
  BY <1>4
<1>6. MoveAll(idx, cells) = all[n]
  BY DEF MoveAll
<1> HIDE DEF all
<1>7. all[0] = idx
  <2>1. 0 \in 0..n
    OBVIOUS
  <2> QED
    BY <1>5, <2>1
<1>8. ASSUME NEW i \in 1..n
      PROVE  all[i] = Place(all[i - 1], cells[i], IF i = 1 THEN 0 ELSE 1)
  <2>1. i \in 0..n /\ i # 0
    OBVIOUS
  <2> QED
    BY <1>5, <2>1
<1> QED
  BY <1>6, <1>7, <1>8

LEMMA MoveAllAdds ==
  ASSUME NEW idx, Well(idx), NEW cells \in Seq(Cell), Fresher(cells, idx)
  PROVE  /\ Well(MoveAll(idx, cells))
         /\ Held(MoveAll(idx, cells)) = Held(idx) \cup Filled(cells)
         /\ MoveAll(idx, cells).size = idx.size
         /\ MoveAll(idx, cells).count = idx.count
<1>1. PICK n \in Nat : n = Len(cells)
  OBVIOUS
<1>2. PICK f : /\ f[0] = idx
               /\ \A i \in 1..n : f[i] = Place(f[i - 1], cells[i], IF i = 1 THEN 0 ELSE 1)
               /\ MoveAll(idx, cells) = f[n]
  <2>1. Len(cells) \in Nat
    OBVIOUS
  <2>2. \E f : /\ f[0] = idx
               /\ \A i \in 1..Len(cells) :
                    f[i] = Place(f[i - 1], cells[i], IF i = 1 THEN 0 ELSE 1)
               /\ MoveAll(idx, cells) = f[Len(cells)]
    BY <2>1, MoveAllUnfold
  <2> QED
    BY <1>1, <2>2
<1> DEFINE Moved(i) == {cells[j] : j \in 1..i}
           Good(i) == /\ Well(f[i]) /\ Held(f[i]) = Held(idx) \cup Moved(i)
                      /\ f[i].size = idx.size /\ f[i].count = idx.count
           N == {i \in Nat : i <= n => Good(i)}
<1>3. 0 \in N
  <2>1. Moved(0) = {}
    OBVIOUS
  <2> QED
    BY <1>2, <2>1
<1>4. ASSUME NEW i \in N
      PROVE  i + 1 \in N
  <2> SUFFICES ASSUME i + 1 <= n
               PROVE  Good(i + 1)
    OBVIOUS
  <2>1. i \in Nat /\ i + 1 \in 1..n /\ (i + 1) - 1 = i
    BY <1>1
  <2>2. Good(i)
    BY <1>1, <2>1
  <2> HIDE DEF Moved
  <2>3. PICK c : c = cells[i + 1] /\ c \in Cell
    BY <1>1, <2>1
  <2>4. PICK held : f[i + 1] = Place(f[i], c, held)
    BY <1>2, <2>1, <2>3
  <2>5. c.obj # Null /\ \A d \in Held(f[i]) : d.obj # c.obj
    <3>1. c.obj # Null /\ \A d \in Held(idx) : d.obj # c.obj
      BY <1>1, <2>1, <2>3 DEF Fresher
    <3>2. ASSUME NEW d \in Moved(i)
          PROVE  d.obj # c.obj
      <4>1. PICK j \in 1..i : d = cells[j]
        BY DEF Moved
      <4>2. j \in 1..n /\ j # i + 1
        BY <2>1
      <4> QED
        BY <1>1, <2>1, <2>3, <4>1, <4>2 DEF Fresher
    <3> QED
      BY <2>2, <3>1, <3>2
  <2>6. /\ Well(f[i + 1]) /\ Held(f[i + 1]) = Held(f[i]) \cup {c}
        /\ f[i + 1].size = f[i].size /\ f[i + 1].count = f[i].count
    BY <2>2, <2>3, <2>4, <2>5, PlaceAdds
  <2>7. Moved(i + 1) = Moved(i) \cup {c}
    <3>1. 1..i + 1 = (1..i) \cup {i + 1}
      BY <2>1
    <3> QED
      BY <2>3, <3>1 DEF Moved
  <2> QED
    BY <2>2, <2>6, <2>7
<1>5. N = Nat
  <2> HIDE DEF N
  <2>1. N \in SUBSET Nat
    BY DEF N
  <2> QED
    BY <1>3, <1>4, <2>1, NumberInduction
<1>6. Good(n)
  BY <1>1, <1>5
<1>7. Moved(n) = Filled(cells)
  BY <1>1 DEF Filled, Fresher
<1> QED
  BY <1>2, <1>6, <1>7

(* An index whose buckets are new holds nothing.                           *)
LEMMA EmptyIndex ==
  ASSUME NEW idx, DOMAIN idx = {"size", "count", "bucket", "nodes", "links"},
         idx.size \in Nat \ {0}, idx.bucket = EmptyBuckets(idx.size)
  PROVE  Well(idx) /\ Held(idx) = {}
<1>1. /\ DOMAIN idx.bucket = 0..idx.size - 1
      /\ \A b \in 0..idx.size - 1 : idx.bucket[b] = <<EmptyCell>>
  BY DEF EmptyBuckets
<1>2. \A b \in 0..idx.size - 1 : GoodBucket(idx.bucket[b], b, idx.size) /\ Filled(idx.bucket[b]) = {}
  BY <1>1, EmptyBucket
<1>3. Held(idx) = {}
  BY <1>2 DEF Held
<1> QED
  BY <1>1, <1>2, <1>3 DEF Well, IndexRecord, GoodBuckets, Apart

(* The index after each bucket that resize_ moves.                         *)
ResizedBy(f, idx, newSize) ==
  /\ f[0] = [idx EXCEPT !.size = newSize, !.bucket = EmptyBuckets(newSize)]
  /\ \A b \in 1..idx.size :
       f[b] = IF HeadOf(idx, b - 1).obj = Null THEN f[b - 1]
              ELSE MoveAll(f[b - 1], idx.bucket[b - 1])
  /\ Resize(idx, newSize) = f[idx.size]

LEMMA ResizeUnfold ==
  ASSUME NEW idx, idx.size \in Nat, NEW newSize
  PROVE  \E f : ResizedBy(f, idx, newSize)
<1> DEFINE n == idx.size
           empty == [idx EXCEPT !.size = newSize, !.bucket = EmptyBuckets(newSize)]
           Rec(f, m) == [b \in 0..m |-> IF b = 0 THEN empty
                                        ELSE IF HeadOf(idx, b - 1).obj = Null THEN f[b - 1]
                                        ELSE MoveAll(f[b - 1], idx.bucket[b - 1])]
           all == CHOOSE f : f = Rec(f, n)
           N == {m \in Nat : \E f : f = Rec(f, m)}
<1>1. Resize(idx, newSize) = all[n]
  BY DEF Resize
<1> HIDE DEF empty
<1>2. 0 \in N
  <2>1. [b \in 0..0 |-> empty] = Rec([b \in 0..0 |-> empty], 0)
    OBVIOUS
  <2> QED
    BY <2>1
<1>3. ASSUME NEW m \in N
      PROVE  m + 1 \in N
  <2>1. PICK f : f = Rec(f, m)
    OBVIOUS
  <2> DEFINE next == IF HeadOf(idx, m).obj = Null THEN f[m] ELSE MoveAll(f[m], idx.bucket[m])
             g == [b \in 0..m + 1 |-> IF b = m + 1 THEN next ELSE f[b]]
  <2>2. m \in Nat
    OBVIOUS
  <2>3. ASSUME NEW b \in 0..m + 1
        PROVE  g[b] = Rec(g, m + 1)[b]
    <3>1. CASE b = m + 1
      <4>1. g[m] = f[m] /\ m + 1 # 0 /\ (m + 1) - 1 = m
        BY <2>2
      <4> QED
        BY <2>2, <3>1, <4>1
    <3>2. CASE b # m + 1 /\ b # 0
      <4>1. b \in 0..m /\ b - 1 \in 0..m /\ b - 1 # m + 1 /\ b - 1 \in 0..m + 1
        BY <2>2, <3>2
      <4>2. g[b - 1] = f[b - 1] /\ g[b] = f[b]
        BY <3>2, <4>1
      <4>3. f[b] = IF HeadOf(idx, b - 1).obj = Null THEN f[b - 1]
                   ELSE MoveAll(f[b - 1], idx.bucket[b - 1])
        BY <2>1, <3>2, <4>1
      <4> HIDE DEF g
      <4> QED
        BY <3>2, <4>2, <4>3
    <3>3. CASE b = 0
      <4>1. 0 \in 0..m /\ 0 # m + 1
        BY <2>2
      <4>2. f[0] = empty
        BY <2>1, <4>1
      <4> QED
        BY <3>3, <4>1, <4>2
    <3> QED
      BY <3>1, <3>2, <3>3
  <2>4. g = Rec(g, m + 1)
    BY <2>3
  <2> HIDE DEF g, Rec
  <2> QED
    BY <2>2, <2>4
<1>4. N = Nat
  <2> HIDE DEF N
  <2>1. N \in SUBSET Nat
    BY DEF N
  <2> QED
    BY <1>2, <1>3, <2>1, NumberInduction
<1>5. \E f : f = Rec(f, n)
  BY <1>4
<1>6. all = Rec(all, n)
  BY <1>5
<1> HIDE DEF all
<1>7. all[0] = empty
  <2>1. 0 \in 0..n
    OBVIOUS
  <2> QED
    BY <1>6, <2>1
<1>8. ASSUME NEW b \in 1..n
      PROVE  all[b] = IF HeadOf(idx, b - 1).obj = Null THEN all[b - 1]
                      ELSE MoveAll(all[b - 1], idx.bucket[b - 1])
  <2>1. b \in 0..n /\ b # 0
    OBVIOUS
  <2> QED
    BY <1>6, <2>1
<1> QED
  BY <1>1, <1>7, <1>8 DEF empty, ResizedBy

(* Resizing an index moves its cells and loses none.                       *)
LEMMA ResizeKeeps ==
  ASSUME NEW idx, Well(idx), NEW newSize \in Nat \ {0}
  PROVE  /\ Well(Resize(idx, newSize))
         /\ Held(Resize(idx, newSize)) = Held(idx)
         /\ Resize(idx, newSize).count = idx.count
<1>1. PICK n \in Nat : n = idx.size
  BY DEF Well, GoodBuckets
<1>2. /\ GoodBuckets(idx) /\ Apart(Held(idx))
      /\ DOMAIN idx = {"size", "count", "bucket", "nodes", "links"}
  BY DEF Well, IndexRecord
<1>3. PICK f : /\ f[0] = [idx EXCEPT !.size = newSize, !.bucket = EmptyBuckets(newSize)]
               /\ \A b \in 1..n :
                    f[b] = IF HeadOf(idx, b - 1).obj = Null THEN f[b - 1]
                           ELSE MoveAll(f[b - 1], idx.bucket[b - 1])
               /\ Resize(idx, newSize) = f[n]
  <2>1. PICK f : ResizedBy(f, idx, newSize)
    BY <1>1, ResizeUnfold
  <2> QED
    BY <1>1, <2>1 DEF ResizedBy
<1> DEFINE Before(b) == {c \in Held(idx) : c.hash % n < b}
           Good(b) == /\ Well(f[b]) /\ Held(f[b]) = Before(b)
                      /\ f[b].count = idx.count
           N == {b \in Nat : b <= n => Good(b)}
<1>4. \A c \in Held(idx) : c.hash % n \in 0..n - 1 /\ c \in Filled(idx.bucket[c.hash % n])
  BY <1>1, <1>2, HeldInBucket
<1>5. \A b \in 0..n - 1 : \A c \in Filled(idx.bucket[b]) : c \in Held(idx) /\ c.hash % n = b
  BY <1>1, <1>2, HeldInBucket
<1>6. 0 \in N
  <2>1. PICK e : e = f[0]
    OBVIOUS
  <2>2. /\ DOMAIN e = {"size", "count", "bucket", "nodes", "links"}
        /\ e.size = newSize /\ e.bucket = EmptyBuckets(newSize) /\ e.count = idx.count
    BY <1>2, <1>3, <2>1
  <2>3. Well(e) /\ Held(e) = {}
    BY <2>2, EmptyIndex
  <2>4. Before(0) = {}
    BY <1>4
  <2> QED
    BY <2>1, <2>2, <2>3, <2>4
<1>7. ASSUME NEW b \in N
      PROVE  b + 1 \in N
  <2> SUFFICES ASSUME b + 1 <= n
               PROVE  Good(b + 1)
    OBVIOUS
  <2>1. b \in Nat /\ b + 1 \in 1..n /\ (b + 1) - 1 = b /\ b \in 0..n - 1
    BY <1>1
  <2>2. Good(b)
    BY <1>1, <2>1
  <2>3. PICK cells : cells = idx.bucket[b] /\ GoodBucket(cells, b, n)
    BY <1>1, <1>2, <2>1 DEF GoodBuckets
  <2>4. Before(b + 1) = Before(b) \cup Filled(cells)
    <3>1. \A c \in Held(idx) : c.hash % n < b + 1 <=> (c.hash % n < b \/ c.hash % n = b)
      BY <1>4, <2>1
    <3>2. \A c \in Held(idx) : c.hash % n = b => c \in Filled(cells)
      BY <1>4, <2>3
    <3>3. \A c \in Filled(cells) : c \in Held(idx) /\ c.hash % n = b
      BY <1>5, <2>1, <2>3
    <3> QED
      BY <3>1, <3>2, <3>3
  <2>5. \A c \in Filled(cells), d \in Before(b) : c.obj # d.obj
    <3> SUFFICES ASSUME NEW c \in Filled(cells), NEW d \in Before(b), c.obj = d.obj
                 PROVE  FALSE
      OBVIOUS
    <3>1. c \in Held(idx) /\ c.hash % n = b
      BY <1>5, <2>1, <2>3
    <3>2. d \in Held(idx) /\ d.hash % n < b
      OBVIOUS
    <3>3. c = d
      BY <1>2, <3>1, <3>2 DEF Apart
    <3> QED
      BY <2>1, <3>1, <3>2, <3>3
  <2>6. f[b + 1] = IF cells[1].obj = Null THEN f[b] ELSE MoveAll(f[b], cells)
    BY <1>3, <2>1, <2>3 DEF HeadOf
  <2> HIDE DEF Before
  <2>7. CASE cells[1].obj = Null
    <3>1. Filled(cells) = {}
      BY <2>3, <2>7, EmptyHead
    <3> QED
      BY <2>2, <2>4, <2>6, <2>7, <3>1
  <2>8. CASE cells[1].obj # Null
    <3>1. cells \in Seq(Cell) /\ \A i \in 1..Len(cells) : cells[i].obj # Null
      BY <2>3, <2>8, EmptyHead DEF GoodBucket
    <3>2. \A i \in 1..Len(cells) : cells[i] \in Filled(cells)
      BY <3>1 DEF Filled
    <3>3. Fresher(cells, f[b])
      BY <2>2, <2>3, <2>5, <3>1, <3>2 DEF Fresher, GoodBucket
    <3>4. /\ Well(f[b + 1]) /\ Held(f[b + 1]) = Held(f[b]) \cup Filled(cells)
          /\ f[b + 1].count = f[b].count
      BY <2>2, <2>6, <2>8, <3>1, <3>3, MoveAllAdds
    <3> QED
      BY <2>2, <2>4, <3>4
  <2> QED
    BY <2>7, <2>8
<1>8. N = Nat
  <2> HIDE DEF N
  <2>1. N \in SUBSET Nat
    BY DEF N
  <2> QED
    BY <1>6, <1>7, <2>1, NumberInduction
<1>9. Good(n)
  BY <1>1, <1>8
<1>10. Before(n) = Held(idx)
  BY <1>1, <1>4
<1> QED
  BY <1>3, <1>9, <1>10

LEMMA GrownKeeps ==
  ASSUME NEW idx, Well(idx)
  PROVE  /\ Well(Grown(idx))
         /\ Held(Grown(idx)) = Held(idx)
         /\ Grown(idx).count = idx.count
<1>1. CASE idx.count > Threshold(idx)
  <2>1. 2 * idx.size \in Nat \ {0}
    BY DEF Well, GoodBuckets
  <2>2. Grown(idx) = Resize(idx, 2 * idx.size)
    BY <1>1 DEF Grown
  <2> QED
    BY <2>1, <2>2, ResizeKeeps
<1>2. CASE ~(idx.count > Threshold(idx))
  BY <1>2 DEF Grown
<1> QED
  BY <1>1, <1>2

CellIs(idx, b, i, c) ==
  b \in 0..idx.size - 1 /\ i \in 1..Len(idx.bucket[b]) /\ c = idx.bucket[b][i]

(* One cell goes.                                                          *)
LEMMA UnlinkRemoves ==
  ASSUME NEW idx, Well(idx), Counted(idx),
         NEW b, NEW i, NEW c, CellIs(idx, b, i, c), c.obj # Null
  PROVE  /\ Well(Unlink(idx, b, i)) /\ Counted(Unlink(idx, b, i))
         /\ Held(Unlink(idx, b, i)) = Held(idx) \ {c}
<1> USE DEF CellIs
<1>1. PICK cells : cells = idx.bucket[b] /\ GoodBucket(cells, b, idx.size)
  BY DEF Well, GoodBuckets
<1>2. PICK n \in Nat : n = Len(cells) /\ n >= 1 /\ cells \in Seq(Cell) /\ i \in 1..n
  BY <1>1 DEF GoodBucket
<1>3. c \in Filled(cells) /\ Filled(cells) \subseteq Held(idx)
  <2>1. c \in Filled(cells)
    BY <1>1, <1>2 DEF Filled
  <2>2. GoodBuckets(idx)
    BY DEF Well
  <2> QED
    BY <1>1, <2>1, <2>2, HeldInBucket
<1>4. PICK U : U = Unlink(idx, b, i)
  OBVIOUS
<1>5. PICK less : less = IF n = 1 THEN <<EmptyCell>> ELSE RemoveAt(cells, i)
  OBVIOUS
<1>6. /\ DOMAIN U = DOMAIN idx /\ U.size = idx.size /\ U.count = idx.count - 1
      /\ U.bucket = [idx.bucket EXCEPT ![b] = less]
  <2>1. DOMAIN idx = {"size", "count", "bucket", "nodes", "links"}
    BY DEF Well, IndexRecord
  <2>2. CASE n = 1
    <3>1. U = [idx EXCEPT !.bucket[b] = <<EmptyCell>>, !.count = idx.count - 1]
      BY <1>1, <1>2, <1>4, <2>2 DEF Unlink
    <3> QED
      BY <1>5, <2>1, <2>2, <3>1
  <2>3. CASE n # 1
    <3>1. U = [idx EXCEPT !.bucket[b] = RemoveAt(cells, i), !.nodes = idx.nodes - 1,
                          !.count = idx.count - 1]
      BY <1>1, <1>2, <1>4, <2>3 DEF Unlink
    <3> QED
      BY <1>5, <2>1, <2>3, <3>1
  <2> QED
    BY <2>2, <2>3
<1>7. GoodBucket(less, b, idx.size) /\ Filled(less) = Filled(cells) \ {c}
  <2>1. CASE n = 1
    <3>1. Filled(cells) = {c}
      BY <1>1, <1>2, <1>3, <2>1 DEF Filled
    <3> QED
      BY <1>5, <2>1, <3>1, EmptyBucket
  <2>2. CASE n # 1
    <3>1. n > 1
      BY <1>2, <2>2
    <3> QED
      BY <1>1, <1>2, <1>5, <2>2, <3>1, BucketRemove
  <2> QED
    BY <2>1, <2>2
<1>8. Rebucketed(U, idx, b, less)
  <2>1. IndexRecord(idx)
    BY DEF Well
  <2> QED
    BY <1>6, <2>1, IndexChanged
<1>9. PICK held : held = Held(idx) \ {c}
  OBVIOUS
<1>10. held = (Held(idx) \ Filled(idx.bucket[b])) \cup Filled(less)
  BY <1>1, <1>3, <1>7, <1>9
<1>11. Apart(held)
  BY <1>9 DEF Well, Apart
<1>12. Well(U) /\ Held(U) = held
  BY <1>7, <1>8, <1>10, <1>11, BucketReplaced
<1>13. IsFiniteSet(held) /\ Cardinality(held) = Cardinality(Held(idx)) - 1
  BY <1>3, <1>9, FS_RemoveElement DEF Counted
<1>14. Cardinality(held) \in Nat
  BY <1>13, FS_CardinalityType
<1> QED
  BY <1>4, <1>6, <1>9, <1>12, <1>13, <1>14 DEF Counted

(* One cell becomes another.                                               *)
CellChanged(new, idx, b, i, c) ==
  /\ DOMAIN new = DOMAIN idx /\ new.size = idx.size /\ new.count = idx.count
  /\ new.bucket = [idx.bucket EXCEPT ![b] = [idx.bucket[b] EXCEPT ![i] = c]]

LEMMA CellChanges ==
  ASSUME NEW idx, Well(idx), Counted(idx),
         NEW b, NEW i, NEW old, CellIs(idx, b, i, old), old.obj # Null,
         NEW c \in Cell, c.obj # Null, c.hash = old.hash,
         NoOther(Held(idx), old, c), NEW new, CellChanged(new, idx, b, i, c)
  PROVE  /\ Well(new) /\ Counted(new)
         /\ Held(new) = (Held(idx) \ {old}) \cup {c}
<1> USE DEF CellIs
<1>1. PICK cells : cells = idx.bucket[b] /\ GoodBucket(cells, b, idx.size)
  BY DEF Well, GoodBuckets
<1>2. GoodBuckets(idx) /\ IndexRecord(idx) /\ Apart(Held(idx))
  BY DEF Well
<1>3. old \in Filled(cells) /\ Filled(cells) \subseteq Held(idx)
  <2>1. old \in Filled(cells)
    BY <1>1 DEF Filled, GoodBucket
  <2> QED
    BY <1>1, <1>2, <2>1, HeldInBucket
<1>4. PICK changed : changed = [cells EXCEPT ![i] = c]
  OBVIOUS
<1>5. GoodBucket(changed, b, idx.size) /\ Filled(changed) = (Filled(cells) \ {old}) \cup {c}
  <2>1. PICK size : size = idx.size
    OBVIOUS
  <2>2. NoOther(Filled(cells), old, c)
    BY <1>3 DEF NoOther
  <2>3. /\ GoodBucket(cells, b, size) /\ i \in 1..Len(cells)
        /\ old = cells[i] /\ old.obj # Null /\ c.hash = old.hash
        /\ ChangedAt(changed, cells, i, c)
    BY <1>1, <1>4, <2>1 DEF ChangedAt
  <2>4. /\ GoodBucket(changed, b, size)
        /\ Filled(changed) = (Filled(cells) \ {old}) \cup {c}
    BY <2>2, <2>3, BucketChange
  <2> QED
    BY <2>1, <2>4
<1>6. Rebucketed(new, idx, b, changed)
  BY <1>1, <1>2, <1>4, IndexChanged DEF CellChanged
<1>7. PICK held : held = (Held(idx) \ {old}) \cup {c}
  OBVIOUS
<1>8. held = (Held(idx) \ Filled(idx.bucket[b])) \cup Filled(changed)
  <2>1. old \in Filled(idx.bucket[b]) /\ Filled(idx.bucket[b]) \subseteq Held(idx)
    BY <1>1, <1>3
  <2> QED
    BY <1>1, <1>5, <1>7, <2>1
<1>9. Apart(held)
  BY <1>2, <1>7 DEF Apart, NoOther
<1>10. Well(new) /\ Held(new) = held
  BY <1>5, <1>6, <1>8, <1>9, BucketReplaced
<1>11. IsFiniteSet(held) /\ Cardinality(held) = idx.count
  <2>1. PICK without : without = Held(idx) \ {old}
    OBVIOUS
  <2>2. IsFiniteSet(without) /\ Cardinality(without) = Cardinality(Held(idx)) - 1
    BY <1>3, <2>1, FS_RemoveElement DEF Counted
  <2>3. c \notin without
    BY <2>1 DEF NoOther
  <2>4. IsFiniteSet(held) /\ Cardinality(held) = Cardinality(without) + 1
    BY <1>7, <2>1, <2>2, <2>3, FS_AddElement
  <2> QED
    BY <2>2, <2>4 DEF Counted
<1> QED
  BY <1>7, <1>10, <1>11 DEF Counted, CellChanged

(* A new cell is added and counted.                                        *)
LEMMA NewCellAdds ==
  ASSUME NEW idx, Well(idx), Counted(idx), NEW obj \in Nat \ {0}, NEW h \in Nat,
         \A d \in Held(idx) : d.obj # obj,
         NEW new, new = [Place(Grown(idx), NewCell(obj, h), 0) EXCEPT !.count = @ + 1]
  PROVE  /\ Well(new) /\ Counted(new)
         /\ Held(new) = Held(idx) \cup {NewCell(obj, h)}
<1>1. PICK c : c = NewCell(obj, h)
  OBVIOUS
<1>2. c \in Cell /\ c.obj = obj /\ c.obj # Null
  BY <1>1 DEF NewCell, Cell, Null
<1>3. PICK g : g = Grown(idx)
  OBVIOUS
<1>4. Well(g) /\ Held(g) = Held(idx) /\ g.count = idx.count
  BY <1>3, GrownKeeps
<1>5. PICK P : P = Place(g, c, 0)
  OBVIOUS
<1>6. Well(P) /\ Held(P) = Held(g) \cup {c} /\ P.count = g.count
  BY <1>2, <1>4, <1>5, PlaceAdds
<1>7. new = [P EXCEPT !.count = P.count + 1]
  BY <1>1, <1>3, <1>5
<1>8. DOMAIN P = {"size", "count", "bucket", "nodes", "links"}
  BY <1>6 DEF Well, IndexRecord
<1>9. /\ DOMAIN new = DOMAIN P /\ new.size = P.size /\ new.bucket = P.bucket
      /\ new.count = P.count + 1
  BY <1>7, <1>8
<1>10. Held(new) = Held(P) /\ Well(new)
  BY <1>6, <1>9 DEF Held, Well, IndexRecord, GoodBuckets
<1>11. /\ IsFiniteSet(Held(idx) \cup {c})
       /\ Cardinality(Held(idx) \cup {c}) = Cardinality(Held(idx)) + 1
  <2>1. c \notin Held(idx)
    BY <1>2
  <2> QED
    BY <2>1, FS_AddElement DEF Counted
<1> QED
  BY <1>1, <1>4, <1>6, <1>9, <1>10, <1>11 DEF Counted

(* clear() leaves nothing.                                                 *)
LEMMA ClearEmpties ==
  ASSUME NEW idx, Well(idx), Counted(idx)
  PROVE  /\ Well(ClearIndex(idx)) /\ Counted(ClearIndex(idx))
         /\ Held(ClearIndex(idx)) = {}
<1>1. CASE idx.count = 0
  <2>1. Held(idx) = {}
    BY <1>1, FS_EmptySet DEF Counted
  <2> QED
    BY <1>1, <2>1 DEF ClearIndex
<1>2. CASE idx.count # 0
  <2>1. PICK C, nodes, links :
          /\ C = ClearIndex(idx)
          /\ C = [idx EXCEPT !.bucket = EmptyBuckets(idx.size), !.count = 0,
                             !.nodes = nodes, !.links = links]
    BY <1>2 DEF ClearIndex
  <2>2. DOMAIN idx = {"size", "count", "bucket", "nodes", "links"} /\ idx.size \in Nat \ {0}
    BY DEF Well, IndexRecord, GoodBuckets
  <2>3. /\ DOMAIN C = {"size", "count", "bucket", "nodes", "links"}
        /\ C.size = idx.size /\ C.bucket = EmptyBuckets(C.size) /\ C.count = 0
    BY <2>1, <2>2
  <2>4. Well(C) /\ Held(C) = {}
    BY <2>2, <2>3, EmptyIndex
  <2> QED
    BY <2>1, <2>3, <2>4, FS_EmptySet DEF Counted
<1> QED
  BY <1>1, <1>2

-----------------------------------------------------------------------------
(***************************************************************************)
(* A sequence that holds the objects of a set, each once: the list of the  *)
(* map, and the walk over a slice.                                         *)
(***************************************************************************)

Once(s) == \A i, j \in 1..Len(s) : s[i] = s[j] => i = j

Members(s) == {s[i] : i \in 1..Len(s)}

Enumerates(s, S) == s \in Seq(Nat) /\ Once(s) /\ Members(s) = S

(* s with o at position k.                                                 *)
Widened(new, s, k, o) ==
  /\ new \in Seq(Nat) /\ Len(new) = Len(s) + 1
  /\ \A i \in 1..Len(s) + 1 :
       new[i] = IF i < k THEN s[i] ELSE IF i = k THEN o ELSE s[i - 1]

(* s without position k.                                                   *)
Narrowed(new, s, k) ==
  /\ new \in Seq(Nat) /\ Len(new) = Len(s) - 1
  /\ \A i \in 1..Len(s) - 1 : new[i] = s[IF i < k THEN i ELSE i + 1]

LEMMA WidenedEnumerates ==
  ASSUME NEW s, NEW S, Enumerates(s, S), NEW o \in Nat \ S, NEW k \in 1..Len(s) + 1,
         NEW new, Widened(new, s, k, o)
  PROVE  Enumerates(new, S \cup {o})
<1>1. PICK n \in Nat : n = Len(s)
  BY DEF Enumerates
<1>2. /\ new \in Seq(Nat) /\ Len(new) = n + 1 /\ k \in 1..n + 1
      /\ \A i \in 1..n + 1 : new[i] = IF i < k THEN s[i] ELSE IF i = k THEN o ELSE s[i - 1]
  BY <1>1 DEF Widened
<1>3. /\ \A i \in 1..n : s[i] \in S /\ s[i] # o
      /\ \A i, j \in 1..n : s[i] = s[j] => i = j
      /\ \A x \in S : \E i \in 1..n : s[i] = x
  BY <1>1 DEF Enumerates, Once, Members
<1>4. \A i \in 1..n + 1 : i # k => (IF i < k THEN i ELSE i - 1) \in 1..n
  BY <1>1, <1>2
<1>5. \A i \in 1..n + 1 : i # k => new[i] = s[IF i < k THEN i ELSE i - 1]
  BY <1>2
<1>6. new[k] = o
  BY <1>1, <1>2
<1>7. ASSUME NEW i \in 1..n + 1, NEW j \in 1..n + 1, new[i] = new[j]
      PROVE  i = j
  <2>1. CASE i = k \/ j = k
    BY <1>3, <1>4, <1>5, <1>6, <1>7, <2>1
  <2>2. CASE i # k /\ j # k
    <3>1. (IF i < k THEN i ELSE i - 1) = (IF j < k THEN j ELSE j - 1)
      BY <1>3, <1>4, <1>5, <1>7, <2>2
    <3> QED
      BY <1>2, <2>2, <3>1
  <2> QED
    BY <2>1, <2>2
<1>8. ASSUME NEW x
      PROVE  x \in Members(new) <=> x \in S \cup {o}
  <2>1. ASSUME NEW i \in 1..n + 1
        PROVE  new[i] \in S \cup {o}
    BY <1>3, <1>4, <1>5, <1>6
  <2>2. ASSUME x \in S
        PROVE  \E i \in 1..n + 1 : new[i] = x
    <3>1. PICK i \in 1..n : s[i] = x
      BY <1>3, <2>2
    <3>2. CASE i < k
      <4>1. i \in 1..n + 1 /\ new[i] = x
        BY <1>1, <1>2, <3>1, <3>2
      <4> QED
        BY <4>1
    <3>3. CASE ~(i < k)
      <4>1. i + 1 \in 1..n + 1 /\ new[i + 1] = x
        BY <1>1, <1>2, <3>1, <3>3
      <4> QED
        BY <4>1
    <3> QED
      BY <3>2, <3>3
  <2> QED
    BY <1>2, <1>6, <2>1, <2>2 DEF Members
<1> QED
  BY <1>2, <1>7, <1>8 DEF Enumerates, Once

LEMMA NarrowedEnumerates ==
  ASSUME NEW s, NEW S, Enumerates(s, S), NEW k \in 1..Len(s),
         NEW new, Narrowed(new, s, k)
  PROVE  Enumerates(new, S \ {s[k]})
<1>1. PICK n \in Nat : n = Len(s) /\ k \in 1..n
  BY DEF Enumerates
<1>2. /\ new \in Seq(Nat) /\ Len(new) = n - 1
      /\ \A i \in 1..n - 1 : new[i] = s[IF i < k THEN i ELSE i + 1]
  BY <1>1 DEF Narrowed
<1>3. /\ \A i \in 1..n : s[i] \in S
      /\ \A i, j \in 1..n : s[i] = s[j] => i = j
      /\ \A x \in S : \E i \in 1..n : s[i] = x
  BY <1>1 DEF Enumerates, Once, Members
<1>4. \A i \in 1..n - 1 : (IF i < k THEN i ELSE i + 1) \in (1..n) \ {k}
  BY <1>1
<1>5. ASSUME NEW i \in 1..n - 1, NEW j \in 1..n - 1, new[i] = new[j]
      PROVE  i = j
  <2>1. PICK p \in (1..n) \ {k} : p = (IF i < k THEN i ELSE i + 1) /\ new[i] = s[p]
    BY <1>2, <1>4
  <2>2. PICK q \in (1..n) \ {k} : q = (IF j < k THEN j ELSE j + 1) /\ new[j] = s[q]
    BY <1>2, <1>4
  <2>3. p = q
    BY <1>3, <1>5, <2>1, <2>2
  <2> QED
    BY <1>1, <2>1, <2>2, <2>3
<1>6. ASSUME NEW i \in 1..n - 1
      PROVE  new[i] \in S \ {s[k]}
  <2>1. PICK j \in (1..n) \ {k} : new[i] = s[j]
    BY <1>2, <1>4
  <2> QED
    BY <1>1, <1>3, <2>1
<1>7. ASSUME NEW x \in S \ {s[k]}
      PROVE  \E i \in 1..n - 1 : new[i] = x
  <2>1. PICK i \in 1..n : s[i] = x /\ i # k
    BY <1>3
  <2>2. CASE i < k
    <3>1. i \in 1..n - 1 /\ new[i] = x
      BY <1>1, <1>2, <2>1, <2>2
    <3> QED
      BY <3>1
  <2>3. CASE i > k
    <3>1. i - 1 \in 1..n - 1 /\ ~(i - 1 < k) /\ (i - 1) + 1 = i
      BY <1>1, <2>3
    <3>2. new[i - 1] = x
      BY <1>2, <2>1, <3>1
    <3> QED
      BY <3>1, <3>2
  <2> QED
    BY <1>1, <2>1, <2>2, <2>3
<1>8. Members(new) = S \ {s[k]}
  BY <1>2, <1>6, <1>7 DEF Members
<1> QED
  BY <1>2, <1>5, <1>8 DEF Enumerates, Once

LEMMA EnumeratedSet ==
  ASSUME NEW s, NEW S, Enumerates(s, S)
  PROVE  /\ ToSet(s) = S /\ IsFiniteSet(S) /\ Cardinality(S) = Len(s)
         /\ s = <<>> <=> S = {}
<1>1. PICK n \in Nat : n = Len(s) /\ DOMAIN s = 1..n
  BY DEF Enumerates
<1>2. /\ S = {s[i] : i \in 1..n} /\ \A i \in 1..n : s[i] \in S
      /\ \A i, j \in 1..n : s[i] = s[j] => i = j
      /\ s \in Seq(Nat)
  BY <1>1 DEF Enumerates, Once, Members
<1>3. s \in Bijection(1..n, S)
  <2>1. s \in [1..n -> S]
    BY <1>1, <1>2
  <2> QED
    BY <1>2, <2>1 DEF Bijection, Injection, Surjection, IsInjective
<1>4. ExistsBijection(1..n, S)
  BY <1>3 DEF ExistsBijection
<1>5. IsFiniteSet(S) /\ Cardinality(S) = n
  <2>1. IsFiniteSet(1..n) /\ Cardinality(1..n) = n
    BY FS_Interval
  <2> QED
    BY <1>4, <2>1, FS_Bijection
<1>6. ToSet(s) = S
  BY <1>1, <1>2 DEF ToSet
<1>7. s = <<>> <=> n = 0
  BY <1>1, <1>2
<1>8. n = 0 <=> S = {}
  <2>1. CASE n = 0
    BY <1>2, <2>1
  <2>2. CASE n # 0
    <3>1. 1 \in 1..n
      BY <2>2
    <3> QED
      BY <1>2, <2>2, <3>1
  <2> QED
    BY <2>1, <2>2
<1> QED
  BY <1>1, <1>5, <1>6, <1>7, <1>8

(* The walk over a slice, from a cell.                                     *)
Walk(c) == <<c.obj>> \o c.rest

LEMMA WalkFields ==
  ASSUME NEW c \in Cell
  PROVE  /\ Walk(c) \in Seq(Nat) /\ Len(Walk(c)) = Len(c.rest) + 1
         /\ \A i \in 1..Len(c.rest) + 1 : Walk(c)[i] = IF i = 1 THEN c.obj ELSE c.rest[i - 1]
<1>1. PICK rest : rest = c.rest /\ rest \in Seq(Nat)
  BY DEF Cell
<1>2. PICK n \in Nat : n = Len(rest)
  BY <1>1
<1>3. PICK u : u = <<c.obj>>
  OBVIOUS
<1>4. u \in Seq(Nat) /\ Len(u) = 1 /\ u[1] = c.obj
  BY <1>3 DEF Cell
<1>5. PICK w : w = u \o rest
  OBVIOUS
<1>6. /\ w \in Seq(Nat) /\ Len(w) = Len(u) + Len(rest)
      /\ \A i \in 1..Len(u) + Len(rest) :
           w[i] = IF i <= Len(u) THEN u[i] ELSE rest[i - Len(u)]
  BY <1>1, <1>4, <1>5, ConcatProperties
<1>7. Len(w) = n + 1 /\ \A i \in 1..n + 1 : w[i] = IF i = 1 THEN c.obj ELSE rest[i - 1]
  BY <1>2, <1>4, <1>6
<1> QED
  BY <1>1, <1>2, <1>3, <1>5, <1>6, <1>7 DEF Walk

-----------------------------------------------------------------------------
(***************************************************************************)
(* The operations of the primary index, for the keys of the entries.       *)
(***************************************************************************)

Keyed(keys) == keys \in [DOMAIN keys -> Key] /\ DOMAIN keys \subseteq Nat \ {0}

Added(keys, o, k) == [p \in DOMAIN keys \cup {o} |-> IF p = o THEN k ELSE keys[p]]

Dropped(keys, o) == [p \in DOMAIN keys \ {o} |-> keys[p]]

OfKey(keys, k) == {o \in DOMAIN keys : keys[o] = k}

OfSlice(keys, x) == {o \in DOMAIN keys : Slice[keys[o]] = x}

CellsOf(keys) == {NewCell(o, Hash[keys[o]]) : o \in DOMAIN keys}

Indexed(idx, keys) == Well(idx) /\ Counted(idx) /\ Held(idx) = CellsOf(keys)

(* get answers with an object of the key, if there is one.                 *)
LEMMA GetFinds ==
  ASSUME NEW idx, NEW keys, Keyed(keys), Indexed(idx, keys), NEW k \in Key,
         NEW objs, objs = OfKey(keys, k), NEW r, r = Get(idx, Hash[k], objs)
  PROVE  (r = Null => objs = {}) /\ (r # Null => r \in objs)
<1>1. PICK h \in Nat : h = Hash[k]
  BY HashAssumption
<1>2. objs \in SUBSET (Nat \ {0}) /\ Well(idx)
  BY DEF OfKey, Keyed, Indexed
<1>3. PICK i : i = Find(idx, h, objs)
  OBVIOUS
<1>4. PICK b : b = BucketOf(idx, h)
  OBVIOUS
<1>5. /\ i = 0 => \A c \in Held(idx) : ~(c.hash = h /\ c.obj \in objs)
      /\ i # 0 => idx.bucket[b][i].obj \in objs
  BY <1>2, <1>3, <1>4, FindFinds
<1>6. r = IF i = 0 THEN Null ELSE idx.bucket[b][i].obj
  BY <1>1, <1>3, <1>4 DEF Get, CellAt
<1>7. CASE i # 0
  BY <1>2, <1>5, <1>6, <1>7 DEF Null
<1>8. CASE i = 0
  <2>1. ASSUME NEW o \in objs
        PROVE  FALSE
    <3>1. NewCell(o, h) \in Held(idx)
      BY <1>1 DEF Indexed, CellsOf, OfKey
    <3>2. NewCell(o, h).hash = h /\ NewCell(o, h).obj = o
      BY DEF NewCell
    <3> QED
      BY <1>5, <1>8, <3>1, <3>2
  <2> QED
    BY <1>6, <1>8, <2>1
<1> QED
  BY <1>7, <1>8

LEMMA PrimaryInserts ==
  ASSUME NEW idx, NEW keys, Keyed(keys), Indexed(idx, keys), NEW k \in Key,
         NEW o \in Nat \ {0}, o \notin DOMAIN keys
  PROVE  Indexed(PrimaryInsert(idx, o, Hash[k]), Added(keys, o, k))
<1>1. PICK h \in Nat : h = Hash[k]
  BY HashAssumption
<1>2. PICK new : new = PrimaryInsert(idx, o, h)
  OBVIOUS
<1>3. new = [Place(Grown(idx), NewCell(o, h), 0) EXCEPT !.count = @ + 1]
  BY <1>2 DEF PrimaryInsert
<1>4. \A d \in Held(idx) : d.obj # o
  BY DEF Indexed, CellsOf, NewCell
<1>5. Well(new) /\ Counted(new) /\ Held(new) = Held(idx) \cup {NewCell(o, h)}
  BY <1>3, <1>4, NewCellAdds DEF Indexed
<1>6. PICK more : more = Added(keys, o, k)
  OBVIOUS
<1>7. /\ DOMAIN more = DOMAIN keys \cup {o} /\ more[o] = k
      /\ \A p \in DOMAIN keys : more[p] = keys[p]
  BY <1>6 DEF Added
<1>8. CellsOf(more) = CellsOf(keys) \cup {NewCell(o, h)}
  BY <1>1, <1>7 DEF CellsOf
<1> QED
  BY <1>1, <1>2, <1>5, <1>6, <1>8 DEF Indexed

LEMMA PrimaryErases ==
  ASSUME NEW idx, NEW keys, Keyed(keys), Indexed(idx, keys), NEW o \in DOMAIN keys
  PROVE  Indexed(PrimaryErase(idx, o, Hash[keys[o]]), Dropped(keys, o))
<1>1. PICK h \in Nat : h = Hash[keys[o]]
  BY HashAssumption DEF Keyed
<1>2. PICK c : c = NewCell(o, h)
  OBVIOUS
<1>3. c \in Held(idx) /\ c.obj = o /\ c.hash = h
  BY <1>1, <1>2 DEF Indexed, CellsOf, NewCell
<1>4. PICK b : b = BucketOf(idx, c.hash)
  OBVIOUS
<1>5. PICK i : i = Search(idx, b, c.obj)
  OBVIOUS
<1>6. Well(idx) /\ Counted(idx) /\ Held(idx) = CellsOf(keys)
  BY DEF Indexed
<1>7. b \in 0..idx.size - 1 /\ i \in 1..Len(idx.bucket[b]) /\ idx.bucket[b][i] = c
  BY <1>3, <1>4, <1>5, <1>6, SearchFinds
<1>8. PICK new : new = PrimaryErase(idx, o, h)
  OBVIOUS
<1>9. new = Unlink(idx, b, i)
  <2>1. new = IF i = 0 THEN idx ELSE Unlink(idx, b, i)
    BY <1>3, <1>4, <1>5, <1>8 DEF PrimaryErase, Search
  <2>2. i # 0
    BY <1>7
  <2> QED
    BY <2>1, <2>2
<1>10. c.obj # Null
  BY <1>3 DEF Keyed, Null
<1>11. Well(new) /\ Counted(new) /\ Held(new) = Held(idx) \ {c}
  <2>1. Well(idx) /\ Counted(idx) /\ CellIs(idx, b, i, c) /\ c.obj # Null
    BY <1>6, <1>7, <1>10 DEF CellIs
  <2>2. /\ Well(Unlink(idx, b, i)) /\ Counted(Unlink(idx, b, i))
        /\ Held(Unlink(idx, b, i)) = Held(idx) \ {c}
    BY <2>1, UnlinkRemoves
  <2> QED
    BY <1>9, <2>2
<1>12. PICK less : less = Dropped(keys, o)
  OBVIOUS
<1>13. /\ DOMAIN less = DOMAIN keys \ {o}
       /\ \A p \in DOMAIN keys \ {o} : less[p] = keys[p]
  BY <1>12 DEF Dropped
<1>14. CellsOf(less) = CellsOf(keys) \ {c}
  <2>1. \A p \in DOMAIN keys : NewCell(p, Hash[keys[p]]) = c <=> p = o
    BY <1>1, <1>2 DEF NewCell
  <2> QED
    BY <1>13, <2>1 DEF CellsOf
<1> QED
  BY <1>1, <1>6, <1>8, <1>11, <1>12, <1>14 DEF Indexed

-----------------------------------------------------------------------------
(***************************************************************************)
(* The operations of the secondary index.                                  *)
(***************************************************************************)

(* A cell stands for the entries of one slice.                             *)
SliceCell(c, keys) ==
  /\ c.obj \in DOMAIN keys
  /\ c.hash = SliceHash[Slice[keys[c.obj]]]
  /\ Enumerates(Walk(c), OfSlice(keys, Slice[keys[c.obj]]))

(* There is one cell for each slice.                                       *)
CellPerSlice(cells, keys) ==
  /\ \A c \in cells : SliceCell(c, keys)
  /\ \A o \in DOMAIN keys : \E c \in cells : Slice[keys[c.obj]] = Slice[keys[o]]
  /\ \A c, d \in cells : Slice[keys[c.obj]] = Slice[keys[d.obj]] => c = d

Sliced(idx, keys) == Well(idx) /\ Counted(idx) /\ CellPerSlice(Held(idx), keys)

(* Two maps of entries differ in one slice.                                *)
SameBut(keys2, keys, x) ==
  /\ \A p \in DOMAIN keys : Slice[keys[p]] # x => p \in DOMAIN keys2 /\ keys2[p] = keys[p]
  /\ \A p \in DOMAIN keys2 : Slice[keys2[p]] # x => p \in DOMAIN keys /\ keys2[p] = keys[p]

(* The cells of one slice become others, or one less.                      *)
Exchanged(cells2, cells, keys, x, N) ==
  cells2 = {c \in cells : Slice[keys[c.obj]] # x} \cup N

OnlyCell(N, keys, x) ==
  /\ \A c \in N : SliceCell(c, keys) /\ Slice[keys[c.obj]] = x
  /\ \A c, d \in N : c = d
  /\ OfSlice(keys, x) # {} => N # {}

LEMMA SliceExchanged ==
  ASSUME NEW cells, NEW keys, CellPerSlice(cells, keys), NEW x, NEW keys2, NEW N,
         SameBut(keys2, keys, x), OnlyCell(N, keys2, x),
         NEW cells2, Exchanged(cells2, cells, keys, x, N)
  PROVE  CellPerSlice(cells2, keys2)
<1>1. ASSUME NEW y, y # x
      PROVE  OfSlice(keys2, y) = OfSlice(keys, y)
  BY <1>1 DEF OfSlice, SameBut
<1>2. ASSUME NEW c \in cells2, c \notin N
      PROVE  /\ c \in cells /\ c.obj \in DOMAIN keys /\ c.obj \in DOMAIN keys2
             /\ keys2[c.obj] = keys[c.obj] /\ Slice[keys[c.obj]] # x
  BY <1>2 DEF Exchanged, CellPerSlice, SliceCell, SameBut
<1>3. ASSUME NEW c \in cells2
      PROVE  SliceCell(c, keys2)
  <2>1. CASE c \in N
    BY <2>1 DEF OnlyCell
  <2>2. CASE c \notin N
    <3>1. SliceCell(c, keys)
      BY <1>2, <2>2 DEF CellPerSlice
    <3> QED
      BY <1>1, <1>2, <2>2, <3>1 DEF SliceCell
  <2> QED
    BY <2>1, <2>2
<1>4. ASSUME NEW o \in DOMAIN keys2
      PROVE  \E c \in cells2 : Slice[keys2[c.obj]] = Slice[keys2[o]]
  <2>1. CASE Slice[keys2[o]] = x
    <3>1. N # {}
      BY <2>1 DEF OnlyCell, OfSlice
    <3>2. PICK c \in N : Slice[keys2[c.obj]] = x
      BY <3>1 DEF OnlyCell
    <3> QED
      BY <2>1, <3>2 DEF Exchanged
  <2>2. CASE Slice[keys2[o]] # x
    <3>1. o \in DOMAIN keys /\ keys2[o] = keys[o]
      BY <2>2 DEF SameBut
    <3>2. PICK c \in cells : Slice[keys[c.obj]] = Slice[keys[o]]
      BY <3>1 DEF CellPerSlice
    <3>3. c.obj \in DOMAIN keys /\ Slice[keys[c.obj]] # x
      BY <2>2, <3>1, <3>2 DEF CellPerSlice, SliceCell
    <3>4. c \in cells2 /\ keys2[c.obj] = keys[c.obj]
      BY <3>3 DEF Exchanged, SameBut
    <3> QED
      BY <3>1, <3>2, <3>4
  <2> QED
    BY <2>1, <2>2
<1>5. ASSUME NEW c \in cells2, NEW d \in cells2, Slice[keys2[c.obj]] = Slice[keys2[d.obj]]
      PROVE  c = d
  <2>1. CASE c \in N /\ d \in N
    BY <2>1 DEF OnlyCell
  <2>2. CASE c \in N /\ d \notin N
    BY <1>2, <1>5, <2>2 DEF OnlyCell
  <2>3. CASE c \notin N /\ d \in N
    BY <1>2, <1>5, <2>3 DEF OnlyCell
  <2>4. CASE c \notin N /\ d \notin N
    BY <1>2, <1>5, <2>4 DEF CellPerSlice
  <2> QED
    BY <2>1, <2>2, <2>3, <2>4
<1> QED
  BY <1>3, <1>4, <1>5 DEF CellPerSlice

(* The cell that stands for a slice is found.                              *)
LEMMA SliceFound ==
  ASSUME NEW idx, NEW keys, Keyed(keys), Sliced(idx, keys), NEW k \in Key,
         NEW x, x = Slice[k], NEW h, h = SliceHash[x], NEW objs, objs = OfSlice(keys, x),
         NEW i, i = Find(idx, h, objs), NEW b, b = BucketOf(idx, h)
  PROVE  /\ h \in Nat
         /\ i = 0 => objs = {}
         /\ i # 0 => \E c \in Held(idx) : /\ CellIs(idx, b, i, c) /\ c.obj \in objs
                                          /\ c.hash = h /\ Enumerates(Walk(c), objs)
<1>1. h \in Nat
  BY HashAssumption
<1>2. objs \in SUBSET (Nat \ {0}) /\ Well(idx) /\ CellPerSlice(Held(idx), keys)
  BY DEF OfSlice, Keyed, Sliced
<1>3. /\ b \in 0..idx.size - 1
      /\ i = 0 => \A c \in Held(idx) : ~(c.hash = h /\ c.obj \in objs)
      /\ i # 0 => /\ i \in 1..Len(idx.bucket[b])
                  /\ idx.bucket[b][i] \in Held(idx) \cap Filled(idx.bucket[b])
                  /\ idx.bucket[b][i].hash = h /\ idx.bucket[b][i].obj \in objs
  BY <1>1, <1>2, FindFinds
<1>4. ASSUME i = 0, NEW o \in objs
      PROVE  FALSE
  <2>1. PICK c \in Held(idx) : Slice[keys[c.obj]] = x
    BY <1>2 DEF OfSlice, CellPerSlice
  <2>2. c.obj \in objs /\ c.hash = h
    BY <1>2, <2>1 DEF CellPerSlice, SliceCell, OfSlice
  <2> QED
    BY <1>3, <1>4, <2>1, <2>2
<1>5. ASSUME i # 0
      PROVE  \E c \in Held(idx) : /\ CellIs(idx, b, i, c) /\ c.obj \in objs
                                  /\ c.hash = h /\ Enumerates(Walk(c), objs)
  <2>1. PICK c : c = idx.bucket[b][i]
    OBVIOUS
  <2>2. c \in Held(idx) /\ CellIs(idx, b, i, c) /\ c.obj \in objs /\ c.hash = h
    BY <1>3, <1>5, <2>1 DEF CellIs
  <2>3. Slice[keys[c.obj]] = x /\ SliceCell(c, keys)
    BY <1>2, <2>2 DEF OfSlice, CellPerSlice
  <2>4. Enumerates(Walk(c), objs)
    BY <2>3 DEF SliceCell
  <2> QED
    BY <2>2, <2>4
<1> QED
  BY <1>1, <1>4, <1>5

LEMMA SliceWalked ==
  ASSUME NEW idx, NEW keys, Keyed(keys), Sliced(idx, keys), NEW k \in Key
  PROVE  Enumerates(GetSlice(idx, SliceHash[Slice[k]], OfSlice(keys, Slice[k])),
                    OfSlice(keys, Slice[k]))
<1>1. PICK x, h, objs : x = Slice[k] /\ h = SliceHash[x] /\ objs = OfSlice(keys, x)
  OBVIOUS
<1>2. PICK i, b : i = Find(idx, h, objs) /\ b = BucketOf(idx, h)
  OBVIOUS
<1>3. /\ i = 0 => objs = {}
      /\ i # 0 => \E c \in Held(idx) : /\ CellIs(idx, b, i, c) /\ c.obj \in objs
                                       /\ c.hash = h /\ Enumerates(Walk(c), objs)
  BY <1>1, <1>2, SliceFound
<1>4. PICK slice : slice = GetSlice(idx, h, objs)
  OBVIOUS
<1>5. CASE i = 0
  <2>1. slice = <<>> /\ objs = {}
    BY <1>2, <1>3, <1>4, <1>5 DEF GetSlice
  <2> QED
    BY <1>1, <1>4, <2>1 DEF Enumerates, Once, Members
<1>6. CASE i # 0
  <2>1. PICK c : c = idx.bucket[b][i] /\ Enumerates(Walk(c), objs)
    BY <1>3, <1>6 DEF CellIs
  <2>2. slice = Walk(c)
    BY <1>2, <1>4, <1>6, <2>1 DEF GetSlice, CellAt, Walk
  <2> QED
    BY <1>1, <1>4, <2>1, <2>2
<1> QED
  BY <1>5, <1>6

LEMMA GrownSliced ==
  ASSUME NEW idx, NEW keys, Sliced(idx, keys)
  PROVE  Sliced(Grown(idx), keys) /\ Held(Grown(idx)) = Held(idx)
<1>1. PICK g : g = Grown(idx)
  OBVIOUS
<1>2. Well(g) /\ Held(g) = Held(idx) /\ g.count = idx.count
  BY <1>1, GrownKeeps DEF Sliced
<1> QED
  BY <1>1, <1>2 DEF Sliced, Counted

(* One more entry, or one less.                                            *)
Extends(more, keys, o, k) ==
  /\ DOMAIN more = DOMAIN keys \cup {o} /\ more[o] = k
  /\ \A p \in DOMAIN keys : more[p] = keys[p]

Reduces(less, keys, o) ==
  DOMAIN less = DOMAIN keys \ {o} /\ \A p \in DOMAIN keys \ {o} : less[p] = keys[p]

LEMMA AddedSlice ==
  ASSUME NEW keys, NEW o, o \notin DOMAIN keys, NEW k, NEW more, more = Added(keys, o, k)
  PROVE  /\ Extends(more, keys, o, k)
         /\ SameBut(more, keys, Slice[k])
         /\ OfSlice(more, Slice[k]) = OfSlice(keys, Slice[k]) \cup {o}
<1>1. Extends(more, keys, o, k)
  BY DEF Added, Extends
<1>2. SameBut(more, keys, Slice[k])
  BY <1>1 DEF SameBut, Extends
<1>3. OfSlice(more, Slice[k]) = OfSlice(keys, Slice[k]) \cup {o}
  BY <1>1 DEF OfSlice, Extends
<1> QED
  BY <1>1, <1>2, <1>3

LEMMA DroppedSlice ==
  ASSUME NEW keys, NEW o \in DOMAIN keys, NEW less, less = Dropped(keys, o)
  PROVE  /\ Reduces(less, keys, o)
         /\ SameBut(less, keys, Slice[keys[o]])
         /\ OfSlice(less, Slice[keys[o]]) = OfSlice(keys, Slice[keys[o]]) \ {o}
<1>1. Reduces(less, keys, o)
  BY DEF Dropped, Reduces
<1>2. SameBut(less, keys, Slice[keys[o]])
  BY <1>1 DEF SameBut, Reduces
<1>3. OfSlice(less, Slice[keys[o]]) = OfSlice(keys, Slice[keys[o]]) \ {o}
  BY <1>1 DEF OfSlice, Reduces
<1> QED
  BY <1>1, <1>2, <1>3

(* A new object joins the slice of cell c, behind its first.               *)
Joined(c2, c, o) == c2 = [c EXCEPT !.rest = <<o>> \o c.rest]

LEMMA AddToSliceChanges ==
  ASSUME NEW idx, IndexRecord(idx), NEW h, NEW i, NEW o \in Nat, NEW b, b = BucketOf(idx, h),
         NEW c \in Cell, CellIs(idx, b, i, c), i \in DOMAIN idx.bucket[b],
         NEW c2, Joined(c2, c, o)
  PROVE  /\ c2 \in Cell /\ c2.obj = c.obj /\ c2.hash = c.hash
         /\ CellChanged(AddToSlice(idx, h, i, o), idx, b, i, c2)
<1> USE DEF Joined
<1>1. PICK new : new = AddToSlice(idx, h, i, o)
  OBVIOUS
<1>2. DOMAIN idx = {"size", "count", "bucket", "nodes", "links"} /\ b \in DOMAIN idx.bucket
      /\ c = idx.bucket[b][i]
  BY DEF IndexRecord, CellIs
<1>4. new = [idx EXCEPT !.bucket[b][i].rest = <<o>> \o idx.bucket[b][i].rest,
                        !.links = idx.links + 1]
  BY <1>1 DEF AddToSlice
<1>5. DOMAIN new = DOMAIN idx /\ new.size = idx.size /\ new.count = idx.count
  BY <1>2, <1>4
<1>6. new.bucket = [idx.bucket EXCEPT ![b][i].rest = <<o>> \o idx.bucket[b][i].rest]
  BY <1>2, <1>4
<1>7. new.bucket = [idx.bucket EXCEPT ![b] = [idx.bucket[b] EXCEPT ![i] = c2]]
  BY <1>2, <1>6
<1>8. PICK r : r = <<o>> \o c.rest /\ r \in Seq(Nat)
  <2>1. PICK rest : rest = c.rest /\ rest \in Seq(Nat)
    BY DEF Cell
  <2>2. <<o>> \o rest \in Seq(Nat)
    BY <2>1
  <2> QED
    BY <2>1, <2>2
<1>9. c2 \in Cell /\ c2.obj = c.obj /\ c2.hash = c.hash /\ c2.rest = r
  <2>1. c2 = [c EXCEPT !.rest = r]
    BY <1>8
  <2> QED
    BY <1>8, <2>1 DEF Cell
<1> QED
  BY <1>1, <1>5, <1>7, <1>8, <1>9 DEF CellChanged

(* The walk over its slice.                                                *)
LEMMA WalkWidened ==
  ASSUME NEW c \in Cell, NEW o \in Nat, NEW c2 \in Cell,
         c2.obj = c.obj, c2.rest = <<o>> \o c.rest
  PROVE  Widened(Walk(c2), Walk(c), 2, o) /\ 2 \in 1..Len(Walk(c)) + 1
<1>1. PICK rest, rest2 : /\ rest = c.rest /\ rest \in Seq(Nat)
                         /\ rest2 = c2.rest /\ rest2 \in Seq(Nat)
  BY DEF Cell
<1>2. PICK n \in Nat : n = Len(rest)
  BY <1>1
<1>3. PICK u : u = <<o>> /\ u \in Seq(Nat) /\ Len(u) = 1 /\ u[1] = o
  <2>1. <<o>> \in Seq(Nat) /\ Len(<<o>>) = 1 /\ <<o>>[1] = o
    OBVIOUS
  <2> QED
    BY <2>1
<1>4. /\ Len(rest2) = Len(u) + Len(rest)
      /\ \A i \in 1..Len(u) + Len(rest) :
           rest2[i] = IF i <= Len(u) THEN u[i] ELSE rest[i - Len(u)]
  <2>1. rest2 = u \o rest
    BY <1>1, <1>3
  <2> QED
    BY <1>1, <1>3, <2>1, ConcatProperties
<1>5. Len(rest2) = n + 1 /\ \A i \in 1..n + 1 : rest2[i] = IF i = 1 THEN o ELSE rest[i - 1]
  BY <1>2, <1>3, <1>4
<1>6. PICK w, w2 : w = Walk(c) /\ w2 = Walk(c2)
  OBVIOUS
<1>7. /\ Len(w) = n + 1
      /\ \A i \in 1..n + 1 : w[i] = IF i = 1 THEN c.obj ELSE rest[i - 1]
  BY <1>1, <1>2, <1>6, WalkFields
<1>8. /\ w2 \in Seq(Nat) /\ Len(w2) = (n + 1) + 1
      /\ \A i \in 1..(n + 1) + 1 : w2[i] = IF i = 1 THEN c2.obj ELSE rest2[i - 1]
  BY <1>1, <1>5, <1>6, WalkFields
<1>9. ASSUME NEW i \in 1..(n + 1) + 1
      PROVE  w2[i] = IF i < 2 THEN w[i] ELSE IF i = 2 THEN o ELSE w[i - 1]
  <2>1. CASE i = 1
    BY <1>7, <1>8, <2>1
  <2>2. CASE i = 2
    BY <1>5, <1>8, <2>2
  <2>3. CASE i > 2
    <3>1. i - 1 \in 1..n + 1 /\ i - 1 # 1 /\ i # 1
      BY <1>2, <2>3
    <3>2. w2[i] = rest2[i - 1]
      BY <1>8, <3>1
    <3>3. rest2[i - 1] = rest[(i - 1) - 1]
      BY <1>5, <3>1
    <3>4. w[i - 1] = rest[(i - 1) - 1]
      BY <1>7, <3>1
    <3> QED
      BY <2>3, <3>2, <3>3, <3>4
  <2> QED
    BY <2>1, <2>2, <2>3
<1>10. 2 \in 1..(n + 1) + 1
  BY <1>2
<1> QED
  BY <1>6, <1>7, <1>8, <1>9, <1>10 DEF Widened

LEMMA SecondaryInserts ==
  ASSUME NEW idx, NEW keys, Keyed(keys), Sliced(idx, keys), NEW k \in Key,
         NEW o \in Nat \ {0}, o \notin DOMAIN keys
  PROVE  Sliced(SecondaryInsert(idx, o, SliceHash[Slice[k]], OfSlice(keys, Slice[k])),
                Added(keys, o, k))
<1>1. PICK x, h, objs : x = Slice[k] /\ h = SliceHash[x] /\ objs = OfSlice(keys, x)
  OBVIOUS
<1>2. PICK g : g = Grown(idx) /\ Sliced(g, keys)
  BY GrownSliced
<1>3. PICK i, b : i = Find(g, h, objs) /\ b = BucketOf(g, h)
  OBVIOUS
<1>4. /\ h \in Nat
      /\ i = 0 => objs = {}
      /\ i # 0 => \E c \in Held(g) : /\ CellIs(g, b, i, c) /\ c.obj \in objs
                                     /\ c.hash = h /\ Enumerates(Walk(c), objs)
  BY <1>1, <1>2, <1>3, SliceFound
<1>5. PICK new : new = SecondaryInsert(idx, o, h, objs)
  OBVIOUS
<1>6. PICK more : more = Added(keys, o, k)
  OBVIOUS
<1>7. /\ SameBut(more, keys, x) /\ OfSlice(more, x) = objs \cup {o}
      /\ DOMAIN more = DOMAIN keys \cup {o} /\ more[o] = k
      /\ \A p \in DOMAIN keys : more[p] = keys[p]
  <2>1. /\ Extends(more, keys, o, k)
        /\ SameBut(more, keys, Slice[k])
        /\ OfSlice(more, Slice[k]) = OfSlice(keys, Slice[k]) \cup {o}
    BY <1>6, AddedSlice
  <2> QED
    BY <1>1, <2>1 DEF Extends
<1>8. CellPerSlice(Held(g), keys) /\ Well(g) /\ Counted(g) /\ o \notin objs
  BY <1>1, <1>2 DEF Sliced, OfSlice
<1>9. CASE i # 0
  <2>1. PICK c \in Held(g) : /\ CellIs(g, b, i, c) /\ c.obj \in objs
                             /\ c.hash = h /\ Enumerates(Walk(c), objs)
    BY <1>4, <1>9
  <2>2. c \in Cell /\ c.obj # Null /\ Slice[keys[c.obj]] = x /\ c.obj \in DOMAIN keys
    BY <1>1, <2>1 DEF Held, Filled, OfSlice
  <2>3. PICK c2 : Joined(c2, c, o)
    BY DEF Joined
  <2>4. PICK cells : cells = g.bucket[b] /\ GoodBucket(cells, b, g.size)
                     /\ i \in 1..Len(cells) /\ c = cells[i]
    BY <1>8, <2>1 DEF CellIs, Well, GoodBuckets
  <2>5. new = AddToSlice(g, h, i, o)
    <3>1. cells[1].obj # Null
      BY <2>2, <2>4, EmptyHead DEF GoodBucket
    <3>2. HeadOf(g, BucketOf(g, h)).obj # Null
      BY <1>3, <2>4, <3>1 DEF HeadOf
    <3> QED
      BY <1>2, <1>3, <1>5, <1>9, <3>2 DEF SecondaryInsert
  <2>6. /\ c2 \in Cell /\ c2.obj = c.obj /\ c2.hash = c.hash /\ c2.rest = <<o>> \o c.rest
        /\ CellChanged(AddToSlice(g, h, i, o), g, b, i, c2)
    <3>1. /\ IndexRecord(g) /\ i \in DOMAIN g.bucket[b] /\ o \in Nat /\ c \in Cell
          /\ b = BucketOf(g, h) /\ CellIs(g, b, i, c) /\ Joined(c2, c, o)
      BY <1>3, <1>8, <2>1, <2>2, <2>3, <2>4 DEF Well, GoodBucket
    <3>2. /\ c2 \in Cell /\ c2.obj = c.obj /\ c2.hash = c.hash
          /\ CellChanged(AddToSlice(g, h, i, o), g, b, i, c2)
      BY <3>1, AddToSliceChanges
    <3>3. c2.rest = <<o>> \o c.rest
      BY <2>2, <2>3 DEF Joined, Cell
    <3> QED
      BY <3>2, <3>3
  <2>7. CellChanged(new, g, b, i, c2)
    BY <2>5, <2>6
  <2>8. NoOther(Held(g), c, c2)
    BY <1>8, <2>1, <2>6 DEF NoOther, Well, Apart
  <2>9. Well(new) /\ Counted(new) /\ Held(new) = (Held(g) \ {c}) \cup {c2}
    BY <1>8, <2>1, <2>2, <2>6, <2>7, <2>8, CellChanges
  <2>10. Enumerates(Walk(c2), objs \cup {o})
    <3>1. Widened(Walk(c2), Walk(c), 2, o) /\ 2 \in 1..Len(Walk(c)) + 1
      BY <2>2, <2>6, WalkWidened
    <3> QED
      BY <1>8, <2>1, <3>1, WidenedEnumerates
  <2>11. OnlyCell({c2}, more, x)
    <3>1. c2.obj \in DOMAIN more /\ Slice[more[c2.obj]] = x
      BY <1>7, <2>2, <2>6
    <3>2. SliceCell(c2, more)
      BY <1>1, <1>7, <2>1, <2>6, <2>10, <3>1 DEF SliceCell
    <3> QED
      BY <3>1, <3>2 DEF OnlyCell
  <2>12. Exchanged(Held(new), Held(g), keys, x, {c2})
    <3>1. \A d \in Held(g) : Slice[keys[d.obj]] = x <=> d = c
      BY <1>8, <2>1, <2>2 DEF CellPerSlice
    <3> QED
      BY <2>9, <3>1 DEF Exchanged
  <2>13. CellPerSlice(Held(new), more)
    BY <1>7, <1>8, <2>11, <2>12, SliceExchanged
  <2> QED
    BY <1>1, <1>5, <1>6, <2>9, <2>13 DEF Sliced
<1>10. CASE i = 0
  <2>1. PICK c : c = NewCell(o, h)
    OBVIOUS
  <2>2. c \in Cell /\ c.obj = o /\ c.hash = h /\ c.rest = <<>>
    BY <1>4, <2>1 DEF NewCell, Cell
  <2>3. new = [Place(Grown(idx), NewCell(o, h), 0) EXCEPT !.count = @ + 1]
    BY <1>2, <1>3, <1>5, <1>10 DEF SecondaryInsert
  <2>4. \A d \in Held(idx) : d.obj # o
    BY DEF Sliced, CellPerSlice, SliceCell
  <2>5. Well(new) /\ Counted(new) /\ Held(new) = Held(idx) \cup {c}
    BY <1>4, <2>1, <2>3, <2>4, NewCellAdds DEF Sliced
  <2>6. objs = {} /\ CellPerSlice(Held(idx), keys)
    BY <1>4, <1>10 DEF Sliced
  <2>7. Enumerates(Walk(c), {o})
    <3>1. /\ Walk(c) \in Seq(Nat) /\ Len(Walk(c)) = Len(c.rest) + 1
          /\ \A j \in 1..Len(c.rest) + 1 : Walk(c)[j] = IF j = 1 THEN c.obj ELSE c.rest[j - 1]
      BY <2>2, WalkFields
    <3>2. Len(c.rest) = 0
      BY <2>2
    <3>3. PICK w : w = Walk(c) /\ w \in Seq(Nat) /\ Len(w) = 1 /\ w[1] = o
      BY <2>2, <3>1, <3>2
    <3>4. Once(w) /\ Members(w) = {o}
      BY <3>3 DEF Once, Members
    <3> QED
      BY <3>3, <3>4 DEF Enumerates
  <2>8. OnlyCell({c}, more, x)
    <3>1. c.obj \in DOMAIN more /\ Slice[more[c.obj]] = x
      BY <1>1, <1>7, <2>2
    <3>2. SliceCell(c, more)
      BY <1>1, <1>7, <2>2, <2>6, <2>7, <3>1 DEF SliceCell
    <3> QED
      BY <3>1, <3>2 DEF OnlyCell
  <2>9. Exchanged(Held(new), Held(idx), keys, x, {c})
    <3>1. \A d \in Held(idx) : Slice[keys[d.obj]] # x
      BY <1>1, <2>6 DEF CellPerSlice, SliceCell, OfSlice
    <3> QED
      BY <2>5, <3>1 DEF Exchanged
  <2>10. CellPerSlice(Held(new), more)
    BY <1>7, <2>6, <2>8, <2>9, SliceExchanged
  <2> QED
    BY <1>1, <1>5, <1>6, <2>5, <2>10 DEF Sliced
<1> QED
  BY <1>9, <1>10

(* The slice of a cell without one of its objects.                         *)
LEMMA SliceNarrowed ==
  ASSUME NEW s, NEW S, Enumerates(s, S), NEW o \in S
  PROVE  Enumerates(RemoveFirst(s, o), S \ {o})
<1>1. PICK n \in Nat : n = Len(s) /\ s \in Seq(Nat)
  BY DEF Enumerates
<1>2. PICK j \in 1..n : s[j] = o
  BY <1>1 DEF Enumerates, Members
<1>3. PICK I : I = {p \in 1..n : s[p] = o}
  OBVIOUS
<1>4. I = {j}
  BY <1>1, <1>2, <1>3 DEF Enumerates, Once
<1>5. SelectInSeq(s, LAMBDA v : v = o) = j
  <2>1. SelectInSeq(s, LAMBDA v : v = o) = IF I # {} THEN Min(I) ELSE 0
    BY <1>1, <1>3 DEF SelectInSeq
  <2>2. Min(I) = j
    BY <1>4 DEF Min
  <2> QED
    BY <1>4, <2>1, <2>2
<1>6. RemoveFirst(s, o) = RemoveAt(s, j)
  BY <1>1, <1>2, <1>5 DEF RemoveFirst
<1>7. Narrowed(RemoveAt(s, j), s, j)
  BY <1>1, <1>2, RemoveOne DEF Narrowed
<1>8. Enumerates(RemoveAt(s, j), S \ {s[j]})
  BY <1>1, <1>2, <1>7, NarrowedEnumerates
<1> QED
  BY <1>2, <1>6, <1>8

(* A cell whose slice is another sequence.                                 *)
Rewalked(c2, c, w) == c2 = [c EXCEPT !.obj = Head(w), !.rest = Tail(w)]

LEMMA RewalkedCell ==
  ASSUME NEW c \in Cell, NEW w \in Seq(Nat), w # <<>>, NEW c2, Rewalked(c2, c, w)
  PROVE  c2 \in Cell /\ c2.hash = c.hash /\ c2.obj = w[1] /\ Walk(c2) = w
<1>1. PICK n \in Nat : n = Len(w) /\ n >= 1 /\ \A i \in 1..n : w[i] \in Nat
  BY EmptySeq
<1>2. PICK rest : /\ rest = Tail(w) /\ rest \in Seq(Nat) /\ Len(rest) = n - 1
                  /\ \A i \in 1..n - 1 : rest[i] = w[i + 1]
  <2>1. Tail(w) \in Seq(Nat) /\ Len(Tail(w)) = Len(w) - 1
    BY HeadTailProperties
  <2>2. \A i \in 1..Len(w) - 1 : Tail(w)[i] = w[i + 1]
    BY <1>1
  <2> QED
    BY <1>1, <2>1, <2>2
<1>3. Head(w) = w[1] /\ w[1] \in Nat
  BY <1>1
<1>4. c2 = [c EXCEPT !.obj = w[1], !.rest = rest]
  BY <1>2, <1>3 DEF Rewalked
<1>5. c2 \in Cell /\ c2.hash = c.hash /\ c2.obj = w[1] /\ c2.rest = rest
  BY <1>2, <1>3, <1>4 DEF Cell
<1>6. /\ Walk(c2) \in Seq(Nat) /\ Len(Walk(c2)) = Len(c2.rest) + 1
      /\ \A i \in 1..Len(c2.rest) + 1 : Walk(c2)[i] = IF i = 1 THEN c2.obj ELSE c2.rest[i - 1]
  BY <1>5, WalkFields
<1>7. PICK v : v = Walk(c2)
  OBVIOUS
<1>8. /\ v \in Seq(Nat) /\ Len(v) = n
      /\ \A i \in 1..n : v[i] = IF i = 1 THEN w[1] ELSE rest[i - 1]
  <2>1. Len(c2.rest) + 1 = n
    BY <1>1, <1>2, <1>5
  <2> QED
    BY <1>5, <1>6, <1>7, <2>1
<1>9. ASSUME NEW i \in 1..n
      PROVE  v[i] = w[i]
  <2>1. CASE i = 1
    BY <1>8, <2>1
  <2>2. CASE i # 1
    <3>1. i - 1 \in 1..n - 1 /\ (i - 1) + 1 = i
      BY <1>1, <2>2
    <3>2. v[i] = rest[i - 1]
      BY <1>8, <2>2
    <3> QED
      BY <1>2, <3>1, <3>2
  <2> QED
    BY <2>1, <2>2
<1>10. v = w
  BY <1>1, <1>8, <1>9, SeqEqual
<1> QED
  BY <1>5, <1>7, <1>10

LEMMA SliceCellChanged ==
  ASSUME NEW idx, IndexRecord(idx), NEW b, NEW i, NEW c, CellIs(idx, b, i, c),
         NEW w, NEW c2, Rewalked(c2, c, w),
         NEW new, new = [idx EXCEPT !.bucket[b][i] = [@ EXCEPT !.obj = Head(w), !.rest = Tail(w)],
                                    !.links = @ - 1]
  PROVE  CellChanged(new, idx, b, i, c2)
<1>1. /\ DOMAIN idx = {"size", "count", "bucket", "nodes", "links"}
      /\ b \in DOMAIN idx.bucket /\ c = idx.bucket[b][i]
  BY DEF IndexRecord, CellIs
<1>2. new = [idx EXCEPT !.bucket[b][i] = c2, !.links = idx.links - 1]
  BY <1>1 DEF Rewalked
<1>3. DOMAIN new = DOMAIN idx /\ new.size = idx.size /\ new.count = idx.count
  BY <1>1, <1>2
<1>4. new.bucket = [idx.bucket EXCEPT ![b][i] = c2]
  BY <1>1, <1>2
<1>5. new.bucket = [idx.bucket EXCEPT ![b] = [idx.bucket[b] EXCEPT ![i] = c2]]
  BY <1>1, <1>4
<1> QED
  BY <1>3, <1>5 DEF CellChanged

LEMMA SecondaryErases ==
  ASSUME NEW idx, NEW keys, Keyed(keys), Sliced(idx, keys), NEW o \in DOMAIN keys
  PROVE  Sliced(SecondaryErase(idx, o, SliceHash[Slice[keys[o]]], OfSlice(keys, Slice[keys[o]])),
                Dropped(keys, o))
<1>1. PICK k \in Key : k = keys[o]
  BY DEF Keyed
<1>2. PICK x, h, objs : x = Slice[k] /\ h = SliceHash[x] /\ objs = OfSlice(keys, x)
  OBVIOUS
<1>3. PICK i, b : i = Find(idx, h, objs) /\ b = BucketOf(idx, h)
  OBVIOUS
<1>4. o \in objs
  BY <1>1, <1>2 DEF OfSlice
<1>5. /\ i # 0
      /\ \E c \in Held(idx) : /\ CellIs(idx, b, i, c) /\ c.obj \in objs
                              /\ c.hash = h /\ Enumerates(Walk(c), objs)
  <2>1. /\ i = 0 => objs = {}
        /\ i # 0 => \E c \in Held(idx) : /\ CellIs(idx, b, i, c) /\ c.obj \in objs
                                         /\ c.hash = h /\ Enumerates(Walk(c), objs)
    BY <1>2, <1>3, SliceFound
  <2> QED
    BY <1>4, <2>1
<1>6. PICK c \in Held(idx) : /\ CellIs(idx, b, i, c) /\ c.obj \in objs
                             /\ c.hash = h /\ Enumerates(Walk(c), objs)
  BY <1>5
<1>7. /\ c \in Cell /\ c.obj # Null /\ Slice[keys[c.obj]] = x
      /\ CellPerSlice(Held(idx), keys) /\ Well(idx) /\ Counted(idx)
  BY <1>2, <1>6 DEF Held, Filled, OfSlice, Sliced
<1>8. PICK slice, without : /\ slice = GetSlice(idx, h, objs) /\ slice = Walk(c)
                            /\ without = RemoveFirst(slice, o)
  BY <1>3, <1>5, <1>6 DEF GetSlice, CellAt, Walk, CellIs
<1>9. Enumerates(without, objs \ {o}) /\ o \in ToSet(slice)
  BY <1>4, <1>6, <1>8, SliceNarrowed, EnumeratedSet
<1>10. PICK new : new = SecondaryErase(idx, o, h, objs)
  OBVIOUS
<1>11. PICK less : less = Dropped(keys, o)
  OBVIOUS
<1>12. /\ SameBut(less, keys, x) /\ OfSlice(less, x) = objs \ {o}
       /\ DOMAIN less = DOMAIN keys \ {o} /\ \A p \in DOMAIN keys \ {o} : less[p] = keys[p]
  <2>1. /\ Reduces(less, keys, o)
        /\ SameBut(less, keys, Slice[keys[o]])
        /\ OfSlice(less, Slice[keys[o]]) = OfSlice(keys, Slice[keys[o]]) \ {o}
    BY <1>11, DroppedSlice
  <2> QED
    BY <1>1, <1>2, <2>1 DEF Reduces
<1>13. \A d \in Held(idx) : Slice[keys[d.obj]] = x <=> d = c
  BY <1>6, <1>7 DEF CellPerSlice
<1>14. CASE without = <<>>
  <2>1. new = Unlink(idx, b, i)
    BY <1>3, <1>8, <1>9, <1>10, <1>14 DEF SecondaryErase
  <2>2. Well(new) /\ Counted(new) /\ Held(new) = Held(idx) \ {c}
    <3>1. /\ Well(Unlink(idx, b, i)) /\ Counted(Unlink(idx, b, i))
          /\ Held(Unlink(idx, b, i)) = Held(idx) \ {c}
      BY <1>6, <1>7, UnlinkRemoves
    <3> QED
      BY <2>1, <3>1
  <2>3. OnlyCell({}, less, x)
    <3>1. objs \ {o} = {}
      BY <1>9, <1>14, EnumeratedSet
    <3> QED
      BY <1>12, <3>1 DEF OnlyCell
  <2>4. Exchanged(Held(new), Held(idx), keys, x, {})
    BY <1>13, <2>2 DEF Exchanged
  <2>5. CellPerSlice(Held(new), less)
    BY <1>7, <1>12, <2>3, <2>4, SliceExchanged
  <2> QED
    BY <1>1, <1>2, <1>10, <1>11, <2>2, <2>5 DEF Sliced
<1>15. CASE without # <<>>
  <2>1. PICK c2 : Rewalked(c2, c, without)
    BY DEF Rewalked
  <2>2. new = [idx EXCEPT !.bucket[b][i] = [@ EXCEPT !.obj = Head(without), !.rest = Tail(without)],
                          !.links = @ - 1]
    BY <1>3, <1>8, <1>9, <1>10, <1>15 DEF SecondaryErase
  <2>3. CellChanged(new, idx, b, i, c2)
    <3>1. IndexRecord(idx)
      BY <1>7 DEF Well
    <3> QED
      BY <1>6, <2>1, <2>2, <3>1, SliceCellChanged
  <2>4. /\ c2 \in Cell /\ c2.hash = c.hash /\ c2.obj = without[1] /\ Walk(c2) = without
        /\ without \in Seq(Nat)
    <3>1. without \in Seq(Nat)
      BY <1>9 DEF Enumerates
    <3> QED
      BY <1>7, <1>15, <2>1, <3>1, RewalkedCell
  <2>5. c2.obj \in objs \ {o}
    <3>1. Len(without) \in Nat /\ Len(without) # 0
      BY <1>15, <2>4, EmptySeq
    <3>2. 1 \in 1..Len(without)
      BY <3>1
    <3> QED
      BY <1>9, <2>4, <3>2 DEF Enumerates, Members
  <2>6. /\ Slice[keys[c2.obj]] = x /\ c2.obj \in DOMAIN keys /\ c2.obj \in DOMAIN less
        /\ less[c2.obj] = keys[c2.obj] /\ c2.obj # Null
    BY <1>2, <1>12, <2>5 DEF OfSlice, Keyed, Null
  <2>7. NoOther(Held(idx), c, c2)
    <3>1. \A d \in Held(idx) : d # c => Slice[keys[d.obj]] # x
      BY <1>13
    <3> QED
      BY <2>6, <3>1 DEF NoOther
  <2>8. Well(new) /\ Counted(new) /\ Held(new) = (Held(idx) \ {c}) \cup {c2}
    BY <1>6, <1>7, <2>3, <2>4, <2>6, <2>7, CellChanges
  <2>9. OnlyCell({c2}, less, x)
    <3>1. SliceCell(c2, less)
      BY <1>2, <1>6, <1>9, <1>12, <2>4, <2>6 DEF SliceCell
    <3> QED
      BY <2>6, <3>1 DEF OnlyCell
  <2>10. Exchanged(Held(new), Held(idx), keys, x, {c2})
    BY <1>13, <2>8 DEF Exchanged
  <2>11. CellPerSlice(Held(new), less)
    BY <1>7, <1>12, <2>9, <2>10, SliceExchanged
  <2> QED
    BY <1>1, <1>2, <1>10, <1>11, <2>8, <2>11 DEF Sliced
<1> QED
  BY <1>14, <1>15

-----------------------------------------------------------------------------
(***************************************************************************)
(* The entries and their list.                                             *)
(***************************************************************************)

Entry == [key : Key, val : -MaxValue..MaxValue, prv : Nat, nxt : Nat]

(* There is one entry for a key.                                           *)
Contents(e) ==
  /\ e \in [DOMAIN e -> Entry]
  /\ DOMAIN e \subseteq Nat \ {0}
  /\ IsFiniteSet(DOMAIN e)
  /\ \A o, p \in DOMAIN e : e[o].key = e[p].key => o = p

KeysOf(e) == [o \in DOMAIN e |-> e[o].key]

At(s, i) == IF i \in 1..Len(s) THEN s[i] ELSE Null

(* The list of the entries, from the first, is s.                          *)
Linked(s, e, h) ==
  /\ Enumerates(s, DOMAIN e)
  /\ h = At(s, 1)
  /\ \A i \in 1..Len(s) : e[s[i]].nxt = At(s, i + 1) /\ e[s[i]].prv = At(s, i - 1)

Chained(e, h) == \E s : Linked(s, e, h)

(* What insert, erase and assignment leave of the entries.                 *)
EntriesInserted(e2, e, h, o, k, v) ==
  e2 = [p \in DOMAIN e \cup {o} |->
          IF p = o THEN [key |-> k, val |-> v, prv |-> Null, nxt |-> h]
          ELSE IF p = h THEN [e[p] EXCEPT !.prv = o] ELSE e[p]]

EntriesErased(e2, e, o) ==
  e2 = [p \in DOMAIN e \ {o} |->
          IF p = e[o].prv THEN [e[p] EXCEPT !.nxt = e[o].nxt]
          ELSE IF p = e[o].nxt THEN [e[p] EXCEPT !.prv = e[o].prv] ELSE e[p]]

EntriesAssigned(e2, e, o, v) == e2 = [e EXCEPT ![o].val = v]

LEMMA KeysAreKeyed ==
  ASSUME NEW e, Contents(e)
  PROVE  /\ Keyed(KeysOf(e)) /\ DOMAIN KeysOf(e) = DOMAIN e
         /\ \A o \in DOMAIN e : KeysOf(e)[o] = e[o].key
<1>1. \A o \in DOMAIN e : e[o].key \in Key
  BY DEF Contents, Entry
<1> QED
  BY <1>1 DEF Contents, Keyed, KeysOf

(* Every set of numbers leaves one.                                        *)
LEMMA FreshExists ==
  ASSUME NEW D \in SUBSET (Nat \ {0}), IsFiniteSet(D)
  PROVE  \E o \in 1..Cardinality(D) + 1 : o \notin D /\ \A p \in 1..o - 1 : p \in D
<1>1. PICK n \in Nat : n = Cardinality(D)
  BY FS_CardinalityType
<1>2. PICK T : T = {o \in 1..n + 1 : o \notin D}
  OBVIOUS
<1>3. T # {}
  <2>1. ASSUME T = {}
        PROVE  FALSE
    <3>1. 1..n + 1 \in SUBSET D
      BY <1>2, <2>1
    <3>2. Cardinality(1..n + 1) <= n
      BY <1>1, <3>1, FS_Subset
    <3>3. Cardinality(1..n + 1) = n + 1
      BY <1>1, FS_Interval
    <3> QED
      BY <1>1, <3>2, <3>3
  <2> QED
    BY <2>1
<1>4. PICK o \in T : \A p \in T : o <= p
  BY <1>2, <1>3, LeastNumber
<1>5. o \in 1..n + 1 /\ o \notin D
  BY <1>2
<1>6. \A p \in 1..o - 1 : p \in 1..n + 1 /\ ~(o <= p)
  BY <1>1, <1>5
<1> QED
  BY <1>1, <1>2, <1>4, <1>5, <1>6

LEMMA InsertedContents ==
  ASSUME NEW e, NEW h, Contents(e), Chained(e, h), NEW o \in Nat \ {0}, o \notin DOMAIN e,
         NEW k \in Key, NEW v \in -MaxValue..MaxValue, OfKey(KeysOf(e), k) = {},
         NEW e2, EntriesInserted(e2, e, h, o, k, v)
  PROVE  Contents(e2) /\ Chained(e2, o) /\ KeysOf(e2) = Added(KeysOf(e), o, k)
<1>1. PICK s : Linked(s, e, h)
  BY DEF Chained
<1>2. PICK n \in Nat : n = Len(s) /\ s \in Seq(Nat)
  BY <1>1 DEF Linked, Enumerates
<1>3. /\ \A i \in 1..n : s[i] \in DOMAIN e /\ s[i] \in Nat \ {0}
      /\ \A i, j \in 1..n : s[i] = s[j] => i = j
  BY <1>1, <1>2 DEF Linked, Enumerates, Once, Members, Contents
<1>4. h = At(s, 1) /\ h \in Nat
  BY <1>1, <1>2, <1>3 DEF Linked, At, Null
<1>5. DOMAIN e2 = DOMAIN e \cup {o}
  BY DEF EntriesInserted
<1>6. e2[o] = [key |-> k, val |-> v, prv |-> Null, nxt |-> h]
  BY DEF EntriesInserted
<1>7. e2[o] \in Entry /\ e2[o].key = k /\ e2[o].prv = Null /\ e2[o].nxt = h
  BY <1>4, <1>6 DEF Entry, Null
<1>8. ASSUME NEW p \in DOMAIN e
      PROVE  /\ e2[p] \in Entry /\ e2[p].key = e[p].key /\ e2[p].nxt = e[p].nxt
             /\ e2[p].prv = IF p = h THEN o ELSE e[p].prv
  <2>1. e2[p] = IF p = h THEN [e[p] EXCEPT !.prv = o] ELSE e[p]
    BY DEF EntriesInserted
  <2>2. PICK x : x = e[p] /\ x \in Entry
    BY DEF Contents
  <2>3. CASE p = h
    <3>1. e2[p] = [x EXCEPT !.prv = o]
      BY <2>1, <2>2, <2>3
    <3> QED
      BY <2>2, <2>3, <3>1 DEF Entry
  <2>4. CASE p # h
    BY <2>1, <2>2, <2>4
  <2> QED
    BY <2>3, <2>4
<1>9. \A p \in DOMAIN e : e[p].key # k
  BY DEF OfKey, KeysOf
<1>10. Contents(e2)
  <2>1. IsFiniteSet(DOMAIN e2)
    BY <1>5, FS_AddElement DEF Contents
  <2>2. e2 \in [DOMAIN e2 -> Entry]
    <3>1. \A p \in DOMAIN e2 : e2[p] \in Entry
      BY <1>5, <1>7, <1>8
    <3>2. e2 = [p \in DOMAIN e2 |-> e2[p]]
      BY <1>5 DEF EntriesInserted
    <3> QED
      BY <3>1, <3>2
  <2>3. \A p, q \in DOMAIN e2 : e2[p].key = e2[q].key => p = q
    BY <1>5, <1>7, <1>8, <1>9 DEF Contents
  <2>4. DOMAIN e2 \subseteq Nat \ {0}
    BY <1>5 DEF Contents
  <2> QED
    BY <2>1, <2>2, <2>3, <2>4 DEF Contents
<1>11. KeysOf(e2) = Added(KeysOf(e), o, k)
  BY <1>5, <1>7, <1>8 DEF KeysOf, Added
<1>12. PICK s2 : s2 = <<o>> \o s
  OBVIOUS
<1>13. /\ s2 \in Seq(Nat) /\ Len(s2) = n + 1
       /\ \A i \in 1..n + 1 : s2[i] = IF i = 1 THEN o ELSE s[i - 1]
  <2>1. PICK u : u = <<o>> /\ u \in Seq(Nat) /\ Len(u) = 1 /\ u[1] = o
    <3>1. <<o>> \in Seq(Nat) /\ Len(<<o>>) = 1 /\ <<o>>[1] = o
      OBVIOUS
    <3> QED
      BY <3>1
  <2>2. /\ s2 \in Seq(Nat) /\ Len(s2) = Len(u) + Len(s)
        /\ \A i \in 1..Len(u) + Len(s) : s2[i] = IF i <= Len(u) THEN u[i] ELSE s[i - Len(u)]
    BY <1>2, <1>12, <2>1, ConcatProperties
  <2> QED
    BY <1>2, <2>1, <2>2
<1>14. Enumerates(s2, DOMAIN e2)
  <2>1. Widened(s2, s, 1, o)
    BY <1>2, <1>13 DEF Widened
  <2>2. Enumerates(s, DOMAIN e) /\ 1 \in 1..Len(s) + 1
    BY <1>1, <1>2 DEF Linked
  <2> QED
    BY <1>5, <2>1, <2>2, WidenedEnumerates
<1>15. \A i \in Nat : i >= 1 => At(s2, i + 1) = At(s, i)
  <2> SUFFICES ASSUME NEW i \in Nat, i >= 1
               PROVE  At(s2, i + 1) = At(s, i)
    OBVIOUS
  <2>1. CASE i <= n
    <3>1. i \in 1..n /\ i + 1 \in 1..n + 1 /\ i + 1 # 1 /\ (i + 1) - 1 = i
      BY <1>2, <2>1
    <3> QED
      BY <1>2, <1>13, <3>1 DEF At
  <2>2. CASE ~(i <= n)
    BY <1>2, <1>13, <2>2 DEF At
  <2> QED
    BY <2>1, <2>2
<1>16. At(s2, 1) = o /\ At(s2, 0) = Null
  BY <1>2, <1>13 DEF At
<1>17. ASSUME NEW i \in 1..n + 1
       PROVE  e2[s2[i]].nxt = At(s2, i + 1) /\ e2[s2[i]].prv = At(s2, i - 1)
  <2>1. CASE i = 1
    <3>1. s2[i] = o
      BY <1>13, <2>1
    <3>2. At(s2, i + 1) = h
      BY <1>4, <1>15, <2>1
    <3> QED
      BY <1>7, <1>16, <2>1, <3>1, <3>2
  <2>2. CASE i # 1
    <3>1. PICK j \in 1..n : j = i - 1
      BY <1>2, <2>2
    <3>2. s2[i] = s[j] /\ s[j] \in DOMAIN e
      BY <1>3, <1>13, <2>2, <3>1
    <3>3. e[s[j]].nxt = At(s, j + 1) /\ e[s[j]].prv = At(s, j - 1)
      BY <1>1, <1>2 DEF Linked
    <3>4. At(s, j + 1) = At(s2, i + 1)
      <4>1. j + 1 = i /\ i >= 1 /\ i \in Nat
        BY <1>2, <3>1
      <4> QED
        BY <1>15, <4>1
    <3>5. (IF s[j] = h THEN o ELSE e[s[j]].prv) = At(s2, i - 1)
      <4>1. CASE j = 1
        <5>1. s[j] = h
          BY <1>2, <1>4, <4>1 DEF At
        <5>2. i - 1 = 1
          BY <3>1, <4>1
        <5> QED
          BY <1>16, <5>1, <5>2
      <4>2. CASE j # 1
        <5>1. 1 \in 1..n /\ h = s[1]
          BY <1>2, <1>4, <4>2 DEF At
        <5>2. s[j] # h
          BY <1>3, <4>2, <5>1
        <5>3. j - 1 \in Nat /\ j - 1 >= 1 /\ i - 1 = (j - 1) + 1
          BY <1>2, <3>1, <4>2
        <5>4. At(s2, i - 1) = At(s, j - 1)
          BY <1>15, <5>3
        <5> QED
          BY <3>3, <5>2, <5>4
      <4> QED
        BY <4>1, <4>2
    <3> QED
      BY <1>8, <3>2, <3>3, <3>4, <3>5
  <2> QED
    BY <2>1, <2>2
<1>18. Linked(s2, e2, o)
  BY <1>13, <1>14, <1>16, <1>17 DEF Linked
<1> QED
  BY <1>10, <1>11, <1>18 DEF Chained

LEMMA ErasedContents ==
  ASSUME NEW e, NEW h, Contents(e), Chained(e, h), NEW o \in DOMAIN e,
         NEW e2, EntriesErased(e2, e, o), NEW h2, h2 = IF o = h THEN e[o].nxt ELSE h
  PROVE  Contents(e2) /\ Chained(e2, h2) /\ KeysOf(e2) = Dropped(KeysOf(e), o)
<1>1. PICK s : Linked(s, e, h)
  BY DEF Chained
<1>2. PICK n \in Nat : n = Len(s) /\ s \in Seq(Nat)
  BY <1>1 DEF Linked, Enumerates
<1>3. /\ \A i \in 1..n : s[i] \in DOMAIN e /\ s[i] # Null
      /\ \A i, j \in 1..n : s[i] = s[j] => i = j
  BY <1>1, <1>2 DEF Linked, Enumerates, Once, Members, Contents, Null
<1>4. PICK j \in 1..n : s[j] = o
  BY <1>1, <1>2 DEF Linked, Enumerates, Members
<1>5. /\ \A i \in 1..n : e[s[i]].nxt = At(s, i + 1) /\ e[s[i]].prv = At(s, i - 1)
      /\ h = At(s, 1)
  BY <1>1, <1>2 DEF Linked
<1>6. \A i \in 1..n, m \in Int : At(s, m) = s[i] <=> m = i
  BY <1>2, <1>3 DEF At
<1>7. PICK before, after : before = e[o].prv /\ after = e[o].nxt
                           /\ before = At(s, j - 1) /\ after = At(s, j + 1)
  BY <1>4, <1>5
<1>8. before \in Nat /\ after \in Nat
  BY <1>7 DEF Contents, Entry
<1>9. DOMAIN e2 = DOMAIN e \ {o}
  BY DEF EntriesErased
<1>10. ASSUME NEW p \in DOMAIN e \ {o}
       PROVE  /\ e2[p] \in Entry /\ e2[p].key = e[p].key
              /\ e2[p].nxt = IF p = before THEN after ELSE e[p].nxt
              /\ e2[p].prv = IF p = after /\ p # before THEN before ELSE e[p].prv
  <2>1. e2[p] = IF p = before THEN [e[p] EXCEPT !.nxt = after]
                ELSE IF p = after THEN [e[p] EXCEPT !.prv = before] ELSE e[p]
    BY <1>7 DEF EntriesErased
  <2>2. PICK x : x = e[p] /\ x \in Entry
    BY DEF Contents
  <2>3. CASE p = before
    <3>1. e2[p] = [x EXCEPT !.nxt = after]
      BY <2>1, <2>2, <2>3
    <3> QED
      BY <1>8, <2>2, <2>3, <3>1 DEF Entry
  <2>4. CASE p # before /\ p = after
    <3>1. e2[p] = [x EXCEPT !.prv = before]
      BY <2>1, <2>2, <2>4
    <3> QED
      BY <1>8, <2>2, <2>4, <3>1 DEF Entry
  <2>5. CASE p # before /\ p # after
    BY <2>1, <2>2, <2>5
  <2> QED
    BY <2>3, <2>4, <2>5
<1>11. Contents(e2)
  <2>1. IsFiniteSet(DOMAIN e2)
    BY <1>9, FS_RemoveElement DEF Contents
  <2>2. e2 \in [DOMAIN e2 -> Entry]
    <3>1. \A p \in DOMAIN e2 : e2[p] \in Entry
      BY <1>9, <1>10
    <3>2. e2 = [p \in DOMAIN e2 |-> e2[p]]
      BY <1>9 DEF EntriesErased
    <3> QED
      BY <3>1, <3>2
  <2>3. \A p, q \in DOMAIN e2 : e2[p].key = e2[q].key => p = q
    BY <1>9, <1>10 DEF Contents
  <2>4. DOMAIN e2 \subseteq Nat \ {0}
    BY <1>9 DEF Contents
  <2> QED
    BY <2>1, <2>2, <2>3, <2>4 DEF Contents
<1>12. KeysOf(e2) = Dropped(KeysOf(e), o)
  BY <1>9, <1>10 DEF KeysOf, Dropped
<1>13. PICK s2 : s2 = RemoveAt(s, j)
  OBVIOUS
<1>14. /\ s2 \in Seq(Nat) /\ Len(s2) = n - 1
       /\ \A i \in 1..n - 1 : s2[i] = s[IF i < j THEN i ELSE i + 1]
  BY <1>2, <1>4, <1>13, RemoveOne
<1>15. Enumerates(s2, DOMAIN e2)
  <2>1. Narrowed(s2, s, j)
    BY <1>2, <1>14 DEF Narrowed
  <2>2. Enumerates(s, DOMAIN e) /\ j \in 1..Len(s)
    BY <1>1, <1>2 DEF Linked
  <2> QED
    BY <1>4, <1>9, <2>1, <2>2, NarrowedEnumerates
<1>16. \A i \in Nat : At(s2, i) = At(s, IF i < j THEN i ELSE i + 1)
  <2> SUFFICES ASSUME NEW i \in Nat
               PROVE  At(s2, i) = At(s, IF i < j THEN i ELSE i + 1)
    OBVIOUS
  <2>1. CASE i \in 1..n - 1
    <3>1. (IF i < j THEN i ELSE i + 1) \in 1..n
      BY <1>2, <2>1
    <3> QED
      BY <1>2, <1>14, <2>1, <3>1 DEF At
  <2>2. CASE i \notin 1..n - 1
    <3>1. (IF i < j THEN i ELSE i + 1) \notin 1..n
      BY <1>2, <2>2
    <3> QED
      BY <1>2, <1>14, <2>2, <3>1 DEF At
  <2> QED
    BY <2>1, <2>2
<1>17. h2 = At(s2, 1)
  <2>1. At(s, 1) = s[1] /\ 1 \in 1..n
    BY <1>2 DEF At
  <2>2. CASE j = 1
    <3>1. o = h /\ h2 = At(s, 2)
      BY <1>4, <1>5, <1>7, <2>1, <2>2
    <3> QED
      BY <1>16, <2>2, <3>1
  <2>3. CASE j # 1
    <3>1. o # h
      BY <1>3, <1>4, <1>5, <2>1, <2>3
    <3>2. 1 < j
      BY <2>3
    <3> QED
      BY <1>5, <1>16, <3>1, <3>2
  <2> QED
    BY <2>2, <2>3
<1>18. ASSUME NEW i \in 1..n - 1
       PROVE  e2[s2[i]].nxt = At(s2, i + 1) /\ e2[s2[i]].prv = At(s2, i - 1)
  <2>1. PICK m \in 1..n : m = (IF i < j THEN i ELSE i + 1) /\ m # j
    BY <1>2
  <2>2. s2[i] = s[m] /\ s[m] \in DOMAIN e \ {o}
    BY <1>3, <1>4, <1>14, <2>1
  <2>3. s[m] = before <=> m = j - 1
    BY <1>2, <1>6, <1>7
  <2>4. s[m] = after <=> m = j + 1
    BY <1>2, <1>6, <1>7
  <2>5. e2[s2[i]].nxt = IF m = j - 1 THEN At(s, j + 1) ELSE At(s, m + 1)
    BY <1>5, <1>7, <1>10, <2>2, <2>3
  <2>6. e2[s2[i]].prv = IF m = j + 1 THEN At(s, j - 1) ELSE At(s, m - 1)
    BY <1>5, <1>7, <1>10, <2>2, <2>3, <2>4
  <2>7. At(s2, i + 1) = At(s, IF i + 1 < j THEN i + 1 ELSE (i + 1) + 1)
    BY <1>16
  <2>8. At(s2, i - 1) = At(s, IF i - 1 < j THEN i - 1 ELSE (i - 1) + 1)
    <3>1. i - 1 \in Nat
      OBVIOUS
    <3> QED
      BY <1>16, <3>1
  <2>9. (IF i + 1 < j THEN i + 1 ELSE (i + 1) + 1) = IF m = j - 1 THEN j + 1 ELSE m + 1
    BY <2>1
  <2>10. (IF i - 1 < j THEN i - 1 ELSE (i - 1) + 1) = IF m = j + 1 THEN j - 1 ELSE m - 1
    BY <2>1
  <2> QED
    BY <2>5, <2>6, <2>7, <2>8, <2>9, <2>10
<1>19. Linked(s2, e2, h2)
  BY <1>14, <1>15, <1>17, <1>18 DEF Linked
<1> QED
  BY <1>11, <1>12, <1>19 DEF Chained

LEMMA AssignedContents ==
  ASSUME NEW e, NEW h, Contents(e), Chained(e, h), NEW o \in DOMAIN e,
         NEW v \in -MaxValue..MaxValue, NEW e2, EntriesAssigned(e2, e, o, v)
  PROVE  Contents(e2) /\ Chained(e2, h) /\ KeysOf(e2) = KeysOf(e)
<1>1. DOMAIN e2 = DOMAIN e
  BY DEF EntriesAssigned
<1>2. ASSUME NEW p \in DOMAIN e
      PROVE  /\ e2[p] \in Entry /\ e2[p].key = e[p].key
             /\ e2[p].nxt = e[p].nxt /\ e2[p].prv = e[p].prv
  <2>1. PICK x : x = e[p] /\ x \in Entry
    BY DEF Contents
  <2>2. CASE p = o
    <3>1. e2[p] = [x EXCEPT !.val = v]
      BY <2>1, <2>2 DEF EntriesAssigned
    <3> QED
      BY <2>1, <3>1 DEF Entry
  <2>3. CASE p # o
    BY <2>1, <2>3 DEF EntriesAssigned
  <2> QED
    BY <2>2, <2>3
<1>3. Contents(e2)
  <2>1. e2 \in [DOMAIN e2 -> Entry]
    <3>1. e2 = [p \in DOMAIN e2 |-> e2[p]]
      BY DEF EntriesAssigned
    <3> QED
      BY <1>1, <1>2, <3>1
  <2> QED
    BY <1>1, <1>2, <2>1 DEF Contents
<1>4. Chained(e2, h)
  <2>1. PICK s : Linked(s, e, h)
    BY DEF Chained
  <2>2. \A i \in 1..Len(s) : s[i] \in DOMAIN e
    BY <2>1 DEF Linked, Enumerates, Members
  <2>3. Linked(s, e2, h)
    BY <1>1, <1>2, <2>1, <2>2 DEF Linked
  <2> QED
    BY <2>3 DEF Chained
<1>5. KeysOf(e2) = KeysOf(e)
  BY <1>1, <1>2 DEF KeysOf
<1> QED
  BY <1>3, <1>4, <1>5

-----------------------------------------------------------------------------
(***************************************************************************)
(* The invariant: the list and both indexes hold the entries.              *)
(***************************************************************************)

Kept(e, h, p, s) ==
  /\ Contents(e)
  /\ Chained(e, h)
  /\ Indexed(p, KeysOf(e))
  /\ Sliced(s, KeysOf(e))

IInv == Kept(entries, head, primary, secondary)

EntriesOf(e, k) == {o \in DOMAIN e : e[o].key = k}

(* What a lookup answers.                                                  *)
LEMMA KeyFound ==
  ASSUME NEW e, NEW h, NEW p, NEW s, Kept(e, h, p, s), NEW k \in Key,
         NEW objs, objs = EntriesOf(e, k), NEW r, r = Get(p, Hash[k], objs)
  PROVE  /\ objs = OfKey(KeysOf(e), k)
         /\ r = Null => objs = {}
         /\ r # Null => r \in DOMAIN e /\ e[r].key = k /\ objs = {r}
<1>1. objs = OfKey(KeysOf(e), k)
  BY KeysAreKeyed DEF Kept, OfKey, EntriesOf
<1>2. (r = Null => objs = {}) /\ (r # Null => r \in objs)
  <2>1. PICK keys : keys = KeysOf(e) /\ Keyed(keys) /\ Indexed(p, keys)
    BY KeysAreKeyed DEF Kept
  <2> QED
    BY <1>1, <2>1, GetFinds
<1>3. \A o \in objs : o \in DOMAIN e /\ e[o].key = k /\ objs = {o}
  BY DEF Kept, Contents, EntriesOf
<1> QED
  BY <1>1, <1>2, <1>3

LEMMA LookupFinds ==
  ASSUME IInv, NEW k \in Key
  PROVE  /\ EqualKey(k) = OfKey(KeysOf(entries), k)
         /\ EqualSlice(k) = OfSlice(KeysOf(entries), Slice[k])
         /\ Lookup(k) = Null => EqualKey(k) = {}
         /\ Lookup(k) # Null => /\ Lookup(k) \in DOMAIN entries
                                /\ entries[Lookup(k)].key = k
                                /\ EqualKey(k) = {Lookup(k)}
<1>1. EqualSlice(k) = OfSlice(KeysOf(entries), Slice[k])
  BY KeysAreKeyed DEF IInv, Kept, EqualSlice, OfSlice
<1>2. PICK e, h, p, s : e = entries /\ h = head /\ p = primary /\ s = secondary
  OBVIOUS
<1>3. PICK objs, r : objs = EqualKey(k) /\ r = Lookup(k)
  OBVIOUS
<1>4. Kept(e, h, p, s) /\ objs = EntriesOf(e, k) /\ r = Get(p, Hash[k], objs)
  BY <1>2, <1>3 DEF IInv, EqualKey, Lookup, EntriesOf
<1>5. /\ objs = OfKey(KeysOf(e), k)
      /\ r = Null => objs = {}
      /\ r # Null => r \in DOMAIN e /\ e[r].key = k /\ objs = {r}
  BY <1>4, KeyFound
<1> QED
  BY <1>1, <1>2, <1>3, <1>5

LEMMA InsertKeeps ==
  ASSUME IInv, NEW k \in Key, NEW v \in -MaxValue..MaxValue, Lookup(k) = Null, Insert(k, v)
  PROVE  /\ IInv'
         /\ \E o \in Nat : o \notin DOMAIN entries /\ EntriesInserted(entries', entries, head, o, k, v)
<1>1. Contents(entries) /\ Chained(entries, head)
      /\ Indexed(primary, KeysOf(entries)) /\ Sliced(secondary, KeysOf(entries))
  BY DEF IInv, Kept
<1>2. PICK o \in Nat \ {0} : o = Fresh /\ o \notin DOMAIN entries
  <2>1. /\ DOMAIN entries \in SUBSET (Nat \ {0}) /\ IsFiniteSet(DOMAIN entries)
        /\ Cardinality(DOMAIN entries) \in Nat
    BY <1>1, FS_CardinalityType DEF Contents
  <2>2. Fresh \in 1..Cardinality(DOMAIN entries) + 1 /\ Fresh \notin DOMAIN entries
    BY <2>1, FreshExists DEF Fresh
  <2> QED
    BY <2>1, <2>2
<1>3. EntriesInserted(entries', entries, head, o, k, v) /\ head' = o
  BY <1>2 DEF Insert, EntriesInserted
<1>4. PICK keys : keys = KeysOf(entries) /\ Keyed(keys) /\ DOMAIN keys = DOMAIN entries
  BY <1>1, KeysAreKeyed
<1>5. EqualKey(k) = {} /\ EqualKey(k) = OfKey(keys, k) /\ EqualSlice(k) = OfSlice(keys, Slice[k])
  BY <1>4, LookupFinds
<1>6. Contents(entries') /\ Chained(entries', head') /\ KeysOf(entries') = Added(keys, o, k)
  <2>1. OfKey(KeysOf(entries), k) = {}
    BY <1>4, <1>5
  <2>2. PICK e2 : e2 = entries'
    OBVIOUS
  <2>3. EntriesInserted(e2, entries, head, o, k, v)
    BY <1>3, <2>2
  <2>4. Contents(e2) /\ Chained(e2, o) /\ KeysOf(e2) = Added(KeysOf(entries), o, k)
    BY <1>1, <1>2, <2>1, <2>3, InsertedContents
  <2> QED
    BY <1>3, <1>4, <2>2, <2>4
<1>7. primary' = PrimaryInsert(primary, o, Hash[k])
      /\ secondary' = SecondaryInsert(secondary, o, SliceHash[Slice[k]], OfSlice(keys, Slice[k]))
  BY <1>2, <1>5 DEF Insert
<1>8. Indexed(primary', KeysOf(entries'))
  <2>1. Indexed(PrimaryInsert(primary, o, Hash[k]), Added(keys, o, k))
    BY <1>1, <1>2, <1>4, PrimaryInserts
  <2> QED
    BY <1>6, <1>7, <2>1
<1>9. Sliced(secondary', KeysOf(entries'))
  <2>1. Sliced(SecondaryInsert(secondary, o, SliceHash[Slice[k]], OfSlice(keys, Slice[k])),
               Added(keys, o, k))
    BY <1>1, <1>2, <1>4, SecondaryInserts
  <2> QED
    BY <1>6, <1>7, <2>1
<1> QED
  BY <1>2, <1>3, <1>6, <1>8, <1>9 DEF IInv, Kept

LEMMA EraseKeeps ==
  ASSUME IInv, NEW o \in DOMAIN entries, Erase(o)
  PROVE  IInv' /\ EntriesErased(entries', entries, o)
<1>1. Contents(entries) /\ Chained(entries, head)
      /\ Indexed(primary, KeysOf(entries)) /\ Sliced(secondary, KeysOf(entries))
  BY DEF IInv, Kept
<1>2. EntriesErased(entries', entries, o)
      /\ head' = IF o = head THEN entries[o].nxt ELSE head
  BY DEF Erase, EntriesErased
<1>3. PICK keys : keys = KeysOf(entries) /\ Keyed(keys) /\ DOMAIN keys = DOMAIN entries
                  /\ keys[o] = entries[o].key
  BY <1>1, KeysAreKeyed
<1>4. entries[o].key \in Key
  BY <1>3 DEF Keyed
<1>5. EqualSlice(entries[o].key) = OfSlice(keys, Slice[keys[o]])
  BY <1>3, <1>4, LookupFinds
<1>6. Contents(entries') /\ Chained(entries', head') /\ KeysOf(entries') = Dropped(keys, o)
  <2>1. PICK e2, h2 : e2 = entries' /\ h2 = head'
    OBVIOUS
  <2>2. EntriesErased(e2, entries, o) /\ h2 = IF o = head THEN entries[o].nxt ELSE head
    BY <1>2, <2>1
  <2>3. Contents(e2) /\ Chained(e2, h2) /\ KeysOf(e2) = Dropped(KeysOf(entries), o)
    BY <1>1, <2>2, ErasedContents
  <2> QED
    BY <1>3, <2>1, <2>3
<1>7. /\ primary' = PrimaryErase(primary, o, Hash[keys[o]])
      /\ secondary' = SecondaryErase(secondary, o, SliceHash[Slice[keys[o]]],
                                     OfSlice(keys, Slice[keys[o]]))
  BY <1>3, <1>5 DEF Erase
<1>8. Indexed(primary', KeysOf(entries'))
  <2>1. Indexed(PrimaryErase(primary, o, Hash[keys[o]]), Dropped(keys, o))
    BY <1>1, <1>3, PrimaryErases
  <2> QED
    BY <1>6, <1>7, <2>1
<1>9. Sliced(secondary', KeysOf(entries'))
  <2>1. Sliced(SecondaryErase(secondary, o, SliceHash[Slice[keys[o]]],
                              OfSlice(keys, Slice[keys[o]])),
               Dropped(keys, o))
    BY <1>1, <1>3, SecondaryErases
  <2> QED
    BY <1>6, <1>7, <2>1
<1> QED
  BY <1>2, <1>6, <1>8, <1>9 DEF IInv, Kept

LEMMA AssignKeeps ==
  ASSUME IInv, NEW o \in DOMAIN entries, NEW v, Assign(o, v)
  PROVE  IInv' /\ EntriesAssigned(entries', entries, o, v) /\ v \in -MaxValue..MaxValue
<1>1. /\ EntriesAssigned(entries', entries, o, v) /\ v \in -MaxValue..MaxValue
      /\ head' = head /\ primary' = primary /\ secondary' = secondary
  BY DEF Assign, EntriesAssigned
<1>2. Contents(entries') /\ Chained(entries', head) /\ KeysOf(entries') = KeysOf(entries)
  <2>1. PICK e2 : e2 = entries'
    OBVIOUS
  <2>2. EntriesAssigned(e2, entries, o, v)
    BY <1>1, <2>1
  <2>3. Contents(e2) /\ Chained(e2, head) /\ KeysOf(e2) = KeysOf(entries)
    BY <1>1, <2>2, AssignedContents DEF IInv, Kept
  <2> QED
    BY <2>1, <2>3
<1> QED
  BY <1>1, <1>2 DEF IInv, Kept

(* No entries: an empty list, and indexes that hold nothing.               *)
LEMMA NothingKept ==
  ASSUME NEW p, NEW s, Well(p), Counted(p), Held(p) = {}, Well(s), Counted(s), Held(s) = {}
  PROVE  Kept(<<>>, Null, p, s)
<1>1. PICK e : e = <<>> /\ DOMAIN e = {}
  OBVIOUS
<1>2. PICK keys : keys = KeysOf(e) /\ DOMAIN keys = {}
  BY <1>1 DEF KeysOf
<1>3. Contents(e)
  <2>1. e \in [DOMAIN e -> Entry]
    <3>1. e = [p2 \in {} |-> Null]
      BY <1>1
    <3> QED
      BY <1>1, <3>1
  <2> QED
    BY <1>1, <2>1, FS_EmptySet DEF Contents
<1>4. Linked(<<>>, e, Null)
  <2>1. Enumerates(<<>>, {})
    BY DEF Enumerates, Once, Members
  <2> QED
    BY <1>1, <2>1 DEF Linked, At
<1>5. Indexed(p, keys)
  BY <1>2 DEF Indexed, CellsOf
<1>6. Sliced(s, keys)
  BY <1>2 DEF Sliced, CellPerSlice
<1> QED
  BY <1>1, <1>2, <1>3, <1>4, <1>5, <1>6 DEF Kept, Chained

LEMMA InitKept ==
  Init => IInv
<1> SUFFICES ASSUME Init
             PROVE  IInv
  OBVIOUS
<1>1. PICK idx : idx = NewIndex
  OBVIOUS
<1>2. InitSize \in Nat \ {0}
  BY InitSizeAssumption
<1>3. /\ DOMAIN idx = {"size", "count", "bucket", "nodes", "links"}
      /\ idx.size = InitSize /\ idx.bucket = EmptyBuckets(InitSize) /\ idx.count = 0
  BY <1>1 DEF NewIndex
<1>4. Well(idx) /\ Held(idx) = {}
  BY <1>2, <1>3, EmptyIndex
<1>5. Counted(idx)
  BY <1>3, <1>4, FS_EmptySet DEF Counted
<1>6. Kept(<<>>, Null, idx, idx)
  BY <1>4, <1>5, NothingKept
<1> QED
  BY <1>1, <1>6 DEF IInv, Init

LEMMA ClearKeeps ==
  ASSUME IInv, Clear
  PROVE  IInv' /\ entries' = <<>>
<1>1. /\ Well(primary) /\ Counted(primary) /\ Well(secondary) /\ Counted(secondary)
  BY DEF IInv, Kept, Indexed, Sliced
<1>2. PICK p, s : p = ClearIndex(primary) /\ s = ClearIndex(secondary)
  OBVIOUS
<1>3. Well(p) /\ Counted(p) /\ Held(p) = {} /\ Well(s) /\ Counted(s) /\ Held(s) = {}
  BY <1>1, <1>2, ClearEmpties
<1>4. Kept(<<>>, Null, p, s)
  BY <1>3, NothingKept
<1> QED
  BY <1>2, <1>4 DEF Clear, IInv

(* What each operation does, the stored value apart.                       *)
LEMMA CallDoes ==
  ASSUME NEW k \in Key, NEW v \in Operand,
         \/ InsertOrAssign(k, v) \/ InsertOrAssignNonZero(k, v)
         \/ IncrementOrAssign(k, v) \/ IncrementOrAssignNonZero(k, v)
  PROVE  \/ Lookup(k) = Null /\ Insert(k, v)
         \/ Lookup(k) # Null /\ Erase(Lookup(k))
         \/ Lookup(k) # Null /\ \E w : Assign(Lookup(k), w)
BY DEF InsertOrAssign, InsertOrAssignNonZero, IncrementOrAssign, IncrementOrAssignNonZero

LEMMA NextKeeps ==
  IInv /\ [Next]_vars => IInv'
<1> SUFFICES ASSUME IInv, [Next]_vars
             PROVE  IInv'
  OBVIOUS
<1>1. CASE UNCHANGED vars
  BY <1>1 DEF IInv, vars
<1>2. ASSUME NEW k \in Key, NEW v \in Operand,
             \/ InsertOrAssign(k, v) \/ InsertOrAssignNonZero(k, v)
             \/ IncrementOrAssign(k, v) \/ IncrementOrAssignNonZero(k, v)
      PROVE  IInv'
  <2>1. v \in -MaxValue..MaxValue
    BY HashAssumption
  <2>2. CASE Lookup(k) = Null /\ Insert(k, v)
    BY <2>1, <2>2, InsertKeeps
  <2>3. CASE Lookup(k) # Null /\ Erase(Lookup(k))
    BY <2>3, LookupFinds, EraseKeeps
  <2>4. CASE Lookup(k) # Null /\ \E w : Assign(Lookup(k), w)
    BY <2>4, LookupFinds, AssignKeeps
  <2> QED
    BY <1>2, <2>2, <2>3, <2>4, CallDoes
<1>3. CASE Clear
  BY <1>3, ClearKeeps
<1> QED
  BY <1>1, <1>2, <1>3 DEF Next

THEOREM MapInvariant == Spec => []IInv
<1>1. Init => IInv
  BY InitKept
<1>2. IInv /\ [Next]_vars => IInv'
  BY NextKeeps
<1> QED
  BY <1>1, <1>2, PTL DEF Spec

-----------------------------------------------------------------------------
(***************************************************************************)
(* What the runs check: the list, the lookups and the slices.              *)
(***************************************************************************)

(* The list from its head, n entries on, for the list s.                   *)
Prefix(s, n) == [i \in 1..n + 1 |-> At(s, i)]

LEMMA PrefixGrows ==
  ASSUME NEW s \in Seq(Nat), NEW n \in Nat, n >= 1
  PROVE  /\ Prefix(s, n) = Append(Prefix(s, n - 1), At(s, n + 1))
         /\ Last(Prefix(s, n - 1)) = At(s, n)
         /\ Prefix(s, 0) = <<At(s, 1)>>
<1>1. \A i \in Nat : At(s, i) \in Nat
  BY DEF At, Null
<1>2. PICK u : u = Prefix(s, n - 1)
  OBVIOUS
<1>3. u \in Seq(Nat) /\ Len(u) = n /\ \A i \in 1..n : u[i] = At(s, i)
  <2>1. u = [i \in 1..n |-> At(s, i)]
    BY <1>2 DEF Prefix
  <2> HIDE DEF At
  <2>2. \A i \in 1..n : At(s, i) \in Nat
    BY <1>1
  <2> QED
    BY <2>1, <2>2
<1>4. PICK w : w = Prefix(s, n)
  OBVIOUS
<1>5. w \in Seq(Nat) /\ Len(w) = n + 1 /\ \A i \in 1..n + 1 : w[i] = At(s, i)
  <2>1. w = [i \in 1..n + 1 |-> At(s, i)]
    BY <1>4 DEF Prefix
  <2>2. \A i \in 1..n + 1 : At(s, i) \in Nat
    BY <1>1
  <2> QED
    BY <2>1, <2>2
<1>6. PICK x : x = At(s, n + 1) /\ x \in Nat
  BY <1>1
<1>7. PICK v : v = Append(u, x)
  OBVIOUS
<1>8. v \in Seq(Nat) /\ Len(v) = n + 1
      /\ \A i \in 1..n + 1 : v[i] = IF i <= n THEN u[i] ELSE x
  BY <1>3, <1>6, <1>7
<1>9. \A i \in 1..n + 1 : v[i] = w[i]
  <2> SUFFICES ASSUME NEW i \in 1..n + 1
               PROVE  v[i] = w[i]
    OBVIOUS
  <2>1. CASE i <= n
    BY <1>3, <1>5, <1>8, <2>1
  <2>2. CASE ~(i <= n)
    <3>1. i = n + 1
      BY <2>2
    <3> QED
      BY <1>5, <1>6, <1>8, <2>2, <3>1
  <2> QED
    BY <2>1, <2>2
<1>10. v = w
  BY <1>5, <1>8, <1>9, SeqEqual
<1>11. Last(u) = At(s, n)
  BY <1>3 DEF Last
<1>12. Prefix(s, 0) = <<At(s, 1)>>
  BY DEF Prefix
<1> QED
  BY <1>2, <1>4, <1>6, <1>7, <1>10, <1>11, <1>12

(* The walk over the list, n entries on.                                   *)
ListOf(list, e, h, n) ==
  /\ list[0] = <<h>>
  /\ \A m \in 1..n : list[m] = Append(list[m - 1], e[Last(list[m - 1])].nxt)

LEMMA ListWalked ==
  ASSUME NEW e, NEW h, NEW s, Linked(s, e, h), NEW n \in Nat, n <= Len(s),
         NEW list, ListOf(list, e, h, n)
  PROVE  list[n] = Prefix(s, n)
<1>1. s \in Seq(Nat) /\ Len(s) \in Nat /\ h = At(s, 1)
  BY DEF Linked, Enumerates
<1> DEFINE N == {m \in Nat : m <= n => list[m] = Prefix(s, m)}
<1>2. 0 \in N
  <2>1. list[0] = <<h>>
    BY DEF ListOf
  <2>2. Prefix(s, 0) = <<h>>
    BY <1>1, PrefixGrows
  <2> QED
    BY <2>1, <2>2
<1>3. ASSUME NEW m \in Nat, m \in N, m + 1 <= n
      PROVE  list[m + 1] = Prefix(s, m + 1)
  <2>1. m + 1 \in 1..n /\ (m + 1) - 1 = m /\ m <= n /\ m + 1 \in 1..Len(s)
    BY <1>1, <1>3
  <2>2. list[m] = Prefix(s, m)
    BY <1>3, <2>1
  <2>3. list[m + 1] = Append(list[m], e[Last(list[m])].nxt)
    BY <2>1 DEF ListOf
  <2>4. /\ Prefix(s, m + 1) = Append(Prefix(s, m), At(s, (m + 1) + 1))
        /\ Last(Prefix(s, m)) = At(s, m + 1)
    <3>1. PICK q \in Nat : q = m + 1 /\ q >= 1 /\ q - 1 = m
      BY <2>1
    <3>2. /\ Prefix(s, q) = Append(Prefix(s, q - 1), At(s, q + 1))
          /\ Last(Prefix(s, q - 1)) = At(s, q)
      BY <1>1, <3>1, PrefixGrows
    <3> QED
      BY <3>1, <3>2
  <2>5. At(s, m + 1) = s[m + 1] /\ e[s[m + 1]].nxt = At(s, (m + 1) + 1)
    BY <2>1 DEF At, Linked
  <2> QED
    BY <2>2, <2>3, <2>4, <2>5
<1>4. N = Nat
  <2>1. \A m \in N : m + 1 \in N
    BY <1>3
  <2> HIDE DEF N
  <2>2. N \in SUBSET Nat
    BY DEF N
  <2> QED
    BY <1>2, <2>1, <2>2, NumberInduction
<1>5. n \in N
  BY <1>4
<1> QED
  BY <1>5

LEMMA ListUnfold ==
  ASSUME NEW e, NEW h, NEW n \in Nat
  PROVE  LET list[m \in 0..n] ==
               IF m = 0 THEN <<h>> ELSE Append(list[m - 1], e[Last(list[m - 1])].nxt)
         IN  ListOf(list, e, h, n)
<1> DEFINE Rec(f, m) == [i \in 0..m |-> IF i = 0 THEN <<h>>
                                        ELSE Append(f[i - 1], e[Last(f[i - 1])].nxt)]
           all == CHOOSE f : f = Rec(f, n)
           N == {m \in Nat : \E f : f = Rec(f, m)}
<1>1. 0 \in N
  <2>1. [i \in 0..0 |-> <<h>>] = Rec([i \in 0..0 |-> <<h>>], 0)
    OBVIOUS
  <2> QED
    BY <2>1
<1>2. ASSUME NEW m \in N
      PROVE  m + 1 \in N
  <2>1. PICK f : f = Rec(f, m)
    OBVIOUS
  <2> DEFINE next == Append(f[m], e[Last(f[m])].nxt)
             g == [i \in 0..m + 1 |-> IF i = m + 1 THEN next ELSE f[i]]
  <2>2. m \in Nat
    OBVIOUS
  <2>3. ASSUME NEW i \in 0..m + 1
        PROVE  g[i] = Rec(g, m + 1)[i]
    <3>1. CASE i = m + 1
      <4>1. g[m] = f[m] /\ m + 1 # 0 /\ (m + 1) - 1 = m
        BY <2>2
      <4> QED
        BY <2>2, <3>1, <4>1
    <3>2. CASE i # m + 1 /\ i # 0
      <4>1. i \in 0..m /\ i - 1 \in 0..m /\ i - 1 # m + 1 /\ i - 1 \in 0..m + 1
        BY <2>2, <3>2
      <4>2. g[i - 1] = f[i - 1] /\ g[i] = f[i]
        BY <3>2, <4>1
      <4>3. f[i] = Append(f[i - 1], e[Last(f[i - 1])].nxt)
        BY <2>1, <3>2, <4>1
      <4> HIDE DEF g
      <4> QED
        BY <3>2, <4>2, <4>3
    <3>3. CASE i = 0
      <4>1. 0 \in 0..m /\ 0 # m + 1
        BY <2>2
      <4>2. f[0] = <<h>>
        BY <2>1, <4>1
      <4> QED
        BY <3>3, <4>1, <4>2
    <3> QED
      BY <3>1, <3>2, <3>3
  <2>4. g = Rec(g, m + 1)
    BY <2>3
  <2> HIDE DEF g, Rec
  <2> QED
    BY <2>2, <2>4
<1>3. N = Nat
  <2> HIDE DEF N
  <2>1. N \in SUBSET Nat
    BY DEF N
  <2> QED
    BY <1>1, <1>2, <2>1, NumberInduction
<1>4. \E f : f = Rec(f, n)
  BY <1>3
<1>5. all = Rec(all, n)
  BY <1>4
<1>6. ASSUME ListOf(all, e, h, n)
      PROVE  LET list[m \in 0..n] ==
                   IF m = 0 THEN <<h>> ELSE Append(list[m - 1], e[Last(list[m - 1])].nxt)
             IN  ListOf(list, e, h, n)
  BY <1>6
<1> HIDE DEF all
<1>7. all[0] = <<h>>
  <2>1. 0 \in 0..n
    OBVIOUS
  <2> QED
    BY <1>5, <2>1
<1>8. ASSUME NEW i \in 1..n
      PROVE  all[i] = Append(all[i - 1], e[Last(all[i - 1])].nxt)
  <2>1. i \in 0..n /\ i # 0
    OBVIOUS
  <2> QED
    BY <1>5, <2>1
<1>9. ListOf(all, e, h, n)
  BY <1>7, <1>8 DEF ListOf
<1> QED
  BY <1>6, <1>9

LEMMA ListRight ==
  IInv => ListHoldsEntries
<1> SUFFICES ASSUME IInv
             PROVE  ListHoldsEntries
  OBVIOUS
<1>1. PICK s : Linked(s, entries, head)
  BY DEF IInv, Kept, Chained
<1>2. Enumerates(s, DOMAIN entries)
  BY <1>1 DEF Linked
<1>3. PICK n \in Nat : n = Len(s) /\ n = Cardinality(DOMAIN entries) /\ s \in Seq(Nat)
  BY <1>2, EnumeratedSet DEF Enumerates
<1> DEFINE list[m \in 0..Cardinality(DOMAIN entries)] ==
             IF m = 0 THEN <<head>> ELSE Append(list[m - 1], entries[Last(list[m - 1])].nxt)
           reached == list[Cardinality(DOMAIN entries)]
<1>4. ListHoldsEntries <=>
        /\ ToSet(Front(reached)) = DOMAIN entries
        /\ Last(reached) = Null
        /\ \A i \in DOMAIN Front(reached) :
             entries[reached[i]].prv = IF i = 1 THEN Null ELSE reached[i - 1]
  BY DEF ListHoldsEntries
<1>5. ListOf(list, entries, head, Cardinality(DOMAIN entries))
  BY <1>3, ListUnfold
<1> HIDE DEF list
<1>6. reached = Prefix(s, n)
  <2>1. ListOf(list, entries, head, n)
    BY <1>3, <1>5
  <2>2. n <= Len(s)
    BY <1>3
  <2>3. list[n] = Prefix(s, n)
    BY <1>1, <2>1, <2>2, ListWalked
  <2> QED
    BY <1>3, <2>3
<1>7. PICK r : r = reached
  OBVIOUS
<1>8. r \in Seq(Nat) /\ Len(r) = n + 1 /\ \A i \in 1..n + 1 : r[i] = At(s, i)
  <2>1. r = [i \in 1..n + 1 |-> At(s, i)]
    BY <1>6, <1>7 DEF Prefix
  <2>2. \A i \in 1..n + 1 : At(s, i) \in Nat
    <3>1. s \in Seq(Nat)
      BY <1>3
    <3>2. \A i \in 1..Len(s) : s[i] \in Nat
      BY <3>1
    <3> QED
      BY <3>2 DEF At, Null
  <2> QED
    BY <2>1, <2>2
<1>9. \A i \in 1..n : r[i] = s[i]
  BY <1>3, <1>8 DEF At
<1>10. Front(r) = s
  <2>1. PICK f : f = Front(r)
    OBVIOUS
  <2>2. f = SubSeq(r, 1, n)
    BY <1>8, <2>1 DEF Front
  <2>3. \A i \in 1..n : r[i] \in Nat
    BY <1>8
  <2>4. f \in Seq(Nat) /\ Len(f) = n /\ \A i \in 1..n : f[i] = r[i]
    <3>1. /\ f \in Seq(Nat) /\ Len(f) = IF 1 <= n THEN n - 1 + 1 ELSE 0
          /\ \A i \in 1..n - 1 + 1 : f[i] = r[1 + i - 1]
      BY <2>2, <2>3, SubSeqProperties
    <3>2. n - 1 + 1 = n /\ \A i \in 1..n : 1 + i - 1 = i
      OBVIOUS
    <3> QED
      BY <3>1, <3>2
  <2>5. f = s
    BY <1>3, <1>9, <2>4, SeqEqual
  <2> QED
    BY <2>1, <2>5
<1>11. ToSet(Front(r)) = DOMAIN entries
  BY <1>2, <1>10, EnumeratedSet
<1>12. Last(r) = Null
  BY <1>3, <1>8 DEF Last, At
<1>13. ASSUME NEW i \in DOMAIN Front(r)
       PROVE  entries[r[i]].prv = IF i = 1 THEN Null ELSE r[i - 1]
  <2>1. i \in 1..n
    <3>1. DOMAIN s = 1..n
      <4>1. s \in Seq(Nat) /\ n = Len(s)
        BY <1>3
      <4>2. DOMAIN s = 1..Len(s)
        BY <4>1, LenProperties
      <4> QED
        BY <4>1, <4>2
    <3>2. DOMAIN Front(r) = 1..n
      BY <1>10, <3>1
    <3> QED
      BY <3>2
  <2>2. entries[r[i]].prv = At(s, i - 1)
    BY <1>1, <1>3, <1>9, <2>1 DEF Linked
  <2>3. CASE i = 1
    BY <2>2, <2>3 DEF At
  <2>4. CASE i # 1
    <3>1. i - 1 \in 1..n + 1
      BY <2>1, <2>4
    <3> QED
      BY <1>8, <2>2, <2>4, <3>1
  <2> QED
    BY <2>3, <2>4
<1> QED
  BY <1>4, <1>7, <1>11, <1>12, <1>13

LEMMA LookupsRight ==
  IInv => LookupsComplete
<1> SUFFICES ASSUME IInv
             PROVE  LookupsComplete
  OBVIOUS
<1>1. ASSUME NEW k \in Key
      PROVE  EqualKey(k) = IF Lookup(k) = Null THEN {} ELSE {Lookup(k)}
  BY LookupFinds
<1>2. ASSUME NEW k \in Key
      PROVE  /\ ToSet(GetSlice(secondary, SliceHash[Slice[k]], EqualSlice(k))) = EqualSlice(k)
             /\ Len(GetSlice(secondary, SliceHash[Slice[k]], EqualSlice(k)))
                  = Cardinality(EqualSlice(k))
  <2>1. PICK keys : keys = KeysOf(entries) /\ Keyed(keys) /\ Sliced(secondary, keys)
    BY KeysAreKeyed DEF IInv, Kept
  <2>2. EqualSlice(k) = OfSlice(keys, Slice[k])
    BY <2>1, LookupFinds
  <2>3. Enumerates(GetSlice(secondary, SliceHash[Slice[k]], OfSlice(keys, Slice[k])),
                   OfSlice(keys, Slice[k]))
    BY <2>1, SliceWalked
  <2> QED
    BY <2>2, <2>3, EnumeratedSet
<1> QED
  BY <1>1, <1>2 DEF LookupsComplete

(* Iterating over the map, looking up its keys and walking over its slices *)
(* show the same entries, whatever was called.                             *)
THEOREM MapStaysWhole == Spec => []ListAndIndexesAgree
<1>1. IInv => ListAndIndexesAgree
  BY ListRight, LookupsRight DEF ListAndIndexesAgree
<1> QED
  BY <1>1, MapInvariant, PTL

-----------------------------------------------------------------------------
(***************************************************************************)
(* The map implements the store of its values.                             *)
(***************************************************************************)

NoValue == 2 * MaxValue + 1

(* What lookups in the primary index p give of the entries e.              *)
StoreIn(e, p) ==
  [k \in Key |-> LET o == Get(p, Hash[k], EntriesOf(e, k))
                 IN  IF o = Null THEN NoValue ELSE e[o].val]

(* f has the value of each entry, and no other.                            *)
Stores(f, e) ==
  /\ f = [k \in Key |-> f[k]]
  /\ \A o \in DOMAIN e : f[e[o].key] = e[o].val
  /\ \A k \in Key : (\A o \in DOMAIN e : e[o].key # k) => f[k] = NoValue

(* The entries change at most for the key k, which keeps the value w.      *)
SameElse(e2, e, k) ==
  /\ \A q \in DOMAIN e : e[q].key # k =>
       q \in DOMAIN e2 /\ e2[q].key = e[q].key /\ e2[q].val = e[q].val
  /\ \A q \in DOMAIN e2 : e2[q].key # k => q \in DOMAIN e /\ e2[q].key = e[q].key

Leaves(e2, k, w) ==
  \/ \E o \in DOMAIN e2 : e2[o].key = k /\ e2[o].val = w
  \/ w = NoValue /\ \A o \in DOMAIN e2 : e2[o].key # k

LEMMA StoreStores ==
  ASSUME NEW e, NEW h, NEW p, NEW s, Kept(e, h, p, s)
  PROVE  Stores(StoreIn(e, p), e)
<1>1. PICK f : f = StoreIn(e, p)
  OBVIOUS
<1>2. ASSUME NEW k \in Key
      PROVE  /\ \A o \in DOMAIN e : e[o].key = k => f[k] = e[o].val
             /\ (\A o \in DOMAIN e : e[o].key # k) => f[k] = NoValue
  <2>1. PICK objs, r : objs = EntriesOf(e, k) /\ r = Get(p, Hash[k], objs)
    OBVIOUS
  <2>2. /\ r = Null => objs = {}
        /\ r # Null => r \in DOMAIN e /\ e[r].key = k /\ objs = {r}
    BY <2>1, KeyFound
  <2>3. f[k] = IF r = Null THEN NoValue ELSE e[r].val
    BY <1>1, <2>1 DEF StoreIn
  <2>4. ASSUME NEW o \in DOMAIN e, e[o].key = k
        PROVE  f[k] = e[o].val
    <3>1. o \in objs
      BY <2>1, <2>4 DEF EntriesOf
    <3> QED
      BY <2>2, <2>3, <3>1
  <2>5. ASSUME \A o \in DOMAIN e : e[o].key # k
        PROVE  f[k] = NoValue
    <3>1. r = Null
      BY <2>2, <2>5
    <3> QED
      BY <2>3, <3>1
  <2> QED
    BY <2>4, <2>5
<1>3. f = [k \in Key |-> f[k]]
  BY <1>1 DEF StoreIn
<1>4. \A o \in DOMAIN e : e[o].key \in Key
  BY DEF Kept, Contents, Entry
<1> QED
  BY <1>1, <1>2, <1>3, <1>4 DEF Stores

LEMMA StoreChanged ==
  ASSUME NEW f, NEW e, NEW f2, NEW e2, Stores(f, e), Stores(f2, e2),
         NEW k \in Key, NEW w, SameElse(e2, e, k), Leaves(e2, k, w)
  PROVE  f2 = [f EXCEPT ![k] = w]
<1>1. f2[k] = w
  BY DEF Leaves, Stores
<1>2. ASSUME NEW q \in Key, q # k
      PROVE  f2[q] = f[q]
  <2>1. CASE \E o \in DOMAIN e : e[o].key = q
    <3>1. PICK o \in DOMAIN e : e[o].key = q
      BY <2>1
    <3>2. o \in DOMAIN e2 /\ e2[o].key = q /\ e2[o].val = e[o].val
      BY <1>2, <3>1 DEF SameElse
    <3> QED
      BY <3>1, <3>2 DEF Stores
  <2>2. CASE \A o \in DOMAIN e : e[o].key # q
    <3>1. \A o \in DOMAIN e2 : e2[o].key # q
      BY <1>2, <2>2 DEF SameElse
    <3> QED
      BY <2>2, <3>1 DEF Stores
  <2> QED
    BY <2>1, <2>2
<1>3. f = [q \in Key |-> f[q]] /\ f2 = [q \in Key |-> f2[q]]
  BY DEF Stores
<1> QED
  BY <1>1, <1>2, <1>3

LEMMA InsertedStore ==
  ASSUME NEW e, NEW h, Contents(e), NEW o \in Nat, o \notin DOMAIN e, NEW k \in Key, NEW v,
         NEW e2, EntriesInserted(e2, e, h, o, k, v)
  PROVE  SameElse(e2, e, k) /\ Leaves(e2, k, v)
<1>1. DOMAIN e2 = DOMAIN e \cup {o}
  BY DEF EntriesInserted
<1>2. e2[o] = [key |-> k, val |-> v, prv |-> Null, nxt |-> h]
  BY DEF EntriesInserted
<1>3. e2[o].key = k /\ e2[o].val = v
  BY <1>2
<1>4. ASSUME NEW q \in DOMAIN e
      PROVE  e2[q].key = e[q].key /\ e2[q].val = e[q].val
  <2>1. e2[q] = IF q = h THEN [e[q] EXCEPT !.prv = o] ELSE e[q]
    BY DEF EntriesInserted
  <2>2. PICK x : x = e[q] /\ x \in Entry
    BY DEF Contents
  <2>3. e2[q] = [x EXCEPT !.prv = o] \/ e2[q] = x
    BY <2>1, <2>2
  <2> QED
    BY <2>2, <2>3 DEF Entry
<1>5. SameElse(e2, e, k)
  BY <1>1, <1>3, <1>4 DEF SameElse
<1>6. Leaves(e2, k, v)
  BY <1>1, <1>3 DEF Leaves
<1> QED
  BY <1>5, <1>6

LEMMA ErasedStore ==
  ASSUME NEW e, Contents(e), NEW o \in DOMAIN e, NEW e2, EntriesErased(e2, e, o)
  PROVE  SameElse(e2, e, e[o].key) /\ Leaves(e2, e[o].key, NoValue)
<1>1. DOMAIN e2 = DOMAIN e \ {o}
  BY DEF EntriesErased
<1>2. ASSUME NEW q \in DOMAIN e \ {o}
      PROVE  e2[q].key = e[q].key /\ e2[q].val = e[q].val
  <2>1. PICK x : x = e[q] /\ x \in Entry
    BY DEF Contents
  <2>2. \/ e2[q] = [x EXCEPT !.nxt = e[o].nxt]
        \/ e2[q] = [x EXCEPT !.prv = e[o].prv]
        \/ e2[q] = x
    BY <2>1 DEF EntriesErased
  <2> QED
    BY <2>1, <2>2 DEF Entry
<1>3. \A q \in DOMAIN e \ {o} : e[q].key # e[o].key
  BY DEF Contents
<1>4. SameElse(e2, e, e[o].key)
  BY <1>1, <1>2 DEF SameElse
<1>5. Leaves(e2, e[o].key, NoValue)
  BY <1>1, <1>2, <1>3 DEF Leaves
<1> QED
  BY <1>4, <1>5

LEMMA AssignedStore ==
  ASSUME NEW e, Contents(e), NEW o \in DOMAIN e, NEW v, NEW e2, EntriesAssigned(e2, e, o, v)
  PROVE  SameElse(e2, e, e[o].key) /\ Leaves(e2, e[o].key, v)
<1>1. DOMAIN e2 = DOMAIN e
  BY DEF EntriesAssigned
<1>2. e2[o].key = e[o].key /\ e2[o].val = v
  <2>1. PICK x : x = e[o] /\ x \in Entry
    BY DEF Contents
  <2>2. e2[o] = [x EXCEPT !.val = v]
    BY <2>1 DEF EntriesAssigned
  <2> QED
    BY <2>1, <2>2 DEF Entry
<1>3. \A q \in DOMAIN e \ {o} : e2[q] = e[q]
  BY DEF EntriesAssigned
<1>4. SameElse(e2, e, e[o].key)
  BY <1>1, <1>2, <1>3 DEF SameElse
<1>5. Leaves(e2, e[o].key, v)
  BY <1>1, <1>2 DEF Leaves
<1> QED
  BY <1>4, <1>5

(* What a step leaves of the store.                                        *)
LEMMA StepStore ==
  ASSUME IInv, NEW k \in Key,
         NEW f, f = StoreIn(entries, primary), NEW f2, f2 = StoreIn(entries', primary')
  PROVE  /\ DOMAIN f = Key
         /\ Lookup(k) = Null => f[k] = NoValue
         /\ Lookup(k) # Null =>
              f[k] = entries[Lookup(k)].val /\ f[k] \in -MaxValue..MaxValue
         /\ \A v \in -MaxValue..MaxValue :
              Lookup(k) = Null /\ Insert(k, v) => f2 = [f EXCEPT ![k] = v]
         /\ Lookup(k) # Null /\ Erase(Lookup(k)) => f2 = [f EXCEPT ![k] = NoValue]
         /\ \A w : Lookup(k) # Null /\ Assign(Lookup(k), w) => f2 = [f EXCEPT ![k] = w]
<1>1. Contents(entries) /\ Stores(f, entries)
  BY StoreStores DEF IInv, Kept
<1>2. ASSUME IInv'
      PROVE  Stores(f2, entries')
  <2>1. PICK e, h, p, s : e = entries' /\ h = head' /\ p = primary' /\ s = secondary'
    OBVIOUS
  <2>2. Kept(e, h, p, s)
    BY <1>2, <2>1 DEF IInv
  <2>3. Stores(StoreIn(e, p), e)
    BY <2>2, StoreStores
  <2> QED
    BY <2>1, <2>3
<1>3. PICK e2 : e2 = entries'
  OBVIOUS
<1>4. DOMAIN f = Key
  BY DEF StoreIn
<1>5. ASSUME Lookup(k) = Null
      PROVE  f[k] = NoValue
  <2>1. EqualKey(k) = {}
    BY <1>5, LookupFinds
  <2> QED
    BY <1>1, <2>1 DEF EqualKey, Stores
<1>6. ASSUME Lookup(k) # Null
      PROVE  /\ Lookup(k) \in DOMAIN entries /\ entries[Lookup(k)].key = k
             /\ f[k] = entries[Lookup(k)].val /\ f[k] \in -MaxValue..MaxValue
  <2>1. Lookup(k) \in DOMAIN entries /\ entries[Lookup(k)].key = k
    BY <1>6, LookupFinds
  <2>2. f[k] = entries[Lookup(k)].val
    BY <1>1, <2>1 DEF Stores
  <2>3. entries[Lookup(k)].val \in -MaxValue..MaxValue
    BY <1>1, <2>1 DEF Contents, Entry
  <2> QED
    BY <2>1, <2>2, <2>3
<1>7. ASSUME NEW v \in -MaxValue..MaxValue, Lookup(k) = Null, Insert(k, v)
      PROVE  f2 = [f EXCEPT ![k] = v]
  <2>1. /\ IInv'
        /\ \E o \in Nat : o \notin DOMAIN entries /\ EntriesInserted(e2, entries, head, o, k, v)
    BY <1>3, <1>7, InsertKeeps
  <2>2. SameElse(e2, entries, k) /\ Leaves(e2, k, v)
    BY <1>1, <2>1, InsertedStore
  <2> QED
    BY <1>1, <1>2, <1>3, <2>1, <2>2, StoreChanged
<1>8. ASSUME Lookup(k) # Null, Erase(Lookup(k))
      PROVE  f2 = [f EXCEPT ![k] = NoValue]
  <2>1. IInv' /\ EntriesErased(e2, entries, Lookup(k))
    BY <1>3, <1>6, <1>8, EraseKeeps
  <2>2. SameElse(e2, entries, k) /\ Leaves(e2, k, NoValue)
    BY <1>1, <1>6, <1>8, <2>1, ErasedStore
  <2> QED
    BY <1>1, <1>2, <1>3, <2>1, <2>2, StoreChanged
<1>9. ASSUME NEW w, Lookup(k) # Null, Assign(Lookup(k), w)
      PROVE  f2 = [f EXCEPT ![k] = w]
  <2>1. IInv' /\ EntriesAssigned(e2, entries, Lookup(k), w)
    BY <1>3, <1>6, <1>9, AssignKeeps
  <2>2. SameElse(e2, entries, k) /\ Leaves(e2, k, w)
    BY <1>1, <1>6, <1>9, <2>1, AssignedStore
  <2> QED
    BY <1>1, <1>2, <1>3, <2>1, <2>2, StoreChanged
<1> QED
  BY <1>4, <1>5, <1>6, <1>7, <1>8, <1>9

(* A call of the map is the call of the store.                             *)
LEMMA CallStores ==
  ASSUME IInv, NEW k \in Key, NEW v \in Operand,
         NEW f, f = StoreIn(entries, primary), NEW f2, f2 = StoreIn(entries', primary')
  PROVE  /\ InsertOrAssign(k, v) => f2 = Abstract!InsertOrAssign(f, k, v)
         /\ InsertOrAssignNonZero(k, v) => f2 = Abstract!InsertOrAssignNonZero(f, k, v)
         /\ IncrementOrAssign(k, v) => f2 = Abstract!IncrementOrAssign(f, k, v)
         /\ IncrementOrAssignNonZero(k, v) => f2 = Abstract!IncrementOrAssignNonZero(f, k, v)
<1>1. v \in -MaxValue..MaxValue /\ MaxValue \in Nat
  BY HashAssumption
<1>2. PICK o : o = Lookup(k)
  OBVIOUS
<1>3. /\ o = Null => f[k] = NoValue
      /\ o # Null => f[k] = entries[o].val /\ f[k] \in -MaxValue..MaxValue
      /\ o = Null /\ Insert(k, v) => f2 = [f EXCEPT ![k] = v]
      /\ o # Null /\ Erase(o) => f2 = [f EXCEPT ![k] = NoValue]
      /\ \A w : o # Null /\ Assign(o, w) => f2 = [f EXCEPT ![k] = w]
  BY <1>1, <1>2, StepStore
<1>4. o # Null => f[k] # NoValue
  BY <1>1, <1>3 DEF NoValue
<1>5. NoValue = Abstract!Absent
  BY DEF NoValue, Abstract!Absent
<1>6. ASSUME InsertOrAssign(k, v)
      PROVE  f2 = Abstract!InsertOrAssign(f, k, v)
  <2>1. f2 = [f EXCEPT ![k] = v]
    BY <1>2, <1>3, <1>6 DEF InsertOrAssign
  <2>2. f2 = Abstract!InsertOrAssign(f, k, v)
    BY <2>1 DEF Abstract!InsertOrAssign
  <2> QED
    BY <2>2
<1>7. ASSUME InsertOrAssignNonZero(k, v)
      PROVE  f2 = Abstract!InsertOrAssignNonZero(f, k, v)
  <2>1. f2 = [f EXCEPT ![k] = IF v = 0 THEN NoValue ELSE v]
    <3>1. CASE o # Null /\ v = 0
      <4>1. Erase(o)
        BY <1>2, <1>7, <3>1 DEF InsertOrAssignNonZero
      <4> QED
        BY <1>3, <3>1, <4>1
    <3>2. CASE o # Null /\ v # 0
      <4>1. Assign(o, v)
        BY <1>2, <1>7, <3>2 DEF InsertOrAssignNonZero
      <4> QED
        BY <1>3, <3>2, <4>1
    <3>3. CASE o = Null
      <4>1. v # 0 /\ Insert(k, v)
        BY <1>2, <1>7, <3>3 DEF InsertOrAssignNonZero
      <4> QED
        BY <1>3, <3>3, <4>1
    <3> QED
      BY <3>1, <3>2, <3>3
  <2>2. f2 = Abstract!InsertOrAssignNonZero(f, k, v)
    BY <1>5, <2>1 DEF Abstract!InsertOrAssignNonZero, Abstract!NonZero
  <2> QED
    BY <2>2
<1>8. ASSUME IncrementOrAssign(k, v)
      PROVE  f2 = Abstract!IncrementOrAssign(f, k, v)
  <2>1. f2 = [f EXCEPT ![k] = IF f[k] = NoValue THEN v ELSE f[k] + v]
    <3>1. CASE o # Null
      <4>1. Assign(o, entries[o].val + v)
        BY <1>2, <1>8, <3>1 DEF IncrementOrAssign
      <4>2. f2 = [f EXCEPT ![k] = entries[o].val + v]
        BY <1>3, <3>1, <4>1
      <4> QED
        BY <1>3, <1>4, <3>1, <4>2
    <3>2. CASE o = Null
      <4>1. Insert(k, v)
        BY <1>2, <1>8, <3>2 DEF IncrementOrAssign
      <4> QED
        BY <1>3, <3>2, <4>1
    <3> QED
      BY <3>1, <3>2
  <2>2. f2 = Abstract!IncrementOrAssign(f, k, v)
    BY <1>5, <2>1 DEF Abstract!IncrementOrAssign, Abstract!Sum
  <2> QED
    BY <2>2
<1>9. ASSUME IncrementOrAssignNonZero(k, v)
      PROVE  f2 = Abstract!IncrementOrAssignNonZero(f, k, v)
  <2>1. v # 0
    BY <1>9 DEF IncrementOrAssignNonZero
  <2>2. PICK sum : sum = IF f[k] = NoValue THEN v ELSE f[k] + v
    OBVIOUS
  <2>3. f2 = [f EXCEPT ![k] = IF sum = 0 THEN NoValue ELSE sum]
    <3>1. CASE o # Null
      <4>1. sum = entries[o].val + v
        BY <1>3, <1>4, <2>2, <3>1
      <4>2. CASE sum = 0
        <5>1. Erase(o)
          BY <1>2, <1>9, <3>1, <4>1, <4>2 DEF IncrementOrAssignNonZero
        <5> QED
          BY <1>3, <3>1, <4>2, <5>1
      <4>3. CASE sum # 0
        <5>1. Assign(o, sum)
          BY <1>2, <1>9, <3>1, <4>1, <4>3 DEF IncrementOrAssignNonZero
        <5> QED
          BY <1>3, <3>1, <4>3, <5>1
      <4> QED
        BY <4>2, <4>3
    <3>2. CASE o = Null
      <4>1. Insert(k, v)
        BY <1>2, <1>9, <3>2 DEF IncrementOrAssignNonZero
      <4>2. sum = v
        BY <1>3, <2>2, <3>2
      <4> QED
        BY <1>3, <2>1, <3>2, <4>1, <4>2
    <3> QED
      BY <3>1, <3>2
  <2>4. sum = Abstract!Sum(f, k, v)
    BY <1>5, <2>2 DEF Abstract!Sum
  <2>5. f2 = Abstract!IncrementOrAssignNonZero(f, k, v)
    BY <1>5, <2>1, <2>3, <2>4 DEF Abstract!IncrementOrAssignNonZero, Abstract!NonZero
  <2> QED
    BY <2>5
<1> QED
  BY <1>6, <1>7, <1>8, <1>9

LEMMA StoreIsAbstract ==
  [k \in Key |-> StoredValue(k)] = StoreIn(entries, primary)
BY DEF StoredValue, StoreIn, Lookup, EqualKey, EntriesOf, NoValue

LEMMA InitStore ==
  Init => Abstract!Init
<1> SUFFICES ASSUME Init
             PROVE  Abstract!Init
  OBVIOUS
<1>1. PICK f : f = StoreIn(entries, primary)
  OBVIOUS
<1>2. IInv
  BY InitKept
<1>3. Stores(f, entries)
  BY <1>1, <1>2, StoreStores DEF IInv
<1>4. DOMAIN entries = {}
  BY DEF Init
<1>5. f = [k \in Key |-> NoValue]
  BY <1>3, <1>4 DEF Stores
<1>6. f = Abstract!Empty
  BY <1>5 DEF Abstract!Empty, Abstract!Absent, NoValue
<1> QED
  BY <1>1, <1>6, StoreIsAbstract DEF Init, Abstract!Init

LEMMA StepIsAbstract ==
  IInv /\ [Next]_vars => [Abstract!Next]_<<[k \in Key |-> StoredValue(k)], call>>
<1> SUFFICES ASSUME IInv, [Next]_vars
             PROVE  [Abstract!Next]_<<[k \in Key |-> StoredValue(k)], call>>
  OBVIOUS
<1>1. PICK f, f2 : f = StoreIn(entries, primary) /\ f2 = StoreIn(entries', primary')
  OBVIOUS
<1>2. [k \in Key |-> StoredValue(k)] = f /\ [k \in Key |-> StoredValue(k)]' = f2
  <2>1. [k \in Key |-> StoredValue(k)] = f
    BY <1>1, StoreIsAbstract
  <2>2. [k \in Key |-> StoredValue(k)]' = f2
    BY <1>1 DEF StoredValue, StoreIn, Lookup, EqualKey, EntriesOf, NoValue
  <2> QED
    BY <2>1, <2>2
<1>3. CASE UNCHANGED vars
  <2>1. f2 = f /\ call' = call
    BY <1>1, <1>3 DEF vars
  <2> QED
    BY <1>2, <2>1
<1>4. ASSUME NEW k \in Key, NEW v \in Operand,
             \/ InsertOrAssign(k, v) /\ Called(<<"insertOrAssign", k, v>>)
             \/ InsertOrAssignNonZero(k, v) /\ Called(<<"insertOrAssignNonZero", k, v>>)
             \/ IncrementOrAssign(k, v) /\ Called(<<"incrementOrAssign", k, v>>)
             \/ IncrementOrAssignNonZero(k, v) /\ Called(<<"incrementOrAssignNonZero", k, v>>)
      PROVE  Abstract!Next
  <2>1. /\ InsertOrAssign(k, v) => f2 = Abstract!InsertOrAssign(f, k, v)
        /\ InsertOrAssignNonZero(k, v) => f2 = Abstract!InsertOrAssignNonZero(f, k, v)
        /\ IncrementOrAssign(k, v) => f2 = Abstract!IncrementOrAssign(f, k, v)
        /\ IncrementOrAssignNonZero(k, v) => f2 = Abstract!IncrementOrAssignNonZero(f, k, v)
    BY <1>1, CallStores
  <2>2. \A c : Called(c) <=> Abstract!Called(c)
    BY DEF Called, Abstract!Called
  <2> QED
    BY <1>2, <1>4, <2>1, <2>2 DEF Abstract!Next
<1>5. CASE Clear /\ Called(<<"clear">>)
  <2>1. IInv' /\ entries' = <<>>
    BY <1>5, ClearKeeps
  <2>2. Stores(f2, entries')
    <3>1. PICK e, h, p, s : e = entries' /\ h = head' /\ p = primary' /\ s = secondary'
      OBVIOUS
    <3>2. Kept(e, h, p, s)
      BY <2>1, <3>1 DEF IInv
    <3>3. Stores(StoreIn(e, p), e)
      BY <3>2, StoreStores
    <3> QED
      BY <1>1, <3>1, <3>3
  <2>3. f2 = [k \in Key |-> NoValue]
    <3>1. DOMAIN entries' = {}
      BY <2>1
    <3> QED
      BY <2>2, <3>1 DEF Stores
  <2>4. f2 = Abstract!Empty
    BY <2>3 DEF Abstract!Empty, Abstract!Absent, NoValue
  <2>5. Abstract!Called(<<"clear">>)
    BY <1>5 DEF Called, Abstract!Called
  <2> QED
    BY <1>2, <2>4, <2>5 DEF Abstract!Next
<1> QED
  BY <1>3, <1>4, <1>5 DEF Next

(* The map is the store of values its caller thinks it is: every call does *)
(* what that call promises, to the key it names and to no other.           *)
THEOREM MapIsStore == Spec => ImplementsKeyedStore
<1>1. Init => Abstract!Init
  BY InitStore
<1>2. IInv /\ [Next]_vars => [Abstract!Next]_<<[k \in Key |-> StoredValue(k)], call>>
  BY StepIsAbstract
<1> QED
  BY <1>1, <1>2, MapInvariant, PTL DEF Spec, ImplementsKeyedStore, Abstract!Spec
=============================================================================
