---------------------------- MODULE SharedStrings ----------------------------
(***************************************************************************)
(* The strings of backend/lib/string.hpp, of which a build picks one as    *)
(* its STRING_TYPE: FixedLengthString keeps its characters inside,         *)
(* VariableLengthString in a block of its own, and RefCountedString and    *)
(* PooledRefCountedString share a block and a counter; the counter of the  *)
(* last is an element of the global ValuePool.                             *)
(*                                                                         *)
(* A program declares, assigns and destroys the strings of String, also by *)
(* an assignment of a string to itself or of its own c_str().  When no     *)
(* other string has its block, such an assignment gives the memory back    *)
(* and then reads it (stale): what a program does after that is undefined, *)
(* and not followed.                                                       *)
(***************************************************************************)
EXTENDS ElementPool, FiniteSets

CONSTANTS
  String,    \* the variables of the program
  Text,      \* the texts it has, sequences of characters
  FixedSize, \* SIZE of FixedLengthString
  PoolSize   \* DEFAULT_CHUNK_SIZE of the ValuePool

ASSUME StringAssumption ==
  /\ IsFiniteSet(String)
  /\ PoolSize \in Nat \ {0}

VARIABLES
  kind,    \* the STRING_TYPE of the build
  memory,  \* the blocks and the counters that are allocated, and the pool
  string,  \* the [data, count] of every string that is alive
  given,   \* history: the text each of them was last given
  stale    \* the string that was read after its memory was given back, if any

stringVars == <<kind, memory, string, given, stale>>

NoBlock == 0
Counted == {"counted", "pooled"}

Alive == DOMAIN string

StringInit ==
  /\ kind \in {"fixed", "variable"} \cup Counted
  /\ memory = [chars |-> <<>>, counter |-> <<>>, pool |-> PoolOf(PoolSize)]
  /\ string = <<>>
  /\ given = <<>>
  /\ stale = {}

Unused(allocated) == CHOOSE b \in 1 .. Cardinality(allocated) + 1 : b \notin allocated

With(f, a, v) == [b \in DOMAIN f \cup {a} |-> IF b = a THEN v ELSE f[b]]

Without(f, a) == [b \in DOMAIN f \ {a} |-> f[b]]

\* new char[size_ + 1] and delete[] data_
NextChars(m) == Unused(DOMAIN m.chars)

NewChars(m, text) == [m EXCEPT !.chars = With(@, NextChars(m), text)]

FreeChars(m, b) == IF b = NoBlock THEN m ELSE [m EXCEPT !.chars = Without(@, b)]

\* new uint64_t(1) or pool.add(), delete ptr_count_ or pool.del(ptr_count_)
NextCounter(m) == IF kind = "pooled" THEN NextElement(m.pool) ELSE Unused(DOMAIN m.counter)

NewCounter(m) ==
  [m EXCEPT !.counter = With(@, NextCounter(m), 1),
            !.pool = IF kind = "pooled" THEN ValueAdd(@) ELSE @]

FreeCounter(m, c) ==
  [m EXCEPT !.counter = Without(@, c),
            !.pool = IF kind = "pooled" THEN ValueDel(@, c) ELSE @]

\* The last string with a block gives it back, with its counter.
Drop(m, s) ==
  CASE kind = "fixed"    -> m
    [] kind = "variable" -> FreeChars(m, s.data)
    [] kind \in Counted  ->
         IF m.counter[s.count] = 1 THEN FreeChars(FreeCounter(m, s.count), s.data)
         ELSE [m EXCEPT !.counter[s.count] = @ - 1]

Share(m, s) == [m EXCEPT !.counter[s.count] = @ + 1]

\* A longer text is cut to the size of a FixedLengthString.
Cut(text) ==
  IF kind = "fixed" /\ Len(text) > FixedSize THEN SubSeq(text, 1, FixedSize) ELSE text

TextOf(s) ==
  IF kind = "fixed" THEN s.data
  ELSE IF s.data = NoBlock THEN <<>> ELSE memory.chars[s.data]

Becomes(x, s, m, text) ==
  /\ string' = With(string, x, s)
  /\ memory' = m
  /\ given' = With(given, x, Cut(text))
  /\ UNCHANGED <<kind, stale>>

\* An assignment from x itself, after m gave back what it is read from.
ReadsFreed(x, m) ==
  /\ stale' = {x}
  /\ memory' = m
  /\ UNCHANGED <<kind, string, given>>

-----------------------------------------------------------------------------

Inside(text) == [data |-> Cut(text), count |-> NoBlock]

Apart(block) == [data |-> block, count |-> NoBlock]

(* The constructors.  The default ones allocate a counter and no block.    *)
FixedFromText(x, text) == kind = "fixed" /\ Becomes(x, Inside(text), memory, text)

VariableEmpty(x) == kind = "variable" /\ Becomes(x, Apart(NoBlock), memory, <<>>)

VariableFromText(x, text) ==
  /\ kind = "variable"
  /\ Becomes(x, Apart(NextChars(memory)), NewChars(memory, text), text)

CountedEmpty(x) ==
  /\ kind \in Counted
  /\ Becomes(x, [data |-> NoBlock, count |-> NextCounter(memory)], NewCounter(memory), <<>>)

CountedFromText(x, text) ==
  /\ kind \in Counted
  /\ Becomes(x, [data |-> NextChars(memory), count |-> NextCounter(memory)],
             NewCounter(NewChars(memory, text)), text)

Construct(x) == FixedFromText(x, <<>>) \/ VariableEmpty(x) \/ CountedEmpty(x)

FromText(x, text) ==
  FixedFromText(x, text) \/ VariableFromText(x, text) \/ CountedFromText(x, text)

CopyOf(x, y) ==
  \/ kind \notin Counted /\ FromText(x, TextOf(string[y]))
  \/ kind \in Counted /\ Becomes(x, string[y], Share(memory, string[y]), given[y])

Sub(text, pos, len) ==
  SubSeq(text, pos + 1, IF len <= Len(text) - pos THEN pos + len ELSE Len(text))

\* substr(pos, len), the result bound to x.
Substr(x, y, pos, len) ==
  LET text == TextOf(string[y])
  IN  IF pos < Len(text) THEN FromText(x, Sub(text, pos, len)) ELSE Construct(x)

Destroy(x) ==
  /\ string' = Without(string, x)
  /\ memory' = Drop(memory, string[x])
  /\ given' = Without(given, x)
  /\ UNCHANGED <<kind, stale>>

(* operator= with characters: a counted string that does not share its     *)
(* block keeps its counter, one that does leaves both to the others.       *)
FixedAssign(x, text) == kind = "fixed" /\ Becomes(x, Inside(text), memory, text)

VariableAssign(x, text) ==
  LET m == FreeChars(memory, string[x].data)
  IN  kind = "variable" /\ Becomes(x, Apart(NextChars(m)), NewChars(m, text), text)

(* Seeded bug: the counter is kept however many strings there are with it. *)
CountedAssignInPlace(x, text) ==
  LET s == string[x]
      m == FreeChars(memory, s.data)
  IN  /\ kind \in Counted
      /\ Becomes(x, [s EXCEPT !.data = NextChars(m)], NewChars(m, text), text)

CountedAssign(x, text) ==
  LET s == string[x]
      alone == memory.counter[s.count] = 1
      m == IF alone THEN FreeChars(memory, s.data) ELSE NewCounter(Drop(memory, s))
      c == IF alone THEN s.count ELSE NextCounter(memory)
  IN  /\ kind \in Counted
      /\ Becomes(x, [data |-> NextChars(m), count |-> c], NewChars(m, text), text)

AssignText(x, text) == FixedAssign(x, text) \/ VariableAssign(x, text) \/ CountedAssign(x, text)

\* Only x has its block, and gives it back when it is assigned.
Alone(x) ==
  \/ kind = "variable"
  \/ kind \in Counted /\ memory.counter[string[x].count] = 1

(* operator= with the string's own c_str(), which is null without a block. *)
AssignOwnText(x) ==
  /\ IF kind = "fixed" THEN TRUE ELSE string[x].data # NoBlock
  /\ IF Alone(x) THEN ReadsFreed(x, FreeChars(memory, string[x].data))
     ELSE AssignText(x, TextOf(string[x]))

(* operator= with a string: the first two leave a string assigned to      *)
(* itself alone, the others drop the old block before they share the new:  *)
(* a string alone with its block frees its counter and then counts with it. *)
AssignCopy(x, y) == kind \notin Counted /\ x # y /\ AssignText(x, TextOf(string[y]))

AssignShare(x, y) ==
  /\ kind \in Counted
  /\ IF x = y /\ Alone(x) THEN ReadsFreed(x, Drop(memory, string[x]))
     ELSE Becomes(x, string[y], Share(Drop(memory, string[x]), string[y]), given[y])

StringNext ==
  \/ /\ stale = {}
     /\ \/ \E x \in String \ Alive :
             \/ Construct(x)
             \/ \E text \in Text : FromText(x, text)
             \/ \E y \in Alive : CopyOf(x, y) \/ \E pos, len \in 0 .. 2 : Substr(x, y, pos, len)
        \/ \E x \in Alive :
             \/ Destroy(x)
             \/ AssignOwnText(x)
             \/ \E text \in Text : AssignText(x, text)
             \/ \E y \in Alive : AssignCopy(x, y) \/ AssignShare(x, y)
  \/ stale # {} /\ UNCHANGED stringVars

StringSpec == StringInit /\ [][StringNext]_stringVars

-----------------------------------------------------------------------------

(* However they are copied, assigned and destroyed, a string has the text  *)
(* it was given: what is done to one is not seen through another, and no   *)
(* string is left with a block another one gave back.  The one that was    *)
(* read after it gave back its own memory is all that is lost by that.     *)
TextsKept ==
  \A x \in Alive \ stale :
    /\ kind = "fixed" \/ string[x].data \in DOMAIN memory.chars \cup {NoBlock}
    /\ TextOf(string[x]) = given[x]

(* Every block and every counter has an owner, a counter says how many, and *)
(* the pool has given out the counters there are and no other element.     *)
MemoryAccounted ==
  LET Sharing(c) == {x \in Alive : string[x].count = c}
  IN  /\ kind # "fixed" =>
           DOMAIN memory.chars = {string[x].data : x \in Alive} \ {NoBlock}
      /\ kind \in Counted => DOMAIN memory.counter = {string[x].count : x \in Alive}
      /\ \A c \in DOMAIN memory.counter : memory.counter[c] = Cardinality(Sharing(c))
      /\ Len(memory.pool.free) = Cardinality(Range(memory.pool.free))
      /\ Range(memory.pool.free) =
           IF kind = "pooled" THEN Elements(memory.pool) \ DOMAIN memory.counter
           ELSE Elements(memory.pool)

(* Freed memory is read in one case only: a string alone with its block is *)
(* assigned its own text, or itself if it is counted.  Until then, whatever *)
(* the type of a string and however it is shared: it keeps the text it was *)
(* given, in memory that is its own or counted, and what no string refers  *)
(* to has been given back.                                                 *)
StringsSound == TextsKept /\ (stale = {} => MemoryAccounted)
=============================================================================
