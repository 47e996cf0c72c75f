---------------------------- MODULE IndexedTable ----------------------------
(***************************************************************************)
(* MultiHashMap of dbt_c++/mmap/mmap2.hpp: the rows of a table under a     *)
(* unique hash index, which also links them into a list, and any number of *)
(* secondary indexes.  The program that owns the table is not in the       *)
(* repository; here it keeps to what the operations take for granted: a    *)
(* key that is inserted without a check is not there, an object that is    *)
(* deleted or updated is, what an index finds an object by is not changed  *)
(* in place, and every entry it hands in is one of its own.  Two           *)
(* operations do not keep the indexes in agreement by themselves: add of a *)
(* key that is there, and clear when an index cannot be cleared.  damage   *)
(* says what they did; after that the program leaves the table alone,      *)
(* since the next operation may follow a pointer to nowhere.               *)
(* slice hands the objects of a slice to a function of the program, which  *)
(* may delete or update the object it is given.                            *)
(*                                                                         *)
(* An update by copy never gives the old object back to the pool.  Its     *)
(* number is used again here: no index must know it any more.              *)
(***************************************************************************)
EXTENDS TableIndexes

CONSTANTS Tables  \* the tables to look at: their secondary indexes, those of all their
                  \* indexes the program slices by, the primary one as 0, the rows
                  \* they may hold, and whether the copy constructor of an entry
                  \* copies its links and back pointers too, as that of GenericEntry

VARIABLES table,    \* which of the tables this is
          row,      \* the columns of every object in the pool
          primary, dataHead,
          secondary,
          pending,  \* objects, or keys of copies, a running slice has yet to hand out
          copying,  \* whether it hands out copies
          due,      \* history: the keys of the rows it has yet to visit
          damage    \* history: the indexes an operation left behind, see Sound

vars == <<table, row, primary, dataHead, secondary, pending, copying, due, damage>>

sliceVars == <<pending, copying, due>>

\* The indexes that clear has emptied before it threw, those that hold an
\* object where its former columns have put it, and the object whose links and
\* back pointers were overwritten.
NoDamage == [cleared |-> {}, misplaced |-> {}, unlinked |-> Null]
Sound == damage = NoDamage

Ordered == {"heap", "median", "tree"}
Indexes == table.indexes

Empty(kind) ==
  CASE kind = "list"  -> NewList
    [] kind = "array" -> NewArray
    [] OTHER          -> NewIndex

Init ==
  /\ table \in Tables
  /\ row = <<>>
  /\ primary = NewIndex
  /\ dataHead = <<>>
  /\ secondary = [i \in DOMAIN table.indexes |-> Empty(table.indexes[i])]
  /\ pending = <<>>
  /\ copying = FALSE
  /\ due = {}
  /\ damage = NoDamage

Add(kind, r, idx, o) ==
  CASE kind = "slices" -> SliceAdd(r, idx, o)
    [] kind = "heap"   -> HeapIndexAdd(r, idx, o)
    [] kind = "median" -> MedianIndexAdd(r, idx, o)
    [] kind = "tree"   -> TreeIndexAdd(r, idx, o)
    [] kind = "list"   -> ListAdd(idx, o)
    [] kind = "array"  -> ArrayAdd(r, idx, o)

Del(kind, r, idx, o) ==
  CASE kind = "slices" -> SliceDel(r, idx, o)
    [] kind = "heap"   -> HeapIndexDel(r, idx, o)
    [] kind = "median" -> MedianIndexDel(r, idx, o)
    [] kind = "tree"   -> TreeIndexDel(r, idx, o)
    [] kind = "list"   -> ListDel(idx, o)
    [] kind = "array"  -> ArrayDel(r, idx, o)

Updated(kind, r, idx, orig, o) ==
  CASE kind = "slices" -> SliceUpdate(r, idx, orig, o)
    [] kind = "heap"   -> HeapIndexUpdate(r, idx, orig, o)
    [] kind = "median" -> MedianIndexUpdate(r, idx, orig, o)
    [] kind = "tree"   -> TreeIndexUpdate(r, idx, orig, o)
    [] kind = "list"   -> ListUpdate(idx, orig, o)
    [] kind = "array"  -> ArrayUpdate(r, idx, orig, o)

Cleared(kind, idx) == IF kind = "slices" THEN SliceClear(idx) ELSE Empty(kind)

Fresh == CHOOSE o \in 1..Cardinality(DOMAIN row) + 1 : o \notin DOMAIN row

Holds(k) == \E o \in DOMAIN row : row[o].key = k

\* insert_nocheck, and add of a key that is not there.
Insert(new) ==
  LET o == Fresh
      r == (o :> new) @@ row
  IN  /\ pending = <<>>
      /\ ~Holds(new.key)
      /\ row' = r
      /\ primary' = HashAdd(r, primary, o)
      /\ dataHead' = <<o>> \o dataHead
      /\ secondary' = [i \in DOMAIN secondary |-> Add(Indexes[i], r, secondary[i], o)]
      /\ UNCHANGED <<table, sliceVars, damage>>

HashOf(kind, t) == IF kind = "array" THEN t.key ELSE GrpHash[t.grp]

\* The columns an index finds or orders an object by; a list compares all.
PlacedBy(kind, t) ==
  CASE kind = "slices" -> t.grp
    [] kind \in Ordered -> <<t.grp, t.ord>>
    [] OTHER -> t.key

\* The index forgets the back pointer of o.
WithoutBack(kind, idx, o) ==
  IF kind \in {"slices", "list"} THEN [idx EXCEPT !.back[o] = Null] ELSE idx

\* add of a key that is there: the object is overwritten in place.  Indexes
\* with another hash for it, never the primary one, remove it before and add
\* it after; the others keep it where it is, whatever their columns say.
Overwrite(new) ==
  LET o == Lookup(row, primary, new.key)
      r == [row EXCEPT ![o] = new]
      moves(i) == HashOf(Indexes[i], row[o]) # HashOf(Indexes[i], new)
      whole == ~table.linksCopied
  IN  /\ pending = <<>>
      /\ Holds(new.key)
      /\ row' = r
      /\ secondary' = [i \in DOMAIN secondary |->
           IF moves(i) THEN Add(Indexes[i], r, Del(Indexes[i], row, secondary[i], o), o)
           ELSE IF whole THEN secondary[i]
           ELSE WithoutBack(Indexes[i], secondary[i], o)]
      /\ primary' = IF whole THEN primary ELSE [primary EXCEPT !.back[o] = Null]
      /\ dataHead' =
           IF whole THEN dataHead
           ELSE SubSeq(dataHead, 1, SelectInSeq(dataHead, LAMBDA p : p = o))
      /\ damage' = [damage EXCEPT
           !.misplaced = {i \in DOMAIN Indexes :
             ~moves(i) /\ PlacedBy(Indexes[i], row[o]) # PlacedBy(Indexes[i], new)},
           !.unlinked = IF whole THEN Null ELSE o]
      /\ UNCHANGED <<table, sliceVars>>

\* del and delCopy.
Erase(o) ==
  /\ primary' = HashDel(row, primary, o)
  /\ dataHead' = Remove(dataHead, o)
  /\ secondary' = [i \in DOMAIN secondary |-> Del(Indexes[i], row, secondary[i], o)]
  /\ row' = [p \in DOMAIN row \ {o} |-> row[p]]

\* update: the program has changed the columns of the object itself.
Update(o, new) ==
  LET r == [row EXCEPT ![o] = new]
  IN  /\ row' = r
      /\ primary' = HashUpdate(r, primary, o, o)
      /\ dataHead' = <<o>> \o Remove(dataHead, o)
      /\ secondary' = [i \in DOMAIN secondary |-> Updated(Indexes[i], r, secondary[i], o, o)]

(* Seeded bug: the primary index first, which then finds the copy.             *)
UpdateCopyPrimaryFirst(new) ==
  LET orig == Lookup(row, primary, new.key)
      o == Fresh
      r == (o :> new) @@ row
      moved == HashUpdate(r, primary, orig, o)
      Original == Lookup(r, moved, new.key)
  IN  /\ secondary' = [i \in DOMAIN secondary |->
           IF Original = o THEN Add(Indexes[i], r, secondary[i], o)
           ELSE Updated(Indexes[i], r, secondary[i], Original, o)]
      /\ primary' = moved
      /\ dataHead' = <<o>> \o Remove(dataHead, orig)
      /\ row' = [p \in DOMAIN r \ {orig} |-> r[p]]

\* updateCopy: every index looks the original up in the primary one, which
\* therefore comes last; updateCopyDependent looks it up once.
UpdateCopy(new) ==
  LET o == Fresh
      r == (o :> new) @@ row
      Original == Lookup(r, primary, new.key)
  IN  /\ secondary' = [i \in DOMAIN secondary |-> Updated(Indexes[i], r, secondary[i], Original, o)]
      /\ primary' = HashUpdate(r, primary, Original, o)
      /\ dataHead' = <<o>> \o Remove(dataHead, Original)
      /\ row' = [p \in DOMAIN r \ {Original} |-> r[p]]

Rows(k) == {new \in table.rows : new.key = k}

MayUpdate(o, new) ==
  Range(Indexes) \cap {"median", "tree"} # {} => row[o] = new

\* What the program does to an object it has got hold of.
Use(o) ==
  \/ Erase(o)
  \/ \E new \in Rows(row[o].key) : MayUpdate(o, new) /\ Update(o, new)
  \/ \E new \in Rows(row[o].key) : UpdateCopy(new)

Get(k) ==
  /\ pending = <<>>
  /\ Holds(k)
  /\ Use(Lookup(row, primary, k))
  /\ UNCHANGED <<table, sliceVars, damage>>

\* del of what the ordered index of the table answers.
Answer(i, g) ==
  CASE Indexes[i] = "heap"   -> Extremum(row, secondary[i], g)
    [] Indexes[i] = "median" -> Median(row, secondary[i], g)
    [] Indexes[i] = "tree"   -> RootOf(row, secondary[i], g)

DelAnswer(i, g) ==
  /\ pending = <<>>
  /\ Indexes[i] \in Ordered
  /\ Answer(i, g) # Null
  /\ Erase(Answer(i, g))
  /\ UNCHANGED <<table, sliceVars, damage>>

InSlice(g) == {o \in DOMAIN row : row[o].grp = g}

\* A function gets the objects themselves, or copies of them by their key.
Begin(objs, copies, rows) ==
  /\ pending = <<>>
  /\ objs # <<>>
  /\ pending' = [i \in DOMAIN objs |-> IF copies THEN row[objs[i]].key ELSE objs[i]]
  /\ copying' = copies
  /\ due' = {row[o].key : o \in rows}
  /\ UNCHANGED <<table, row, primary, dataHead, secondary, damage>>

\* The objects slice collects before it calls the function.
Collected(i, g) ==
  IF Indexes[i] = "slices" THEN SliceOf(row, secondary[i], g)
  ELSE SelectSeq(secondary[i].objs, LAMBDA o : InGroup(row, g, o))

Slice(i, g) == Begin(Collected(i, g), FALSE, InSlice(g))

SliceCopy(i, g) == Begin(Collected(i, g), TRUE, InSlice(g))

\* slice over the primary index: its hash does not lead to a slice, so all
\* objects are compared.
PrimaryCollected(g) == SelectSeq(dataHead, LAMBDA o : InGroup(row, g, o))

PrimarySlice(g) == Begin(PrimaryCollected(g), FALSE, InSlice(g))

PrimarySliceCopy(g) == Begin(PrimaryCollected(g), TRUE, InSlice(g))

ForeachCopy == Begin(dataHead, TRUE, DOMAIN row)

Visited(k) ==
  /\ pending' = Tail(pending)
  /\ copying' = (copying /\ Len(pending) > 1)
  /\ due' = due \ {k}
  /\ UNCHANGED <<table, damage>>

Visit ==
  /\ pending # <<>>
  /\ ~copying
  /\ Visited(row[pending[1]].key)
  /\ \/ Use(pending[1])
     \/ UNCHANGED <<row, primary, dataHead, secondary>>

\* With a copy at hand, the function may delete or update any row.
VisitCopy ==
  /\ pending # <<>>
  /\ copying
  /\ Visited(pending[1])
  /\ \/ \E k \in DOMAIN KeyHash : Holds(k) /\ Use(Lookup(row, primary, k))
     \/ UNCHANGED <<row, primary, dataHead, secondary>>

\* Last index first: one that cannot be cleared throws, and it and those before
\* it keep what they hold.
Clear ==
  LET stuck == Max({0} \cup {i \in DOMAIN Indexes : Indexes[i] \in Ordered})
  IN  /\ pending = <<>>
      /\ secondary' = [i \in DOMAIN secondary |->
           IF i <= stuck THEN secondary[i] ELSE Cleared(Indexes[i], secondary[i])]
      /\ damage' = [damage EXCEPT !.cleared = IF stuck = 0 THEN {} ELSE stuck + 1..Len(Indexes)]
      /\ IF stuck # 0 THEN UNCHANGED <<row, primary, dataHead>>
         ELSE /\ row' = <<>>
              /\ dataHead' = <<>>
              /\ primary' = HashClear(primary)
      /\ UNCHANGED <<table, sliceVars>>

Operation ==
  \/ \E new \in table.rows : Insert(new) \/ Overwrite(new)
  \/ \E k \in DOMAIN KeyHash : Get(k)
  \/ \E i \in DOMAIN Indexes, g \in DOMAIN GrpHash : DelAnswer(i, g)
  \/ \E i \in table.slicedBy \ {0}, g \in DOMAIN GrpHash : Slice(i, g) \/ SliceCopy(i, g)
  \/ /\ 0 \in table.slicedBy
     /\ ForeachCopy \/ \E g \in DOMAIN GrpHash : PrimarySlice(g) \/ PrimarySliceCopy(g)
  \/ Visit
  \/ VisitCopy
  \/ Clear

Next ==
  \/ Sound /\ Operation
  \/ ~Sound /\ UNCHANGED vars

Spec == Init /\ [][Next]_vars

-----------------------------------------------------------------------------
Object == DOMAIN row

TypeOK ==
  /\ table \in Tables
  /\ \A o \in Object : row[o] \in table.rows
  /\ Range(dataHead) \subseteq Object
  /\ \A i \in DOMAIN Indexes : Indexes[i] \in {"slices"} \cup Ordered => secondary[i].count \in Nat

\* What an index knows, as a sequence.
Known(kind, idx) ==
  LET Of(x) == CASE kind = "slices" -> x.objs
                 [] kind = "heap"   -> x.heap
                 [] kind = "median" -> x.left \o x.right
                 [] kind = "tree"   -> InOrder(x.tree)
  IN  IF kind = "list" THEN idx.objs
      ELSE IF kind = "array" THEN ArrayForeach(idx)
      ELSE FlattenSeq([b \in 1..idx.size |->
             FlattenSeq([j \in DOMAIN idx.chain[b - 1] |-> Of(idx.chain[b - 1][j])])])

Exactly(s, S) == Len(s) = Cardinality(S) /\ Range(s) = S

\* A back pointer leads to where its object is: after resizing, after another
\* object was moved into its place, after the one before it was deleted.  Not
\* those of an entry that was overwritten together with them.
BackPointersLead ==
  LET IsFirst(idx, o) == \E b \in DOMAIN idx.chain : idx.chain[b] # <<>> /\ FirstOf(idx.chain[b][1]) = o
      IsInside(idx, o) == \E x \in Nodes(idx) : FirstOf(x) = o
      Prev(objs, o) == LET i == SelectInSeq(objs, LAMBDA p : p = o) IN IF i = 1 THEN Null ELSE objs[i - 1]
      Whole == Object \ {damage.unlinked}
  IN  /\ \A o \in Whole : primary.back[o] = IF IsFirst(primary, o) THEN "array" ELSE "pool"
      /\ \A i \in DOMAIN Indexes \ damage.cleared, o \in Whole :
           CASE Indexes[i] = "slices" ->
                  secondary[i].back[o] = IF IsInside(secondary[i], o) THEN "inside" ELSE "own"
             [] Indexes[i] = "list" -> secondary[i].back[o] = Prev(secondary[i].objs, o)
             [] OTHER -> TRUE

\* Every index, and the list through the objects, knows the objects of the
\* table and no other, each once, and finds them by the columns they have,
\* through collisions, resizes, updates and callbacks.  The code gives two
\* reasons for exceptions, and the property says how far each goes.  A clear
\* that throws has emptied the indexes behind the one that threw and no other.
\* add over a key that is there compares hashes only: an index whose hash is
\* the same still knows the object, but where its former columns put it; and
\* an entry class that copies its links ends the list at the object.
IndexesAgree ==
  /\ BackPointersLead
  /\ IF damage.unlinked = Null THEN Exactly(dataHead, Object)
     ELSE Exactly(dataHead, Range(dataHead)) /\ Last(dataHead) = damage.unlinked
  /\ \A o \in Object : Lookup(row, primary, row[o].key) = o
  /\ primary.count = Cardinality(Object)
  /\ \A i \in damage.cleared : Known(Indexes[i], secondary[i]) = <<>>
  /\ \A i \in DOMAIN Indexes \ damage.cleared :
       /\ Exactly(Known(Indexes[i], secondary[i]), Object)
       /\ Indexes[i] = "slices" /\ i \notin damage.misplaced =>
            \A g \in DOMAIN GrpHash : Exactly(SliceOf(row, secondary[i], g), InSlice(g))
       /\ Indexes[i] = "array" => \A o \in Object : ArrayGet(secondary[i], row[o].key) = o

\* The ordered indexes answer what they are for: the winner of the slice, its
\* lower median, and a search tree that is ordered and balanced; unless add has
\* overwritten the order of an object under its hash.
RECURSIVE IsBalanced(_)
IsBalanced(t) ==
  \/ t = <<>>
  \/ /\ BFactor(t) \in -1..1
     /\ t.height = FixHeight(t).height
     /\ IsBalanced(t.left) /\ IsBalanced(t.right)

OrderedAnswers ==
  \A i \in DOMAIN Indexes \ damage.misplaced, g \in DOMAIN GrpHash :
    LET Winners(max, o) == {p \in InSlice(g) : Wins(max, row, p, o)}
        a == Answer(i, g)
    IN  Indexes[i] \in Ordered =>
          /\ (a = Null) = (InSlice(g) = {})
          /\ a # Null =>
               CASE Indexes[i] = "heap" -> Winners(IsMax, a) = {}
                 [] Indexes[i] = "median" ->
                      Cardinality(Winners(FALSE, a)) - Cardinality(Winners(TRUE, a)) \in {-1, 0}
                 [] Indexes[i] = "tree" ->
                      \A x \in Nodes(secondary[i]) :
                        /\ IsBalanced(x.tree)
                        /\ LET s == InOrder(x.tree)
                           IN  \A j \in 1..Len(s) - 1 : Wins(IsMax, row, s[j], s[j + 1])

\* A slice hands out every row that was in it when it began, once, and only
\* objects that are still there, whatever was done to those it handed out
\* before. It hands out a copy even of a row that is gone by then.
SliceVisitsAll ==
  LET KeyOf(x) == IF copying THEN x ELSE row[x].key
  IN  /\ copying \/ Range(pending) \subseteq Object
      /\ Exactly([i \in DOMAIN pending |-> KeyOf(pending[i])], due)
=============================================================================
