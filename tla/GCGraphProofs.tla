---------------------------- MODULE GCGraphProofs ----------------------------
(* GCHeap implements ObjectGraph, for every heap: a collection that moves    *)
(* objects changes no reference a program can see.                           *)
(*                                                                           *)
(* During a minor collection an object may have two cells, the original and  *)
(* the copy, and their words may differ: one may be fixed and the other not  *)
(* yet.  What the proof adds to the invariant of GCHeapProofs is that the    *)
(* two always name the same objects, so that it does not matter which of     *)
(* them stands for the object.                                               *)
EXTENDS GCHeapProofs

\* Every allocated cell holds an object.
Owned == \A a \in live : owner[a] \in Obj

\* Cells of one object refer to the same objects.
SameNames == \A a, b \in live : owner[a] = owner[b] =>
                 \A f \in Field : Name(ref[a][f]) = Name(ref[b][f])

GInv == IInv /\ Owned /\ SameNames

Names(a) == [f \in Field |-> Name(ref[a][f])]

------------------------------------------------------------------------------
(* The graph, cell by cell.                                                  *)

\* The cell chosen for an object in use is one of its cells.
LEMMA HomeOf ==
  ASSUME NEW o \in Used
  PROVE  Home(o) \in live /\ owner[Home(o)] = o
<1>1. \E a \in live : owner[a] = o BY DEF Used
<1> QED BY <1>1 DEF Home

\* Any cell of an object will do to read its references.
LEMMA EdgeOf == GInv =>
    /\ \A a \in live : GraphEdge[owner[a]] = Names(a)
    /\ \A o \in Obj \ Used : GraphEdge[o] = Blank
    /\ GraphEdge = [o \in Obj |-> GraphEdge[o]]
<1> SUFFICES ASSUME GInv
             PROVE  /\ \A a \in live : GraphEdge[owner[a]] = Names(a)
                    /\ \A o \in Obj \ Used : GraphEdge[o] = Blank
                    /\ GraphEdge = [o \in Obj |-> GraphEdge[o]]
  OBVIOUS
<1>1. ASSUME NEW a \in live PROVE GraphEdge[owner[a]] = Names(a)
  <2>1. owner[a] \in Used /\ owner[a] \in Obj BY DEF GInv, Owned, Used
  <2>2. GraphEdge[owner[a]] = Names(Home(owner[a]))
    BY <2>1 DEF GraphEdge, Names
  <2>3. Home(owner[a]) \in live /\ owner[Home(owner[a])] = owner[a]
    BY <2>1, HomeOf
  <2> QED BY <2>2, <2>3 DEF GInv, SameNames, Names
<1>2. \A o \in Obj \ Used : GraphEdge[o] = Blank BY DEF GraphEdge
<1>3. GraphEdge = [o \in Obj |-> GraphEdge[o]] BY DEF GraphEdge
<1> QED BY <1>1, <1>2, <1>3

\* The same of the next state.
LEMMA EdgeOfNext == GInv' =>
    /\ \A a \in live' : GraphEdge'[owner'[a]] = Names(a)'
    /\ \A o \in Obj \ Used' : GraphEdge'[o] = Blank
    /\ GraphEdge' = [o \in Obj |-> GraphEdge'[o]]
<1>1. (GInv =>
        /\ \A a \in live : GraphEdge[owner[a]] = Names(a)
        /\ \A o \in Obj \ Used : GraphEdge[o] = Blank
        /\ GraphEdge = [o \in Obj |-> GraphEdge[o]])'
  BY EdgeOf, PTL
<1> QED BY <1>1

\* When the cells of the next state show what those of this one do, no edge
\* of the graph changes.
LEMMA EdgesEqual ==
  ASSUME GInv, GInv', Used' = Used,
         \A a \in live : \E b \in live' : owner'[b] = owner[a] /\ Names(b)' = Names(a)
  PROVE  GraphEdge' = GraphEdge
<1>1. ASSUME NEW o \in Obj PROVE GraphEdge'[o] = GraphEdge[o]
  <2>1. CASE o \in Used
    <3>1. PICK a \in live : owner[a] = o BY <2>1 DEF Used
    <3>2. PICK b \in live' : owner'[b] = o /\ Names(b)' = Names(a) BY <3>1
    <3>3. GraphEdge[o] = Names(a) BY <3>1, EdgeOf
    <3>4. GraphEdge'[o] = Names(b)' BY <3>2, EdgeOfNext
    <3> QED BY <3>2, <3>3, <3>4
  <2>2. CASE o \notin Used BY <2>2, EdgeOf, EdgeOfNext
  <2> QED BY <2>1, <2>2
<1>2. /\ GraphEdge = [o \in Obj |-> GraphEdge[o]]
      /\ GraphEdge' = [o \in Obj |-> GraphEdge'[o]]
  BY EdgeOf, EdgeOfNext
<1> QED BY <1>1, <1>2

------------------------------------------------------------------------------
(* Steps that rename: no cell comes or goes, and every word and field names  *)
(* the object it named.                                                      *)

Rename == /\ UNCHANGED <<live, owner>>
          /\ \A w \in Word : Name(word'[w]) = Name(word[w])
          /\ \A a \in live, f \in Field : Name(ref'[a][f]) = Name(ref[a][f])

\* Such a step is invisible.
LEMMA RenameStep ==
  ASSUME GInv, IInv', Rename
  PROVE  GInv' /\ UNCHANGED <<Used, GraphRoot, GraphEdge>>
<1>1. Owned' /\ SameNames'
  BY DEF GInv, Owned, SameNames, Rename, Name
<1>2. GInv' BY <1>1 DEF GInv
<1>3. Used' = Used BY DEF Used, Rename
<1>4. GraphRoot' = GraphRoot BY DEF GraphRoot, Rename, Name
<1>5. ASSUME NEW a \in live PROVE Names(a)' = Names(a)
  BY DEF Names, Rename, Name
<1>6. GraphEdge' = GraphEdge
  <2>1. \A a \in live : a \in live' /\ owner'[a] = owner[a] BY DEF Rename
  <2> QED BY <1>2, <1>3, <1>5, <2>1, EdgesEqual
<1> QED BY <1>2, <1>3, <1>4, <1>6

\* The forwarding table leads to a copy of the same object.
LEMMA ForwardName ==
  ASSUME IInv, NEW p \in Addr \cup {Null}
  PROVE  Name(Forward(p)) = Name(p)
BY HeapAssumption DEF IInv, TypeOK, FwdInv, Forward, Name, Addr

\* Marking moves nothing.
LEMMA CollectRenames ==
  ASSUME IInv,
         \/ FullCollect \/ Mark \/ PinStack \/ MarkMinorRoots \/ MinorMark
         \/ StartPromotion \/ \E n \in Nursery : PromoteFails(n)
  PROVE  Rename
BY DEF FullCollect, Mark, PinStack, MarkMinorRoots, MinorMark, StartPromotion,
       PromoteFails, Blacken, heapVars, Rename

\* A fixup writes forwarded addresses only.
LEMMA FixupRenames ==
  ASSUME IInv, FixPromoted \/ FixPinned \/ FixOldGen \/ FixGlobals \/ FixRegistries
  PROVE  Rename
<1>1. \A w \in Word : word[w] \in Addr \cup {Null}
  BY DEF IInv, TypeOK
<1>2. \A a \in live, f \in Field : a \in Addr /\ ref[a][f] \in Addr \cup {Null}
  BY DEF IInv, TypeOK
<1>3. UNCHANGED <<live, owner>>
  BY DEF FixPromoted, FixPinned, FixOldGen, FixGlobals, FixRegistries, heapVars
<1>4. ASSUME NEW w \in Word PROVE word'[w] = word[w] \/ word'[w] = Forward(word[w])
  BY DEF FixPromoted, FixPinned, FixOldGen, FixGlobals, FixRegistries, FixWords
<1>5. ASSUME NEW a \in live, NEW f \in Field
      PROVE  ref'[a][f] = ref[a][f] \/ ref'[a][f] = Forward(ref[a][f])
  <2>1. a \in Addr BY <1>2
  <2> QED BY <2>1 DEF FixPromoted, FixPinned, FixOldGen, FixGlobals, FixRegistries,
                      FixCells, heapVars
<1>6. \A w \in Word : Name(word'[w]) = Name(word[w])
  BY <1>1, <1>4, ForwardName
<1>7. \A a \in live, f \in Field : Name(ref'[a][f]) = Name(ref[a][f])
  BY <1>2, <1>5, ForwardName
<1> QED BY <1>3, <1>6, <1>7 DEF Rename

\* The copy names what the original does.
LEMMA PromoteGraph ==
  ASSUME GInv, IInv', NEW n \in Nursery, Promote(n)
  PROVE  GInv' /\ UNCHANGED <<Used, GraphRoot, GraphEdge>>
<1>1. PICK a \in OldGen \ live :
          /\ live' = live \cup {a}
          /\ ref' = [ref EXCEPT ![a] = ref[n]]
          /\ owner' = [owner EXCEPT ![a] = owner[n]]
  BY DEF Promote
<1>2. n \in live /\ n # a /\ a \in Addr
  BY <1>1 DEF Promote, ToPromote, GInv, IInv, TypeOK, Addr
<1>3. /\ owner'[a] = owner[n] /\ ref'[a] = ref[n]
      /\ \A b \in live : b # a /\ owner'[b] = owner[b] /\ ref'[b] = ref[b]
  BY <1>1, <1>2 DEF GInv, IInv, TypeOK, Addr
<1>4. word' = word BY DEF Promote
<1>5. ASSUME NEW p \in live \cup {Null} PROVE Name(p)' = Name(p)
  BY <1>3 DEF Name
<1>6. \A b \in live, f \in Field : ref[b][f] \in live \cup {Null}
  BY DEF GInv, IInv, NoDangling
<1>7. \A b \in live, f \in Field : Name(ref[b][f])' = Name(ref[b][f])
  BY <1>3, <1>6 DEF Name
<1>8. \A f \in Field : Name(ref[a][f])' = Name(ref[n][f])
  BY <1>2, <1>3, <1>6 DEF Name
<1>9. Owned'
  BY <1>1, <1>2, <1>3 DEF GInv, Owned
<1>10. SameNames'
  <2> SUFFICES ASSUME NEW b \in live', NEW c \in live', owner'[b] = owner'[c],
                      NEW f \in Field
               PROVE  Name(ref[b][f])' = Name(ref[c][f])'
    BY DEF SameNames
  <2> DEFINE orig(d) == IF d = a THEN n ELSE d
  <2>1. ASSUME NEW d \in live'
        PROVE  /\ orig(d) \in live /\ owner[orig(d)] = owner'[d]
               /\ Name(ref[d][f])' = Name(ref[orig(d)][f])
    BY <1>1, <1>2, <1>3, <1>7, <1>8
  <2>2. Name(ref[orig(b)][f]) = Name(ref[orig(c)][f])
    BY <2>1 DEF GInv, SameNames
  <2> QED BY <2>1, <2>2
<1>11. GInv' BY <1>9, <1>10 DEF GInv
<1>12. Used' = Used BY <1>1, <1>2, <1>3 DEF Used
<1>13. GraphRoot' = GraphRoot
  <2>1. \A w \in Word : Name(word[w])' = Name(word[w])
    BY <1>3, <1>4 DEF GInv, IInv, NoDangling, Name
  <2> QED BY <2>1 DEF GraphRoot
<1>14. GraphEdge' = GraphEdge
  <2>1. \A b \in live : b \in live' /\ owner'[b] = owner[b] /\ Names(b)' = Names(b)
    BY <1>1, <1>3, <1>7 DEF Names
  <2> QED BY <2>1, <1>11, <1>12, EdgesEqual
<1> QED BY <1>11, <1>12, <1>13, <1>14

------------------------------------------------------------------------------
(* Steps that free cells.                                                    *)

\* Whatever a collection keeps, if nothing dangles afterwards and no word
\* changed, it only dropped objects nothing refers to.
LEMMA FreeStep ==
  ASSUME GInv, IInv', NEW kept \in SUBSET live, Free(kept), UNCHANGED word
  PROVE  GInv' /\ \E survivors \in SUBSET Used : Graph!Reclaim(survivors)
<1>1. /\ live' = kept
      /\ \A a \in kept : a \in live /\ owner'[a] = owner[a] /\ ref'[a] = ref[a]
  BY DEF Free, GInv, IInv, TypeOK
<1>2. ASSUME NEW p \in kept \cup {Null} PROVE Name(p)' = Name(p)
  BY <1>1 DEF Name
<1>3. \A w \in Word : word[w] \in kept \cup {Null}
  BY <1>1 DEF IInv, NoDangling
<1>4. \A a \in kept, f \in Field : ref[a][f] \in kept \cup {Null}
  BY <1>1 DEF IInv, NoDangling
<1>5. \A a \in kept, f \in Field : Name(ref[a][f])' = Name(ref[a][f])
  BY <1>1, <1>4 DEF Name
<1>6. Owned' /\ SameNames'
  BY <1>1, <1>5 DEF GInv, Owned, SameNames
<1>7. GInv' BY <1>6 DEF GInv
<1>8. Used' \in SUBSET Used
  BY <1>1 DEF Used
<1>9. GraphRoot' = GraphRoot
  BY <1>2, <1>3 DEF GraphRoot, Name
<1>10. \A p \in kept \cup {Null} : Name(p) \in Used' \cup {Null}
  BY <1>1 DEF Name, Used
<1>11. \A w \in Word : GraphRoot[w] \in Used' \cup {Null}
  BY <1>3, <1>10 DEF GraphRoot
<1>12. ASSUME NEW o \in Used'
       PROVE  /\ GraphEdge'[o] = GraphEdge[o]
              /\ \A f \in Field : GraphEdge[o][f] \in Used' \cup {Null}
  <2>1. PICK a \in kept : owner[a] = o /\ owner'[a] = o BY <1>1 DEF Used
  <2>2. GraphEdge[o] = Names(a) BY <1>1, <2>1, EdgeOf
  <2>3. GraphEdge'[o] = Names(a)' BY <1>1, <1>7, <2>1, EdgeOfNext
  <2>4. Names(a)' = Names(a) BY <1>5 DEF Names
  <2> QED BY <1>4, <1>10, <2>2, <2>3, <2>4 DEF Names
<1>13. GraphEdge' = [o \in Obj |-> IF o \in Used' THEN GraphEdge[o] ELSE Blank]
  BY <1>7, <1>12, EdgeOfNext
<1>14. Graph!Reclaim(Used')
  BY <1>9, <1>11, <1>12, <1>13 DEF Graph!Reclaim, Graph!NoEdges, Blank
<1> QED BY <1>7, <1>8, <1>14

\* Sweeping keeps every word; so does the reset of the nursery, since what
\* the stack refers to was pinned.
LEMMA ReclaimSteps ==
  ASSUME GInv, IInv', Sweep \/ ResetNursery
  PROVE  GInv' /\ \E survivors \in SUBSET Used : Graph!Reclaim(survivors)
<1>1. CASE Sweep
  <2>1. (live \cap Nursery) \cup (live \cap marked) \in SUBSET live OBVIOUS
  <2> QED BY <1>1, <2>1, FreeStep DEF Sweep
<1>2. CASE ResetNursery
  <2>1. (live \cap OldGen) \cup pinned \in SUBSET live
    BY DEF GInv, IInv, TypeOK
  <2>2. UNCHANGED word
    BY <1>2, ResetKeepsStack
       DEF ResetNursery, FixWords, GInv, IInv, TypeOK
  <2> QED BY <1>2, <2>1, <2>2, FreeStep DEF ResetNursery
<1> QED BY <1>1, <1>2

------------------------------------------------------------------------------
(* The mutator: each operation on cells is the operation on objects.         *)

\* An allocation gives the word an object nobody uses.
LEMMA AllocateGraph ==
  ASSUME GInv, IInv', NEW w \in Word, NEW a \in Addr \ live, Allocate(w, a)
  PROVE  GInv' /\ \E o \in Obj : Graph!New(w, o)
<1>1. PICK o \in Obj \ Used :
          /\ live' = live \cup {a}
          /\ ref' = [ref EXCEPT ![a] = Blank]
          /\ owner' = [owner EXCEPT ![a] = o]
          /\ word' = [word EXCEPT ![w] = a]
  BY DEF Allocate
<1>2. /\ owner'[a] = o /\ ref'[a] = Blank
      /\ \A b \in live : b # a /\ owner'[b] = owner[b] /\ ref'[b] = ref[b]
  BY <1>1 DEF GInv, IInv, TypeOK
<1>3. \A b \in live : owner[b] # o BY <1>1 DEF Used
<1>4. \A b \in live, f \in Field : ref[b][f] \in live \cup {Null}
  BY DEF GInv, IInv, NoDangling
<1>5. \A b \in live, f \in Field : Name(ref[b][f])' = Name(ref[b][f])
  BY <1>2, <1>4 DEF Name
<1>6. Owned' BY <1>1, <1>2 DEF GInv, Owned
<1>7. SameNames'
  BY <1>1, <1>2, <1>3, <1>5 DEF GInv, SameNames
<1>8. GInv' BY <1>6, <1>7 DEF GInv
<1>9. Used' = Used \cup {o} BY <1>1, <1>2 DEF Used
<1>10. GraphRoot' = [GraphRoot EXCEPT ![w] = o]
  <2>1. a # Null BY HeapAssumption
  <2>2. \A v \in Word : v # w => Name(word[v])' = Name(word[v])
    BY <1>1, <1>2 DEF GInv, IInv, TypeOK, NoDangling, Name
  <2>3. Name(word[w])' = o
    BY <1>1, <1>2, <2>1 DEF GInv, IInv, TypeOK, Name
  <2> QED BY <2>2, <2>3 DEF GraphRoot
<1>11. GraphEdge' = GraphEdge
  <2>1. ASSUME NEW x \in Obj PROVE GraphEdge'[x] = GraphEdge[x]
    <3>1. CASE x \in Used
      <4>1. PICK b \in live : owner[b] = x BY <3>1 DEF Used
      <4>2. b \in live' /\ owner'[b] = x BY <1>1, <1>2, <4>1
      <4>3. Names(b)' = Names(b) BY <1>5 DEF Names
      <4> QED BY <1>8, <4>1, <4>2, <4>3, EdgeOf, EdgeOfNext
    <3>2. CASE x = o
      <4>1. GraphEdge[x] = Blank BY <1>1, <3>2, EdgeOf
      <4>2. GraphEdge'[x] = Names(a)' BY <1>1, <1>2, <1>8, <3>2, EdgeOfNext
      <4>3. Names(a)' = Blank BY <1>2 DEF Names, Name, Blank
      <4> QED BY <4>1, <4>2, <4>3
    <3>3. CASE x \notin Used'
      BY <1>8, <1>9, <3>3, EdgeOf, EdgeOfNext
    <3> QED BY <1>9, <3>1, <3>2, <3>3
  <2> QED BY <1>8, <2>1, EdgeOf, EdgeOfNext
<1>12. Graph!New(w, o)
  BY <1>1, <1>9, <1>10, <1>11 DEF Graph!New
<1> QED BY <1>8, <1>12

\* A word named by another, or by nothing: the cells are as they were.
LEMMA WordsOnly ==
  ASSUME GInv, IInv', UNCHANGED heapVars
  PROVE  GInv' /\ UNCHANGED <<Used, GraphEdge>>
<1>1. Owned' /\ SameNames' BY DEF GInv, Owned, SameNames, heapVars, Name
<1>2. GInv' BY <1>1 DEF GInv
<1>3. Used' = Used BY DEF Used, heapVars
<1>4. ASSUME NEW a \in live
      PROVE  a \in live' /\ owner'[a] = owner[a] /\ Names(a)' = Names(a)
  BY DEF heapVars, Names, Name
<1>5. GraphEdge' = GraphEdge BY <1>2, <1>3, <1>4, EdgesEqual
<1> QED BY <1>2, <1>3, <1>5

\* Move gives a word the object of another.
LEMMA MoveGraph ==
  ASSUME GInv, IInv', NEW v \in Word, NEW w \in Word, Move(v, w)
  PROVE  GInv' /\ Graph!Copy(v, w)
<1>1. GInv' /\ UNCHANGED <<Used, GraphEdge>> BY WordsOnly DEF Move
<1>2. GraphRoot' = [GraphRoot EXCEPT ![w] = GraphRoot[v]]
  BY DEF Move, heapVars, GraphRoot, Name, GInv, IInv, TypeOK
<1> QED BY <1>1, <1>2 DEF Graph!Copy

\* Drop lets go of one.
LEMMA DropGraph ==
  ASSUME GInv, IInv', NEW w \in Word, Drop(w)
  PROVE  GInv' /\ Graph!Drop(w)
<1>1. GInv' /\ UNCHANGED <<Used, GraphEdge>> BY WordsOnly DEF Drop
<1>2. GraphRoot' = [GraphRoot EXCEPT ![w] = Null]
  BY DEF Drop, heapVars, GraphRoot, Name, GInv, IInv, TypeOK
<1> QED BY <1>1, <1>2 DEF Graph!Drop

\* Load reads a reference of the object the word names.
LEMMA LoadGraph ==
  ASSUME GInv, IInv', NEW v \in Stack, NEW w \in Stack, NEW f \in Field, Load(v, f, w)
  PROVE  GInv' /\ Graph!Load(v, f, w)
<1>1. GInv' /\ UNCHANGED <<Used, GraphEdge>> BY WordsOnly DEF Load
<1>2. v \in Word /\ w \in Word BY DEF Word
<1>3. word[v] \in live BY <1>2 DEF Load, GInv, IInv, NoDangling
<1>4. GraphRoot[v] = owner[word[v]] /\ GraphRoot[v] # Null
  BY <1>2, <1>3, HeapAssumption DEF GraphRoot, Name, Load, GInv, Owned
<1>5. GraphEdge[GraphRoot[v]][f] = Name(ref[word[v]][f])
  <2>1. GraphEdge[owner[word[v]]] = Names(word[v]) BY <1>3, EdgeOf
  <2>2. Names(word[v])[f] = Name(ref[word[v]][f]) BY DEF Names
  <2> QED BY <1>4, <2>1, <2>2
<1>6. GraphRoot' = [GraphRoot EXCEPT ![w] = Name(ref[word[v]][f])]
  BY <1>2 DEF Load, heapVars, GraphRoot, Name, GInv, IInv, TypeOK
<1> QED BY <1>1, <1>4, <1>5, <1>6 DEF Graph!Load

\* A store reaches the only cell of its object: while the mutator runs nothing
\* is forwarded.
LEMMA StoreGraph ==
  ASSUME GInv, IInv', NEW v \in Stack, NEW w \in Stack, NEW f \in Field, Store(v, f, w)
  PROVE  GInv' /\ Graph!Store(v, f, w)
<1> DEFINE c == word[v]
<1>1. v \in Word /\ w \in Word BY DEF Word
<1>2. c \in live /\ c \in Addr BY <1>1 DEF Store, GInv, IInv, NoDangling, TypeOK
<1>3. \A a \in live : owner[a] = owner[c] => a = c
  BY <1>2, HeapAssumption
     DEF Store, GInv, IInv, TypeOK, IdleInv, CopyInv, AfterMark, NoFwd, Addr
<1>4. UNCHANGED <<live, owner, word>> BY DEF Store
<1>5. /\ ref'[c] = [ref[c] EXCEPT ![f] = word[w]]
      /\ \A a \in live : a # c => ref'[a] = ref[a]
  BY <1>2 DEF Store, GInv, IInv, TypeOK
<1>6. Used' = Used BY <1>4 DEF Used
<1>7. GraphRoot' = GraphRoot BY <1>4 DEF GraphRoot, Name
<1>8. \A a \in live : a # c => Names(a)' = Names(a)
  BY <1>4, <1>5 DEF Names, Name
<1>9. Names(c)' = [Names(c) EXCEPT ![f] = Name(word[w])]
  <2>1. ref[c] \in [Field -> Addr \cup {Null}] BY <1>2 DEF GInv, IInv, TypeOK
  <2> QED BY <1>4, <1>5, <2>1 DEF Names, Name
<1>10. Owned' BY <1>4 DEF GInv, Owned
<1>11. SameNames'
  <2> SUFFICES ASSUME NEW a \in live, NEW b \in live, owner[a] = owner[b],
                      NEW g \in Field
               PROVE  Name(ref[a][g])' = Name(ref[b][g])'
    BY <1>4 DEF SameNames
  <2>1. CASE a = c \/ b = c BY <1>3, <2>1
  <2>2. CASE a # c /\ b # c
    <3>1. Name(ref[a][g]) = Name(ref[b][g]) BY DEF GInv, SameNames
    <3> QED BY <1>4, <1>5, <2>2, <3>1 DEF Name
  <2> QED BY <2>1, <2>2
<1>12. GInv' BY <1>10, <1>11 DEF GInv
<1>13. GraphRoot[v] = owner[c] /\ GraphRoot[v] # Null /\ GraphRoot[v] \in Obj
  BY <1>1, <1>2, HeapAssumption DEF GraphRoot, Name, Store, GInv, Owned
<1>14. GraphRoot[w] = Name(word[w]) BY <1>1 DEF GraphRoot
<1>15. GraphEdge' = [GraphEdge EXCEPT ![owner[c]][f] = Name(word[w])]
  <2>1. GraphEdge[owner[c]] = Names(c) BY <1>2, EdgeOf
  <2>2. GraphEdge'[owner[c]] = Names(c)' BY <1>2, <1>4, <1>12, EdgeOfNext
  <2>3. ASSUME NEW o \in Obj, o # owner[c] PROVE GraphEdge'[o] = GraphEdge[o]
    <3>1. CASE o \in Used
      <4>1. PICK a \in live : owner[a] = o BY <3>1 DEF Used
      <4>2. Names(a)' = Names(a) BY <1>8, <2>3, <4>1
      <4> QED BY <1>4, <1>12, <4>1, <4>2, EdgeOf, EdgeOfNext
    <3>2. CASE o \notin Used BY <1>6, <1>12, <3>2, EdgeOf, EdgeOfNext
    <3> QED BY <3>1, <3>2
  <2>4. /\ GraphEdge = [o \in Obj |-> GraphEdge[o]]
        /\ GraphEdge' = [o \in Obj |-> GraphEdge'[o]]
    BY <1>12, EdgeOf, EdgeOfNext
  <2> QED BY <1>9, <1>13, <2>1, <2>2, <2>3, <2>4
<1> QED BY <1>6, <1>7, <1>12, <1>13, <1>14, <1>15 DEF Graph!Store

------------------------------------------------------------------------------
(* The theorem.                                                              *)

\* An empty heap is the empty graph.
LEMMA InitGraph == ASSUME Init PROVE GInv /\ Graph!Init
<1>1. Owned /\ SameNames BY DEF Init, Owned, SameNames
<1>2. GInv BY <1>1, InitInv DEF GInv
<1>3. Used = {} BY DEF Init, Used
<1>4. GraphRoot = [w \in Word |-> Null] BY DEF Init, GraphRoot, Name
<1>5. GraphEdge = [o \in Obj |-> Blank] BY <1>2, <1>3, EdgeOf
<1> QED BY <1>2, <1>3, <1>4, <1>5 DEF Graph!Init, Graph!NoEdges, Blank

\* Every step is an operation on the graph, a reclamation, or invisible.
LEMMA NextGraph == ASSUME GInv, [Next]_vars PROVE GInv' /\ [Graph!Next]_(Graph!gvars)
<1>1. IInv' BY NextStep DEF GInv
<1>2. CASE Mutator
  <2>1. CASE \E w \in Stack : AllocNursery(w) \/ AllocOldGen(w)
    <3>1. PICK w \in Word, a \in Addr \ live : Allocate(w, a)
      BY <2>1 DEF AllocNursery, AllocOldGen, Addr, Word
    <3>2. GInv' /\ \E o \in Obj : Graph!New(w, o) BY <1>1, <3>1, AllocateGraph
    <3> QED BY <3>2 DEF Graph!Next
  <2>2. CASE \E v, w \in Word : Move(v, w)
    BY <1>1, <2>2, MoveGraph DEF Graph!Next
  <2>3. CASE \E w \in Word : Drop(w)
    BY <1>1, <2>3, DropGraph DEF Graph!Next
  <2>4. CASE \E v, w \in Stack, f \in Field : Load(v, f, w)
    <3>1. PICK v \in Stack, w \in Stack, f \in Field : Load(v, f, w) BY <2>4
    <3>2. GInv' /\ Graph!Load(v, f, w) BY <1>1, <3>1, LoadGraph
    <3> QED BY <3>2 DEF Graph!Next, Word
  <2>5. CASE \E v, w \in Stack, f \in Field : Store(v, f, w)
    <3>1. PICK v \in Stack, w \in Stack, f \in Field : Store(v, f, w) BY <2>5
    <3>2. GInv' /\ Graph!Store(v, f, w) BY <1>1, <3>1, StoreGraph
    <3> QED BY <3>2 DEF Graph!Next, Word
  <2> QED BY <1>2, <2>1, <2>2, <2>3, <2>4, <2>5 DEF Mutator
<1>3. CASE Sweep \/ ResetNursery
  <2>1. GInv' /\ \E survivors \in SUBSET Used : Graph!Reclaim(survivors)
    BY <1>1, <1>3, ReclaimSteps
  <2> QED BY <2>1 DEF Graph!Next
<1>4. CASE \E n \in Nursery : Promote(n)
  BY <1>1, <1>4, PromoteGraph DEF Graph!gvars
<1>5. CASE \/ FullCollect \/ Mark \/ PinStack \/ MarkMinorRoots \/ MinorMark
           \/ StartPromotion \/ \E n \in Nursery : PromoteFails(n)
  BY <1>1, <1>5, CollectRenames, RenameStep DEF GInv, Graph!gvars
<1>6. CASE FixPromoted \/ FixPinned \/ FixOldGen \/ FixGlobals \/ FixRegistries
  BY <1>1, <1>6, FixupRenames, RenameStep DEF GInv, Graph!gvars
<1>7. CASE UNCHANGED vars
  <2>1. Rename BY <1>7 DEF vars, Rename
  <2> QED BY <1>1, <2>1, RenameStep DEF Graph!gvars
<1> QED BY <1>2, <1>3, <1>4, <1>5, <1>6, <1>7 DEF Next, FullGC, MinorGC

\* The collector is invisible to compiled code: gc_collect_internal and
\* gc_minor_collect_internal leave the graph of objects as it is, or drop
\* objects nothing refers to, and every load and store in between acts on the
\* one object it names.
THEOREM MovingIsInvisible == Spec => ImplementsGraph
<1>1. Init => GInv /\ Graph!Init BY InitGraph
<1>2. GInv /\ [Next]_vars => GInv' /\ [Graph!Next]_(Graph!gvars) BY NextGraph
<1> QED BY <1>1, <1>2, PTL DEF Spec, ImplementsGraph, Graph!Spec
=============================================================================
