---------------------------- MODULE GCHeapProofs -----------------------------
(* Theorems about GCHeap for every heap, every set of words and fields.      *)
(*                                                                           *)
(* The inductive invariant says, for each collector phase, how far the heap  *)
(* has got.  It never speaks of reachability: "marked" is closed under       *)
(* references except through the worklist, and each fixup phase removes the  *)
(* forwarded addresses from the holders it is about and puts none back.      *)
EXTENDS GCHeap, TLAPS

MinorPhases == {"phase0b", "minorMark", "phase1", "phase2b", "phase3", "phase4",
                "phase4b", "phase6"}
AfterMark   == {"phase1", "phase2b", "phase3", "phase4", "phase4b", "phase6"}
AfterCopy   == {"phase2b", "phase3", "phase4", "phase4b", "phase6"}

\* Which collector structures may be in use in which phase.
IdleInv == /\ phase \in {"mutator", "phase0b"} => marked = {}
           /\ phase \notin {"mark", "minorMark"} => grey = {}
           /\ phase \notin MinorPhases => pinned = {}
           /\ phase \notin AfterMark => fwd = NoFwd

\* Tri-colour invariant of the full collection.
MarkInv == phase = "mark" =>
    /\ marked \subseteq OldGen
    /\ \A w \in Word : word[w] \in OldGen => word[w] \in marked
    /\ \A a \in live \cap Nursery, f \in Field :
           ref[a][f] \in OldGen => ref[a][f] \in marked
    /\ \A a \in marked \ grey, f \in Field :
           ref[a][f] \in OldGen => ref[a][f] \in marked

\* What the stack refers to is pinned.
PinInv == phase \in MinorPhases =>
    /\ pinned \subseteq Nursery
    /\ \A w \in Stack : word[w] \in Nursery => word[w] \in pinned

\* Tri-colour invariant of the minor collection; the whole old generation is
\* a root, and stays closed while objects are promoted into it.
MinorMarkInv == phase \in AfterMark \cup {"minorMark"} =>
    /\ marked \subseteq Nursery
    /\ pinned \subseteq marked
    /\ \A w \in Word : word[w] \in Nursery => word[w] \in marked
    /\ \A a \in (live \cap OldGen) \cup (marked \ grey), f \in Field :
           ref[a][f] \in Nursery => ref[a][f] \in marked

\* The forwarding table: only marked, unpinned objects, each to a copy of its
\* own; once copying is over nothing marked is left behind.
FwdInv ==
    /\ \A n \in Nursery : fwd[n] # Null =>
           /\ n \in marked \ pinned
           /\ fwd[n] \in live \cap OldGen
           /\ owner[fwd[n]] = owner[n]
    /\ \A n, m \in Nursery : fwd[n] # Null /\ fwd[n] = fwd[m] => n = m
    /\ phase \in AfterCopy => ToPromote = {}

\* Holders that are fixed refer to pinned nursery objects only.
FixedInv ==
    /\ phase \in {"phase3", "phase4", "phase4b", "phase6"} =>
           \A a \in pinned, f \in Field :
               ref[a][f] \in Nursery => ref[a][f] \in pinned
    /\ phase \in {"phase4", "phase4b", "phase6"} =>
           \A a \in live \cap OldGen, f \in Field :
               ref[a][f] \in Nursery => ref[a][f] \in pinned
    /\ phase \in {"phase4b", "phase6"} =>
           \A w \in Global : word[w] \in Nursery => word[w] \in pinned
    /\ phase = "phase6" =>
           \A w \in Registry : word[w] \in Nursery => word[w] \in pinned

\* Two cells hold the same object only as original and copy.
CopyInv == \A a, b \in live : owner[a] = owner[b] =>
              \/ a = b
              \/ a \in Nursery /\ fwd[a] = b
              \/ b \in Nursery /\ fwd[b] = a

IInv == /\ TypeOK /\ NoDangling /\ IdleInv /\ MarkInv /\ PinInv
        /\ MinorMarkInv /\ FwdInv /\ FixedInv /\ CopyInv

------------------------------------------------------------------------------
(* The invariant holds initially, and every action preserves it.             *)

\* The heap starts empty, every word Null.
LEMMA InitInv == ASSUME Init PROVE IInv
<1> USE HeapAssumption DEF Init, IInv, TypeOK, Addr, Word, Blank, NoFwd
<1>1. TypeOK /\ NoDangling BY DEF NoDangling
<1>2. IdleInv /\ MarkInv /\ PinInv /\ MinorMarkInv
      BY DEF IdleInv, MarkInv, PinInv, MinorMarkInv, MinorPhases, AfterMark
<1>3. FwdInv /\ FixedInv /\ CopyInv
      BY DEF FwdInv, FixedInv, CopyInv, AfterCopy
<1> QED BY <1>1, <1>2, <1>3

\* The new cell is blank, so only the word that refers to it is new.
LEMMA AllocNurseryStep == ASSUME IInv, NEW w \in Stack, AllocNursery(w) PROVE IInv'
<1> USE DEF IInv, TypeOK, Addr, Word, AllocNursery, Allocate, Used, heapVars,
               gcVars, Blank
<1>1. TypeOK' OBVIOUS
<1>2. NoDangling' BY DEF NoDangling
<1>3. IdleInv' BY DEF IdleInv, MinorPhases, AfterMark, NoFwd
<1>4. MarkInv' BY DEF MarkInv
<1>5. PinInv' BY DEF PinInv, MinorPhases
<1>6. MinorMarkInv' BY DEF MinorMarkInv, AfterMark
<1>7. FwdInv' BY DEF FwdInv, AfterCopy, ToPromote
<1>8. FixedInv' BY DEF FixedInv
<1>9. CopyInv' BY DEF CopyInv
<1> QED BY <1>1, <1>2, <1>3, <1>4, <1>5, <1>6, <1>7, <1>8, <1>9

\* As AllocNursery, in the other generation.
LEMMA AllocOldGenStep == ASSUME IInv, NEW w \in Stack, AllocOldGen(w) PROVE IInv'
<1> USE DEF IInv, TypeOK, Addr, Word, AllocOldGen, Allocate, Used, heapVars,
               gcVars, Blank
<1>1. TypeOK' OBVIOUS
<1>2. NoDangling' BY DEF NoDangling
<1>3. IdleInv' BY DEF IdleInv, MinorPhases, AfterMark, NoFwd
<1>4. MarkInv' BY DEF MarkInv
<1>5. PinInv' BY DEF PinInv, MinorPhases
<1>6. MinorMarkInv' BY DEF MinorMarkInv, AfterMark
<1>7. FwdInv' BY DEF FwdInv, AfterCopy, ToPromote
<1>8. FixedInv' BY DEF FixedInv
<1>9. CopyInv' BY DEF CopyInv
<1> QED BY <1>1, <1>2, <1>3, <1>4, <1>5, <1>6, <1>7, <1>8, <1>9

\* A word takes a value another word already had.
LEMMA MoveStep == ASSUME IInv, NEW v \in Word, NEW w \in Word, Move(v, w) PROVE IInv'
<1> USE DEF IInv, TypeOK, Addr, Word, Move, heapVars, gcVars
<1>1. TypeOK' OBVIOUS
<1>2. NoDangling' BY DEF NoDangling
<1>3. IdleInv' BY DEF IdleInv, MinorPhases, AfterMark, NoFwd
<1>4. MarkInv' BY DEF MarkInv
<1>5. PinInv' BY DEF PinInv, MinorPhases
<1>6. MinorMarkInv' BY DEF MinorMarkInv, AfterMark
<1>7. FwdInv' BY DEF FwdInv, AfterCopy, ToPromote
<1>8. FixedInv' BY DEF FixedInv
<1>9. CopyInv' BY DEF CopyInv
<1> QED BY <1>1, <1>2, <1>3, <1>4, <1>5, <1>6, <1>7, <1>8, <1>9

\* A word is cleared.
LEMMA DropStep == ASSUME IInv, NEW w \in Word, Drop(w) PROVE IInv'
<1> USE DEF IInv, TypeOK, Addr, Word, Drop, heapVars, gcVars
<1>1. TypeOK' OBVIOUS
<1>2. NoDangling' BY DEF NoDangling
<1>3. IdleInv' BY DEF IdleInv, MinorPhases, AfterMark, NoFwd
<1>4. MarkInv' BY DEF MarkInv
<1>5. PinInv' BY DEF PinInv, MinorPhases
<1>6. MinorMarkInv' BY DEF MinorMarkInv, AfterMark
<1>7. FwdInv' BY DEF FwdInv, AfterCopy, ToPromote
<1>8. FixedInv' BY DEF FixedInv
<1>9. CopyInv' BY DEF CopyInv
<1> QED BY <1>1, <1>2, <1>3, <1>4, <1>5, <1>6, <1>7, <1>8, <1>9

\* A word takes a value a live object already held.
LEMMA LoadStep ==
    ASSUME IInv, NEW v \in Stack, NEW w \in Stack, NEW f \in Field, Load(v, f, w)
    PROVE  IInv'
<1> USE DEF IInv, TypeOK, Addr, Word, Load, heapVars, gcVars
<1>1. TypeOK' OBVIOUS
<1>2. NoDangling' BY DEF NoDangling
<1>3. IdleInv' BY DEF IdleInv, MinorPhases, AfterMark, NoFwd
<1>4. MarkInv' BY DEF MarkInv
<1>5. PinInv' BY DEF PinInv, MinorPhases
<1>6. MinorMarkInv' BY DEF MinorMarkInv, AfterMark
<1>7. FwdInv' BY DEF FwdInv, AfterCopy, ToPromote
<1>8. FixedInv' BY DEF FixedInv
<1>9. CopyInv' BY DEF CopyInv
<1> QED BY <1>1, <1>2, <1>3, <1>4, <1>5, <1>6, <1>7, <1>8, <1>9

\* A live object takes a value a word already had.
LEMMA StoreStep ==
    ASSUME IInv, NEW v \in Stack, NEW w \in Stack, NEW f \in Field, Store(v, f, w)
    PROVE  IInv'
<1> USE DEF IInv, TypeOK, Addr, Word, Store, heapVars, gcVars
<1>1. TypeOK' OBVIOUS
<1>2. NoDangling' BY DEF NoDangling
<1>3. IdleInv' BY DEF IdleInv, MinorPhases, AfterMark, NoFwd
<1>4. MarkInv' BY DEF MarkInv
<1>5. PinInv' BY DEF PinInv, MinorPhases
<1>6. MinorMarkInv' BY DEF MinorMarkInv, AfterMark
<1>7. FwdInv' BY DEF FwdInv, AfterCopy, ToPromote
<1>8. FixedInv' BY DEF FixedInv
<1>9. CopyInv' BY DEF CopyInv
<1> QED BY <1>1, <1>2, <1>3, <1>4, <1>5, <1>6, <1>7, <1>8, <1>9

\* The roots of the full collection are marked and grey.
LEMMA FullCollectStep == ASSUME IInv, FullCollect PROVE IInv'
<1> USE DEF IInv, TypeOK, Addr, Word, FullCollect, FullRoots, HeldBy,
               FieldsOf, heapVars
<1>1. TypeOK' BY HeapAssumption DEF NoDangling
<1>2. NoDangling' BY DEF NoDangling
<1>3. IdleInv' BY DEF IdleInv, MinorPhases, AfterMark, NoFwd
<1>4. MarkInv' BY DEF MarkInv
<1>5. PinInv' BY DEF PinInv, MinorPhases
<1>6. MinorMarkInv' BY DEF MinorMarkInv, AfterMark
<1>7. FwdInv'
      BY HeapAssumption DEF FwdInv, AfterCopy, ToPromote, IdleInv,
             MinorPhases, AfterMark, NoFwd
<1>8. FixedInv' BY DEF FixedInv
<1>9. CopyInv' BY DEF CopyInv
<1> QED BY <1>1, <1>2, <1>3, <1>4, <1>5, <1>6, <1>7, <1>8, <1>9

\* A cell turns black when everything it refers to is marked.
LEMMA MarkStep == ASSUME IInv, Mark PROVE IInv'
<1> USE DEF IInv, TypeOK, Addr, Word, Mark, Blacken, FieldsOf, heapVars
<1>1. TypeOK' BY HeapAssumption DEF NoDangling
<1>2. NoDangling' BY DEF NoDangling
<1>3. IdleInv' BY DEF IdleInv, MinorPhases, AfterMark, NoFwd
<1>4. MarkInv' BY DEF MarkInv
<1>5. PinInv' BY DEF PinInv, MinorPhases
<1>6. MinorMarkInv' BY DEF MinorMarkInv, AfterMark
<1>7. FwdInv' BY DEF FwdInv, AfterCopy, ToPromote
<1>8. FixedInv' BY DEF FixedInv
<1>9. CopyInv' BY DEF CopyInv
<1> QED BY <1>1, <1>2, <1>3, <1>4, <1>5, <1>6, <1>7, <1>8, <1>9

\* Nothing that stays refers to an unmarked cell: the worklist is empty.
LEMMA SweepStep == ASSUME IInv, Sweep PROVE IInv'
<1> USE DEF IInv, TypeOK, Addr, Word, Sweep, Free, Blank, heapVars
<1>1. TypeOK' BY HeapAssumption DEF IdleInv, MinorPhases, AfterMark, NoFwd
<1>2. NoDangling' BY HeapAssumption DEF NoDangling, MarkInv
<1>3. IdleInv' BY DEF IdleInv, MinorPhases, AfterMark, NoFwd
<1>4. MarkInv' BY DEF MarkInv
<1>5. PinInv' BY DEF PinInv, MinorPhases
<1>6. MinorMarkInv' BY DEF MinorMarkInv, AfterMark
<1>7. FwdInv'
      BY HeapAssumption DEF FwdInv, AfterCopy, ToPromote, IdleInv,
             MinorPhases, AfterMark, NoFwd
<1>8. FixedInv' BY DEF FixedInv
<1>9. CopyInv' BY DEF CopyInv
<1> QED BY <1>1, <1>2, <1>3, <1>4, <1>5, <1>6, <1>7, <1>8, <1>9

\* What stack words refer to is pinned.
LEMMA PinStackStep == ASSUME IInv, PinStack PROVE IInv'
<1> USE DEF IInv, TypeOK, Addr, Word, PinStack, HeldBy, heapVars
<1>1. TypeOK' BY HeapAssumption DEF NoDangling
<1>2. NoDangling' BY DEF NoDangling
<1>3. IdleInv' BY DEF IdleInv, MinorPhases, AfterMark, NoFwd
<1>4. MarkInv' BY DEF MarkInv
<1>5. PinInv' BY DEF PinInv, MinorPhases
<1>6. MinorMarkInv' BY DEF MinorMarkInv, AfterMark
<1>7. FwdInv'
      BY HeapAssumption DEF FwdInv, AfterCopy, ToPromote, IdleInv,
             MinorPhases, AfterMark, NoFwd
<1>8. FixedInv' BY DEF FixedInv
<1>9. CopyInv' BY DEF CopyInv
<1> QED BY <1>1, <1>2, <1>3, <1>4, <1>5, <1>6, <1>7, <1>8, <1>9

\* Everything the old generation, the roots and pins refer to is marked.
LEMMA MarkMinorRootsStep == ASSUME IInv, MarkMinorRoots PROVE IInv'
<1> USE DEF IInv, TypeOK, Addr, Word, MarkMinorRoots, MinorRoots, HeldBy,
               FieldsOf, heapVars
<1>1. TypeOK' BY HeapAssumption DEF NoDangling
<1>2. NoDangling' BY DEF NoDangling
<1>3. IdleInv' BY DEF IdleInv, MinorPhases, AfterMark, NoFwd
<1>4. MarkInv' BY DEF MarkInv
<1>5. PinInv' BY DEF PinInv, MinorPhases
<1>6. MinorMarkInv'
      BY HeapAssumption DEF MinorMarkInv, AfterMark, PinInv, MinorPhases
<1>7. FwdInv'
      BY HeapAssumption DEF FwdInv, AfterCopy, ToPromote, IdleInv,
             MinorPhases, AfterMark, NoFwd
<1>8. FixedInv' BY DEF FixedInv
<1>9. CopyInv' BY DEF CopyInv
<1> QED BY <1>1, <1>2, <1>3, <1>4, <1>5, <1>6, <1>7, <1>8, <1>9

\* As Mark, in the nursery.
LEMMA MinorMarkStep == ASSUME IInv, MinorMark PROVE IInv'
<1> USE DEF IInv, TypeOK, Addr, Word, MinorMark, Blacken, FieldsOf, heapVars
<1>1. TypeOK' BY HeapAssumption DEF NoDangling
<1>2. NoDangling' BY DEF NoDangling
<1>3. IdleInv' BY DEF IdleInv, MinorPhases, AfterMark, NoFwd
<1>4. MarkInv' BY DEF MarkInv
<1>5. PinInv' BY DEF PinInv, MinorPhases
<1>6. MinorMarkInv' BY DEF MinorMarkInv, AfterMark
<1>7. FwdInv' BY DEF FwdInv, AfterCopy, ToPromote
<1>8. FixedInv' BY DEF FixedInv
<1>9. CopyInv' BY DEF CopyInv
<1> QED BY <1>1, <1>2, <1>3, <1>4, <1>5, <1>6, <1>7, <1>8, <1>9

\* Nothing changes but the phase.
LEMMA StartPromotionStep == ASSUME IInv, StartPromotion PROVE IInv'
<1> USE DEF IInv, TypeOK, Addr, Word, StartPromotion, heapVars
<1>1. TypeOK' OBVIOUS
<1>2. NoDangling' BY DEF NoDangling
<1>3. IdleInv' BY DEF IdleInv, MinorPhases, AfterMark, NoFwd
<1>4. MarkInv' BY DEF MarkInv
<1>5. PinInv' BY DEF PinInv, MinorPhases
<1>6. MinorMarkInv' BY DEF MinorMarkInv, AfterMark
<1>7. FwdInv' BY DEF FwdInv, AfterCopy, ToPromote
<1>8. FixedInv' BY DEF FixedInv
<1>9. CopyInv' BY DEF CopyInv
<1> QED BY <1>1, <1>2, <1>3, <1>4, <1>5, <1>6, <1>7, <1>8, <1>9

\* The copy refers to what the original does, which is marked and live.
LEMMA PromoteStep == ASSUME IInv, NEW n \in Nursery, Promote(n) PROVE IInv'
<1> USE DEF IInv, TypeOK, Addr, Word, Promote, ToPromote
<1>1. TypeOK' OBVIOUS
<1>2. NoDangling' BY DEF NoDangling
<1>3. IdleInv' BY DEF IdleInv, MinorPhases, AfterMark, NoFwd
<1>4. MarkInv' BY DEF MarkInv
<1>5. PinInv' BY DEF PinInv, MinorPhases
<1>6. MinorMarkInv'
      BY HeapAssumption DEF MinorMarkInv, AfterMark, IdleInv, MinorPhases,
             NoFwd
<1>7. FwdInv' BY DEF FwdInv, AfterCopy
<1>8. FixedInv' BY DEF FixedInv
<1>9. CopyInv' BY HeapAssumption DEF CopyInv
<1> QED BY <1>1, <1>2, <1>3, <1>4, <1>5, <1>6, <1>7, <1>8, <1>9

\* The object joins the pinned ones before anything was fixed.
LEMMA PromoteFailsStep == ASSUME IInv, NEW n \in Nursery, PromoteFails(n) PROVE IInv'
<1> USE DEF IInv, TypeOK, Addr, Word, PromoteFails, heapVars, ToPromote
<1>1. TypeOK' OBVIOUS
<1>2. NoDangling' BY DEF NoDangling
<1>3. IdleInv' BY DEF IdleInv, MinorPhases, AfterMark, NoFwd
<1>4. MarkInv' BY DEF MarkInv
<1>5. PinInv' BY DEF PinInv, MinorPhases
<1>6. MinorMarkInv' BY DEF MinorMarkInv, AfterMark
<1>7. FwdInv' BY DEF FwdInv, AfterCopy
<1>8. FixedInv' BY DEF FixedInv
<1>9. CopyInv' BY DEF CopyInv
<1> QED BY <1>1, <1>2, <1>3, <1>4, <1>5, <1>6, <1>7, <1>8, <1>9

\* Forwarded addresses give way to live copies.
LEMMA FixPromotedStep == ASSUME IInv, FixPromoted PROVE IInv'
<1> USE DEF IInv, TypeOK, Addr, Word, FixPromoted, FixCells, Forward
<1>1. TypeOK' OBVIOUS
<1>2. NoDangling'
      BY HeapAssumption DEF NoDangling, FwdInv, AfterCopy, ToPromote
<1>3. IdleInv' BY DEF IdleInv, MinorPhases, AfterMark, NoFwd
<1>4. MarkInv' BY DEF MarkInv
<1>5. PinInv' BY DEF PinInv, MinorPhases
<1>6. MinorMarkInv' BY HeapAssumption DEF MinorMarkInv, AfterMark
<1>7. FwdInv' BY DEF FwdInv, AfterCopy, ToPromote
<1>8. FixedInv' BY DEF FixedInv
<1>9. CopyInv' BY DEF CopyInv
<1> QED BY <1>1, <1>2, <1>3, <1>4, <1>5, <1>6, <1>7, <1>8, <1>9

\* Pinned cells refer to no forwarded cell now: what they refer to is
\* marked, and what is marked is pinned or forwarded.
LEMMA FixPinnedStep == ASSUME IInv, FixPinned PROVE IInv'
<1> USE DEF IInv, TypeOK, Addr, Word, FixPinned, FixCells, Forward
<1>1. TypeOK' OBVIOUS
<1>2. NoDangling'
      BY HeapAssumption DEF NoDangling, FwdInv, AfterCopy, ToPromote
<1>3. IdleInv' BY DEF IdleInv, MinorPhases, AfterMark, NoFwd
<1>4. MarkInv' BY DEF MarkInv
<1>5. PinInv' BY DEF PinInv, MinorPhases
<1>6. MinorMarkInv' BY HeapAssumption DEF MinorMarkInv, AfterMark
<1>7. FwdInv' BY DEF FwdInv, AfterCopy, ToPromote
<1>8. FixedInv'
      BY HeapAssumption DEF FixedInv, FwdInv, MinorMarkInv, AfterMark,
             AfterCopy, ToPromote, NoFwd, IdleInv, MinorPhases
<1>9. CopyInv' BY DEF CopyInv
<1> QED BY <1>1, <1>2, <1>3, <1>4, <1>5, <1>6, <1>7, <1>8, <1>9

\* The same of the old generation.
LEMMA FixOldGenStep == ASSUME IInv, FixOldGen PROVE IInv'
<1> USE DEF IInv, TypeOK, Addr, Word, FixOldGen, FixCells, Forward
<1>1. TypeOK' OBVIOUS
<1>2. NoDangling'
      BY HeapAssumption DEF NoDangling, FwdInv, AfterCopy, ToPromote
<1>3. IdleInv' BY DEF IdleInv, MinorPhases, AfterMark, NoFwd
<1>4. MarkInv' BY DEF MarkInv
<1>5. PinInv' BY DEF PinInv, MinorPhases
<1>6. MinorMarkInv' BY HeapAssumption DEF MinorMarkInv, AfterMark
<1>7. FwdInv' BY DEF FwdInv, AfterCopy, ToPromote
<1>8. FixedInv'
      BY HeapAssumption DEF FixedInv, FwdInv, MinorMarkInv, AfterMark,
             AfterCopy, ToPromote, NoFwd, IdleInv, MinorPhases
<1>9. CopyInv' BY DEF CopyInv
<1> QED BY <1>1, <1>2, <1>3, <1>4, <1>5, <1>6, <1>7, <1>8, <1>9

\* The same of the registered roots.
LEMMA FixGlobalsStep == ASSUME IInv, FixGlobals PROVE IInv'
<1> USE DEF IInv, TypeOK, Addr, Word, FixGlobals, FixWords, Forward, heapVars
<1>1. TypeOK' OBVIOUS
<1>2. NoDangling'
      BY HeapAssumption DEF NoDangling, FwdInv, AfterCopy, ToPromote
<1>3. IdleInv' BY DEF IdleInv, MinorPhases, AfterMark, NoFwd
<1>4. MarkInv' BY DEF MarkInv
<1>5. PinInv' BY HeapAssumption DEF PinInv, MinorPhases
<1>6. MinorMarkInv' BY HeapAssumption DEF MinorMarkInv, AfterMark
<1>7. FwdInv' BY DEF FwdInv, AfterCopy, ToPromote
<1>8. FixedInv'
      BY HeapAssumption DEF FixedInv, FwdInv, MinorMarkInv, AfterMark,
             AfterCopy, ToPromote, NoFwd, IdleInv, MinorPhases
<1>9. CopyInv' BY DEF CopyInv
<1> QED BY <1>1, <1>2, <1>3, <1>4, <1>5, <1>6, <1>7, <1>8, <1>9

\* The same of the registries: nothing left refers to a forwarded cell.
LEMMA FixRegistriesStep == ASSUME IInv, FixRegistries PROVE IInv'
<1> USE DEF IInv, TypeOK, Addr, Word, FixRegistries, FixWords, Forward,
               heapVars
<1>1. TypeOK' OBVIOUS
<1>2. NoDangling'
      BY HeapAssumption DEF NoDangling, FwdInv, AfterCopy, ToPromote
<1>3. IdleInv' BY DEF IdleInv, MinorPhases, AfterMark, NoFwd
<1>4. MarkInv' BY DEF MarkInv
<1>5. PinInv' BY HeapAssumption DEF PinInv, MinorPhases
<1>6. MinorMarkInv' BY HeapAssumption DEF MinorMarkInv, AfterMark
<1>7. FwdInv' BY DEF FwdInv, AfterCopy, ToPromote
<1>8. FixedInv'
      BY HeapAssumption DEF FixedInv, FwdInv, MinorMarkInv, AfterMark,
             AfterCopy, ToPromote, NoFwd, IdleInv, MinorPhases
<1>9. CopyInv' BY DEF CopyInv
<1> QED BY <1>1, <1>2, <1>3, <1>4, <1>5, <1>6, <1>7, <1>8, <1>9

\* Phase 7: stack words hold no forwarded address, since what they refer to is
\* pinned.
LEMMA ResetKeepsStack ==
  ASSUME IInv, ResetNursery
  PROVE  \A w \in Stack : word'[w] = word[w]
<1>1. ASSUME NEW w \in Stack PROVE Forward(word[w]) = word[w]
  BY <1>1 DEF IInv, TypeOK, PinInv, FwdInv, MinorPhases, ResetNursery, Forward,
              Word
<1> QED BY <1>1 DEF ResetNursery, FixWords, Word, IInv, TypeOK

\* Phase 6: everything that stays refers to the old generation or to pinned
\* objects, and those are what stays.
LEMMA ResetNurseryStep == ASSUME IInv, ResetNursery PROVE IInv'
<1> USE DEF IInv, TypeOK, Addr, Word, ResetNursery, Free, FixWords, Forward,
            NoFwd, Blank
<1>1. TypeOK' BY HeapAssumption DEF IdleInv, MinorPhases, AfterMark
<1>2. NoDangling'
  <2>1. word' = word BY ResetKeepsStack
  <2>2. ASSUME NEW w \in Word, word[w] # Null PROVE word[w] \in live'
    <3>1. word[w] \in live BY <2>2 DEF NoDangling
    <3>2. word[w] \in Nursery => word[w] \in pinned
      BY DEF PinInv, FixedInv, MinorPhases
    <3> QED BY <3>1, <3>2
  <2>3. ASSUME NEW a \in live', NEW f \in Field, ref'[a][f] # Null
        PROVE  ref'[a][f] \in live'
    <3>1. a \in live /\ ref'[a] = ref[a] BY <2>3
    <3>2. ref[a][f] \in live BY <2>3, <3>1 DEF NoDangling
    <3>3. ref[a][f] \in Nursery => ref[a][f] \in pinned
      BY <2>3 DEF FixedInv
    <3> QED BY <3>1, <3>2, <3>3
  <2> QED BY <2>1, <2>2, <2>3 DEF NoDangling
<1>3. IdleInv' BY DEF IdleInv, MinorPhases, AfterMark
<1>4. MarkInv' BY DEF MarkInv
<1>5. PinInv' BY DEF PinInv, MinorPhases
<1>6. MinorMarkInv' BY DEF MinorMarkInv, AfterMark
<1>7. FwdInv' BY DEF FwdInv, AfterCopy, ToPromote
<1>8. FixedInv' BY DEF FixedInv
<1>9. CopyInv' BY HeapAssumption DEF CopyInv, FwdInv, AfterCopy, ToPromote
<1> QED BY <1>1, <1>2, <1>3, <1>4, <1>5, <1>6, <1>7, <1>8, <1>9

\* Every step, or no step, preserves the invariant.
LEMMA NextStep == ASSUME IInv, [Next]_vars PROVE IInv'
<1>1. CASE Mutator
  BY <1>1, AllocNurseryStep, AllocOldGenStep, MoveStep, DropStep, LoadStep,
     StoreStep DEF Mutator
<1>2. CASE FullGC
  BY <1>2, FullCollectStep, MarkStep, SweepStep DEF FullGC
<1>3. CASE MinorGC
  BY <1>3, PinStackStep, MarkMinorRootsStep, MinorMarkStep, StartPromotionStep,
     PromoteStep, PromoteFailsStep, FixPromotedStep, FixPinnedStep,
     FixOldGenStep, FixGlobalsStep, FixRegistriesStep, ResetNurseryStep
     DEF MinorGC
<1>4. CASE UNCHANGED vars
  BY <1>4 DEF vars, IInv, TypeOK, NoDangling, IdleInv, MarkInv, PinInv,
     MinorMarkInv, FwdInv, FixedInv, CopyInv, ToPromote
<1> QED BY <1>1, <1>2, <1>3, <1>4 DEF Next

------------------------------------------------------------------------------
(* The theorems.                                                             *)

\* The invariant holds in every reachable state of the collector.
THEOREM Invariance == Spec => []IInv
<1>1. Init => IInv BY InitInv
<1>2. IInv /\ [Next]_vars => IInv' BY NextStep
<1> QED BY <1>1, <1>2, PTL DEF Spec

\* Type correctness of the heap and of the collector's structures.
THEOREM TypeCorrect == Spec => []TypeOK
<1>1. IInv => TypeOK BY DEF IInv
<1> QED BY <1>1, Invariance, PTL

\* Memory safety of ts_gc_alloc, sweep_blocks and gc_minor_collect_internal:
\* nothing the runtime can read ever refers to a freed or reset cell.
THEOREM Safety == Spec => []NoDangling
<1>1. IInv => NoDangling BY DEF IInv
<1> QED BY <1>1, Invariance, PTL

\* INV-1 of the code (Phase 5v): after the fixups no holder that survives
\* refers to a nursery cell that is about to be reset.
THEOREM NoStalePointer == Spec => []INV1
<1>1. IInv => INV1
  <2> SUFFICES ASSUME IInv, phase = "phase6" PROVE INV1 BY DEF INV1
  <2>1. \A w \in Word : word[w] \in Nursery => word[w] \in pinned
    BY DEF IInv, PinInv, FixedInv, MinorPhases, Word
  <2>2. \A a \in (live \cap OldGen) \cup pinned, f \in Field :
            ref[a][f] \in Nursery => ref[a][f] \in pinned
    BY DEF IInv, FixedInv
  <2> QED BY <2>1, <2>2 DEF INV1, HeldBy, FieldsOf
<1> QED BY <1>1, Invariance, PTL

\* While compiled code runs, a promoted object has one home: the forwarding
\* table is empty, so no two live cells are original and copy.
THEOREM OneHome == Spec => []UniqueHome
<1>1. IInv => UniqueHome
  BY HeapAssumption DEF IInv, TypeOK, IdleInv, CopyInv, UniqueHome, AfterMark,
     NoFwd, Addr
<1> QED BY <1>1, Invariance, PTL

\* A collection leaves every stack word as it is, Phase 7 included.
THEOREM StackNeverRewritten == Spec => StackStable
<1> DEFINE Stable == \A w \in Stack : word'[w] = word[w]
<1>1. ASSUME IInv, [Next]_vars PROVE [phase # "mutator" => Stable]_vars
  <2> SUFFICES ASSUME Next, phase # "mutator" PROVE Stable
    BY <1>1
  <2>1. ~Mutator
    BY DEF Mutator, AllocNursery, AllocOldGen, Move, Drop, Load, Store
  <2>2. CASE FullGC
    BY <2>2 DEF FullGC, FullCollect, Mark, Sweep, Blacken
  <2>3. CASE FixGlobals \/ FixRegistries
    BY <2>3, <1>1, HeapAssumption
       DEF FixGlobals, FixRegistries, FixWords, IInv, TypeOK, Word
  <2>4. CASE ResetNursery
    BY <2>4, <1>1, ResetKeepsStack
  <2>5. CASE MinorGC /\ ~FixGlobals /\ ~FixRegistries /\ ~ResetNursery
    BY <2>5 DEF MinorGC, PinStack, MarkMinorRoots, MinorMark, StartPromotion,
       Promote, PromoteFails, FixPromoted, FixPinned, FixOldGen, Blacken,
       heapVars
  <2> QED BY <2>1, <2>2, <2>3, <2>4, <2>5 DEF Next
<1> QED BY <1>1, Invariance, PTL DEF Spec, StackStable
=============================================================================
