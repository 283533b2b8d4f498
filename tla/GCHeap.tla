------------------------------- MODULE GCHeap --------------------------------
(* The generational collector of the runtime, src/runtime/src/TsGC.cpp:      *)
(*   - objects are born in a nursery (ts_gc_alloc) or directly in the old    *)
(*     generation (ts_gc_alloc_old_gen, large objects, tenured builtins);    *)
(*   - a full collection marks and sweeps the old generation in place;       *)
(*   - a minor collection pins what the stack refers to, marks the nursery,  *)
(*     copies what is marked and not pinned into the old generation, and     *)
(*     rewrites every holder of a copied object, phase by phase.             *)
(* Collections stop the (single) mutator.  A heap is a set of cells, one     *)
(* object each; sizes, blocks, fragments and cards are abstracted: every     *)
(* scan of the code is a full one, so a card decides nothing.  Conservative  *)
(* scanning is kept: a scan may take any cell for referenced.                *)
(* Weak references and finalizers are left out.                              *)
EXTENDS Naturals

CONSTANTS Nursery,   \* cells of the nursery region
          OldGen,    \* cells of the old generation: its number is the heap limit
          Field,     \* reference words of an object
          Stack,     \* words of the native stack and registers
          Global,    \* locations given to ts_gc_register_root
          Registry,  \* malloc'd words with a scanner and a minor-fixup callback
          Obj,       \* contents of a cell, as the identity of the object in it
          Null

Addr == Nursery \cup OldGen
Word == Stack \cup Global \cup Registry

ASSUME HeapAssumption ==
    /\ Nursery \cap OldGen = {}
    /\ Null \notin Addr \cup Obj
    /\ Stack \cap (Global \cup Registry) = {}
    /\ Global \cap Registry = {}

VARIABLES live,      \* allocated cells: allocated_bits, nursery size prefixes
          ref,       \* [Addr -> [Field -> Addr \cup {Null}]], contents of cells
          owner,     \* [Addr -> Obj \cup {Null}], whose contents a cell holds
          word,      \* [Word -> Addr \cup {Null}]
          phase,     \* "mutator", or the collector phase to run next
          marked,    \* mark_bits, and bit 62 of the nursery prefixes
          grey,      \* mark_worklist
          pinned,    \* bit 63 of the nursery prefixes
          fwd        \* the forwarding table, [Nursery -> OldGen \cup {Null}]

heapVars == <<live, ref, owner>>
gcVars   == <<phase, marked, grey, pinned, fwd>>
vars     == <<live, ref, owner, word, phase, marked, grey, pinned, fwd>>

Blank  == [f \in Field |-> Null]
NoFwd  == [n \in Nursery |-> Null]
Used   == {owner[a] : a \in live}

Init == /\ live = {}
        /\ ref = [a \in Addr |-> Blank]
        /\ owner = [a \in Addr |-> Null]
        /\ word = [w \in Word |-> Null]
        /\ phase = "mutator"
        /\ marked = {}
        /\ grey = {}
        /\ pinned = {}
        /\ fwd = NoFwd

------------------------------------------------------------------------------
(* The mutator.                                                              *)

Allocate(w, a) == \E o \in Obj \ Used :
    /\ live' = live \cup {a}
    /\ ref' = [ref EXCEPT ![a] = Blank]
    /\ owner' = [owner EXCEPT ![a] = o]
    /\ word' = [word EXCEPT ![w] = a]
    /\ UNCHANGED gcVars

\* The bump pointer takes a free part of the nursery.
AllocNursery(w) == /\ phase = "mutator"
                   /\ \E a \in Nursery \ live : Allocate(w, a)

\* Tenured kinds, large objects, and the fall-back of a full nursery.
AllocOldGen(w) == /\ phase = "mutator"
                  /\ \E a \in OldGen \ live : Allocate(w, a)

Move(v, w) == /\ phase = "mutator"
              /\ word' = [word EXCEPT ![w] = word[v]]
              /\ UNCHANGED <<heapVars, gcVars>>

Drop(w) == /\ phase = "mutator"
           /\ word' = [word EXCEPT ![w] = Null]
           /\ UNCHANGED <<heapVars, gcVars>>

Load(v, f, w) == /\ phase = "mutator"
                 /\ word[v] # Null
                 /\ word' = [word EXCEPT ![w] = ref[word[v]][f]]
                 /\ UNCHANGED <<heapVars, gcVars>>

\* The write barrier after the store dirties a card and changes nothing else.
Store(v, f, w) == /\ phase = "mutator"
                  /\ word[v] # Null
                  /\ ref' = [ref EXCEPT ![word[v]][f] = word[w]]
                  /\ UNCHANGED <<live, owner, word, gcVars>>

------------------------------------------------------------------------------
(* Full collection: gc_collect_internal.                                     *)

HeldBy(words)    == {word[w] : w \in words}
FieldsOf(cells)  == UNION {{ref[a][f] : f \in Field} : a \in cells}

\* A freed cell reads as zeroes: the nursery is wiped, an old cell is cleared
\* when it is handed out again.
Free(kept) == /\ live' = kept
              /\ ref' = [a \in Addr |-> IF a \in kept THEN ref[a] ELSE Blank]
              /\ owner' = [a \in Addr |-> IF a \in kept THEN owner[a] ELSE Null]

\* Mutant: nursery objects are not scanned as roots.
FullRootsNoNursery == HeldBy(Word) \cap OldGen

\* Registered roots, scanners, the stack, and every nursery object.
FullRoots == (HeldBy(Word) \cup FieldsOf(live \cap Nursery)) \cap OldGen

FullCollect == /\ phase = "mutator"
               /\ \E spurious \in SUBSET (live \cap OldGen) :
                     /\ marked' = FullRoots \cup spurious
                     /\ grey' = FullRoots \cup spurious
               /\ phase' = "mark"
               /\ UNCHANGED <<heapVars, word, pinned, fwd>>

\* Mutant: what is found is pushed on the worklist but not marked.
BlackenUnmarked(generation) == \E a \in grey :
    LET found == (FieldsOf({a}) \cap generation) \ marked
    IN  /\ grey' = (grey \ {a}) \cup found
        /\ UNCHANGED <<heapVars, word, phase, marked, pinned, fwd>>

\* One turn of the worklist loop: pop a cell, mark what it refers to in the
\* given generation.
Blacken(generation) == \E a \in grey :
    LET found == (FieldsOf({a}) \cap generation) \ marked
    IN  /\ grey' = (grey \ {a}) \cup found
        /\ marked' = marked \cup found
        /\ UNCHANGED <<heapVars, word, phase, pinned, fwd>>

Mark == phase = "mark" /\ Blacken(OldGen)

Sweep == /\ phase = "mark"
         /\ grey = {}
         /\ Free((live \cap Nursery) \cup (live \cap marked))
         /\ marked' = {}
         /\ phase' = "mutator"
         /\ UNCHANGED <<word, grey, pinned, fwd>>

------------------------------------------------------------------------------
(* Minor collection: gc_minor_collect_internal.  The full collection it runs *)
(* first when the old generation may lack room is FullCollect .. Sweep       *)
(* followed by PinStack with no mutator step between.                        *)

\* Mutant: stack words pin nothing.
PinNothing == /\ phase = "mutator"
              /\ live \cap Nursery # {}
              /\ pinned' \in SUBSET (live \cap Nursery)
              /\ phase' = "phase0b"
              /\ UNCHANGED <<heapVars, word, marked, grey, fwd>>

\* Phase 0.
PinStack == /\ phase = "mutator"
            /\ live \cap Nursery # {}
            /\ \E spurious \in SUBSET (live \cap Nursery) :
                  pinned' = (HeldBy(Stack) \cap Nursery) \cup spurious
            /\ phase' = "phase0b"
            /\ UNCHANGED <<heapVars, word, marked, grey, fwd>>

\* Mutant: pointers from the old generation are not roots.
MinorRootsNoOldGen == pinned \cup (HeldBy(Global \cup Registry) \cap Nursery)

\* Phase 0b, root sources 1 to 6: what is pinned, registered roots, scanner
\* callbacks, and every cell of the old generation, reachable or not.
MinorRoots == pinned \cup ((HeldBy(Global \cup Registry)
                            \cup FieldsOf(live \cap OldGen)) \cap Nursery)

\* The scan of old-generation words and the tracing are conservative: a cell that
\* only looks referred to may as well be found here as later.
MarkMinorRoots == /\ phase = "phase0b"
                  /\ \E spurious \in SUBSET (live \cap Nursery) :
                        /\ marked' = MinorRoots \cup spurious
                        /\ grey' = MinorRoots \cup spurious
                  /\ phase' = "minorMark"
                  /\ UNCHANGED <<heapVars, word, pinned, fwd>>

MinorMark == phase = "minorMark" /\ Blacken(Nursery)

StartPromotion == /\ phase = "minorMark"
                  /\ grey = {}
                  /\ phase' = "phase1"
                  /\ UNCHANGED <<heapVars, word, marked, grey, pinned, fwd>>

ToPromote == {n \in marked \ pinned : fwd[n] = Null}

\* Phase 1: copy one marked, unpinned object into the old generation.
Promote(n) == /\ phase = "phase1"
              /\ n \in ToPromote
              /\ \E a \in OldGen \ live :
                    /\ live' = live \cup {a}
                    /\ ref' = [ref EXCEPT ![a] = ref[n]]
                    /\ owner' = [owner EXCEPT ![a] = owner[n]]
                    /\ fwd' = [fwd EXCEPT ![n] = a]
              /\ UNCHANGED <<word, phase, marked, grey, pinned>>

\* Phase 1 when the old generation is at its limit: the object stays where it
\* is, as if it had been pinned.
PromoteFails(n) == /\ phase = "phase1"
                   /\ n \in ToPromote
                   /\ OldGen \subseteq live
                   /\ pinned' = pinned \cup {n}
                   /\ UNCHANGED <<heapVars, word, phase, marked, grey, fwd>>

\* lookup_forward: where a pointer's object is now.
Forward(p) == IF p \in Nursery /\ fwd[p] # Null THEN fwd[p] ELSE p

FixCells(cells) ==
    ref' = [a \in Addr |-> IF a \in cells THEN [f \in Field |-> Forward(ref[a][f])]
                                          ELSE ref[a]]
FixWords(words) ==
    word' = [w \in Word |-> IF w \in words THEN Forward(word[w]) ELSE word[w]]

\* Phase 2: the copies.
FixPromoted == /\ phase = "phase1"
               /\ ToPromote = {}
               /\ FixCells({fwd[n] : n \in Nursery} \ {Null})
               /\ phase' = "phase2b"
               /\ UNCHANGED <<live, owner, word, marked, grey, pinned, fwd>>

\* Mutant: pinned objects keep what they refer to.
FixPinnedNot == /\ phase = "phase2b"
                /\ phase' = "phase3"
                /\ UNCHANGED <<heapVars, word, marked, grey, pinned, fwd>>

\* Phase 2b: the objects that stay in the nursery.
FixPinned == /\ phase = "phase2b"
             /\ FixCells(pinned)
             /\ phase' = "phase3"
             /\ UNCHANGED <<live, owner, word, marked, grey, pinned, fwd>>

\* Phases 3 and 3b: the old generation.
FixOldGen == /\ phase = "phase3"
             /\ FixCells(live \cap OldGen)
             /\ phase' = "phase4"
             /\ UNCHANGED <<live, owner, word, marked, grey, pinned, fwd>>

\* Phase 4: registered roots.
FixGlobals == /\ phase = "phase4"
              /\ FixWords(Global)
              /\ phase' = "phase4b"
              /\ UNCHANGED <<heapVars, marked, grey, pinned, fwd>>

\* Phase 4b: the fixup callbacks of the registries.
FixRegistries == /\ phase = "phase4b"
                 /\ FixWords(Registry)
                 /\ phase' = "phase6"
                 /\ UNCHANGED <<heapVars, marked, grey, pinned, fwd>>

\* Mutant: what was marked stays, originals of promoted objects with it.
ResetNurseryKeepsMarked ==
    /\ phase = "phase6"
    /\ Free((live \cap OldGen) \cup marked)
    /\ FixWords(Stack)
    /\ marked' = {} /\ pinned' = {} /\ fwd' = NoFwd
    /\ phase' = "mutator"
    /\ UNCHANGED grey

\* Phases 6 and 7: only pinned objects remain in the nursery, and a stack word
\* that still holds a forwarded address is rewritten.
ResetNursery == /\ phase = "phase6"
                /\ Free((live \cap OldGen) \cup pinned)
                /\ FixWords(Stack)
                /\ marked' = {}
                /\ pinned' = {}
                /\ fwd' = NoFwd
                /\ phase' = "mutator"
                /\ UNCHANGED grey

------------------------------------------------------------------------------
Mutator == \/ \E w \in Stack : AllocNursery(w) \/ AllocOldGen(w)
           \/ \E v, w \in Word : Move(v, w)
           \/ \E w \in Word : Drop(w)
           \/ \E v, w \in Stack, f \in Field : Load(v, f, w) \/ Store(v, f, w)

FullGC == FullCollect \/ Mark \/ Sweep

MinorGC == \/ PinStack \/ MarkMinorRoots \/ MinorMark \/ StartPromotion
           \/ \E n \in Nursery : Promote(n) \/ PromoteFails(n)
           \/ FixPromoted \/ FixPinned \/ FixOldGen
           \/ FixGlobals \/ FixRegistries \/ ResetNursery

Next == Mutator \/ FullGC \/ MinorGC

Spec == Init /\ [][Next]_vars

------------------------------------------------------------------------------
(* Properties.                                                               *)

\* Every variable has its type, and what is grey is marked.
TypeOK ==
    /\ live \subseteq Addr
    /\ ref \in [Addr -> [Field -> Addr \cup {Null}]]
    /\ owner \in [Addr -> Obj \cup {Null}]
    /\ word \in [Word -> Addr \cup {Null}]
    /\ phase \in {"mutator", "mark", "phase0b", "minorMark", "phase1", "phase2b",
                  "phase3", "phase4", "phase4b", "phase6"}
    /\ marked \subseteq live /\ grey \subseteq marked /\ pinned \subseteq live
    /\ fwd \in [Nursery -> OldGen \cup {Null}]

\* No word the runtime can read, in a root, a registry, on the stack or in any
\* allocated object, refers to a freed cell: neither sweeping nor resetting the
\* nursery, nor a promotion, takes away what something still refers to.
NoDangling ==
    /\ \A w \in Word : word[w] # Null => word[w] \in live
    /\ \A a \in live, f \in Field : ref[a][f] # Null => ref[a][f] \in live

\* INV-1 of the code (Phase 5v, "no stale pointer after minor GC"): when every
\* fixup ran and the nursery is about to be reset, the only nursery cells
\* anything that survives refers to are the pinned ones.
INV1 ==
    phase = "phase6" =>
        (HeldBy(Word) \cup FieldsOf((live \cap OldGen) \cup pinned)) \cap Nursery
            \subseteq pinned

\* While compiled code runs an object has one copy: the original and the
\* promoted copy are never both visible, so a write is never lost.
UniqueHome ==
    phase \in {"mutator", "mark"} =>
        \A a, b \in live : owner[a] = owner[b] => a = b

\* A collection never changes a word of the stack ("No stack rewriting; stack
\* pointers to pinned objects remain valid"): Phase 7 finds nothing to rewrite
\* in the words that Phase 0 scanned.
StackStable ==
    [][phase # "mutator" => \A w \in Stack : word'[w] = word[w]]_vars

\* The graph of objects the heap stands for, by identity instead of by address.
Name(p)   == IF p = Null THEN Null ELSE owner[p]
Home(o)   == CHOOSE a \in live : owner[a] = o
GraphRoot == [w \in Word |-> Name(word[w])]
GraphEdge == [o \in Obj |-> IF o \in Used
                            THEN [f \in Field |-> Name(ref[Home(o)][f])]
                            ELSE Blank]
Graph == INSTANCE ObjectGraph
             WITH objects <- Used, root <- GraphRoot, edge <- GraphEdge

\* The moving collector is invisible: every step of it leaves the graph of
\* objects as it is, or drops objects nothing refers to.
ImplementsGraph == Graph!Spec
=============================================================================
