------------------------------ MODULE MCGCHeap -------------------------------
(* GCHeap on a small heap: two nursery cells, so that one object can be      *)
(* pinned and the other promoted, two old cells, so that promotion can fail, *)
(* and one word of each kind besides two stack words to load and store with. *)
EXTENDS GCHeap, TLC

Symmetry == Permutations(Nursery) \cup Permutations(OldGen)
            \cup Permutations(Stack) \cup Permutations(Obj)
=============================================================================
