----------------------------- MODULE ObjectGraph -----------------------------
(* What the memory manager of the runtime promises to compiled code: a graph *)
(* of objects reached from words, in which an object keeps its identity and  *)
(* its references for as long as anything refers to it.  Where an object is  *)
(* stored, and whether a collector moved it, is not part of the promise.     *)
(*                                                                           *)
(* The operations are the ones the generated code performs on references;    *)
(* Reclaim is the collector.  GCHeap implements this module.                 *)

CONSTANTS Word,      \* root words: stack words, registered roots, registries
          Field,     \* reference fields of an object
          Obj,       \* object identities
          Null

VARIABLES objects,   \* identities in use
          root,      \* [Word -> Obj \cup {Null}]
          edge       \* [Obj -> [Field -> Obj \cup {Null}]]

gvars == <<objects, root, edge>>

NoEdges == [f \in Field |-> Null]

Init == /\ objects = {}
        /\ root = [w \in Word |-> Null]
        /\ edge = [o \in Obj |-> NoEdges]

\* A new object has an identity nobody uses and no references.
New(w, o) == /\ o \notin objects
             /\ objects' = objects \cup {o}
             /\ root' = [root EXCEPT ![w] = o]
             /\ UNCHANGED edge

Copy(v, w) == /\ root' = [root EXCEPT ![w] = root[v]]
              /\ UNCHANGED <<objects, edge>>

Drop(w) == /\ root' = [root EXCEPT ![w] = Null]
           /\ UNCHANGED <<objects, edge>>

Load(v, f, w) == /\ root[v] # Null
                 /\ root' = [root EXCEPT ![w] = edge[root[v]][f]]
                 /\ UNCHANGED <<objects, edge>>

Store(v, f, w) == /\ root[v] # Null
                  /\ edge' = [edge EXCEPT ![root[v]][f] = root[w]]
                  /\ UNCHANGED <<objects, root>>

\* The collector may drop any set of objects that nothing left over refers to,
\* and it does nothing else: no root and no surviving reference changes.
Reclaim(survivors) ==
    /\ \A w \in Word : root[w] \in survivors \cup {Null}
    /\ \A o \in survivors, f \in Field : edge[o][f] \in survivors \cup {Null}
    /\ objects' = survivors
    /\ edge' = [o \in Obj |-> IF o \in survivors THEN edge[o] ELSE NoEdges]
    /\ UNCHANGED root

Next == \/ \E w \in Word, o \in Obj : New(w, o)
        \/ \E v, w \in Word : Copy(v, w)
        \/ \E w \in Word : Drop(w)
        \/ \E v, w \in Word, f \in Field : Load(v, f, w) \/ Store(v, f, w)
        \/ \E survivors \in SUBSET objects : Reclaim(survivors)

Spec == Init /\ [][Next]_gvars
=============================================================================
