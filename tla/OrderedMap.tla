----------------------------- MODULE OrderedMap ------------------------------
(* What the keyed collections of the runtime promise (Map, Set, properties   *)
(* of a dynamic object): a list of distinct keys in the order of insertion,  *)
(* and a forEach that walks the list as it is now, not as it was: a key that *)
(* is removed before its turn is not visited, one that is added is.          *)
(* HashTable implements this module.                                         *)
EXTENDS Naturals, Sequences, SequencesExt

CONSTANTS Key, None

VARIABLES keys,   \* distinct keys, the oldest first
          pos     \* how many of them the forEach is past; None: no forEach runs

mapVars == <<keys, pos>>

Init == keys = <<>> /\ pos = None

Has(k) == k \in Range(keys)

\* Writing a key that is there keeps its place.
Set(k) == /\ ~Has(k)
          /\ keys' = Append(keys, k)
          /\ UNCHANGED pos

\* The walk stays in front of the same key.
Delete(i) == /\ keys' = RemoveAt(keys, i)
             /\ pos' = IF pos # None /\ i <= pos THEN pos - 1 ELSE pos

Clear == /\ keys' = <<>>
         /\ pos' = IF pos = None THEN None ELSE 0

\* Nobody sees the walk of an empty list.
Start == /\ pos = None /\ keys # <<>>
         /\ pos' = 1
         /\ UNCHANGED keys

Visit == /\ pos # None /\ pos < Len(keys)
         /\ pos' = pos + 1
         /\ UNCHANGED keys

\* The walk ends when no key is left, and not before.
Finish == /\ pos = Len(keys)
          /\ pos' = None
          /\ UNCHANGED keys

Next == \/ \E k \in Key : Set(k)
        \/ \E i \in 1 .. Len(keys) : Delete(i)
        \/ Clear \/ Start \/ Visit \/ Finish

Spec == Init /\ [][Next]_mapVars
=============================================================================
