---------------------------- MODULE MCMapForEach -----------------------------
(* MapForEach with two keys: the callback of the first deletes the second.   *)
EXTENDS MapForEach

CONSTANTS a, b

Keys     == {a, b}
Hashes   == [k \in Keys |-> 3 * 128 + 9]
NoneMove == {}
NoHashes == [k \in {} |-> 0]
Filling  == <<a, b>>
=============================================================================
