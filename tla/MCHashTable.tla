----------------------------- MODULE MCHashTable -----------------------------
(* HashTable with eight keys, one more than the load at which a table of     *)
(* eight slots grows or is compacted: h comes when the others have been      *)
(* inserted.  The hashes collide in home slot and control byte: a..d start   *)
(* at the last but one slot and wrap around, their low bits are those of a   *)
(* tombstone; e..h have the low bits of an empty slot, start at the last     *)
(* slot and, in a table of 32 slots, at one of their own.                    *)
EXTENDS HashTable, TLC

CONSTANTS a, b, c, d, e, f, g, h

Keys     == {a, b, c, d, e, f, g, h}
Hashes   == [k \in Keys |-> IF k \in {a, b, c, d} THEN 6 * 128 + 127 ELSE 15 * 128]
NoneMove == {}
NoHashes == [k \in {} |-> 0]
Moves    == {a}
NewHashes == [k \in {a} |-> 2 * 128 + 5]
Filling  == <<a, e, b, f, c, d, g>>
=============================================================================
