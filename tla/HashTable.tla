------------------------------ MODULE HashTable ------------------------------
(* TsHashTable (src/runtime/include/TsHashTable.h), the open-addressing      *)
(* table under Map, Set and dynamic objects, with the forEach of TsSet that  *)
(* walks it by insertion number while its callback changes it.               *)
(*                                                                           *)
(* A key is an identity; what the table sees of it is its hash.  Value and   *)
(* attributes of an entry are written with its key and stay in its slot, so  *)
(* they are left out, and with them the lookups, which change nothing.       *)
EXTENDS Naturals, Sequences, FiniteSets

CONSTANTS Key,
          Hash,      \* [Key -> Nat]: TsValueHash
          Movable,   \* keys hashed by an address that a minor GC may change
          NewHash,   \* [Movable -> Nat]: the hash of the new address
          Capacity,  \* the initial capacity
          None,
          First,     \* bound: the keys inserted first, in this order
          MaxSeq,    \* bound: entries inserted, ever
          MaxGone    \* bound: entries deleted, ever

ASSUME TableAssumption ==
    /\ Hash \in [Key -> Nat] /\ NewHash \in [Movable -> Nat] /\ Movable \subseteq Key
    /\ Capacity \in Nat /\ Capacity >= 8
    /\ None \notin Key \cup Nat
    /\ First \in Seq(Key) /\ MaxSeq \in Nat /\ MaxGone \in Nat

VARIABLES hash,        \* [Key -> Nat], the hash of a key now
          capacity,
          slots,       \* [0 .. capacity - 1 -> Slot]: ctrl_ and entries_
          size,
          tombstones,
          insert_seq,
          cursor       \* least number the forEach may visit; None: not iterating

tableVars == <<capacity, slots, size, tombstones, insert_seq>>
vars      == <<hash, capacity, slots, size, tombstones, insert_seq, cursor>>

EMPTY   == 0
DELETED == 127

\* The byte of the control array that stands for a key.
h2_from_hash(h) == IF h % 128 \in {EMPTY, DELETED} THEN 1 ELSE h % 128

\* Slots of a table of c slots in the order in which they are probed.
Probe(h, j, c) == ((h \div 128) + j) % c

Slot  == [ctrl : 0 .. 127, key : Key \cup {None}, seq : Nat]
Fresh == [ctrl |-> EMPTY, key |-> None, seq |-> 0]
Tomb  == [ctrl |-> DELETED, key |-> None, seq |-> 0]
EmptyTable(c) == [i \in 0 .. c - 1 |-> Fresh]

Live       == {i \in DOMAIN slots : slots[i].ctrl \notin {EMPTY, DELETED}}
Deleted    == {i \in DOMAIN slots : slots[i].ctrl = DELETED}
Unused     == {i \in DOMAIN slots : slots[i].ctrl = EMPTY}
GrowThresh == capacity - capacity \div 8

Init == /\ hash = Hash
        /\ capacity = Capacity
        /\ slots = EmptyTable(Capacity)
        /\ size = 0
        /\ tombstones = 0
        /\ insert_seq = 0
        /\ cursor = None

------------------------------------------------------------------------------
(* Probing.                                                                  *)

\* The least number of T, a set of numbers below c; c when there is none.
Least(c, T) == IF T = {} THEN c ELSE CHOOSE j \in T : \A i \in T : j <= i

Matches(i, k) == slots[i].ctrl = h2_from_hash(hash[k]) /\ slots[i].key = k

\* The slot of k, or None: an empty slot ends the search, a tombstone does not.
find_slot(k) ==
    LET at(j) == Probe(hash[k], j, capacity)
        Ends  == {j \in 0 .. capacity - 1 :
                     slots[at(j)].ctrl = EMPTY \/ Matches(at(j), k)}
        j     == Least(capacity, Ends)
    IN  IF j < capacity /\ Matches(at(j), k) THEN at(j) ELSE None

\* Where insert_entry puts k into table t of c slots.
FreeSlot(t, c, k) ==
    LET Takes == {j \in 0 .. c - 1 : t[Probe(hash[k], j, c)].ctrl \in {EMPTY, DELETED}}
    IN  Probe(hash[k], Least(c, Takes), c)

Placed(t, c, k, n) ==
    [t EXCEPT ![FreeSlot(t, c, k)] =
        [ctrl |-> h2_from_hash(hash[k]), key |-> k, seq |-> n]]

\* rehash: live entries move in slot order and keep their numbers.
Rehashed(c) ==
    LET moved[i \in 0 .. capacity] ==
            IF i = 0 THEN EmptyTable(c)
            ELSE IF i - 1 \in Live
                 THEN Placed(moved[i - 1], c, slots[i - 1].key, slots[i - 1].seq)
                 ELSE moved[i - 1]
    IN  moved[capacity]

\* Mutant: tombstones do not count toward the load.
FullOfEntries == size >= GrowThresh

Full == size + tombstones >= GrowThresh

NewCapacity == IF size > capacity \div 2
               THEN IF capacity < 256 THEN capacity * 4 ELSE capacity * 2
               ELSE capacity

------------------------------------------------------------------------------
(* The operations.                                                           *)

\* Mutant: a tombstone that is used again stays counted.
InsertKeepsTombstone(t, c, tombs, k) ==
    /\ capacity' = c
    /\ slots' = Placed(t, c, k, insert_seq)
    /\ size' = size + 1
    /\ tombstones' = tombs
    /\ insert_seq' = insert_seq + 1

\* insert_entry into table t of c slots, tombs of which are tombstones.
Insert(t, c, tombs, k) ==
    /\ capacity' = c
    /\ slots' = Placed(t, c, k, insert_seq)
    /\ size' = size + 1
    /\ tombstones' = IF t[FreeSlot(t, c, k)].ctrl = DELETED THEN tombs - 1 ELSE tombs
    /\ insert_seq' = insert_seq + 1

\* A key that is found is overwritten in place.
Set(k) == /\ find_slot(k) = None
          /\ insert_seq < MaxSeq
          /\ insert_seq < Len(First) => k = First[insert_seq + 1]
          /\ IF Full THEN Insert(Rehashed(NewCapacity), NewCapacity, 0, k)
                     ELSE Insert(slots, capacity, tombstones, k)
          /\ UNCHANGED <<hash, cursor>>

\* Mutants: the slot of a deleted entry becomes empty, or keeps the key.
DeleteToEmpty(k) ==
    /\ find_slot(k) # None /\ insert_seq - size < MaxGone
    /\ slots' = [slots EXCEPT ![find_slot(k)] = Fresh]
    /\ size' = size - 1
    /\ UNCHANGED <<hash, capacity, tombstones, insert_seq, cursor>>
DeleteKeepsKey(k) ==
    /\ find_slot(k) # None /\ insert_seq - size < MaxGone
    /\ slots' = [slots EXCEPT ![find_slot(k)].ctrl = DELETED]
    /\ size' = size - 1
    /\ tombstones' = tombstones + 1
    /\ UNCHANGED <<hash, capacity, insert_seq, cursor>>

Delete(k) == /\ find_slot(k) # None
             /\ insert_seq - size < MaxGone
             /\ slots' = [slots EXCEPT ![find_slot(k)] = Tomb]
             /\ size' = size - 1
             /\ tombstones' = tombstones + 1
             /\ UNCHANGED <<hash, capacity, insert_seq, cursor>>

\* Mutant: numbering starts over, below the cursor of a running forEach.
ClearAndRenumber == /\ insert_seq <= MaxGone
                    /\ slots' = EmptyTable(capacity)
                    /\ size' = 0
                    /\ tombstones' = 0
                    /\ insert_seq' = 0
                    /\ UNCHANGED <<hash, capacity, cursor>>

Clear == /\ insert_seq <= MaxGone
         /\ slots' = EmptyTable(capacity)
         /\ size' = 0
         /\ tombstones' = 0
         /\ UNCHANGED <<hash, capacity, insert_seq, cursor>>

------------------------------------------------------------------------------
(* TsSet::ForEach: its callback may do any of the above between two visits.  *)

Ahead(n) == {i \in Live : slots[i].seq >= n}

\* NextLiveBySeq: the whole table is searched again for the least number.
VisitFrom(n) == /\ \E i \in Ahead(n) :
                      /\ \A j \in Ahead(n) : slots[i].seq <= slots[j].seq
                      /\ cursor' = slots[i].seq + 1
                /\ UNCHANGED <<hash, tableVars>>

StartForEach == cursor = None /\ VisitFrom(0)
NextLive     == cursor # None /\ VisitFrom(cursor)

EndForEach == /\ cursor # None /\ Ahead(cursor) = {}
              /\ cursor' = None
              /\ UNCHANGED <<hash, tableVars>>

Mutate == (\E k \in Key : Set(k) \/ Delete(k)) \/ Clear

Next == Mutate \/ StartForEach \/ NextLive \/ EndForEach

Spec == Init /\ [][Next]_vars

\* A minor GC promotes the object of a key: Phase 3 rewrites the pointer in the
\* slot, nothing rehashes the table.
Relocate(k) == /\ hash[k] = Hash[k]
               /\ hash' = [hash EXCEPT ![k] = NewHash[k]]
               /\ UNCHANGED <<tableVars, cursor>>

MovingSpec == Init /\ [][Next \/ \E k \in Movable : Relocate(k)]_vars

------------------------------------------------------------------------------
(* Properties.                                                               *)

\* Every variable has its type; a slot has a key exactly when it is live.
TypeOK ==
    /\ capacity \in Nat /\ slots \in [0 .. capacity - 1 -> Slot]
    /\ \A i \in DOMAIN slots : slots[i].key # None <=> i \in Live
    /\ size \in Nat /\ tombstones \in Nat /\ insert_seq \in 0 .. MaxSeq
    /\ cursor \in 0 .. MaxSeq \cup {None}

\* size_ and tombstones_ are what they claim through any history of inserts,
\* deletes, reused tombstones, rehashes and clears.
CountersExact == size = Cardinality(Live) /\ tombstones = Cardinality(Deleted)

\* "an EMPTY slot always remains": the probe for an absent key ends at one, and
\* insert_entry, which has no bound on its loop, ends.
EmptySlotRemains == Unused # {}

\* find_slot finds every key where it is, through collisions, wrap around the
\* end of the table, tombstones, rehashes and clears; so no key is there twice.
LookupExact == \A i \in Live : find_slot(slots[i].key) = i

\* "Set with object members (movable) across GC; membership must survive": a key
\* that is in the table is found.
MembershipSurvives == \A i \in Live : find_slot(slots[i].key) # None

\* The keys inserted before number n, oldest first; the forEach is past those
\* before its cursor.
Numbered(n) == {i \in Live : slots[i].seq = n}
KeysBelow[n \in 0 .. MaxSeq] ==
    IF n = 0 THEN <<>>
    ELSE IF Numbered(n - 1) = {} THEN KeysBelow[n - 1]
    ELSE Append(KeysBelow[n - 1], slots[CHOOSE i \in Numbered(n - 1) : TRUE].key)
KeysInOrder == KeysBelow[insert_seq]
Past        == IF cursor = None THEN None ELSE Len(KeysBelow[cursor])
Ordered     == INSTANCE OrderedMap WITH keys <- KeysInOrder, pos <- Past

\* Where entries are stored is invisible: the table is a list of keys in the
\* order of insertion, and forEach walks that list as it changes.
ImplementsOrderedMap == Ordered!Spec
=============================================================================
