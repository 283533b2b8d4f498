----------------------------- MODULE MapForEach ------------------------------
(* Map.prototype.forEach (TsMap::ForEach, src/runtime/src/TsMap.cpp) on the  *)
(* table of HashTable.  Unlike TsSet's it calls back from inside             *)
(* TsHashTable::ForEach, which first collects the slots of the live entries  *)
(* and then visits them by index, whatever the callback did to the table.    *)
EXTENDS HashTable

VARIABLE order  \* slots still to visit

forEachVars == <<vars, order>>

CallbackStep == Mutate /\ UNCHANGED order

\* collect_ordered, the live slots by insertion number; the first is visited
\* at once.
StartMapForEach ==
    /\ order = <<>> /\ Live # {}
    /\ \E slot \in [1 .. Cardinality(Live) -> Live] :
          /\ \A i, j \in DOMAIN slot : i < j => slots[slot[i]].seq < slots[slot[j]].seq
          /\ order' = Tail(slot)
    /\ UNCHANGED vars

Visit == /\ order # <<>>
         /\ order' = Tail(order)
         /\ UNCHANGED vars

MapSpec == /\ Init /\ order = <<>>
           /\ [][CallbackStep \/ StartMapForEach \/ Visit]_forEachVars

\* "Iterate all live entries": what forEach hands to its callback is an entry
\* that is in the map at that moment, and not a deleted or empty slot.
VisitsLiveEntries == [][Visit => Head(order) \in Live]_forEachVars
=============================================================================
