---------------------------- MODULE MCContainers ----------------------------
(***************************************************************************)
(* The id pool, the lazy heap and the hash map, each used on its own: the  *)
(* first state picks the one that is driven.                               *)
(***************************************************************************)
EXTENDS IdPoolUse, LazyHeap, HashMap

VARIABLE driven     \* the container under test

\* Four keys of the map: three share a bucket of four, two of them one of
\* eight.  INT32_MIN is odd here, so it counts as 0 by its own test alone.
MCKeys == 1 .. 4
MCNodes == 1 .. 8
MCIntMin == -17
MCHash == <<MCIntMin, -8, 4, 3>>

\* Data are only stored and handed out, keys of the heap only compared.
Symmetry == Permutations(Data) \cup Permutations(HeapKeys)

ContainersInit ==
    /\ PoolInit /\ HeapInit /\ Init
    /\ driven \in {"pool", "heap", "map"}

ContainersNext ==
    /\ UNCHANGED driven
    /\ \/ driven = "pool" /\ PoolNext /\ UNCHANGED <<heapVars, mapVars>>
       \/ driven = "heap" /\ TimedNext /\ UNCHANGED <<useVars, mapVars>>
       \/ driven = "map" /\ Next /\ UNCHANGED <<useVars, heapVars>>

ContainersSpec ==
    ContainersInit /\ [][ContainersNext]_<<useVars, heapVars, mapVars, driven>>
=============================================================================
