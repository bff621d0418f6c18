----------------------------- MODULE Dictionary -----------------------------
(***************************************************************************)
(* What the hash map promises (src/include/infra/stl.h:131-173): a partial *)
(* map.  put says whether the key was there, get whether it is.            *)
(***************************************************************************)
CONSTANTS Keys, Data, None

VARIABLES
    map,    \* key -> data, None where there is none
    ret     \* the last call and what it returned: [of, code, data]

Init == map = [k \in Keys |-> None] /\ ret = None

Has(k) == map[k] # None

Put(k, d) ==
    /\ map' = [map EXCEPT ![k] = d]
    /\ ret' = [of |-> <<"put", k>>, code |-> IF Has(k) THEN 1 ELSE 0, data |-> None]

Get(k) ==
    /\ ret' = [of |-> <<"get", k>>, code |-> IF Has(k) THEN 0 ELSE 1, data |-> map[k]]
    /\ UNCHANGED map

Remove(k) ==
    /\ map' = [map EXCEPT ![k] = None]
    /\ ret' = None

Next == \E k \in Keys : Get(k) \/ Remove(k) \/ \E d \in Data : Put(k, d)

Spec == Init /\ [][Next]_<<map, ret>>
=============================================================================
