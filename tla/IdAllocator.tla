---------------------------- MODULE IdAllocator ----------------------------
(***************************************************************************)
(* What an allocator of transaction ids promises, whatever its data        *)
(* structure: an id is handed out only while nobody holds it, it comes     *)
(* back when its holder frees it, freeing an id nobody holds does nothing, *)
(* and an allocation fails only when every id is held.                     *)
(***************************************************************************)
CONSTANTS
    Ids,        \* the ids that exist
    Failed,     \* what an allocation returns that got no id
    Void        \* what a free returns

VARIABLES
    held,       \* the ids handed out and not freed yet
    got         \* what the last call returned

Init == held = {} /\ got = Void

Alloc(id) ==
    /\ id \notin held
    /\ held' = held \cup {id}
    /\ got' = id

\* Freeing an id that is not held changes nothing.
Free(id) ==
    /\ held' = held \ {id}
    /\ got' = Void

AllocFails ==
    /\ held = Ids
    /\ got' = Failed
    /\ UNCHANGED held

Next == AllocFails \/ \E id \in Ids : Alloc(id) \/ Free(id)

Spec == Init /\ [][Next]_<<held, got>>
=============================================================================
