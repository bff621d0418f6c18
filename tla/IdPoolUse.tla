------------------------------ MODULE IdPoolUse ------------------------------
(***************************************************************************)
(* The pool alone, with a caller that allocates and frees in any order,    *)
(* double frees and frees of ids it never got included, and sees what the  *)
(* calls return.                                                           *)
(***************************************************************************)
EXTENDS IdPool

CONSTANTS
    Failed,         \* id_alloc returned 1
    NoReturn        \* id_free, which returns nothing

VARIABLE got        \* what the last call returned

useVars == <<poolVars, got>>

AllocCall ==
    \/ id_alloc_fails /\ got' = Failed
    \/ \E id \in Ids : id_alloc(id) /\ got' = id

FreeCall(id) == id_free(id) /\ got' = NoReturn

PoolInit == id_pool_init /\ got = NoReturn

PoolNext == AllocCall \/ \E id \in Ids : FreeCall(id)

PoolSpec == PoolInit /\ [][PoolNext]_useVars

Allocator == INSTANCE IdAllocator WITH held <- Held, Void <- NoReturn

\* id_alloc and id_free, on their array and marks, do what an allocator of
\* ids promises: the id that id_alloc returns has no holder, and id_alloc
\* fails only when every id is held.
ImplementsAllocator == Allocator!Spec
==============================================================================
