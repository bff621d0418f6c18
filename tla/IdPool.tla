------------------------------- MODULE IdPool -------------------------------
(***************************************************************************)
(* The pool of relay transaction ids, src/src/dns/id_factory.c: a stack of *)
(* free ids (ids[0..top]) and a mark per id (st).  The stack is LIFO: the  *)
(* id freed last is the next one handed out.                               *)
(***************************************************************************)
EXTENDS Integers

CONSTANT IdMax      \* the largest id: 65535 in the code

ASSUME IdMaxAssumption == IdMax \in Nat

Ids == 0 .. IdMax

VARIABLES
    ids,            \* the array of free ids, only ids[0..top] is in use
    top,            \* index of the top of the stack, -1 when it is empty
    st              \* st[id] = 1 iff id is handed out

poolVars == <<ids, top, st>>

-----------------------------------------------------------------------------
id_pool_init ==
    /\ ids = [i \in Ids |-> i]
    /\ top = IdMax
    /\ st = [id \in Ids |-> 0]

\* Mutants of the pool operations (plausible slips in id_factory.c).
id_alloc_keepsTop(id) ==
    /\ top >= 0
    /\ id = ids[top]
    /\ st' = [st EXCEPT ![id] = 1]
    /\ UNCHANGED <<ids, top>>

id_alloc_unmarked(id) ==
    /\ top >= 0
    /\ id = ids[top]
    /\ top' = top - 1
    /\ UNCHANGED <<ids, st>>

id_free_unguarded(id) ==
    /\ top < IdMax
    /\ st' = [st EXCEPT ![id] = 0]
    /\ top' = top + 1
    /\ ids' = [ids EXCEPT ![top + 1] = id]

-----------------------------------------------------------------------------
(***************************************************************************)
(* id_alloc(&id) returning 0: pop the stack and mark the id.               *)
(***************************************************************************)
id_alloc(id) ==
    /\ top >= 0
    /\ id = ids[top]
    /\ st' = [st EXCEPT ![id] = 1]
    /\ top' = top - 1
    /\ UNCHANGED ids

\* id_alloc returning 1: the stack is empty.
id_alloc_fails ==
    /\ top < 0
    /\ UNCHANGED poolVars

\* id_free: an id that is not marked, or a full stack, is ignored.
id_free(id) ==
    IF st[id] = 1 /\ top < IdMax
    THEN /\ st' = [st EXCEPT ![id] = 0]
         /\ top' = top + 1
         /\ ids' = [ids EXCEPT ![top + 1] = id]
    ELSE UNCHANGED poolVars

-----------------------------------------------------------------------------
\* The ids handed out.
Held == {id \in Ids : st[id] = 1}

-----------------------------------------------------------------------------
\* Type invariant of the pool's three globals (id_factory.c:4-6).
PoolTypeOK ==
    /\ ids \in [Ids -> Ids]
    /\ top \in -1 .. IdMax
    /\ st \in [Ids -> {0, 1}]

\* The stack holds every free id exactly once and no id that is handed out:
\* the agreement of ids/top with st that id_alloc and id_free both rely on.
FreeStackMatchesMarks ==
    /\ \A i, j \in 0 .. top : ids[i] = ids[j] => i = j
    /\ \A i \in 0 .. top : st[ids[i]] = 0
    /\ \A id \in Ids : st[id] = 0 => \E i \in 0 .. top : ids[i] = id

\* The test top < 65535 in id_free never turns away the holder of an id, so
\* a freed id is never lost: the stack is full only when no id is handed out.
FreeIsNeverRefused == \A id \in Ids : st[id] = 1 => top < IdMax
=============================================================================
