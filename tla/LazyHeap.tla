------------------------------ MODULE LazyHeap ------------------------------
(***************************************************************************)
(* The heap with lazy deletion of src/src/infra/stl.c, which keeps the     *)
(* sessions by deadline: an array heap whose elements are only marked when *)
(* they are removed, and leave the array once they reach the top.          *)
(*                                                                         *)
(* An element stands for a HeapElement: h is its address, which malloc may *)
(* hand out again once it was freed, data the object it points to, reduced *)
(* to its key and what the comparator looks at, the session's timestamp.   *)
(* The data of a deleted element is never looked at again: it is NoData.   *)
(***************************************************************************)
EXTENDS Loops, Sequences, SequencesExt, FiniteSetsExt

CONSTANTS
    HeapKeys,       \* keys of the survivor table: relay ids
    Prios,          \* priorities: timestamps
    InitCapacity,   \* slots of a new heap: 16 in lazy_heap_create
    MaxSize,        \* bound: elements in the array, deleted ones included
    NoData,         \* the null pointer
    Void            \* what a call that returns nothing returns

ASSUME HeapAssumption ==
    /\ Prios \subseteq Nat /\ 0 \in Prios
    /\ InitCapacity \in Nat \ {0} /\ MaxSize \in Nat

VARIABLES
    elements,       \* the array elements[1..queue_size]
    capacity,       \* slots allocated for it
    survivor_table, \* key -> address of the key's element, 0 when absent
    now,            \* the largest priority used so far: the clock
    out             \* what the last call returned

heapVars == <<elements, capacity, survivor_table, now, out>>

Addresses == 1 .. MaxSize
Entries == [key : HeapKeys, prio : Prios]
Element == [h : Addresses, data : Entries, is_deleted : {FALSE}]
             \cup [h : Addresses, data : {NoData}, is_deleted : {TRUE}]

queue_size == Len(elements)

-----------------------------------------------------------------------------
\* heap_element_compare: a deleted element is smaller than one that is not,
\* two deleted ones are equal.
heap_element_compare(a, b) ==
    CASE a.is_deleted /\ b.is_deleted -> 0
      [] a.is_deleted /\ ~b.is_deleted -> -1
      [] ~a.is_deleted /\ b.is_deleted -> 1
      [] OTHER -> a.data.prio - b.data.prio

Swap(s, i, j) == [s EXCEPT ![i] = s[j], ![j] = s[i]]

down_leftOnly(s, u) ==
    IF 2 * u <= Len(s) /\ heap_element_compare(s[u], s[2 * u]) > 0
    THEN Swap(s, u, 2 * u)
    ELSE s

\* The element at u changes places with the smaller of its children, if it
\* is larger than that.
DownTurn(i, c) ==
    LET s == c.s
        u == c.u
        smaller(t, k) == IF k <= Len(s) /\ heap_element_compare(s[t], s[k]) > 0
                         THEN k ELSE t
        t == smaller(smaller(u, 2 * u), 2 * u + 1)
    IN IF t = u THEN c ELSE [s |-> Swap(s, u, t), u |-> t]

\* down: sink the element at u as long as a child is smaller.
down(s, u) == IF u > Len(s) THEN s ELSE After(Len(s), DownTurn, [s |-> s, u |-> u]).s

\* up: lift the element at u above its parent, as long as it is smaller.
UpTurn(i, c) ==
    LET t == c.u \div 2
    IN IF t > 0 /\ heap_element_compare(c.s[c.u], c.s[t]) < 0
       THEN [s |-> Swap(c.s, c.u, t), u |-> t]
       ELSE c

up(s, u) == After(u, UpTurn, [s |-> s, u |-> u]).s

\* The top is overwritten by the last element, which then sinks.
DropTop(s) == IF Len(s) = 1 THEN <<>>
              ELSE down([Front(s) EXCEPT ![1] = Last(s)], 1)

do_delete_unsifted(s) ==
    IF Len(s) > 1 /\ s[1].is_deleted THEN [Front(s) EXCEPT ![1] = Last(s)] ELSE s

\* do_delete: drop the top while it is marked.
DeleteTurn(i, s) == IF s # <<>> /\ s[1].is_deleted THEN DropTop(s) ELSE s

do_delete(s) == After(Len(s), DeleteTurn, s)

-----------------------------------------------------------------------------
lazy_heap_create ==
    /\ elements = <<>>
    /\ capacity = InitCapacity
    /\ survivor_table = [k \in HeapKeys |-> 0]

priority_queue_grow_late(min) ==
    IF min <= capacity + 1 THEN capacity ELSE 2 * capacity

\* priority_queue_grow: double until min elements fit.  One element comes
\* at a time, so one doubling is enough.
priority_queue_grow(min) ==
    IF min <= capacity THEN capacity ELSE 2 * capacity

\* An address that no element occupies, one that was freed if there is one.
Malloc == Min(Addresses \ {elements[i].h : i \in 1 .. queue_size})

lazy_heap_add_keepsAddress(k, p) ==
    LET h == Malloc
    IN /\ capacity' = priority_queue_grow(queue_size + 1)
       /\ survivor_table' = [survivor_table EXCEPT ![k] = IF @ = 0 THEN h ELSE @]
       /\ elements' = up(Append(elements,
                            [h |-> h, data |-> [key |-> k, prio |-> p],
                             is_deleted |-> FALSE]), queue_size + 1)

\* lazy_heap_add: a new element at the end of the array, known under its
\* key, lifted to its place.
lazy_heap_add(k, p) ==
    LET h == Malloc
    IN /\ capacity' = priority_queue_grow(queue_size + 1)
       /\ survivor_table' = [survivor_table EXCEPT ![k] = h]
       /\ elements' = up(Append(elements,
                            [h |-> h, data |-> [key |-> k, prio |-> p],
                             is_deleted |-> FALSE]), queue_size + 1)

Marked(e) == [h |-> e.h, data |-> NoData, is_deleted |-> TRUE]

\* lazy_heap_remove: mark the element at the key's address, if any.
lazy_heap_remove(k) ==
    /\ elements' = [i \in 1 .. queue_size |->
          IF elements[i].h = survivor_table[k]
          THEN Marked(elements[i]) ELSE elements[i]]
    /\ survivor_table' = [survivor_table EXCEPT ![k] = 0]
    /\ UNCHANGED capacity

\* lazy_heap_peek: drop marked tops, then show the top.
lazy_heap_peek ==
    /\ elements' = do_delete(elements)
    /\ out' = IF elements' = <<>> THEN NoData ELSE elements'[1].data
    /\ UNCHANGED <<capacity, survivor_table>>

\* lazy_heap_pop: the same, and the top leaves; the survivor table keeps
\* the address of the element that was freed.
lazy_heap_pop ==
    LET s == do_delete(elements)
    IN /\ elements' = IF s = <<>> THEN s ELSE DropTop(s)
       /\ out' = IF s = <<>> THEN NoData ELSE s[1].data
       /\ UNCHANGED <<capacity, survivor_table>>

-----------------------------------------------------------------------------
\* The entries that are not marked.
Survivors == {elements[i].data : i \in {j \in 1 .. queue_size : ~elements[j].is_deleted}}

LiveKeys == {e.key : e \in Survivors}

HeapInit ==
    /\ lazy_heap_create
    /\ now = 0
    /\ out = Void

\* The callers' discipline: a key is added when it is not in the queue, and
\* removed only while it is in it or was never in it since the last removal
\* (removing a key after its element was popped writes to freed memory).
AddKey(k, p) ==
    /\ k \notin LiveKeys /\ queue_size < MaxSize
    /\ lazy_heap_add(k, p)
    /\ out' = Void

RemoveKey(k) ==
    /\ survivor_table[k] = 0 \/ k \in LiveKeys
    /\ lazy_heap_remove(k)
    /\ out' = Void
    /\ UNCHANGED now

Look == (lazy_heap_peek \/ lazy_heap_pop) /\ UNCHANGED now

\* Use by the session factory: the priority is the time of the addition.
TimedNext ==
    \/ Look
    \/ \E k \in HeapKeys : RemoveKey(k)
    \/ \E k \in HeapKeys, p \in {q \in Prios : q >= now} : AddKey(k, p) /\ now' = p

TimedSpec == HeapInit /\ [][TimedNext]_heapVars

-----------------------------------------------------------------------------
\* Type invariant of the heap: priority_queue_grow keeps the array long
\* enough for every element, deleted ones included.
HeapTypeOK ==
    /\ elements \in Seq(Element) /\ queue_size <= MaxSize
    /\ capacity \in Nat /\ queue_size <= capacity
    /\ survivor_table \in [HeapKeys -> 0 .. MaxSize]
    /\ now \in Prios
    /\ out \in Entries \cup {NoData, Void}

\* Addresses are not shared, and the survivor table knows every element
\* that is not marked under its own key: a removal marks the right one.
SurvivorsAreReachable ==
    /\ \A i, j \in 1 .. queue_size : elements[i].h = elements[j].h => i = j
    /\ \A i \in 1 .. queue_size : ~elements[i].is_deleted =>
          survivor_table[elements[i].data.key] = elements[i].h

\* The positions below i in an array of n: the smallest set that has every
\* position whose parent is i or in the set.
Below(i, n) ==
    {j \in 1 .. n : \A S \in SUBSET (1 .. n) :
        (\A k \in 1 .. n : k \div 2 = i \/ k \div 2 \in S => k \in S) => j \in S}

\* The array is a heap for the elements that are not marked, however many
\* marked ones lie between them: no unmarked element is larger than an
\* unmarked one below it.  That is what lets down() and do_delete bring the
\* earliest deadline to the top.
OrderedPaths ==
    \A i \in 1 .. queue_size : \A j \in Below(i, queue_size) :
        ~elements[i].is_deleted /\ ~elements[j].is_deleted
            => elements[i].data.prio <= elements[j].data.prio

Queue == INSTANCE MinQueue WITH Keys <- HeapKeys, None <- NoData, entries <- Survivors

\* lazy_heap_peek and lazy_heap_pop return the unmarked element with the
\* smallest priority, NULL only when there is none, and additions and
\* removals change one key at a time (SurvivorsAreReachable says which).
ImplementsMinQueue == Queue!Spec
=============================================================================
