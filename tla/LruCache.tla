------------------------------ MODULE LruCache ------------------------------
(***************************************************************************)
(* What the DNS cache promises (src/include/dns/cache.h, docs/cache.md): a *)
(* map from question to answer with at most Capacity entries, the least    *)
(* recently used of which makes room for a new one; an entry whose time to *)
(* live is over is never handed out and may vanish at any time.            *)
(***************************************************************************)
EXTENDS Integers, Sequences, SequencesExt

CONSTANTS Keys, Values, Capacity, MaxAge, Expired(_, _), NoValue, Miss

VARIABLES
    order,      \* the keys held, most recently used first
    value,      \* what is held for each key, NoValue for the others
    age,        \* how long ago it was stored
    result      \* what the last lookup returned

vars == <<order, value, age, result>>

Held == {k \in Keys : value[k] # NoValue}
IsExpired(k) == Expired(value[k], age[k])

Init == /\ order = <<>>
        /\ value = [k \in Keys |-> NoValue]
        /\ age = [k \in Keys |-> 0]
        /\ result = Miss

\* The keys but k, in the same order.
Place(k) == CHOOSE i \in 1 .. Len(order) : order[i] = k
Without(k) == IF k \in Held THEN RemoveAt(order, Place(k)) ELSE order

Hit(k) ==
    /\ k \in Held /\ ~IsExpired(k)
    /\ result' = value[k]
    /\ order' = <<k>> \o Without(k)
    /\ UNCHANGED <<value, age>>

Forget(k) ==
    /\ order' = Without(k)
    /\ value' = [value EXCEPT ![k] = NoValue]
    /\ age' = [age EXCEPT ![k] = 0]

LookupFails(k) ==
    /\ result' = Miss
    /\ \/ k \notin Held /\ UNCHANGED <<order, value, age>>
       \/ k \in Held /\ IsExpired(k) /\ Forget(k)

Expire(k) ==
    /\ k \in Held /\ IsExpired(k)
    /\ Forget(k)
    /\ UNCHANGED result

Store(k, v) ==
    LET evict == k \notin Held /\ Len(order) >= Capacity
        victim == Last(order)
        kept == IF evict THEN Front(order) ELSE Without(k)
    IN /\ order' = <<k>> \o kept
       /\ value' = [x \in Keys |-> IF x = k THEN v
                                   ELSE IF evict /\ x = victim THEN NoValue
                                   ELSE value[x]]
       /\ age' = [x \in Keys |-> IF x = k \/ (evict /\ x = victim) THEN 0
                                 ELSE age[x]]
       /\ UNCHANGED result

Tick ==
    /\ age' = [k \in Keys |-> IF k \in Held /\ age[k] < MaxAge THEN age[k] + 1
                                                              ELSE age[k]]
    /\ UNCHANGED <<order, value, result>>

Next ==
    \/ Tick
    \/ \E k \in Keys : Hit(k) \/ LookupFails(k) \/ Expire(k)
    \/ \E k \in Keys, v \in Values : Store(k, v)

Spec == Init /\ [][Next]_vars
=============================================================================
