------------------------------ MODULE MinQueue ------------------------------
(***************************************************************************)
(* What a queue of keyed deadlines promises (src/include/infra/stl.h):     *)
(* entries come and go by key, and looking shows one with the smallest     *)
(* priority among those that are there.                                    *)
(***************************************************************************)
EXTENDS Integers

CONSTANTS Keys, Prios, None, Void

VARIABLES
    entries,    \* the entries [key, prio]
    out         \* what the last call returned: an entry, None or Void

Init == entries = {} /\ out = Void

Add(k, p) ==
    /\ \A e \in entries : e.key # k
    /\ entries' = entries \cup {[key |-> k, prio |-> p]}
    /\ out' = Void

Remove(k) ==
    /\ entries' = {e \in entries : e.key # k}
    /\ out' = Void

Smallest == {e \in entries : \A f \in entries : e.prio <= f.prio}

Peek ==
    /\ out' \in IF entries = {} THEN {None} ELSE Smallest
    /\ UNCHANGED entries

Pop ==
    /\ out' \in IF entries = {} THEN {None} ELSE Smallest
    /\ entries' = entries \ {out'}

Next ==
    \/ Peek \/ Pop
    \/ \E k \in Keys : Remove(k) \/ \E p \in Prios : Add(k, p)

Spec == Init /\ [][Next]_<<entries, out>>
=============================================================================
