---------------------------- MODULE LinkedList -----------------------------
(***************************************************************************)
(* The doubly linked list of src/src/infra/stl.c, as the buckets of the    *)
(* hash map use it.  A list is a record [head, tail, size]; its nodes live *)
(* in a memory: address -> [data, prev, next], or Null where nothing is    *)
(* allocated.  An operation takes a memory and a list and returns both.    *)
(* Allocation does not fail.                                               *)
(***************************************************************************)
EXTENDS Loops, Sequences, SequencesExt, FiniteSets

CONSTANT Null

linked_list_create == [head |-> Null, tail |-> Null, size |-> 0]

\* malloc: addresses are never compared, so any free one will do.
Fresh(m) == CHOOSE n \in DOMAIN m : m[n] = Null

\* A node with another neighbour.
SetNext(x, n) == [data |-> x.data, prev |-> x.prev, next |-> n]
SetPrev(x, n) == [data |-> x.data, prev |-> n, next |-> x.next]

\* linked_node_create and the links to the old tail.
linked_list_addLast(m, l, data) ==
    LET n == Fresh(m)
    IN [mem |-> [i \in DOMAIN m |->
                    CASE i = n      -> [data |-> data, prev |-> l.tail, next |-> Null]
                      [] i = l.tail -> SetNext(m[i], n)
                      [] OTHER      -> m[i]],
        list |-> [head |-> IF l.tail = Null THEN n ELSE l.head, tail |-> n,
                  size |-> l.size + 1]]

\* The node behind those in w: the head, or what next of the last leads to
\* (as long as that is allocated).
NodeAfter(m, l, w) ==
    IF w = <<>> THEN l.head ELSE IF m[Last(w)] = Null THEN Null ELSE m[Last(w)].next

\* The nodes from the head on, following next.
Walk(m, l) ==
    After(Cardinality(DOMAIN m),
          LAMBDA i, w : IF NodeAfter(m, l, w) = Null THEN w
                        ELSE Append(w, NodeAfter(m, l, w)), <<>>)

\* Every node of the list is released.
linked_list_clear(m, l) ==
    [n \in DOMAIN m |-> IF n \in ToSet(Walk(m, l)) THEN Null ELSE m[n]]

unlink_keepsTail(m, l, n) ==
    LET p == m[n].prev
        q == m[n].next
        around == [i \in DOMAIN m |-> CASE i = n -> Null
                                        [] i = p -> SetNext(m[i], q)
                                        [] i = q -> SetPrev(m[i], p)
                                        [] OTHER -> m[i]]
    IN [mem |-> around,
        list |-> [l EXCEPT !.head = IF p = Null THEN q ELSE @, !.size = @ - 1]]

\* A node is taken out from between its neighbours, or from an end of the
\* list, and released.
unlink(m, l, n) ==
    LET p == m[n].prev
        q == m[n].next
        around == [i \in DOMAIN m |-> CASE i = n -> Null
                                        [] i = p -> SetNext(m[i], q)
                                        [] i = q -> SetPrev(m[i], p)
                                        [] OTHER -> m[i]]
    IN [mem |-> around,
        list |-> [head |-> IF p = Null THEN q ELSE l.head,
                  tail |-> IF q = Null THEN p ELSE l.tail,
                  size |-> l.size - 1]]
=============================================================================
