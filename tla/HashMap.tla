------------------------------ MODULE HashMap ------------------------------
(***************************************************************************)
(* The hash map of src/src/infra/stl.c: a vector of buckets, each a linked *)
(* list of entries (module LinkedList), which doubles when more than three *)
(* quarters full.                                                          *)
(* Every table of the program is one: sessions by relay id, cache entries  *)
(* by question, configuration, and the survivors of the lazy heap.         *)
(*                                                                         *)
(* The content of a stored key does not change.  Allocation does not fail. *)
(***************************************************************************)
EXTENDS LinkedList

CONSTANTS
    Keys,           \* keys up to the comparator's equality
    Data,           \* the pointers stored
    hash_function,  \* key -> int, of any sign
    IntMin,         \* INT32_MIN
    InitBuckets,    \* HASH_MAP_INIT_BUCKETS, 16
    Nodes,          \* addresses of list nodes, enough to copy every entry
    None            \* no data

ASSUME HashMapAssumption ==
    /\ InitBuckets \in Nat \ {0}
    /\ hash_function \in [Keys -> Int]
    /\ \A k \in Keys : hash_function[k] >= IntMin
    /\ None \notin Data /\ Null \notin Nodes
    /\ Null \notin [data : [key : Keys, data : Data],
                    prev : Nodes \cup {Null}, next : Nodes \cup {Null}]
    /\ IsFiniteSet(Keys) /\ IsFiniteSet(Nodes)
    /\ Cardinality(Nodes) >= 2 * Cardinality(Keys)

VARIABLES
    buckets,    \* the vector: a sequence of lists
    mem,        \* the nodes of the lists
    size,       \* the entry count
    ret         \* the last call and what it returned: [of, code, data], or None

mapVars == <<buckets, mem, size, ret>>

-----------------------------------------------------------------------------
\* hash_map_bucket_index, in an array that begins with 1: -INT32_MIN is no
\* int, so that hash counts as 0.
hash_map_bucket_index(k, bucket_count) ==
    LET h == hash_function[k]
        hash == IF h = IntMin THEN 0 ELSE IF h < 0 THEN -h ELSE h
    IN 1 + (hash % bucket_count)

BucketOf(k) == hash_map_bucket_index(k, Len(buckets))

\* hash_map_find_node: the first node with the key, Null when there is none.
hash_map_find_node(m, bucket, k) ==
    LET w == Walk(m, bucket)
        i == SelectInSeq(w, LAMBDA n : m[n] # Null /\ m[n].data.key = k)
    IN IF i = 0 THEN Null ELSE w[i]

Found(k) == hash_map_find_node(mem, buckets[BucketOf(k)], k)

\* hash_map_resize: every entry gets a new node at the end of its new bucket,
\* old bucket by old bucket, and each old bucket is released after that.
Move(acc, n, new_bucket_count) ==
    LET j == hash_map_bucket_index(acc.mem[n].data.key, new_bucket_count)
        r == linked_list_addLast(acc.mem, acc.buckets[j], acc.mem[n].data)
    IN [mem |-> r.mem, buckets |-> [acc.buckets EXCEPT ![j] = r.list]]

MoveBucket(acc, l, new_bucket_count) ==
    LET w     == Walk(acc.mem, l)
        moved == After(Len(w), LAMBDA i, a : Move(a, w[i], new_bucket_count), acc)
    IN [mem |-> linked_list_clear(moved.mem, l), buckets |-> moved.buckets]

hash_map_resize(m, b, new_bucket_count) ==
    After(Len(b), LAMBDA i, acc : MoveBucket(acc, b[i], new_bucket_count),
          [mem |-> m, buckets |-> [j \in 1 .. new_bucket_count |-> linked_list_create]])

Overloaded_late(n, bucket_count) == n > bucket_count

\* size > bucket_count * 0.75
Overloaded(n, bucket_count) == 4 * n > 3 * bucket_count

\* entry->data = data
SetData(x, d) == [data |-> [key |-> x.data.key, data |-> d], prev |-> x.prev, next |-> x.next]

\* hash_map_put: overwrite the key's data, or append an entry and grow.
hash_map_put(k, d) ==
    \/ /\ Found(k) # Null
       /\ mem' = [mem EXCEPT ![Found(k)] = SetData(@, d)]
       /\ ret' = [of |-> <<"put", k>>, code |-> 1, data |-> None]
       /\ UNCHANGED <<buckets, size>>
    \/ /\ Found(k) = Null
       /\ LET r == linked_list_addLast(mem, buckets[BucketOf(k)],
                                       [key |-> k, data |-> d])
              b == [buckets EXCEPT ![BucketOf(k)] = r.list]
              end == IF Overloaded(size + 1, Len(b))
                     THEN hash_map_resize(r.mem, b, 2 * Len(b))
                     ELSE [mem |-> r.mem, buckets |-> b]
          IN mem' = end.mem /\ buckets' = end.buckets
       /\ size' = size + 1
       /\ ret' = [of |-> <<"put", k>>, code |-> 0, data |-> None]

hash_map_get_headOnly(k) ==
    /\ ret' = LET n == buckets[BucketOf(k)].head
              IN IF n = Null \/ mem[n].data.key # k THEN [of |-> <<"get", k>>, code |-> 1, data |-> None]
                 ELSE [of |-> <<"get", k>>, code |-> 0, data |-> mem[n].data.data]
    /\ UNCHANGED <<buckets, mem, size>>

\* hash_map_get
hash_map_get(k) ==
    /\ ret' = IF Found(k) = Null THEN [of |-> <<"get", k>>, code |-> 1, data |-> None]
              ELSE [of |-> <<"get", k>>, code |-> 0, data |-> mem[Found(k)].data.data]
    /\ UNCHANGED <<buckets, mem, size>>

Unlinked(k) ==
    LET r == unlink(mem, buckets[BucketOf(k)], Found(k))
    IN mem' = r.mem /\ buckets' = [buckets EXCEPT ![BucketOf(k)] = r.list]

\* hash_map_remove: take the key's node out of its bucket, if any.
hash_map_remove(k) ==
    /\ ret' = None
    /\ \/ Found(k) # Null /\ Unlinked(k) /\ size' = size - 1
       \/ Found(k) = Null /\ UNCHANGED <<buckets, mem, size>>

-----------------------------------------------------------------------------
\* hash_map_create
Init ==
    /\ buckets = [i \in 1 .. InitBuckets |-> linked_list_create]
    /\ mem = [n \in Nodes |-> Null]
    /\ size = 0
    /\ ret = None

Next ==
    \E k \in Keys : \/ hash_map_get(k) \/ hash_map_remove(k)
                    \/ \E d \in Data : hash_map_put(k, d)

Spec == Init /\ [][Next]_mapVars

-----------------------------------------------------------------------------
Allocated == {n \in Nodes : mem[n] # Null}

\* Every bucket is a list in both directions: what next leads to from the
\* head, prev leads to from the tail, and the list's own count is right;
\* hash_map_remove unlinks nodes by itself, and hash_map_put appends behind
\* the tail it left.
BucketsAreLists ==
    \A i \in DOMAIN buckets :
        LET l == buckets[i]
            w == Walk(mem, l)
        IN /\ Len(w) = l.size
           /\ l.tail = IF w = <<>> THEN Null ELSE Last(w)
           /\ \A j \in DOMAIN w :
                 /\ w[j] \in Allocated
                 /\ mem[w[j]].prev = IF j = 1 THEN Null ELSE w[j - 1]

\* What the buckets themselves count.
Counted(b) == After(Len(b), LAMBDA i, n : n + b[i].size, 0)

\* The count is the number of nodes that are allocated, all of them in the
\* buckets (none is lost by a growth), no key has two, and hash_map_resize
\* keeps the map at most three quarters full, so that chains stay short.
SizeAndLoad ==
    /\ size = Cardinality(Allocated)
    /\ size = Counted(buckets)
    /\ \A m, n \in Allocated : mem[m].data.key = mem[n].data.key => m = n
    /\ 4 * size <= 3 * Len(buckets)

Stored(k) == {mem[n].data.data : n \in {m \in Allocated : mem[m].data.key = k}}

Content == [k \in Keys |-> IF Stored(k) = {} THEN None
                           ELSE CHOOSE d \in Stored(k) : TRUE]

Dict == INSTANCE Dictionary WITH map <- Content

\* For hashes of either sign, INT32_MIN included, and through every growth,
\* the hash map is a partial map: whatever lies in some bucket is found by
\* hash_map_get, replaced by hash_map_put and unlinked by hash_map_remove.
ImplementsDictionary == Dict!Spec
=============================================================================
