---------------------------- MODULE DnsCacheProps ----------------------------
(***************************************************************************)
(* What keeps the DNS cache in one piece, with two threads in it.          *)
(***************************************************************************)
EXTENDS DnsCache

\* Type invariant of the cache and of its two threads.
CacheTypeOK ==
    /\ mem \in [Nodes -> EntryType \cup {Freed}]
    /\ table \in [Keys -> Nodes \cup {Null}]
    /\ lru \in [hotter : [Links -> Links \cup {Null}],
                colder : [Links -> Links \cup {Null}]]
    /\ size \in Nat
    /\ lock \in {"free", "main", "daemon"}
    /\ call \in Calls
    /\ cursor \in Nodes \cup {tail}
    /\ result \in Value \cup {Miss}
    /\ loaded \in SUBSET StaticKeys

\* The table and the entries: a key leads to the entry that carries it, and
\* every allocated entry is found under its key (no leak, no stale entry).
TableMatchesEntries ==
    /\ \A k \in Keys : table[k] # Null => /\ table[k] \in Allocated
                                          /\ mem[table[k]].key = k
    /\ \A n \in Allocated : table[mem[n].key] = n

\* The list: exactly the allocated entries are linked, between the
\* sentinels, and the links in both directions agree.
LinksAgree ==
    /\ \A n \in Nodes : n \in Allocated <=> lru.hotter[n] # Null
    /\ \A n \in Nodes : n \in Allocated <=> lru.colder[n] # Null
    /\ \A n \in Allocated \cup {head} :
          /\ lru.colder[n] \in Allocated \cup {tail}
          /\ lru.hotter[lru.colder[n]] = n
    /\ \A n \in Allocated \cup {tail} :
          /\ lru.hotter[n] \in Allocated \cup {head}
          /\ lru.colder[lru.hotter[n]] = n

\* The nodes of the list l in order, counted from the head sentinel.
Walk(l) ==
    LET nth[i \in 0 .. Cardinality(Nodes) + 1] ==
          IF i = 0 THEN head
          ELSE IF nth[i - 1] \in Links THEN l.colder[nth[i - 1]] ELSE Null
    IN nth

NthColder == Walk(lru)

\* The count is the number of entries in the list, which the tail sentinel
\* ends, and it never exceeds the capacity.
SizeCountsList ==
    /\ size = Cardinality(Allocated) /\ size <= Capacity
    /\ NthColder[size + 1] = tail
    /\ {NthColder[i] : i \in 1 .. size} = Allocated

\* The daemon's pointer into the list stays valid while it prunes: neither
\* its own removals nor the main thread free the entry it looks at next.
CursorIsValid == lock = "daemon" => cursor \in Allocated \cup {tail}

-----------------------------------------------------------------------------
(* The specification the cache implements.                                 *)

\* The questions held, hottest first, and for each its answer and its age.
HeldKeys == [i \in 1 .. size |-> mem[NthColder[i]].key]
HeldValues == [k \in Keys |-> IF table[k] = Null THEN Freed ELSE mem[table[k]].value]
HeldAges == [k \in Keys |-> IF table[k] = Null THEN 0 ELSE mem[table[k]].age]

Lru == INSTANCE LruCache WITH
          Values <- Value, Expired <- is_value_expired, NoValue <- Freed,
          order <- HeldKeys, value <- HeldValues, age <- HeldAges

\* With its pointers, its table and its two threads, the cache is an LRU
\* cache: a lookup returns what was stored last and has not expired, the
\* least recently used entry is the one evicted, and pruning removes nothing
\* that has not expired.
ImplementsLruCache == Lru!Spec

\* A call of the main thread does as it was asked, whatever the daemon did
\* before it got the lock: a lookup finds or misses its own question, removes
\* it if it has expired and nothing else, and a store stores its own answer.
CallsDoAsAsked ==
    [][MainBody => IF call.op = "get"
                   THEN Lru!Hit(call.key) \/ Lru!LookupFails(call.key)
                   ELSE Lru!Store(call.key, call.value)]_vars

\* Whatever has expired goes, or is renewed: the daemon finds it even when
\* nobody asks for it again.
ExpiredEntriesGo ==
    \A k \in Keys : (table[k] # Null /\ is_entry_expired(table[k]))
                       ~> ~(table[k] # Null /\ is_entry_expired(table[k]))
==============================================================================
