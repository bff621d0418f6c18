------------------------------ MODULE DnsCache ------------------------------
(***************************************************************************)
(* The DNS cache of src/src/dns/dns_cache.c: a hash table from question to *)
(* entry, a doubly linked list of the entries by last use between two      *)
(* sentinels, and one mutex.  Two threads use it: the server's main thread *)
(* (dns_cache_get, dns_cache_put) and the daemon of server/daemons.c,      *)
(* which walks the list and removes what has expired.                      *)
(*                                                                         *)
(* A key stands for (qname, qtype, qclass), a value for the records of an  *)
(* answer, reduced to their times to live and a tag that tells answers     *)
(* apart.  Allocation does not fail.                                       *)
(***************************************************************************)
EXTENDS Integers, FiniteSets

CONSTANTS
    Keys,           \* questions
    StaticKeys,     \* questions of the ip table, loaded at start
    Values,         \* answers: records [tag, ttls], ttls a set of seconds
    StaticValue,    \* the answer of an ip table entry: every ttl is Forever
    Forever,        \* UINT32_MAX, the ttl of a record that never expires
    MsPerSec,       \* clock units in a second: 1000 in the code
    MaxTtl,         \* bound: the largest ttl but Forever
    Capacity,       \* DNS_CACHE_DEFAULT_CAPACITY, 1024
    Nodes,          \* addresses of cache entries
    head, tail,     \* addresses of the two sentinels
    Null,           \* the null pointer
    Freed,          \* the content of memory that is not allocated
    Miss            \* dns_cache_get found nothing

\* Ages are counted up to the time at which every finite ttl is over.
MaxAge == MaxTtl * MsPerSec

Value == Values \cup {StaticValue}

\* What a CacheEntry holds, but for its links.
EntryType == [key : Keys, value : Value, age : 0 .. MaxAge]

ASSUME CacheAssumption ==
    /\ StaticKeys \subseteq Keys
    /\ MsPerSec \in Nat \ {0} /\ MaxTtl \in Nat /\ Capacity \in Nat \ {0}
    /\ StaticValue.ttls = {Forever}
    /\ \A v \in Values : v.ttls \subseteq 0 .. MaxTtl
    /\ Forever \notin 0 .. MaxTtl
    /\ head \notin Nodes /\ tail \notin Nodes /\ Null \notin Nodes
    /\ head # tail /\ Null \notin {head, tail}
    /\ IsFiniteSet(Nodes) /\ Freed \notin EntryType /\ Freed \notin Value

VARIABLES
    mem,        \* the CacheEntry at each address: [key, value, age] or Freed
    table,      \* the hash map: key -> address, Null when absent
    lru,        \* [hotter, colder]: the two links of every list node
    size,       \* the entry count
    lock,       \* who holds the mutex: "free", "main" or "daemon"
    call,       \* the cache call the main thread is in
    cursor,     \* the daemon's entry pointer in dns_cache_prune_locked
    result,     \* what the last dns_cache_get returned
    loaded      \* ip table questions loaded so far

cacheVars  == <<mem, table, lru, size>>
threadVars == <<lock, call, cursor, result, loaded>>
vars == <<cacheVars, threadVars>>

Links == Nodes \cup {head, tail}
Idle == [op |-> "none"]
Calls == {Idle} \cup [op : {"get"}, key : Keys]
                \cup [op : {"put"}, key : Keys, value : Values]
Allocated == {n \in Nodes : mem[n] # Freed}

-----------------------------------------------------------------------------
(* The list, as functions from links to links.                             *)

lru_remove_oneWay(l, n) ==
    [hotter |-> [l.hotter EXCEPT ![n] = Null],
     colder |-> [l.colder EXCEPT ![l.hotter[n]] = l.colder[n], ![n] = Null]]

\* lru_remove: take a linked node out.
lru_remove(l, n) ==
    IF l.hotter[n] = Null \/ l.colder[n] = Null THEN l
    ELSE [hotter |-> [l.hotter EXCEPT ![l.colder[n]] = l.hotter[n], ![n] = Null],
          colder |-> [l.colder EXCEPT ![l.hotter[n]] = l.colder[n], ![n] = Null]]

\* lru_touch: take the node out if it is linked, insert it after the head.
lru_touch(l, n) ==
    LET m == lru_remove(l, n)
        hottest == m.colder[head]
    IN [hotter |-> [m.hotter EXCEPT ![n] = head, ![hottest] = n],
        colder |-> [m.colder EXCEPT ![n] = hottest, ![head] = n]]

-----------------------------------------------------------------------------
\* is_entry_expired: some record's ttl is over; records with ttl UINT32_MAX
\* do not count, so an entry without other records never expires.
is_value_expired(v, age) ==
    \E ttl \in v.ttls : ttl # Forever /\ age \div MsPerSec >= ttl

is_entry_expired(n) == is_value_expired(mem[n].value, mem[n].age)

cache_remove_entry_keepsKey(c, n) ==
    [mem   |-> [c.mem EXCEPT ![n] = Freed],
     table |-> c.table,
     lru   |-> lru_remove(c.lru, n),
     size  |-> IF c.size > 0 THEN c.size - 1 ELSE c.size]

cache_remove_entry_keepsSize(c, n) ==
    [mem   |-> [c.mem EXCEPT ![n] = Freed],
     table |-> [c.table EXCEPT ![c.mem[n].key] = Null],
     lru   |-> lru_remove(c.lru, n),
     size  |-> c.size]

\* The cache without the entry at n: unlinked, out of the table, freed.
cache_remove_entry(c, n) ==
    [mem   |-> [c.mem EXCEPT ![n] = Freed],
     table |-> [c.table EXCEPT ![c.mem[n].key] = Null],
     lru   |-> lru_remove(c.lru, n),
     size  |-> IF c.size > 0 THEN c.size - 1 ELSE c.size]

Cache == [mem |-> mem, table |-> table, lru |-> lru, size |-> size]

Becomes(c) ==
    mem' = c.mem /\ table' = c.table /\ lru' = c.lru /\ size' = c.size

\* The entry for a key that was present: new answer, new age, hottest.
Updated(c, k, v) ==
    LET n == c.table[k]
    IN [c EXCEPT !.mem[n] = [key |-> k, value |-> v, age |-> 0],
                 !.lru = lru_touch(c.lru, n)]

\* The entry for a key that was absent, at the free address n.
Inserted(c, k, v, n) ==
    [mem   |-> [c.mem EXCEPT ![n] = [key |-> k, value |-> v, age |-> 0]],
     table |-> [c.table EXCEPT ![k] = n],
     lru   |-> lru_touch(c.lru, n),
     size  |-> c.size + 1]

\* Room for one entry: when full, the coldest goes, whatever it is.
MadeRoom(c) ==
    LET victim == c.lru.hotter[tail]
    IN IF c.size >= Capacity /\ victim # head
       THEN cache_remove_entry(c, victim) ELSE c

\* The locked part of dns_cache_put.
dns_cache_put(k, v) ==
    \/ /\ table[k] # Null
       /\ Becomes(Updated(Cache, k, v))
    \/ /\ table[k] = Null
       /\ LET c == MadeRoom(Cache)
          IN \E n \in {a \in Nodes : c.mem[a] = Freed} :
                Becomes(Inserted(c, k, v, n))

dns_cache_get_untouched(k) ==
    LET n == table[k]
    IN \/ /\ n = Null
          /\ result' = Miss /\ UNCHANGED cacheVars
       \/ /\ n # Null /\ is_entry_expired(n)
          /\ result' = Miss /\ Becomes(cache_remove_entry(Cache, n))
       \/ /\ n # Null /\ ~is_entry_expired(n)
          /\ result' = mem[n].value /\ UNCHANGED cacheVars

dns_cache_get_keepsExpired(k) ==
    LET n == table[k]
    IN \/ /\ IF n = Null THEN TRUE ELSE is_entry_expired(n)
          /\ result' = Miss /\ UNCHANGED cacheVars
       \/ /\ n # Null /\ ~is_entry_expired(n)
          /\ result' = mem[n].value
          /\ Becomes([Cache EXCEPT !.lru = lru_touch(lru, n)])

\* The locked part of dns_cache_get.
dns_cache_get(k) ==
    LET n == table[k]
    IN \/ /\ n = Null
          /\ result' = Miss /\ UNCHANGED cacheVars
       \/ /\ n # Null /\ is_entry_expired(n)
          /\ result' = Miss /\ Becomes(cache_remove_entry(Cache, n))
       \/ /\ n # Null /\ ~is_entry_expired(n)
          /\ result' = mem[n].value
          /\ Becomes([Cache EXCEPT !.lru = lru_touch(lru, n)])

-----------------------------------------------------------------------------
(* The main thread.                                                        *)

\* load_ip_table, before the daemon exists: one question of the table.
load_ip_table(k) ==
    /\ k \in StaticKeys \ loaded
    /\ dns_cache_put(k, StaticValue)
    /\ loaded' = loaded \cup {k}
    /\ UNCHANGED <<lock, call, cursor, result>>

Serving == loaded = StaticKeys

MainLock_unlocked(c) ==
    /\ Serving /\ call = Idle
    /\ call' = c
    /\ UNCHANGED <<cacheVars, lock, cursor, result, loaded>>

\* mtx_lock in dns_cache_get and dns_cache_put.  Any question may be stored,
\* also one of the ip table: its key comes from the upstream's packet.
MainLock(c) ==
    /\ Serving /\ call = Idle /\ lock = "free"
    /\ call' = c /\ lock' = "main"
    /\ UNCHANGED <<cacheVars, cursor, result, loaded>>

\* The body of the call, and mtx_unlock.
MainBody ==
    /\ \/ call.op = "get" /\ dns_cache_get(call.key)
       \/ call.op = "put" /\ dns_cache_put(call.key, call.value)
                          /\ UNCHANGED result
    /\ call' = Idle
    /\ lock' = IF lock = "main" THEN "free" ELSE lock
    /\ UNCHANGED <<cursor, loaded>>

-----------------------------------------------------------------------------
(* The daemon: dns_cache_prune, every few seconds.                         *)

dns_cache_prune ==
    /\ Serving /\ lock = "free"
    /\ lock' = "daemon"
    /\ cursor' = lru.colder[head]
    /\ UNCHANGED <<cacheVars, call, result, loaded>>

prune_step_noRemove ==
    /\ lock = "daemon" /\ cursor # tail
    /\ cursor' = lru.colder[cursor]
    /\ UNCHANGED <<cacheVars, lock, call, result, loaded>>

prune_step_lateNext ==
    /\ lock = "daemon" /\ cursor # tail
    /\ IF is_entry_expired(cursor)
       THEN Becomes(cache_remove_entry(Cache, cursor))
       ELSE UNCHANGED cacheVars
    /\ cursor' = lru'.colder[cursor]
    /\ UNCHANGED <<lock, call, result, loaded>>

\* One round of the loop of dns_cache_prune_locked: the next pointer is read
\* before the entry is freed.
prune_step ==
    /\ lock = "daemon" /\ cursor # tail
    /\ cursor' = lru.colder[cursor]
    /\ IF is_entry_expired(cursor)
       THEN Becomes(cache_remove_entry(Cache, cursor))
       ELSE UNCHANGED cacheVars
    /\ UNCHANGED <<lock, call, result, loaded>>

prune_done ==
    /\ lock = "daemon" /\ cursor = tail
    /\ lock' = "free"
    /\ UNCHANGED <<cacheVars, call, cursor, result, loaded>>

\* Time passes, also while a lock is held.
Tick ==
    /\ mem' = [n \in Nodes |->
          IF mem[n] = Freed \/ mem[n].age = MaxAge THEN mem[n]
          ELSE [mem[n] EXCEPT !.age = @ + 1]]
    /\ UNCHANGED <<table, lru, size, threadVars>>

-----------------------------------------------------------------------------
dns_cache_init ==
    /\ mem = [n \in Nodes |-> Freed]
    /\ table = [k \in Keys |-> Null]
    /\ lru = [hotter |-> [n \in Links |-> IF n = tail THEN head ELSE Null],
              colder |-> [n \in Links |-> IF n = head THEN tail ELSE Null]]
    /\ size = 0

Init ==
    /\ dns_cache_init
    /\ lock = "free" /\ call = Idle /\ cursor = tail /\ result = Miss
    /\ loaded = {}

DaemonNext == dns_cache_prune \/ prune_step \/ prune_done

Next ==
    \/ Tick
    \/ \E k \in StaticKeys : load_ip_table(k)
    \/ \E c \in Calls \ {Idle} : MainLock(c)
    \/ MainBody
    \/ DaemonNext

Spec == Init /\ [][Next]_vars

\* Both threads run, time passes, and the daemon gets the mutex in the end.
FairSpec ==
    /\ Spec
    /\ WF_vars(Tick) /\ WF_vars(MainBody)
    /\ \A k \in StaticKeys : WF_vars(load_ip_table(k))
    /\ SF_vars(dns_cache_prune)
    /\ WF_vars(prune_step \/ prune_done)
=============================================================================
