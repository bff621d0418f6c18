--------------------------- MODULE DnsCacheProofs ---------------------------
(***************************************************************************)
(* Proofs about the DNS cache for every capacity, every set of questions   *)
(* and answers and every memory: table, list, count and lock stay in one   *)
(* piece whatever the two threads do, and the whole is an LRU cache.       *)
(***************************************************************************)
EXTENDS DnsCacheProps, NumberLemmas, FiniteSetTheorems, SequenceTheorems

USE DEF cacheVars, threadVars

-----------------------------------------------------------------------------
(* The list.                                                               *)

LinkType == [hotter : [Links -> Links \cup {Null}],
             colder : [Links -> Links \cup {Null}]]

\* p lists the nodes A of the list l, s of them, from head to tail.
Path(p, l, A, s) ==
    /\ p \in [0 .. s + 1 -> A \cup {head, tail}]
    /\ p[0] = head /\ p[s + 1] = tail
    /\ \A i \in 1 .. s : p[i] \in A
    /\ \A n \in A : \E i \in 1 .. s : p[i] = n
    /\ \A i, j \in 0 .. s + 1 : p[i] = p[j] => i = j
    /\ \A i \in 0 .. s : l.colder[p[i]] = p[i + 1] /\ l.hotter[p[i + 1]] = p[i]

\* Nothing but the nodes of A and the inner sides of the sentinels is linked.
OnlyLinked(l, A) ==
    /\ A \in SUBSET Nodes
    /\ l \in LinkType
    /\ \A n \in Links : n \notin A \cup {tail} => l.hotter[n] = Null
    /\ \A n \in Links : n \notin A \cup {head} => l.colder[n] = Null

\* The paths after the k-th node is taken out and after n is put in front.
Cut(p, k, s) == [i \in 0 .. s |-> IF i < k THEN p[i] ELSE p[i + 1]]
Push(p, n, s) == [i \in 0 .. s + 2 |-> IF i = 0 THEN head
                                       ELSE IF i = 1 THEN n ELSE p[i - 1]]

\* lru_remove takes one node out of the path.
LEMMA RemovePath ==
  ASSUME NEW l, NEW A, NEW s \in Nat, NEW p, NEW k \in 1 .. s,
         OnlyLinked(l, A), Path(p, l, A, s)
  PROVE  LET n == p[k]
             m == lru_remove(l, n)
         IN /\ n \in A
            /\ OnlyLinked(m, A \ {n})
            /\ Path(Cut(p, k, s), m, A \ {n}, s - 1)
<1> DEFINE n == p[k]
           m == lru_remove(l, n)
           a == p[k - 1]
           b == p[k + 1]
           q == Cut(p, k, s)
<1>1. /\ k - 1 \in 0 .. s /\ k \in 0 .. s /\ (k - 1) + 1 = k
      /\ k + 1 \in 0 .. s + 1
  OBVIOUS
<1>2. /\ n \in A /\ n \in Nodes /\ n \in Links
      /\ a \in A \cup {head, tail} /\ b \in A \cup {head, tail}
      /\ a \in Links /\ b \in Links
  BY <1>1 DEF Path, OnlyLinked, Links
<1>3. /\ l.hotter[n] = a /\ l.colder[n] = b
      /\ a # n /\ b # n /\ n \notin {head, tail}
  BY <1>1, <1>2, CacheAssumption DEF Path
<1>4. a # Null /\ b # Null
  BY <1>2, CacheAssumption DEF Links
<1>5. /\ l.hotter \in [Links -> Links \cup {Null}]
      /\ l.colder \in [Links -> Links \cup {Null}]
  BY DEF OnlyLinked, LinkType
<1>6. m = [hotter |-> [l.hotter EXCEPT ![b] = a, ![n] = Null],
           colder |-> [l.colder EXCEPT ![a] = b, ![n] = Null]]
  BY <1>3, <1>4 DEF lru_remove
<1>7. /\ m \in LinkType
      /\ \A x \in Links : m.hotter[x] = IF x = n THEN Null
                                        ELSE IF x = b THEN a ELSE l.hotter[x]
      /\ \A x \in Links : m.colder[x] = IF x = n THEN Null
                                        ELSE IF x = a THEN b ELSE l.colder[x]
  BY <1>2, <1>5, <1>6 DEF LinkType
<1> HIDE DEF m
<1>8. \A i \in 0 .. s : q[i] = IF i < k THEN p[i] ELSE p[i + 1]
  BY DEF Cut
<1>9. a # tail /\ b # head
  <2>1. k - 1 # s + 1 /\ s + 1 \in 0 .. s + 1 /\ 0 \in 0 .. s + 1 /\ k + 1 # 0
    OBVIOUS
  <2> QED BY <1>1, <2>1 DEF Path
<1>10. OnlyLinked(m, A \ {n})
  BY <1>2, <1>7, <1>9 DEF OnlyLinked
<1>11. \A i \in 0 .. s + 1 : p[i] = n <=> i = k
  BY <1>1 DEF Path
<1>12. q \in [0 .. (s - 1) + 1 -> (A \ {n}) \cup {head, tail}]
  <2>1. \A i \in 0 .. s : q[i] \in (A \ {n}) \cup {head, tail}
    BY <1>8, <1>11 DEF Path
  <2>2. (s - 1) + 1 = s
    OBVIOUS
  <2> QED BY <2>1, <2>2 DEF Cut
<1>13. q[0] = head /\ q[(s - 1) + 1] = tail
  BY <1>8 DEF Path
<1>14. \A i \in 1 .. s - 1 : q[i] \in A \ {n}
  BY <1>8, <1>11 DEF Path
<1>15. ASSUME NEW x \in A \ {n} PROVE \E i \in 1 .. s - 1 : q[i] = x
  <2>1. PICK j \in 1 .. s : p[j] = x
    BY DEF Path
  <2>2. j # k
    BY <2>1
  <2>3. CASE j < k
    <3>1. j \in 1 .. s - 1 /\ q[j] = p[j]
      BY <1>8, <2>3
    <3> QED BY <2>1, <3>1
  <2>4. CASE j > k
    <3>1. j - 1 \in 1 .. s - 1 /\ q[j - 1] = p[j]
      BY <1>8, <2>4
    <3> QED BY <2>1, <3>1
  <2> QED BY <2>2, <2>3, <2>4
<1>16. \A i, j \in 0 .. (s - 1) + 1 : q[i] = q[j] => i = j
  <2> SUFFICES ASSUME NEW i \in 0 .. s, NEW j \in 0 .. s, q[i] = q[j] PROVE i = j
    OBVIOUS
  <2>1. PICK u \in 0 .. s + 1 : u = (IF i < k THEN i ELSE i + 1) /\ q[i] = p[u]
    BY <1>8
  <2>2. PICK v \in 0 .. s + 1 : v = (IF j < k THEN j ELSE j + 1) /\ q[j] = p[v]
    BY <1>8
  <2>3. \A x, y \in 0 .. s + 1 : p[x] = p[y] => x = y
    BY DEF Path
  <2>4. p[u] = p[v]
    BY <2>1, <2>2, Zenon
  <2>5. u = v
    BY <2>3, <2>4, Zenon
  <2> HIDE DEF q
  <2> QED BY <2>1, <2>2, <2>5
<1>17. ASSUME NEW i \in 0 .. s - 1
       PROVE  m.colder[q[i]] = q[i + 1] /\ m.hotter[q[i + 1]] = q[i]
  <2>1. CASE i < k - 1
    <3>1. q[i] = p[i] /\ q[i + 1] = p[i + 1] /\ i \in 0 .. s
      BY <1>8, <2>1
    <3>2. l.colder[p[i]] = p[i + 1] /\ l.hotter[p[i + 1]] = p[i]
      BY <3>1 DEF Path
    <3>3. p[i] # n /\ p[i] # a /\ p[i + 1] # n /\ p[i + 1] # b
      BY <1>1, <2>1 DEF Path
    <3>4. p[i] \in Links /\ p[i + 1] \in Links
      BY <1>1, <2>1 DEF Path, OnlyLinked, Links
    <3> QED BY <1>7, <3>1, <3>2, <3>3, <3>4
  <2>2. CASE i = k - 1
    <3>1. q[i] = a /\ q[i + 1] = b
      BY <1>8, <2>2
    <3> QED BY <1>2, <1>3, <1>7, <3>1
  <2>3. CASE i > k - 1
    <3>1. q[i] = p[i + 1] /\ q[i + 1] = p[i + 2] /\ i + 1 \in 0 .. s /\ i + 1 + 1 = i + 2
      BY <1>8, <2>3
    <3>2. l.colder[p[i + 1]] = p[i + 2] /\ l.hotter[p[i + 2]] = p[i + 1]
      BY <3>1 DEF Path
    <3>3. p[i + 1] # n /\ p[i + 1] # a /\ p[i + 2] # n /\ p[i + 2] # b
      BY <1>1, <2>3 DEF Path
    <3>4. p[i + 1] \in Links /\ p[i + 2] \in Links
      BY <1>1, <2>3 DEF Path, OnlyLinked, Links
    <3> QED BY <1>7, <3>1, <3>2, <3>3, <3>4
  <2> QED BY <2>1, <2>2, <2>3
<1>18. Path(q, m, A \ {n}, s - 1)
  <2> HIDE DEF q
  <2> QED BY <1>12, <1>13, <1>14, <1>15, <1>16, <1>17 DEF Path
<1> QED BY <1>2, <1>10, <1>18 DEF m

\* lru_touch puts a node that is not linked in front of the path.
LEMMA PushPath ==
  ASSUME NEW l, NEW A, NEW s \in Nat, NEW p, NEW n \in Nodes \ A,
         OnlyLinked(l, A), Path(p, l, A, s)
  PROVE  /\ OnlyLinked(lru_touch(l, n), A \cup {n})
         /\ Path(Push(p, n, s), lru_touch(l, n), A \cup {n}, s + 1)
<1> DEFINE m == lru_touch(l, n)
           b == p[1]
           q == Push(p, n, s)
<1>1. /\ l.hotter \in [Links -> Links \cup {Null}]
      /\ l.colder \in [Links -> Links \cup {Null}]
  BY DEF OnlyLinked, LinkType
<1>2. /\ n \in Links /\ n \notin {head, tail} /\ l.hotter[n] = Null
      /\ lru_remove(l, n) = l
  BY CacheAssumption DEF OnlyLinked, Links, lru_remove
<1>3. /\ 0 \in 0 .. s /\ 1 \in 0 .. s + 1 /\ 0 + 1 = 1
      /\ b = l.colder[head] /\ b \in A \cup {head, tail} /\ b \in Links
      /\ b # head /\ b # n
  <2>1. 0 \in 0 .. s /\ 1 \in 0 .. s + 1 /\ 0 + 1 = 1 /\ 0 \in 0 .. s + 1
    OBVIOUS
  <2>2. b = l.colder[head] /\ b \in A \cup {head, tail} /\ b # head
    BY <2>1 DEF Path
  <2> QED BY <1>2, <2>1, <2>2 DEF OnlyLinked, Links
<1>4. m = [hotter |-> [l.hotter EXCEPT ![n] = head, ![b] = n],
           colder |-> [l.colder EXCEPT ![n] = b, ![head] = n]]
  BY <1>2, <1>3 DEF lru_touch
<1>5. /\ m \in LinkType
      /\ \A x \in Links : m.hotter[x] = IF x = b THEN n
                                        ELSE IF x = n THEN head ELSE l.hotter[x]
      /\ \A x \in Links : m.colder[x] = IF x = head THEN n
                                        ELSE IF x = n THEN b ELSE l.colder[x]
  BY <1>1, <1>2, <1>3, <1>4 DEF LinkType, Links
<1> HIDE DEF m
<1>6. OnlyLinked(m, A \cup {n})
  BY <1>3, <1>5 DEF OnlyLinked
<1>7. \A i \in 0 .. s + 2 : q[i] = IF i = 0 THEN head
                                   ELSE IF i = 1 THEN n ELSE p[i - 1]
  BY DEF Push
<1>8. \A i \in 0 .. s + 1 : p[i] # n /\ p[i] \in Links
  BY <1>2 DEF Path, OnlyLinked, Links
<1>9. q \in [0 .. (s + 1) + 1 -> (A \cup {n}) \cup {head, tail}]
  <2>1. \A i \in 0 .. s + 2 : q[i] \in (A \cup {n}) \cup {head, tail}
    BY <1>7 DEF Path
  <2>2. (s + 1) + 1 = s + 2
    OBVIOUS
  <2> QED BY <2>1, <2>2 DEF Push
<1>10. q[0] = head /\ q[(s + 1) + 1] = tail
  BY <1>7 DEF Path
<1>11. \A i \in 1 .. s + 1 : q[i] \in A \cup {n}
  BY <1>7 DEF Path
<1>12. ASSUME NEW x \in A \cup {n} PROVE \E i \in 1 .. s + 1 : q[i] = x
  <2>1. CASE x = n
    <3>1. 1 \in 1 .. s + 1 /\ q[1] = n
      BY <1>7
    <3> QED BY <2>1, <3>1
  <2>2. CASE x \in A
    <3>1. PICK j \in 1 .. s : p[j] = x
      BY <2>2 DEF Path
    <3>2. j + 1 \in 1 .. s + 1 /\ q[j + 1] = p[j]
      BY <1>7
    <3> QED BY <3>1, <3>2
  <2> QED BY <2>1, <2>2
<1>13. \A i, j \in 0 .. (s + 1) + 1 : q[i] = q[j] => i = j
  <2> SUFFICES ASSUME NEW i \in 0 .. s + 2, NEW j \in 0 .. s + 2, q[i] = q[j], i < j
               PROVE  FALSE
    OBVIOUS
  <2>1. CASE i = 0 /\ j = 1
    BY <1>2, <1>7, <2>1
  <2>2. CASE i = 0 /\ j > 1
    <3>1. j - 1 \in 0 .. s + 1 /\ j - 1 # 0 /\ p[j - 1] = p[0] /\ 0 \in 0 .. s + 1
      BY <1>7, <2>2 DEF Path
    <3> QED BY <3>1 DEF Path
  <2>3. CASE i = 1
    <3>1. j - 1 \in 0 .. s + 1 /\ p[j - 1] = n
      BY <1>7, <2>3
    <3> QED BY <1>8, <3>1
  <2>4. CASE i > 1
    <3>1. /\ i - 1 \in 0 .. s + 1 /\ j - 1 \in 0 .. s + 1
          /\ p[i - 1] = p[j - 1] /\ i - 1 # j - 1
      BY <1>7, <2>4
    <3> QED BY <3>1 DEF Path
  <2> QED BY <2>1, <2>2, <2>3, <2>4
<1>14. ASSUME NEW i \in 0 .. s + 1
       PROVE  m.colder[q[i]] = q[i + 1] /\ m.hotter[q[i + 1]] = q[i]
  <2>1. head \in Links
    BY DEF Links
  <2>2. CASE i = 0
    <3>1. q[i] = head /\ q[i + 1] = n
      BY <1>7, <2>2
    <3> QED BY <1>2, <1>3, <1>5, <2>1, <3>1
  <2>3. CASE i = 1
    <3>1. q[i] = n /\ q[i + 1] = b
      BY <1>7, <2>3
    <3> QED BY <1>2, <1>3, <1>5, <3>1
  <2>4. CASE i > 1
    <3>1. /\ q[i] = p[i - 1] /\ q[i + 1] = p[i]
          /\ i - 1 \in 0 .. s /\ (i - 1) + 1 = i /\ i - 1 \in 0 .. s + 1
      BY <1>7, <2>4
    <3>2. l.colder[p[i - 1]] = p[i] /\ l.hotter[p[i]] = p[i - 1]
      BY <3>1 DEF Path
    <3>3. /\ p[i - 1] # n /\ p[i - 1] # head /\ p[i] # n /\ p[i] # b
          /\ p[i - 1] \in Links /\ p[i] \in Links
      <4>1. i - 1 # 0 /\ i # 1 /\ 0 \in 0 .. s + 1 /\ 1 \in 0 .. s + 1
        BY <2>4
      <4> QED BY <1>8, <3>1, <4>1 DEF Path
    <3> QED BY <1>5, <3>1, <3>2, <3>3
  <2> QED BY <2>2, <2>3, <2>4
<1>15. Path(q, m, A \cup {n}, s + 1)
  <2> HIDE DEF q
  <2> QED BY <1>9, <1>10, <1>11, <1>12, <1>13, <1>14 DEF Path
<1> QED BY <1>6, <1>15 DEF m

\* lru_touch of a linked node takes it out and puts it in front.
LEMMA TouchPath ==
  ASSUME NEW l, NEW A, NEW s \in Nat, NEW p, NEW k \in 1 .. s,
         OnlyLinked(l, A), Path(p, l, A, s)
  PROVE  /\ OnlyLinked(lru_touch(l, p[k]), A)
         /\ Path(Push(Cut(p, k, s), p[k], s - 1), lru_touch(l, p[k]), A, s)
<1> DEFINE n == p[k]
           m == lru_remove(l, n)
<1>1. n \in A /\ OnlyLinked(m, A \ {n}) /\ Path(Cut(p, k, s), m, A \ {n}, s - 1)
  BY RemovePath
<1>2. n \in Nodes /\ n \in Links /\ n \notin {head, tail} /\ s - 1 \in Nat
      /\ (A \ {n}) \cup {n} = A /\ (s - 1) + 1 = s
  BY <1>1, CacheAssumption DEF OnlyLinked, Links
<1>3. m.hotter[n] = Null
  BY <1>1, <1>2 DEF OnlyLinked
<1>4. lru_touch(m, n) = lru_touch(l, n)
  <2>1. lru_remove(m, n) = m
    BY <1>3 DEF lru_remove
  <2> QED BY <2>1 DEF lru_touch
<1>5. /\ OnlyLinked(lru_touch(m, n), (A \ {n}) \cup {n})
      /\ Path(Push(Cut(p, k, s), n, s - 1), lru_touch(m, n), (A \ {n}) \cup {n}, (s - 1) + 1)
  <2> HIDE DEF m, n
  <2> QED BY <1>1, <1>2, PushPath
<1> QED BY <1>2, <1>4, <1>5

\* Following the colder links from the head gives the path.
LEMMA WalkIsPath ==
  ASSUME NEW l, NEW A, NEW s \in Nat, NEW p, OnlyLinked(l, A), Path(p, l, A, s),
         Cardinality(Nodes) \in Nat, s <= Cardinality(Nodes)
  PROVE  \A i \in 0 .. s + 1 : Walk(l)[i] = p[i]
<1> DEFINE D == 0 .. Cardinality(Nodes) + 1
           Step(f, i) == IF i = 0 THEN head
                         ELSE IF f[i - 1] \in Links THEN l.colder[f[i - 1]] ELSE Null
           w == [i \in D |-> IF i <= s + 1 THEN p[i] ELSE Null]
           f == Walk(l)
<1>1. Null \notin Links /\ tail \in Links /\ l.colder[tail] = Null
  BY CacheAssumption DEF Links, OnlyLinked
<1>2. ASSUME NEW i \in D PROVE w[i] = Step(w, i)
  <2>1. CASE i = 0
    BY <2>1 DEF Path
  <2>2. CASE i # 0 /\ i <= s + 1
    <3>1. i - 1 \in D /\ i - 1 \in 0 .. s /\ (i - 1) + 1 = i
      BY <2>2
    <3>2. w[i - 1] = p[i - 1] /\ w[i] = p[i]
      BY <2>2, <3>1
    <3>3. p[i - 1] \in Links /\ l.colder[p[i - 1]] = p[i]
      BY <3>1 DEF Path, OnlyLinked, Links
    <3> QED BY <2>2, <3>2, <3>3
  <2>3. CASE i = s + 2
    <3>1. i - 1 \in D /\ i - 1 = s + 1 /\ ~(i <= s + 1)
      BY <2>3
    <3>2. w[i - 1] = tail /\ w[i] = Null
      BY <3>1 DEF Path
    <3> QED BY <1>1, <2>3, <3>2
  <2>4. CASE i > s + 2
    <3>1. i - 1 \in D /\ ~(i - 1 <= s + 1) /\ ~(i <= s + 1)
      BY <2>4
    <3>2. w[i - 1] = Null /\ w[i] = Null
      BY <3>1
    <3> QED BY <1>1, <2>4, <3>2
  <2> QED BY <2>1, <2>2, <2>3, <2>4
<1>3. w = [i \in D |-> Step(w, i)]
  <2>1. \A i \in D : w[i] = Step(w, i)
    BY <1>2
  <2>2. w = [i \in D |-> w[i]]
    OBVIOUS
  <2> HIDE DEF w
  <2> QED BY <2>1, <2>2
<1>4. f = [i \in D |-> Step(f, i)]
  <2>1. f = CHOOSE g : g = [i \in D |-> Step(g, i)]
    BY DEF Walk
  <2> HIDE DEF f, w, D
  <2>2. \E g : g = [i \in D |-> Step(g, i)]
    BY <1>3
  <2> QED BY <2>1, <2>2
<1>5. \A i \in D : f[i] = Step(f, i)
  <2> HIDE DEF f
  <2> QED BY <1>4
<1> HIDE DEF f, w
<1> DEFINE P == {i \in 0 .. s + 1 : f[i] = p[i]}
<1>6. 0 \in P
  BY <1>5 DEF Path
<1>7. ASSUME NEW i \in 0 .. (s + 1) - 1, i \in P PROVE i + 1 \in P
  <2>1. i + 1 \in D /\ i + 1 \in 0 .. s + 1 /\ i \in 0 .. s /\ (i + 1) - 1 = i /\ i + 1 # 0
    BY <1>7
  <2>2. p[i] \in Links /\ l.colder[p[i]] = p[i + 1]
    BY <2>1 DEF Path, OnlyLinked, Links
  <2>3. f[i + 1] = Step(f, i + 1)
    BY <1>5, <2>1
  <2> QED BY <1>7, <2>1, <2>2, <2>3
<1>8. 0 .. s + 1 \subseteq P
  <2> HIDE DEF P
  <2> QED BY <1>6, <1>7, UpTo
<1> QED BY <1>8 DEF f

-----------------------------------------------------------------------------
(* The cache: memory, table, list and count, as one value.                 *)

AllocatedIn(c) == {n \in Nodes : c.mem[n] # Freed}

CacheType == [mem : [Nodes -> EntryType \cup {Freed}],
              table : [Keys -> Nodes \cup {Null}], lru : LinkType, size : Nat]

\* A key leads to the entry that carries it, and every entry is found.
TableOK(c) ==
    /\ \A k \in Keys : c.table[k] # Null => /\ c.table[k] \in AllocatedIn(c)
                                            /\ c.mem[c.table[k]].key = k
    /\ \A n \in AllocatedIn(c) : c.table[c.mem[n].key] = n

\* The cache c in one piece, with its entries in the order p.
CacheOK(c, p) ==
    /\ c \in CacheType
    /\ TableOK(c)
    /\ c.size = Cardinality(AllocatedIn(c))
    /\ OnlyLinked(c.lru, AllocatedIn(c))
    /\ Path(p, c.lru, AllocatedIn(c), c.size)

\* The fields of a cache.
LEMMA CacheFields ==
  ASSUME NEW c \in CacheType
  PROVE  /\ c.mem \in [Nodes -> EntryType \cup {Freed}]
         /\ c.table \in [Keys -> Nodes \cup {Null}]
         /\ c.lru \in LinkType /\ c.size \in Nat
         /\ \A n \in AllocatedIn(c) : /\ n \in Nodes /\ c.mem[n] \in EntryType
                                      /\ c.mem[n].key \in Keys
                                      /\ c.mem[n].value \in Value
                                      /\ c.mem[n].age \in 0 .. MaxAge
         /\ IsFiniteSet(AllocatedIn(c))
<1>1. /\ c.mem \in [Nodes -> EntryType \cup {Freed}]
      /\ c.table \in [Keys -> Nodes \cup {Null}]
      /\ c.lru \in LinkType /\ c.size \in Nat
  BY DEF CacheType
<1>2. IsFiniteSet(AllocatedIn(c))
  BY CacheAssumption, FS_Subset DEF AllocatedIn
<1>3. \A n \in AllocatedIn(c) : n \in Nodes /\ c.mem[n] \in EntryType
  BY <1>1 DEF AllocatedIn
<1>4. \A e \in EntryType : e.key \in Keys /\ e.value \in Value /\ e.age \in 0 .. MaxAge
  BY DEF EntryType
<1> QED BY <1>1, <1>2, <1>3, <1>4

\* cache_remove_entry.
LEMMA RemoveOK ==
  ASSUME NEW c, NEW p, CacheOK(c, p), NEW i \in 1 .. c.size
  PROVE  LET n == p[i]
             d == cache_remove_entry(c, n)
         IN /\ n \in AllocatedIn(c)
            /\ CacheOK(d, Cut(p, i, c.size))
            /\ AllocatedIn(d) = AllocatedIn(c) \ {n}
            /\ d.size = c.size - 1
            /\ \A k \in Keys : d.table[k] = IF k = c.mem[n].key THEN Null ELSE c.table[k]
            /\ \A x \in AllocatedIn(d) : d.mem[x] = c.mem[x]
<1> DEFINE n == p[i]
           d == cache_remove_entry(c, n)
           A == AllocatedIn(c)
           key == c.mem[n].key
<1>1. /\ c.mem \in [Nodes -> EntryType \cup {Freed}]
      /\ c.table \in [Keys -> Nodes \cup {Null}]
      /\ c.lru \in LinkType /\ c.size \in Nat
      /\ \A x \in A : x \in Nodes /\ c.mem[x] \in EntryType /\ c.mem[x].key \in Keys
      /\ IsFiniteSet(A)
  BY CacheFields DEF CacheOK
<1>2. /\ n \in A
      /\ OnlyLinked(lru_remove(c.lru, n), A \ {n})
      /\ Path(Cut(p, i, c.size), lru_remove(c.lru, n), A \ {n}, c.size - 1)
  BY <1>1, RemovePath DEF CacheOK
<1>3. n \in Nodes /\ key \in Keys /\ c.table[key] = n
  BY <1>1, <1>2 DEF CacheOK, TableOK
<1>4. c.size > 0
  BY <1>1
<1>5. d = [mem |-> [c.mem EXCEPT ![n] = Freed], table |-> [c.table EXCEPT ![key] = Null],
           lru |-> lru_remove(c.lru, n), size |-> c.size - 1]
  BY <1>4 DEF cache_remove_entry
<1>6. /\ d.mem = [c.mem EXCEPT ![n] = Freed] /\ d.table = [c.table EXCEPT ![key] = Null]
      /\ d.lru = lru_remove(c.lru, n) /\ d.size = c.size - 1
  BY <1>5
<1>7. d \in CacheType
  <2>1. [c.mem EXCEPT ![n] = Freed] \in [Nodes -> EntryType \cup {Freed}]
    BY <1>1
  <2>2. [c.table EXCEPT ![key] = Null] \in [Keys -> Nodes \cup {Null}]
    BY <1>1
  <2>3. lru_remove(c.lru, n) \in LinkType
    BY <1>2 DEF OnlyLinked
  <2>4. c.size - 1 \in Nat
    BY <1>1, <1>4
  <2> QED BY <1>5, <2>1, <2>2, <2>3, <2>4 DEF CacheType
<1> HIDE DEF d
<1>8. AllocatedIn(d) = A \ {n}
  BY <1>1, <1>3, <1>6 DEF AllocatedIn
<1>9. \A k \in Keys : d.table[k] = IF k = key THEN Null ELSE c.table[k]
  BY <1>1, <1>6
<1>10. \A x \in AllocatedIn(d) : d.mem[x] = c.mem[x]
  BY <1>1, <1>3, <1>6, <1>8
<1>11. d.size = Cardinality(AllocatedIn(d))
  BY <1>1, <1>2, <1>6, <1>8, FS_RemoveElement DEF CacheOK
<1>12. TableOK(d)
  <2>1. ASSUME NEW k \in Keys, d.table[k] # Null
        PROVE  d.table[k] \in AllocatedIn(d) /\ d.mem[d.table[k]].key = k
    <3>1. k # key /\ d.table[k] = c.table[k] /\ c.table[k] \in A
          /\ c.mem[c.table[k]].key = k
      BY <1>9, <2>1 DEF CacheOK, TableOK
    <3>2. c.table[k] # n
      BY <3>1
    <3> QED BY <1>8, <1>10, <3>1, <3>2
  <2>2. ASSUME NEW x \in AllocatedIn(d)
        PROVE  d.table[d.mem[x].key] = x
    <3>1. x \in A /\ x # n /\ d.mem[x] = c.mem[x] /\ c.mem[x].key \in Keys
      BY <1>1, <1>8, <1>10, <2>2
    <3>2. c.table[c.mem[x].key] = x
      BY <3>1 DEF CacheOK, TableOK
    <3>3. c.mem[x].key # key
      BY <1>3, <3>1, <3>2
    <3> QED BY <1>9, <3>1, <3>2, <3>3
  <2> QED BY <2>1, <2>2 DEF TableOK
<1>13. CacheOK(d, Cut(p, i, c.size))
  BY <1>2, <1>6, <1>7, <1>8, <1>11, <1>12 DEF CacheOK
<1> QED BY <1>2, <1>6, <1>8, <1>9, <1>10, <1>13 DEF d

\* An entry becomes the hottest.
LEMMA TouchOK ==
  ASSUME NEW c, NEW p, CacheOK(c, p), NEW i \in 1 .. c.size
  PROVE  LET d == [c EXCEPT !.lru = lru_touch(c.lru, p[i])]
         IN /\ CacheOK(d, Push(Cut(p, i, c.size), p[i], c.size - 1))
            /\ d.mem = c.mem /\ d.table = c.table /\ d.size = c.size
            /\ d.lru = lru_touch(c.lru, p[i])
            /\ AllocatedIn(d) = AllocatedIn(c)
<1> DEFINE l == lru_touch(c.lru, p[i])
           d == [c EXCEPT !.lru = l]
           A == AllocatedIn(c)
<1>1. c \in CacheType /\ c.size \in Nat
  BY DEF CacheOK, CacheType
<1>2. /\ OnlyLinked(l, A)
      /\ Path(Push(Cut(p, i, c.size), p[i], c.size - 1), l, A, c.size)
  BY <1>1, TouchPath DEF CacheOK
<1>3. l \in LinkType
  BY <1>2 DEF OnlyLinked
<1> HIDE DEF l
<1>4. /\ d \in CacheType
      /\ d.mem = c.mem /\ d.table = c.table /\ d.size = c.size /\ d.lru = l
  BY <1>1, <1>3 DEF CacheType
<1> HIDE DEF d
<1>5. AllocatedIn(d) = A
  BY <1>4 DEF AllocatedIn
<1>6. TableOK(d)
  BY <1>4, <1>5 DEF CacheOK, TableOK
<1>7. CacheOK(d, Push(Cut(p, i, c.size), p[i], c.size - 1))
  BY <1>2, <1>4, <1>5, <1>6 DEF CacheOK
<1> QED BY <1>4, <1>5, <1>7 DEF d, l

\* dns_cache_put for a question that is there.
LEMMA UpdateOK ==
  ASSUME NEW c, NEW p, CacheOK(c, p), NEW k \in Keys, NEW v \in Value,
         NEW i \in 1 .. c.size, c.table[k] = p[i]
  PROVE  LET d == Updated(c, k, v)
         IN /\ CacheOK(d, Push(Cut(p, i, c.size), p[i], c.size - 1))
            /\ AllocatedIn(d) = AllocatedIn(c)
            /\ d.size = c.size /\ d.table = c.table
            /\ d.mem = [c.mem EXCEPT ![p[i]] = [key |-> k, value |-> v, age |-> 0]]
<1> DEFINE n == p[i]
           e == [key |-> k, value |-> v, age |-> 0]
           l == lru_touch(c.lru, n)
           d == Updated(c, k, v)
           A == AllocatedIn(c)
<1>1. /\ c \in CacheType
      /\ c.mem \in [Nodes -> EntryType \cup {Freed}]
      /\ c.table \in [Keys -> Nodes \cup {Null}]
      /\ c.lru \in LinkType /\ c.size \in Nat
      /\ \A x \in A : x \in Nodes /\ c.mem[x] \in EntryType /\ c.mem[x].key \in Keys
  BY CacheFields DEF CacheOK
<1>2. /\ OnlyLinked(l, A)
      /\ Path(Push(Cut(p, i, c.size), n, c.size - 1), l, A, c.size)
  BY <1>1, TouchPath DEF CacheOK
<1>3. l \in LinkType
  BY <1>2 DEF OnlyLinked
<1>4. e \in EntryType /\ e # Freed /\ e.key = k
  BY CacheAssumption DEF EntryType, MaxAge
<1>5. n \in A /\ c.mem[n].key = k
  <2>1. n \in A
    BY <1>1 DEF CacheOK, Path
  <2>2. n # Null
    BY <1>1, <2>1, CacheAssumption
  <2> QED BY <2>1, <2>2 DEF CacheOK, TableOK
<1> HIDE DEF l, e
<1>6. d = [c EXCEPT !.mem[n] = e, !.lru = l]
  BY DEF Updated, e, l
<1>7. /\ d.mem = [c.mem EXCEPT ![n] = e] /\ d.table = c.table
      /\ d.lru = l /\ d.size = c.size
      /\ d \in CacheType
  <2>1. [c.mem EXCEPT ![n] = e] \in [Nodes -> EntryType \cup {Freed}]
    BY <1>1, <1>4
  <2> HIDE DEF n, d
  <2>2. d = [mem |-> [c.mem EXCEPT ![n] = e], table |-> c.table, lru |-> l, size |-> c.size]
    BY <1>1, <1>6 DEF CacheType
  <2> QED BY <1>1, <1>3, <2>1, <2>2 DEF CacheType
<1> HIDE DEF d
<1>8. AllocatedIn(d) = A
  BY <1>1, <1>4, <1>5, <1>7 DEF AllocatedIn
<1>9. \A x \in A : d.mem[x].key = c.mem[x].key
  BY <1>1, <1>4, <1>5, <1>7
<1>10. TableOK(d)
  BY <1>7, <1>8, <1>9 DEF CacheOK, TableOK
<1>11. CacheOK(d, Push(Cut(p, i, c.size), n, c.size - 1))
  BY <1>2, <1>7, <1>8, <1>10 DEF CacheOK
<1> QED BY <1>7, <1>8, <1>11 DEF d, e

\* dns_cache_put for a question that is not there, at a free address.
LEMMA InsertOK ==
  ASSUME NEW c, NEW p, CacheOK(c, p), NEW k \in Keys, NEW v \in Value,
         NEW n \in Nodes, c.mem[n] = Freed, c.table[k] = Null
  PROVE  LET d == Inserted(c, k, v, n)
         IN /\ CacheOK(d, Push(p, n, c.size))
            /\ AllocatedIn(d) = AllocatedIn(c) \cup {n}
            /\ d.size = c.size + 1
            /\ d.mem = [c.mem EXCEPT ![n] = [key |-> k, value |-> v, age |-> 0]]
            /\ d.table = [c.table EXCEPT ![k] = n]
<1> DEFINE e == [key |-> k, value |-> v, age |-> 0]
           l == lru_touch(c.lru, n)
           d == Inserted(c, k, v, n)
           A == AllocatedIn(c)
<1>1. /\ c \in CacheType
      /\ c.mem \in [Nodes -> EntryType \cup {Freed}]
      /\ c.table \in [Keys -> Nodes \cup {Null}]
      /\ c.lru \in LinkType /\ c.size \in Nat
      /\ \A x \in A : x \in Nodes /\ c.mem[x] \in EntryType /\ c.mem[x].key \in Keys
      /\ IsFiniteSet(A)
  BY CacheFields DEF CacheOK
<1>2. n \in Nodes \ A
  BY DEF AllocatedIn
<1>3. /\ OnlyLinked(l, A \cup {n})
      /\ Path(Push(p, n, c.size), l, A \cup {n}, c.size + 1)
  BY <1>1, <1>2, PushPath DEF CacheOK
<1>4. l \in LinkType
  BY <1>3 DEF OnlyLinked
<1>5. e \in EntryType /\ e # Freed /\ e.key = k
  BY CacheAssumption DEF EntryType, MaxAge
<1>6. d = [mem |-> [c.mem EXCEPT ![n] = e], table |-> [c.table EXCEPT ![k] = n],
           lru |-> l, size |-> c.size + 1]
  BY DEF Inserted
<1> HIDE DEF l, e
<1>7. /\ d.mem = [c.mem EXCEPT ![n] = e] /\ d.table = [c.table EXCEPT ![k] = n]
      /\ d.lru = l /\ d.size = c.size + 1
      /\ d \in CacheType
  <2>1. [c.mem EXCEPT ![n] = e] \in [Nodes -> EntryType \cup {Freed}]
    BY <1>1, <1>5
  <2>2. [c.table EXCEPT ![k] = n] \in [Keys -> Nodes \cup {Null}]
    BY <1>1
  <2> QED BY <1>1, <1>4, <1>6, <2>1, <2>2 DEF CacheType
<1> HIDE DEF d
<1>8. AllocatedIn(d) = A \cup {n}
  BY <1>1, <1>5, <1>7 DEF AllocatedIn
<1>9. d.size = Cardinality(AllocatedIn(d))
  <2>1. c.size = Cardinality(A)
    BY DEF CacheOK
  <2>2. IsFiniteSet(A) /\ n \notin A
    BY <1>1, <1>2
  <2> HIDE DEF A
  <2>3. Cardinality(A \cup {n}) = Cardinality(A) + 1
    BY <2>2, FS_AddElement
  <2> QED BY <1>7, <1>8, <2>1, <2>3
<1>10. \A x \in A : d.mem[x] = c.mem[x] /\ d.mem[n] = e
  BY <1>1, <1>2, <1>7
<1>11. TableOK(d)
  <2>1. ASSUME NEW j \in Keys, d.table[j] # Null
        PROVE  d.table[j] \in AllocatedIn(d) /\ d.mem[d.table[j]].key = j
    <3>1. CASE j = k
      BY <1>1, <1>5, <1>7, <1>8, <3>1
    <3>2. CASE j # k
      <4>1. d.table[j] = c.table[j] /\ c.table[j] \in A /\ c.mem[c.table[j]].key = j
        BY <1>1, <1>7, <2>1, <3>2 DEF CacheOK, TableOK
      <4> QED BY <1>8, <1>10, <4>1
    <3> QED BY <3>1, <3>2
  <2>2. ASSUME NEW x \in AllocatedIn(d) PROVE d.table[d.mem[x].key] = x
    <3>1. CASE x = n
      BY <1>1, <1>5, <1>7, <3>1
    <3>2. CASE x # n
      <4>1. x \in A /\ d.mem[x] = c.mem[x] /\ c.table[c.mem[x].key] = x
            /\ c.mem[x].key \in Keys
        BY <1>1, <1>8, <1>10, <2>2, <3>2 DEF CacheOK, TableOK
      <4>2. c.mem[x].key # k
        BY <1>1, <4>1, CacheAssumption
      <4> QED BY <1>1, <1>7, <4>1, <4>2
    <3> QED BY <3>1, <3>2
  <2> QED BY <2>1, <2>2 DEF TableOK
<1>12. CacheOK(d, Push(p, n, c.size))
  BY <1>3, <1>7, <1>8, <1>9, <1>11 DEF CacheOK
<1> QED BY <1>7, <1>8, <1>12 DEF d, e

\* Room for one entry: the coldest goes when the cache is full.
LEMMA RoomOK ==
  ASSUME NEW c, NEW p, CacheOK(c, p), c.size <= Capacity
  PROVE  LET d == MadeRoom(c)
         IN IF c.size >= Capacity
            THEN /\ c.size \in 1 .. c.size
                 /\ d = cache_remove_entry(c, p[c.size])
            ELSE d = c
<1>1. c.size \in Nat /\ Capacity \in Nat \ {0}
  BY CacheAssumption DEF CacheOK, CacheType
<1>2. CASE c.size < Capacity
  BY <1>1, <1>2 DEF MadeRoom
<1>3. CASE c.size >= Capacity
  <2>1. c.size \in 0 .. c.size /\ c.size \in 1 .. c.size
    BY <1>1, <1>3
  <2>2. c.lru.hotter[tail] = p[c.size] /\ p[c.size] \in AllocatedIn(c)
    BY <2>1 DEF CacheOK, Path
  <2>3. p[c.size] # head
    BY <2>2, CacheAssumption DEF AllocatedIn
  <2> QED BY <1>1, <1>3, <2>1, <2>2, <2>3 DEF MadeRoom
<1> QED BY <1>1, <1>2, <1>3

-----------------------------------------------------------------------------
(* The inductive invariant.                                                *)

\* The nodes of the cache from head to tail.
OrderOf(c) == [i \in 0 .. c.size + 1 |-> Walk(c.lru)[i]]

\* The cache is in one piece; the main thread is in a call exactly while it
\* holds the lock, nobody locks before the ip table is loaded, and the
\* daemon's pointer is good while the daemon holds the lock.
CacheInv ==
    /\ CacheOK(Cache, OrderOf(Cache))
    /\ size <= Capacity
    /\ lock \in {"free", "main", "daemon"} /\ (lock = "main" <=> call # Idle)
    /\ lock # "free" => Serving
    /\ call \in Calls
    /\ cursor \in Nodes \cup {tail}
    /\ CursorIsValid
    /\ result \in Value \cup {Miss}
    /\ loaded \in SUBSET StaticKeys

\* There is only one order.
LEMMA OrderIsPath ==
  ASSUME NEW c, NEW p, CacheOK(c, p)
  PROVE  p = OrderOf(c)
<1>1. c \in CacheType /\ c.size \in Nat /\ c.size = Cardinality(AllocatedIn(c))
  BY DEF CacheOK, CacheType
<1>2. Cardinality(Nodes) \in Nat /\ c.size <= Cardinality(Nodes)
  BY <1>1, CacheAssumption, FS_Subset, FS_CardinalityType DEF AllocatedIn
<1>3. \A i \in 0 .. c.size + 1 : Walk(c.lru)[i] = p[i]
  BY <1>1, <1>2, WalkIsPath DEF CacheOK
<1>4. p = [i \in 0 .. c.size + 1 |-> p[i]]
  BY DEF CacheOK, Path
<1> QED BY <1>3, <1>4 DEF OrderOf

\* What becomes of the cache is what the operation returned.
LEMMA BecomesOK ==
  ASSUME NEW c, NEW p, CacheOK(c, p), Becomes(c)
  PROVE  Cache' = c /\ CacheOK(Cache, OrderOf(Cache))' /\ Allocated' = AllocatedIn(c)
<1>1. c \in CacheType
  BY DEF CacheOK
<1>2. c = [mem |-> c.mem, table |-> c.table, lru |-> c.lru, size |-> c.size]
  BY <1>1 DEF CacheType
<1>3. Cache' = c
  BY <1>2 DEF Becomes, Cache
<1>4. CacheOK(c, OrderOf(c))
  BY OrderIsPath
<1>5. Allocated' = AllocatedIn(c)
  BY DEF Becomes, Allocated, AllocatedIn
<1> QED BY <1>3, <1>4, <1>5

\* The entry of a question has a place in the order, and so has every entry.
LEMMA EntryHasPlace ==
  ASSUME NEW c, NEW p, CacheOK(c, p)
  PROVE  /\ \A n \in AllocatedIn(c) : \E i \in 1 .. c.size : p[i] = n
         /\ \A k \in Keys : c.table[k] # Null =>
               \E i \in 1 .. c.size : p[i] = c.table[k]
         /\ \A i \in 1 .. c.size : p[i] \in AllocatedIn(c)
  BY DEF CacheOK, Path, TableOK

\* dns_cache_put keeps the cache in one piece and within its capacity.
LEMMA PutOK ==
  ASSUME CacheOK(Cache, OrderOf(Cache)), size <= Capacity,
         NEW k \in Keys, NEW v \in Value, dns_cache_put(k, v)
  PROVE  CacheOK(Cache, OrderOf(Cache))' /\ size' <= Capacity
<1> DEFINE p == OrderOf(Cache)
<1>1. /\ Cache.mem = mem /\ Cache.table = table /\ Cache.lru = lru
      /\ Cache.size = size /\ size \in Nat /\ Capacity \in Nat \ {0}
  BY CacheAssumption DEF Cache, CacheOK, CacheType
<1>2. CASE table[k] # Null /\ Becomes(Updated(Cache, k, v))
  <2>1. PICK i \in 1 .. size : table[k] = p[i]
    BY <1>1, <1>2, EntryHasPlace
  <2>2. i \in 1 .. Cache.size /\ Cache.table[k] = p[i]
    BY <1>1, <2>1
  <2>3. CacheOK(Updated(Cache, k, v),
                Push(Cut(p, i, Cache.size), p[i], Cache.size - 1))
    BY <2>2, UpdateOK
  <2>4. Updated(Cache, k, v).size = size
    BY DEF Updated, Cache
  <2> QED BY <1>1, <1>2, <2>3, <2>4, BecomesOK DEF Becomes
<1>3. CASE /\ table[k] = Null
           /\ \E n \in {a \in Nodes : MadeRoom(Cache).mem[a] = Freed} :
                 Becomes(Inserted(MadeRoom(Cache), k, v, n))
  <2>1. PICK n \in Nodes : /\ MadeRoom(Cache).mem[n] = Freed
                           /\ Becomes(Inserted(MadeRoom(Cache), k, v, n))
    BY <1>3
  <2>2. PICK c, q : /\ c = MadeRoom(Cache) /\ CacheOK(c, q)
                    /\ c.table[k] = Null /\ c.size < Capacity /\ c.size \in Nat
    <3>1. CASE size >= Capacity
      <4>1. size \in 1 .. size /\ MadeRoom(Cache) = cache_remove_entry(Cache, p[size])
        BY <1>1, <3>1, RoomOK
      <4>2. /\ CacheOK(MadeRoom(Cache), Cut(p, size, size))
            /\ MadeRoom(Cache).size = size - 1
            /\ MadeRoom(Cache).table[k] = Null
        BY <1>1, <1>3, <4>1, RemoveOK
      <4>3. MadeRoom(Cache).size < Capacity /\ MadeRoom(Cache).size \in Nat
        BY <1>1, <4>1, <4>2
      <4> QED BY <4>2, <4>3
    <3>2. CASE size < Capacity
      <4>1. MadeRoom(Cache) = Cache
        BY <1>1, <3>2, RoomOK
      <4> QED BY <1>1, <1>3, <3>2, <4>1
    <3> QED BY <1>1, <3>1, <3>2
  <2>3. CacheOK(Inserted(c, k, v, n), Push(q, n, c.size))
    <3>1. c.mem[n] = Freed
      BY <2>1, <2>2
    <3> QED BY <2>2, <3>1, InsertOK
  <2>4. Inserted(c, k, v, n).size = c.size + 1
    BY DEF Inserted
  <2> QED BY <1>1, <2>1, <2>2, <2>3, <2>4, BecomesOK DEF Becomes
<1> QED BY <1>2, <1>3 DEF dns_cache_put

\* So do dns_cache_get and a removal.
LEMMA GetOK ==
  ASSUME CacheOK(Cache, OrderOf(Cache)), size <= Capacity,
         NEW k \in Keys, dns_cache_get(k)
  PROVE  /\ CacheOK(Cache, OrderOf(Cache))' /\ size' <= Capacity
         /\ result' \in Value \cup {Miss}
<1> DEFINE p == OrderOf(Cache)
           n == table[k]
<1>1. /\ Cache.mem = mem /\ Cache.table = table /\ Cache.lru = lru
      /\ Cache.size = size /\ size \in Nat /\ Capacity \in Nat \ {0}
  BY CacheAssumption DEF Cache, CacheOK, CacheType
<1>2. CASE n = Null /\ result' = Miss /\ UNCHANGED cacheVars
  BY <1>2 DEF Cache
<1>3. ASSUME n # Null
      PROVE  /\ \E i \in 1 .. size : n = p[i]
             /\ mem[n].value \in Value
  <2>1. \E i \in 1 .. size : n = p[i]
    BY <1>1, <1>3, EntryHasPlace
  <2>2. n \in AllocatedIn(Cache)
    BY <1>1, <2>1, EntryHasPlace
  <2> QED BY <1>1, <2>1, <2>2, CacheFields DEF CacheOK
<1>4. CASE n # Null /\ result' = Miss /\ Becomes(cache_remove_entry(Cache, n))
  <2>1. PICK i \in 1 .. size : n = p[i]
    BY <1>3, <1>4
  <2>2. /\ CacheOK(cache_remove_entry(Cache, n), Cut(p, i, size))
        /\ cache_remove_entry(Cache, n).size = size - 1
    BY <1>1, <2>1, RemoveOK
  <2> QED BY <1>1, <1>4, <2>2, BecomesOK DEF Becomes
<1>5. CASE /\ n # Null /\ result' = mem[n].value
           /\ Becomes([Cache EXCEPT !.lru = lru_touch(lru, n)])
  <2>1. PICK i \in 1 .. size : n = p[i]
    BY <1>3, <1>5
  <2>2. /\ CacheOK([Cache EXCEPT !.lru = lru_touch(lru, n)],
                   Push(Cut(p, i, size), n, size - 1))
        /\ [Cache EXCEPT !.lru = lru_touch(lru, n)].size = size
    BY <1>1, <2>1, TouchOK
  <2> QED BY <1>1, <1>3, <1>5, <2>2, BecomesOK DEF Becomes
<1> QED BY <1>2, <1>4, <1>5 DEF dns_cache_get

-----------------------------------------------------------------------------
(* Each step keeps the invariant.                                          *)

\* Time: entries keep their keys and their places.
LEMMA TickKeepsCache == ASSUME CacheInv, Tick PROVE CacheInv'
<1> DEFINE p == OrderOf(Cache)
<1>1. /\ Cache.mem = mem /\ Cache.table = table /\ Cache.lru = lru
      /\ Cache.size = size /\ CacheOK(Cache, p) /\ Cache \in CacheType
  BY DEF Cache, CacheInv, CacheOK
<1>2. UNCHANGED <<table, lru, size, threadVars>>
  BY DEF Tick
<1>3. mem \in [Nodes -> EntryType \cup {Freed}]
  BY <1>1, CacheFields
<1>4. ASSUME NEW n \in Nodes
      PROVE  /\ mem'[n] \in EntryType \cup {Freed}
             /\ mem'[n] = Freed <=> mem[n] = Freed
             /\ mem[n] # Freed => mem'[n].key = mem[n].key
  <2>1. mem'[n] = IF mem[n] = Freed \/ mem[n].age = MaxAge THEN mem[n]
                  ELSE [mem[n] EXCEPT !.age = @ + 1]
    BY DEF Tick
  <2>2. CASE mem[n] = Freed \/ mem[n].age = MaxAge
    BY <1>3, <2>1, <2>2
  <2>3. CASE ~(mem[n] = Freed \/ mem[n].age = MaxAge)
    <3>1. mem[n] \in EntryType /\ mem[n].age \in 0 .. MaxAge
      BY <1>3, <2>3 DEF EntryType
    <3>2. mem[n].age + 1 \in 0 .. MaxAge
      BY <2>3, <3>1, CacheAssumption DEF MaxAge
    <3>3. mem'[n] \in EntryType /\ mem'[n].key = mem[n].key
      BY <2>1, <2>3, <3>1, <3>2 DEF EntryType
    <3> QED BY <2>3, <3>3, CacheAssumption
  <2> QED BY <2>2, <2>3
<1>5. /\ mem' \in [Nodes -> EntryType \cup {Freed}]
      /\ Allocated' = Allocated /\ AllocatedIn(Cache)' = AllocatedIn(Cache)
  <2>1. mem' \in [Nodes -> EntryType \cup {Freed}]
    BY <1>4 DEF Tick
  <2>2. Allocated' = Allocated
    BY <1>4 DEF Allocated
  <2>3. AllocatedIn(Cache) = Allocated /\ AllocatedIn(Cache)' = Allocated'
    BY DEF AllocatedIn, Allocated, Cache
  <2> QED BY <2>1, <2>2, <2>3
<1>6. Cache' = [mem |-> mem', table |-> table, lru |-> lru, size |-> size]
  BY <1>2 DEF Cache
<1>7. Cache' \in CacheType
  BY <1>1, <1>5, <1>6 DEF CacheType
<1>8. TableOK(Cache)'
  <2>1. \A n \in AllocatedIn(Cache) : Cache'.mem[n].key = mem[n].key
    BY <1>4, <1>6 DEF AllocatedIn, Cache
  <2>2. Cache'.table = table
    BY <1>6
  <2> QED BY <1>1, <1>5, <2>1, <2>2 DEF CacheOK, TableOK
<1>9. CacheOK(Cache', p)
  <2>1. Cache'.lru = lru /\ Cache'.size = size
    BY <1>6
  <2>2. AllocatedIn(Cache') = AllocatedIn(Cache)
    BY <1>5
  <2> QED BY <1>1, <1>7, <1>8, <2>1, <2>2 DEF CacheOK
<1>10. CacheOK(Cache, OrderOf(Cache))'
  <2>1. CacheOK(Cache', OrderOf(Cache'))
    BY <1>9, OrderIsPath
  <2> QED BY <2>1
<1> QED BY <1>2, <1>5, <1>10 DEF CacheInv, CursorIsValid, Serving

\* The main thread.
LEMMA MainKeepsCache ==
  ASSUME CacheInv,
         \/ \E k \in StaticKeys : load_ip_table(k)
         \/ \E c \in Calls \ {Idle} : MainLock(c)
         \/ MainBody
  PROVE  CacheInv'
<1>1. CASE \E k \in StaticKeys : load_ip_table(k)
  <2>1. PICK k \in StaticKeys : load_ip_table(k)
    BY <1>1
  <2>2. /\ k \in Keys /\ StaticValue \in Value /\ dns_cache_put(k, StaticValue)
        /\ UNCHANGED <<lock, call, cursor, result>> /\ loaded' \in SUBSET StaticKeys
        /\ ~Serving
    BY <2>1, CacheAssumption DEF load_ip_table, Value, CacheInv, Serving
  <2>3. CacheOK(Cache, OrderOf(Cache))' /\ size' <= Capacity
    BY <2>2, PutOK DEF CacheInv
  <2>4. lock = "free"
    BY <2>2 DEF CacheInv
  <2> QED BY <2>2, <2>3, <2>4 DEF CacheInv, CursorIsValid
<1>2. CASE \E c \in Calls \ {Idle} : MainLock(c)
  <2>1. /\ Serving /\ lock' = "main" /\ call' \in Calls /\ call' # Idle
        /\ UNCHANGED <<cacheVars, cursor, result, loaded>>
    BY <1>2 DEF MainLock
  <2>2. Cache' = Cache
    BY <2>1 DEF Cache
  <2> QED BY <2>1, <2>2 DEF CacheInv, CursorIsValid, Serving
<1>3. CASE MainBody
  <2>1. call # Idle /\ lock = "main" /\ lock' = "free" /\ call' = Idle
        /\ UNCHANGED <<cursor, loaded>> /\ Idle \in Calls
    BY <1>3 DEF MainBody, Idle, CacheInv, Calls
  <2>2. CASE call.op = "get" /\ dns_cache_get(call.key)
    <3>1. call.key \in Keys
      BY <2>1, <2>2 DEF CacheInv, Calls
    <3>2. /\ CacheOK(Cache, OrderOf(Cache))' /\ size' <= Capacity
          /\ result' \in Value \cup {Miss}
      BY <2>2, <3>1, GetOK DEF CacheInv
    <3> QED BY <2>1, <3>2 DEF CacheInv, CursorIsValid
  <2>3. CASE /\ call.op = "put" /\ dns_cache_put(call.key, call.value)
             /\ UNCHANGED result
    <3>1. call.key \in Keys /\ call.value \in Value
      BY <2>1, <2>3 DEF CacheInv, Calls, Value
    <3>2. CacheOK(Cache, OrderOf(Cache))' /\ size' <= Capacity
      BY <2>3, <3>1, PutOK DEF CacheInv
    <3> QED BY <2>1, <2>3, <3>2 DEF CacheInv, CursorIsValid
  <2> QED BY <1>3, <2>2, <2>3 DEF MainBody
<1> QED BY <1>1, <1>2, <1>3

\* The daemon: its pointer has moved on before the entry is freed.
LEMMA DaemonKeepsCache == ASSUME CacheInv, DaemonNext PROVE CacheInv'
<1> DEFINE p == OrderOf(Cache)
<1>1. /\ Cache.mem = mem /\ Cache.table = table /\ Cache.lru = lru
      /\ Cache.size = size /\ size \in Nat /\ CacheOK(Cache, p)
      /\ AllocatedIn(Cache) = Allocated /\ Capacity \in Nat
  BY CacheAssumption
  DEF Cache, CacheInv, CacheOK, CacheType, AllocatedIn, Allocated
<1>2. ASSUME NEW i \in 0 .. size
      PROVE  /\ lru.colder[p[i]] = p[i + 1] /\ p[i + 1] # p[i]
             /\ p[i + 1] \in Allocated \cup {tail}
  <2>1. i + 1 \in 0 .. size + 1 /\ i \in 0 .. size + 1 /\ i + 1 # i
    BY <1>1
  <2>2. lru.colder[p[i]] = p[i + 1] /\ p[i + 1] # p[i]
    BY <1>1, <2>1 DEF CacheOK, Path
  <2>3. CASE i = size
    BY <1>1, <2>2, <2>3 DEF CacheOK, Path
  <2>4. CASE i # size
    <3>1. i + 1 \in 1 .. size
      BY <1>1, <2>4
    <3> QED BY <1>1, <2>2, <3>1 DEF CacheOK, Path
  <2> QED BY <2>3, <2>4
<1>3. CASE dns_cache_prune
  <2>1. /\ Serving /\ lock = "free" /\ lock' = "daemon" /\ cursor' = lru.colder[head]
        /\ UNCHANGED <<cacheVars, call, result, loaded>>
    BY <1>3 DEF dns_cache_prune
  <2>2. cursor' \in Allocated \cup {tail}
    <3>1. 0 \in 0 .. size /\ p[0] = head
      BY <1>1 DEF CacheOK, Path
    <3> QED BY <1>2, <2>1, <3>1
  <2>3. Cache' = Cache /\ Allocated' = Allocated
    BY <2>1 DEF Cache, Allocated
  <2>4. cursor' \in Nodes \cup {tail}
    BY <2>2 DEF Allocated
  <2> QED BY <2>1, <2>2, <2>3, <2>4 DEF CacheInv, CursorIsValid, Serving
<1>4. CASE prune_done
  <2>1. /\ lock = "daemon" /\ lock' = "free"
        /\ UNCHANGED <<cacheVars, call, cursor, result, loaded>>
    BY <1>4 DEF prune_done
  <2>2. Cache' = Cache
    BY <2>1 DEF Cache
  <2> QED BY <2>1, <2>2 DEF CacheInv, CursorIsValid, Serving
<1>5. CASE prune_step
  <2>1. /\ lock = "daemon" /\ cursor # tail /\ cursor' = lru.colder[cursor]
        /\ UNCHANGED <<lock, call, result, loaded>>
        /\ \/ Becomes(cache_remove_entry(Cache, cursor))
           \/ UNCHANGED cacheVars
    BY <1>5 DEF prune_step
  <2>2. PICK i \in 1 .. size : p[i] = cursor
    BY <1>1, <2>1, EntryHasPlace DEF CacheInv, CursorIsValid
  <2>3. i \in 0 .. size
    BY <1>1
  <2>4. cursor' # cursor /\ cursor' \in Allocated \cup {tail}
    BY <1>2, <2>1, <2>2, <2>3
  <2>5. cursor' \in Nodes \cup {tail}
    BY <2>4 DEF Allocated
  <2>6. CASE UNCHANGED cacheVars
    <3>1. Cache' = Cache /\ Allocated' = Allocated
      BY <2>6 DEF Cache, Allocated
    <3> QED BY <2>1, <2>4, <2>5, <2>6, <3>1 DEF CacheInv, CursorIsValid, Serving
  <2>7. CASE Becomes(cache_remove_entry(Cache, cursor))
    <3>1. /\ CacheOK(cache_remove_entry(Cache, cursor), Cut(p, i, size))
          /\ AllocatedIn(cache_remove_entry(Cache, cursor)) = Allocated \ {cursor}
          /\ cache_remove_entry(Cache, cursor).size = size - 1
      BY <1>1, <2>2, RemoveOK
    <3>2. /\ CacheOK(Cache, OrderOf(Cache))' /\ Allocated' = Allocated \ {cursor}
      BY <2>7, <3>1, BecomesOK
    <3>3. size' <= Capacity
      BY <1>1, <2>7, <3>1 DEF Becomes, CacheInv
    <3> QED BY <2>1, <2>4, <2>5, <3>2, <3>3 DEF CacheInv, CursorIsValid, Serving
  <2> QED BY <2>1, <2>6, <2>7
<1> QED BY <1>3, <1>4, <1>5 DEF DaemonNext

\* dns_cache_init makes an empty cache.
LEMMA CacheStart == Init => CacheInv
<1> SUFFICES ASSUME Init PROVE CacheInv
  OBVIOUS
<1> DEFINE p == [i \in 0 .. 1 |-> IF i = 0 THEN head ELSE tail]
<1>1. /\ Cache.mem = [n \in Nodes |-> Freed] /\ Cache.table = [k \in Keys |-> Null]
      /\ Cache.lru = lru /\ Cache.size = 0
      /\ Cache = [mem |-> mem, table |-> table, lru |-> lru, size |-> size]
  BY DEF Init, dns_cache_init, Cache
<1>2. AllocatedIn(Cache) = {}
  BY <1>1 DEF AllocatedIn
<1>3. /\ lru.hotter = [n \in Links |-> IF n = tail THEN head ELSE Null]
      /\ lru.colder = [n \in Links |-> IF n = head THEN tail ELSE Null]
      /\ lru \in LinkType
  BY DEF Init, dns_cache_init, LinkType, Links
<1>4. Cache \in CacheType
  BY <1>1, <1>3 DEF CacheType, Init, dns_cache_init
<1>5. OnlyLinked(lru, {})
  BY <1>3 DEF OnlyLinked
<1>6. Path(p, lru, {}, 0)
  <2>1. head \in Links /\ tail \in Links /\ head # tail
    BY CacheAssumption DEF Links
  <2>2. p[0] = head /\ p[1] = tail /\ p \in [0 .. 0 + 1 -> {} \cup {head, tail}]
    OBVIOUS
  <2>3. lru.colder[head] = tail /\ lru.hotter[tail] = head
    BY <1>3, <2>1
  <2>4. 0 .. 0 = {0} /\ 1 .. 0 = {} /\ 0 + 1 = 1 /\ 0 .. 0 + 1 = {0, 1}
    OBVIOUS
  <2> HIDE DEF p
  <2> QED BY <2>1, <2>2, <2>3, <2>4 DEF Path
<1>7. TableOK(Cache)
  BY <1>1, <1>2 DEF TableOK
<1>8. Cardinality({}) = 0
  BY FS_EmptySet
<1>9. CacheOK(Cache, OrderOf(Cache))
  <2>1. CacheOK(Cache, p)
    <3> HIDE DEF p
    <3> QED BY <1>1, <1>2, <1>4, <1>5, <1>6, <1>7, <1>8 DEF CacheOK
  <2> QED BY <2>1, OrderIsPath
<1> QED BY <1>9, CacheAssumption
        DEF Init, dns_cache_init, CacheInv, CursorIsValid, Calls

\* Every step of the two threads and of time.
LEMMA CacheStep == CacheInv /\ [Next]_vars => CacheInv'
<1> SUFFICES ASSUME CacheInv, [Next]_vars PROVE CacheInv'
  OBVIOUS
<1>1. CASE UNCHANGED vars
  <2>1. Cache' = Cache /\ Allocated' = Allocated
    BY <1>1 DEF vars, Cache, Allocated
  <2> QED BY <1>1, <2>1 DEF vars, CacheInv, CursorIsValid, Serving
<1>2. CASE Tick
  BY <1>2, TickKeepsCache
<1>3. CASE DaemonNext
  BY <1>3, DaemonKeepsCache
<1> QED BY <1>1, <1>2, <1>3, MainKeepsCache DEF Next
-----------------------------------------------------------------------------
(* What holds of the cache, whatever its capacity, questions and answers.  *)

\* What the invariant says of the cache in terms of its variables.
LEMMA CacheInPieces ==
  ASSUME CacheInv
  PROVE  /\ Cache.mem = mem /\ Cache.table = table /\ Cache.lru = lru
         /\ Cache.size = size /\ AllocatedIn(Cache) = Allocated
         /\ Cache \in CacheType /\ TableOK(Cache) /\ size = Cardinality(Allocated)
         /\ OnlyLinked(lru, Allocated)
         /\ Path(OrderOf(Cache), lru, Allocated, size) /\ size \in Nat
<1>1. /\ Cache.mem = mem /\ Cache.table = table /\ Cache.lru = lru
      /\ Cache.size = size /\ AllocatedIn(Cache) = Allocated
  BY DEF Cache, AllocatedIn, Allocated
<1> QED BY <1>1, CacheFields DEF CacheInv, CacheOK

\* Type correctness of the cache and of the two threads that use it.
THEOREM CacheTypeCorrect == Spec => []CacheTypeOK
<1>1. CacheInv => CacheTypeOK
  <2> SUFFICES ASSUME CacheInv PROVE CacheTypeOK
    OBVIOUS
  <2>1. /\ mem \in [Nodes -> EntryType \cup {Freed}]
        /\ table \in [Keys -> Nodes \cup {Null}] /\ lru \in LinkType /\ size \in Nat
    BY CacheInPieces, CacheFields
  <2> QED BY <2>1 DEF CacheTypeOK, CacheInv, LinkType
<1> QED BY <1>1, CacheStart, CacheStep, PTL DEF Spec

\* The hash table and the entries agree at every moment: no entry is lost
\* when one is updated, evicted, found expired or pruned, and no key is left
\* that leads to freed memory.
THEOREM TableAgrees == Spec => []TableMatchesEntries
<1>1. CacheInv => TableMatchesEntries
  BY CacheInPieces DEF TableOK, TableMatchesEntries
<1> QED BY <1>1, CacheStart, CacheStep, PTL DEF Spec

\* lru_touch and lru_remove keep the doubly linked list whole: the links in
\* the two directions agree and exactly the entries in memory are linked.
THEOREM ListLinks == Spec => []LinksAgree
<1>1. CacheInv => LinksAgree
  <2> SUFFICES ASSUME CacheInv PROVE LinksAgree
    OBVIOUS
  <2> DEFINE p == OrderOf(Cache)
  <2>1. /\ OnlyLinked(lru, Allocated) /\ Path(p, lru, Allocated, size) /\ size \in Nat
        /\ Allocated \subseteq Nodes
    BY CacheInPieces DEF Allocated
  <2>2. Null \notin Nodes /\ Null # head /\ Null # tail /\ Nodes \subseteq Links
        /\ head \notin Nodes /\ tail \notin Nodes
    BY CacheAssumption DEF Links
  <2> HIDE DEF p
  <2>3. \A n \in Nodes \ Allocated : lru.hotter[n] = Null /\ lru.colder[n] = Null
    BY <2>1, <2>2 DEF OnlyLinked
  <2>4. ASSUME NEW i \in 0 .. size
        PROVE  /\ p[i] \in Allocated \cup {head}
               /\ p[i + 1] \in Allocated \cup {tail}
               /\ lru.colder[p[i]] = p[i + 1] /\ lru.hotter[p[i + 1]] = p[i]
    <3>1. (i = 0 \/ i \in 1 .. size) /\ (i + 1 = size + 1 \/ i + 1 \in 1 .. size)
      BY <2>1
    <3> QED BY <2>1, <3>1 DEF Path
  <2>5. ASSUME NEW n \in Allocated \cup {head}
        PROVE  \E i \in 0 .. size : p[i] = n
    <3>1. 0 \in 0 .. size /\ \A i \in 1 .. size : i \in 0 .. size
      BY <2>1
    <3> QED BY <2>1, <2>5, <3>1 DEF Path
  <2>6. ASSUME NEW n \in Allocated \cup {tail}
        PROVE  \E i \in 0 .. size : p[i + 1] = n
    <3>1. size \in 0 .. size
      BY <2>1
    <3>2. CASE n = tail
      BY <2>1, <3>1, <3>2 DEF Path
    <3>3. CASE n # tail
      <4>1. PICK j \in 1 .. size : p[j] = n
        BY <2>1, <2>6, <3>3 DEF Path
      <4>2. j - 1 \in 0 .. size /\ (j - 1) + 1 = j
        BY <2>1
      <4> QED BY <4>1, <4>2
    <3> QED BY <3>2, <3>3
  <2>7. \A n \in Allocated \cup {head} : /\ lru.colder[n] \in Allocated \cup {tail}
                                         /\ lru.hotter[lru.colder[n]] = n
    BY <2>4, <2>5
  <2>8. \A n \in Allocated \cup {tail} : /\ lru.hotter[n] \in Allocated \cup {head}
                                         /\ lru.colder[lru.hotter[n]] = n
    BY <2>4, <2>6
  <2>9. \A n \in Allocated : lru.hotter[n] # Null /\ lru.colder[n] # Null
    BY <2>1, <2>2, <2>7, <2>8
  <2> QED BY <2>1, <2>3, <2>7, <2>8, <2>9 DEF LinksAgree
<1> QED BY <1>1, CacheStart, CacheStep, PTL DEF Spec

\* The entry count is the length of the list and the number of entries in
\* memory, and the capacity is never exceeded.
THEOREM SizeIsList == Spec => []SizeCountsList
<1>1. CacheInv => SizeCountsList
  <2> SUFFICES ASSUME CacheInv PROVE SizeCountsList
    OBVIOUS
  <2> DEFINE p == OrderOf(Cache)
  <2>1. /\ size = Cardinality(Allocated) /\ size <= Capacity /\ size \in Nat
        /\ Path(p, lru, Allocated, size)
    BY CacheInPieces DEF CacheInv
  <2>2. \A i \in 0 .. size + 1 : NthColder[i] = p[i]
    BY CacheInPieces DEF OrderOf, NthColder
  <2> HIDE DEF p
  <2>3. NthColder[size + 1] = tail
    BY <2>1, <2>2 DEF Path
  <2>4. \A i \in 1 .. size : NthColder[i] = p[i]
    BY <2>1, <2>2
  <2>5. {NthColder[i] : i \in 1 .. size} = Allocated
    BY <2>1, <2>4 DEF Path
  <2> QED BY <2>1, <2>3, <2>5 DEF SizeCountsList
<1> QED BY <1>1, CacheStart, CacheStep, PTL DEF Spec

\* The pointer with which dns_cache_prune_locked walks the list never points
\* at freed memory.
THEOREM CursorStays == Spec => []CursorIsValid
<1>1. CacheInv => CursorIsValid
  BY DEF CacheInv
<1> QED BY <1>1, CacheStart, CacheStep, PTL DEF Spec

-----------------------------------------------------------------------------
(* The cache implements module LruCache.                                   *)
(*                                                                         *)
(* The mapping reads the questions along the list, and answers and ages    *)
(* through the table.  Each operation on the pointers is first shown to do *)
(* to these three what module LruCache says, for any cache in one piece;   *)
(* the steps of the two threads follow with the invariant.                 *)

(* Sequences, by their positions.                                          *)

Drop(o, j) == [i \in 1 .. Len(o) - 1 |-> IF i < j THEN o[i] ELSE o[i + 1]]
Put(k, o) == [i \in 1 .. Len(o) + 1 |-> IF i = 1 THEN k ELSE o[i - 1]]

\* Taking out one place.
LEMMA RemoveAtIsDrop ==
  ASSUME NEW S, NEW o \in Seq(S), NEW j \in 1 .. Len(o)
  PROVE  Lru!RemoveAt(o, j) = Drop(o, j) /\ Drop(o, j) \in Seq(S)
<1>1. Len(o) \in Nat /\ \A i \in 1 .. Len(o) : o[i] \in S
  BY LenProperties, ElementOfSeq
<1> DEFINE a == SubSeq(o, 1, j - 1)
           b == SubSeq(o, j + 1, Len(o))
           d == Drop(o, j)
<1>2. /\ a \in Seq(S) /\ Len(a) = j - 1
      /\ \A i \in 1 .. j - 1 : a[i] = o[i]
  <2>1. 1 \in Int /\ j - 1 \in Int /\ \A i \in 1 .. j - 1 : o[i] \in S
    BY <1>1
  <2>2. /\ a \in Seq(S) /\ Len(a) = IF 1 <= j - 1 THEN (j - 1) - 1 + 1 ELSE 0
        /\ \A i \in 1 .. (j - 1) - 1 + 1 : a[i] = o[1 + i - 1]
    BY <2>1, SubSeqProperties
  <2> HIDE DEF a
  <2> QED BY <1>1, <2>2
<1>3. /\ b \in Seq(S) /\ Len(b) = Len(o) - j
      /\ \A i \in 1 .. Len(o) - j : b[i] = o[j + i]
  <2>1. j + 1 \in Int /\ Len(o) \in Int /\ \A i \in j + 1 .. Len(o) : o[i] \in S
    BY <1>1
  <2>2. /\ b \in Seq(S) /\ Len(b) = IF j + 1 <= Len(o) THEN Len(o) - (j + 1) + 1 ELSE 0
        /\ \A i \in 1 .. Len(o) - (j + 1) + 1 : b[i] = o[(j + 1) + i - 1]
    BY <2>1, SubSeqProperties
  <2> HIDE DEF b
  <2>3. Len(b) = Len(o) - j
    BY <1>1, <2>2
  <2>4. \A i \in 1 .. Len(o) - j : i \in 1 .. Len(o) - (j + 1) + 1 /\ (j + 1) + i - 1 = j + i
    BY <1>1
  <2> QED BY <2>2, <2>3, <2>4
<1>4. Lru!RemoveAt(o, j) = a \o b
  BY DEF Lru!RemoveAt
<1> HIDE DEF a, b
<1>5. /\ a \o b \in Seq(S) /\ Len(a \o b) = Len(o) - 1
      /\ \A i \in 1 .. Len(o) - 1 : (a \o b)[i] = IF i <= j - 1 THEN a[i] ELSE b[i - (j - 1)]
  <2>1. /\ a \o b \in Seq(S) /\ Len(a \o b) = Len(a) + Len(b)
        /\ \A i \in 1 .. Len(a) + Len(b) : (a \o b)[i] =
              IF i <= Len(a) THEN a[i] ELSE b[i - Len(a)]
    BY <1>2, <1>3, ConcatProperties
  <2>2. Len(a) + Len(b) = Len(o) - 1 /\ Len(a) = j - 1
    BY <1>1, <1>2, <1>3
  <2> QED BY <2>1, <2>2
<1>6. ASSUME NEW i \in 1 .. Len(o) - 1 PROVE (a \o b)[i] = d[i]
  <2>1. CASE i < j
    BY <1>1, <1>2, <1>5, <2>1 DEF Drop
  <2>2. CASE i >= j
    <3>1. i - (j - 1) \in 1 .. Len(o) - j /\ j + (i - (j - 1)) = i + 1 /\ ~(i <= j - 1)
      BY <1>1, <2>2
    <3>2. (a \o b)[i] = o[i + 1]
      BY <1>3, <1>5, <3>1
    <3> QED BY <1>1, <2>2, <3>2 DEF Drop
  <2>3. i < j \/ i >= j
    BY <1>1
  <2> QED BY <2>1, <2>2, <2>3
<1>7. a \o b = [i \in 1 .. Len(o) - 1 |-> (a \o b)[i]]
  <2>1. DOMAIN (a \o b) = 1 .. Len(o) - 1 /\ a \o b = [i \in DOMAIN (a \o b) |-> (a \o b)[i]]
    BY <1>5, LenProperties
  <2> QED BY <2>1
<1>8. a \o b = d
  BY <1>6, <1>7 DEF Drop
<1> QED BY <1>4, <1>5, <1>8

\* Taking out the last place.
LEMMA FrontIsDrop ==
  ASSUME NEW S, NEW o \in Seq(S), Len(o) > 0
  PROVE  Lru!Front(o) = Drop(o, Len(o))
<1>1. Len(o) \in Nat /\ \A i \in 1 .. Len(o) : o[i] \in S
  BY LenProperties, ElementOfSeq
<1> DEFINE a == SubSeq(o, 1, Len(o) - 1)
<1>2. /\ a \in Seq(S) /\ Len(a) = Len(o) - 1
      /\ \A i \in 1 .. Len(o) - 1 : a[i] = o[i]
  <2>1. 1 \in Int /\ Len(o) - 1 \in Int /\ \A i \in 1 .. Len(o) - 1 : o[i] \in S
    BY <1>1
  <2>2. /\ a \in Seq(S) /\ Len(a) = IF 1 <= Len(o) - 1 THEN (Len(o) - 1) - 1 + 1 ELSE 0
        /\ \A i \in 1 .. (Len(o) - 1) - 1 + 1 : a[i] = o[1 + i - 1]
    BY <2>1, SubSeqProperties
  <2> HIDE DEF a
  <2>3. \A i \in 1 .. Len(o) - 1 : i \in 1 .. (Len(o) - 1) - 1 + 1 /\ 1 + i - 1 = i
    BY <1>1
  <2>4. (IF 1 <= Len(o) - 1 THEN (Len(o) - 1) - 1 + 1 ELSE 0) = Len(o) - 1
    <3>1. \A n \in Nat : n > 0 =>
             (IF 1 <= n - 1 THEN (n - 1) - 1 + 1 ELSE 0) = n - 1
      OBVIOUS
    <3>2. Len(o) \in Nat /\ Len(o) > 0
      BY <1>1
    <3> QED BY <3>1, <3>2
  <2> QED BY <2>2, <2>3, <2>4
<1>3. Lru!Front(o) = a
  BY DEF Lru!Front
<1> HIDE DEF a
<1>4. a = [i \in 1 .. Len(o) - 1 |-> a[i]]
  BY <1>2, LenProperties
<1>5. \A i \in 1 .. Len(o) - 1 : a[i] = Drop(o, Len(o))[i]
  BY <1>1, <1>2 DEF Drop
<1> QED BY <1>3, <1>4, <1>5 DEF Drop

\* Putting a key in front.
LEMMA PutIsConcat ==
  ASSUME NEW S, NEW o \in Seq(S), NEW k \in S
  PROVE  <<k>> \o o = Put(k, o)
<1>1. Len(o) \in Nat /\ <<k>> \in Seq(S) /\ Len(<<k>>) = 1 /\ <<k>>[1] = k
  BY LenProperties
<1> DEFINE c == <<k>> \o o
<1>2. /\ c \in Seq(S) /\ Len(c) = 1 + Len(o)
      /\ \A i \in 1 .. 1 + Len(o) : c[i] = IF i <= 1 THEN <<k>>[i] ELSE o[i - 1]
  BY <1>1, ConcatProperties
<1> HIDE DEF c
<1>3. c = [i \in 1 .. Len(o) + 1 |-> c[i]]
  BY <1>1, <1>2, LenProperties
<1>4. \A i \in 1 .. Len(o) + 1 : c[i] = IF i = 1 THEN k ELSE o[i - 1]
  BY <1>1, <1>2
<1>5. c = Put(k, o)
  BY <1>3, <1>4 DEF Put
<1> QED BY <1>5 DEF c

-----------------------------------------------------------------------------
(* What the cache c, with its entries in the order p, looks like.          *)

KeysAt(c, p) == [i \in 1 .. c.size |-> c.mem[p[i]].key]
ValuesIn(c) == [k \in Keys |-> IF c.table[k] = Null THEN Freed
                               ELSE c.mem[c.table[k]].value]
AgesIn(c) == [k \in Keys |-> IF c.table[k] = Null THEN 0 ELSE c.mem[c.table[k]].age]

\* The fields of the entries in the order p, each of which has its own key.
LEMMA LooksOK ==
  ASSUME NEW c, NEW p, CacheOK(c, p)
  PROVE  /\ c.size \in Nat
         /\ KeysAt(c, p) \in Seq(Keys) /\ Len(KeysAt(c, p)) = c.size
         /\ \A i \in 1 .. c.size :
               /\ KeysAt(c, p)[i] = c.mem[p[i]].key /\ KeysAt(c, p)[i] \in Keys
               /\ c.table[KeysAt(c, p)[i]] = p[i] /\ p[i] \in AllocatedIn(c)
               /\ p[i] # Null
         /\ \A i, j \in 1 .. c.size : KeysAt(c, p)[i] = KeysAt(c, p)[j] => i = j
         /\ \A k \in Keys : c.table[k] # Null => \E i \in 1 .. c.size :
               c.table[k] = p[i] /\ KeysAt(c, p)[i] = k
         /\ \A k \in Keys : c.table[k] = Null <=> ValuesIn(c)[k] = Freed
<1> DEFINE o == KeysAt(c, p)
<1>1. /\ c.size \in Nat /\ c \in CacheType
      /\ \A x \in AllocatedIn(c) : x \in Nodes /\ c.mem[x] \in EntryType
  BY CacheFields DEF CacheOK
<1>2. ASSUME NEW i \in 1 .. c.size
      PROVE  /\ o[i] = c.mem[p[i]].key /\ o[i] \in Keys
             /\ c.table[o[i]] = p[i] /\ p[i] \in AllocatedIn(c) /\ p[i] # Null
  <2>1. p[i] \in AllocatedIn(c)
    BY EntryHasPlace
  <2>2. p[i] # Null /\ c.mem[p[i]].key \in Keys
    BY <1>1, <2>1, CacheAssumption DEF EntryType
  <2>3. o[i] = c.mem[p[i]].key
    BY DEF KeysAt
  <2> QED BY <2>1, <2>2, <2>3 DEF CacheOK, TableOK
<1>3. o \in [1 .. c.size -> Keys]
  BY <1>2 DEF KeysAt
<1>4. o \in Seq(Keys) /\ Len(o) = c.size
  <2>1. o \in Seq(Keys)
    BY <1>1, <1>3, SeqDef
  <2>2. DOMAIN o = 1 .. c.size /\ DOMAIN o = 1 .. Len(o) /\ Len(o) \in Nat
    BY <1>3, <2>1, LenProperties
  <2> HIDE DEF o
  <2> QED BY <1>1, <2>1, <2>2
<1>5. \A i, j \in 1 .. c.size : o[i] = o[j] => i = j
  <2>1. \A i \in 1 .. c.size : i \in 0 .. c.size + 1
    BY <1>1
  <2> QED BY <1>2, <2>1 DEF CacheOK, Path
<1>6. ASSUME NEW k \in Keys, c.table[k] # Null
      PROVE  /\ \E i \in 1 .. c.size : c.table[k] = p[i] /\ o[i] = k
             /\ ValuesIn(c)[k] # Freed
  <2>1. c.table[k] \in AllocatedIn(c) /\ c.mem[c.table[k]].key = k
    BY <1>6 DEF CacheOK, TableOK
  <2>2. ValuesIn(c)[k] \in Value
    BY <1>1, <1>6, <2>1 DEF ValuesIn, EntryType
  <2>3. PICK i \in 1 .. c.size : c.table[k] = p[i]
    BY <2>1, EntryHasPlace
  <2> QED BY <1>2, <2>1, <2>2, <2>3, CacheAssumption
<1>7. \A k \in Keys : c.table[k] = Null => ValuesIn(c)[k] = Freed
  BY DEF ValuesIn
<1> HIDE DEF o
<1> QED BY <1>1, <1>2, <1>4, <1>5, <1>6, <1>7 DEF o

\* The mapping before a step.
LEMMA LooksNow ==
  ASSUME CacheInv
  PROVE  /\ HeldKeys = KeysAt(Cache, OrderOf(Cache))
         /\ HeldValues = ValuesIn(Cache) /\ HeldAges = AgesIn(Cache)
         /\ CacheOK(Cache, OrderOf(Cache)) /\ Cache.size = size
         /\ Cache.mem = mem /\ Cache.table = table /\ Cache.lru = lru
<1>1. /\ Cache.size = size /\ Cache.mem = mem /\ Cache.table = table
      /\ Cache.lru = lru /\ size \in Nat
  BY CacheInPieces
<1>2. \A i \in 1 .. size : NthColder[i] = OrderOf(Cache)[i]
  BY <1>1 DEF OrderOf, NthColder
<1>3. HeldKeys = KeysAt(Cache, OrderOf(Cache))
  BY <1>1, <1>2 DEF HeldKeys, KeysAt
<1>4. HeldValues = ValuesIn(Cache) /\ HeldAges = AgesIn(Cache)
  BY <1>1 DEF HeldValues, HeldAges, ValuesIn, AgesIn
<1> QED BY <1>1, <1>3, <1>4 DEF CacheInv

\* The mapping after a step that leaves the cache as c.
LEMMA LooksNext ==
  ASSUME NEW c, NEW p, CacheOK(c, p), Becomes(c)
  PROVE  /\ HeldKeys' = KeysAt(c, p)
         /\ HeldValues' = ValuesIn(c) /\ HeldAges' = AgesIn(c)
<1>1. c.size \in Nat /\ p = OrderOf(c)
  BY OrderIsPath DEF CacheOK, CacheType
<1>2. size' = c.size /\ mem' = c.mem /\ table' = c.table /\ lru' = c.lru
  BY DEF Becomes
<1>3. NthColder' = Walk(c.lru)
  BY <1>2 DEF NthColder
<1>4. \A i \in 1 .. c.size : NthColder'[i] = p[i]
  BY <1>1, <1>3 DEF OrderOf
<1>5. HeldKeys' = KeysAt(c, p)
  BY <1>2, <1>4 DEF HeldKeys, KeysAt
<1>6. HeldValues' = ValuesIn(c) /\ HeldAges' = AgesIn(c)
  BY <1>2 DEF HeldValues, HeldAges, ValuesIn, AgesIn
<1> QED BY <1>5, <1>6

-----------------------------------------------------------------------------
(* What the operations do to it.                                           *)

\* cache_remove_entry forgets one question.
LEMMA RemoveLooks ==
  ASSUME NEW c, NEW p, CacheOK(c, p), NEW i \in 1 .. c.size
  PROVE  LET d == cache_remove_entry(c, p[i])
             k == KeysAt(c, p)[i]
         IN /\ KeysAt(d, Cut(p, i, c.size)) = Drop(KeysAt(c, p), i)
            /\ ValuesIn(d) = [ValuesIn(c) EXCEPT ![k] = Freed]
            /\ AgesIn(d) = [AgesIn(c) EXCEPT ![k] = 0]
<1> DEFINE n == p[i]
           k == KeysAt(c, p)[i]
           o == KeysAt(c, p)
           d == cache_remove_entry(c, n)
           q == Cut(p, i, c.size)
<1>1. /\ c.size \in Nat /\ Len(o) = c.size
      /\ k = c.mem[n].key /\ k \in Keys /\ c.table[k] = n /\ n \in AllocatedIn(c)
      /\ \A j \in 1 .. c.size : o[j] = c.mem[p[j]].key
  BY LooksOK
<1>2. /\ d.size = c.size - 1
      /\ \A x \in Keys : d.table[x] = IF x = k THEN Null ELSE c.table[x]
  BY <1>1, RemoveOK
<1>3. c.mem \in [Nodes -> EntryType \cup {Freed}] /\ n \in Nodes
  BY <1>1, CacheFields DEF CacheOK, AllocatedIn
<1>4. d.mem = [c.mem EXCEPT ![n] = Freed]
  BY DEF cache_remove_entry
<1>5. \A x \in Nodes : x # n => d.mem[x] = c.mem[x]
  BY <1>3, <1>4
<1>6. ASSUME NEW x \in Keys, x # k, c.table[x] # Null
      PROVE  c.table[x] # n /\ c.table[x] \in Nodes
  BY <1>1, <1>6 DEF CacheOK, TableOK, AllocatedIn
<1> HIDE DEF d, k
<1>7. \A x \in Keys : ValuesIn(d)[x] = IF x = k THEN Freed ELSE ValuesIn(c)[x]
  BY <1>2, <1>5, <1>6 DEF ValuesIn
<1>8. \A x \in Keys : AgesIn(d)[x] = IF x = k THEN 0 ELSE AgesIn(c)[x]
  BY <1>2, <1>5, <1>6 DEF AgesIn
<1>9. ValuesIn(d) = [ValuesIn(c) EXCEPT ![k] = Freed]
  <2>1. ValuesIn(d) = [x \in Keys |-> ValuesIn(d)[x]]
    BY DEF ValuesIn
  <2>2. ValuesIn(c) = [x \in Keys |-> ValuesIn(c)[x]]
    BY DEF ValuesIn
  <2> QED BY <1>7, <2>1, <2>2
<1>10. AgesIn(d) = [AgesIn(c) EXCEPT ![k] = 0]
  <2>1. AgesIn(d) = [x \in Keys |-> AgesIn(d)[x]]
    BY DEF AgesIn
  <2>2. AgesIn(c) = [x \in Keys |-> AgesIn(c)[x]]
    BY DEF AgesIn
  <2> QED BY <1>8, <2>1, <2>2
<1>11. ASSUME NEW j \in 1 .. c.size - 1
       PROVE  d.mem[q[j]].key = Drop(o, i)[j]
  <2>1. /\ j \in 0 .. c.size /\ j \in 1 .. c.size /\ j + 1 \in 1 .. c.size
        /\ (j < i => j # i) /\ (~(j < i) => j + 1 # i)
    BY <1>1
  <2>2. Drop(o, i)[j] = IF j < i THEN o[j] ELSE o[j + 1]
    BY <1>1 DEF Drop
  <2>3. q[j] = IF j < i THEN p[j] ELSE p[j + 1]
    BY <2>1 DEF Cut
  <2>4. ASSUME NEW m \in 1 .. c.size, m # i
        PROVE  d.mem[p[m]].key = o[m]
    <3>1. p[m] # n /\ p[m] \in Nodes
      <4>1. m \in 0 .. c.size + 1 /\ i \in 0 .. c.size + 1
        BY <1>1
      <4>2. p[m] \in AllocatedIn(c)
        BY EntryHasPlace
      <4> QED BY <2>4, <4>1, <4>2 DEF CacheOK, Path, AllocatedIn
    <3> QED BY <1>1, <1>5, <3>1
  <2> HIDE DEF q, o, n
  <2>5. CASE j < i
    BY <2>1, <2>2, <2>3, <2>4, <2>5
  <2>6. CASE ~(j < i)
    BY <1>1, <2>1, <2>2, <2>3, <2>4, <2>6
  <2> QED BY <2>5, <2>6
<1>12. KeysAt(d, q) = Drop(o, i)
  <2>1. KeysAt(d, q) = [j \in 1 .. c.size - 1 |-> d.mem[q[j]].key]
    BY <1>2 DEF KeysAt
  <2>2. Drop(o, i) = [j \in 1 .. c.size - 1 |-> Drop(o, i)[j]]
    BY <1>1 DEF Drop
  <2> HIDE DEF q, o, n
  <2> QED BY <1>11, <2>1, <2>2
<1> QED BY <1>9, <1>10, <1>12 DEF d, k

\* d has the entries of c, with their keys.
KeepsKeys(c, d) == \A x \in AllocatedIn(c) : d.mem[x].key = c.mem[x].key

\* d is c with the answer v to k in the entry n, which was that of k or free.
Stores(c, d, k, v, n) ==
    /\ c.table[k] = n \/ (c.table[k] = Null /\ c.mem[n] = Freed)
    /\ d.table = [c.table EXCEPT ![k] = n]
    /\ d.mem = [c.mem EXCEPT ![n] = [key |-> k, value |-> v, age |-> 0]]

\* An entry that keeps its key and moves to the front of the list.
LEMMA MoveLooks ==
  ASSUME NEW c, NEW p, CacheOK(c, p), NEW i \in 1 .. c.size, NEW d, d.size = c.size,
         KeepsKeys(c, d)
  PROVE  KeysAt(d, Push(Cut(p, i, c.size), p[i], c.size - 1))
            = Put(KeysAt(c, p)[i], Drop(KeysAt(c, p), i))
<1> DEFINE o == KeysAt(c, p)
           q == Push(Cut(p, i, c.size), p[i], c.size - 1)
           r == Put(o[i], Drop(o, i))
<1>1. /\ c.size \in Nat /\ Len(o) = c.size /\ o \in Seq(Keys)
      /\ \A j \in 1 .. c.size : o[j] = c.mem[p[j]].key /\ p[j] \in AllocatedIn(c)
  BY LooksOK
<1>2. \A j \in 1 .. c.size : d.mem[p[j]].key = o[j]
  BY <1>1 DEF KeepsKeys
<1>3. Len(Drop(o, i)) = c.size - 1
      /\ \A j \in 1 .. c.size - 1 : Drop(o, i)[j] = IF j < i THEN o[j] ELSE o[j + 1]
  <2>1. Drop(o, i) \in Seq(Keys)
    BY <1>1, RemoveAtIsDrop
  <2>2. DOMAIN Drop(o, i) = 1 .. c.size - 1
    BY <1>1 DEF Drop
  <2>3. Len(Drop(o, i)) \in Nat /\ DOMAIN Drop(o, i) = 1 .. Len(Drop(o, i))
    BY <2>1, LenProperties
  <2>4. Len(Drop(o, i)) = c.size - 1
    <3>1. c.size - 1 \in Nat
      BY <1>1
    <3> HIDE DEF o
    <3> QED BY <2>2, <2>3, <3>1
  <2>5. \A j \in 1 .. c.size - 1 : Drop(o, i)[j] = IF j < i THEN o[j] ELSE o[j + 1]
    BY <1>1 DEF Drop
  <2> QED BY <2>4, <2>5
<1>4. ASSUME NEW j \in 1 .. c.size PROVE d.mem[q[j]].key = r[j]
  <2>1. r[j] = IF j = 1 THEN o[i] ELSE Drop(o, i)[j - 1]
    <3>1. j \in 1 .. Len(Drop(o, i)) + 1
      BY <1>1, <1>3
    <3> QED BY <3>1 DEF Put
  <2>2. q[j] = IF j = 1 THEN p[i] ELSE Cut(p, i, c.size)[j - 1]
    BY <1>1 DEF Push
  <2>3. CASE j = 1
    <3> HIDE DEF q, r, o
    <3> QED BY <1>2, <2>1, <2>2, <2>3
  <2>4. CASE j # 1
    <3>1. /\ j - 1 \in 1 .. c.size - 1 /\ j - 1 \in 0 .. c.size
          /\ (j - 1) + 1 = j /\ j - 1 \in 1 .. c.size
      BY <1>1, <2>4
    <3>2. Cut(p, i, c.size)[j - 1] = IF j - 1 < i THEN p[j - 1] ELSE p[(j - 1) + 1]
      BY <3>1 DEF Cut
    <3>3. Drop(o, i)[j - 1] = IF j - 1 < i THEN o[j - 1] ELSE o[(j - 1) + 1]
      BY <1>3, <3>1
    <3> HIDE DEF q, r, o
    <3> QED BY <1>2, <2>1, <2>2, <2>4, <3>1, <3>2, <3>3
  <2> QED BY <2>3, <2>4
<1>5. KeysAt(d, q) = [j \in 1 .. c.size |-> d.mem[q[j]].key]
  BY DEF KeysAt
<1>6. r = [j \in 1 .. c.size |-> r[j]]
  <2>1. Len(Drop(o, i)) + 1 = c.size
    BY <1>1, <1>3
  <2> QED BY <2>1 DEF Put
<1> HIDE DEF q, r
<1>7. KeysAt(d, q) = r
  BY <1>4, <1>5, <1>6
<1> QED BY <1>7 DEF q, r

\* lru_touch after a hit changes the order only.
LEMMA TouchLooks ==
  ASSUME NEW c, NEW p, CacheOK(c, p), NEW i \in 1 .. c.size
  PROVE  LET d == [c EXCEPT !.lru = lru_touch(c.lru, p[i])]
         IN /\ KeysAt(d, Push(Cut(p, i, c.size), p[i], c.size - 1))
                  = Put(KeysAt(c, p)[i], Drop(KeysAt(c, p), i))
            /\ ValuesIn(d) = ValuesIn(c) /\ AgesIn(d) = AgesIn(c)
<1> DEFINE d == [c EXCEPT !.lru = lru_touch(c.lru, p[i])]
<1>1. d.mem = c.mem /\ d.table = c.table /\ d.size = c.size
  BY TouchOK
<1> HIDE DEF d
<1>2. ValuesIn(d) = ValuesIn(c) /\ AgesIn(d) = AgesIn(c)
  BY <1>1 DEF ValuesIn, AgesIn
<1>3. KeysAt(d, Push(Cut(p, i, c.size), p[i], c.size - 1))
         = Put(KeysAt(c, p)[i], Drop(KeysAt(c, p), i))
  <2>1. KeepsKeys(c, d)
    BY <1>1 DEF KeepsKeys
  <2> QED BY <1>1, <2>1, MoveLooks
<1> QED BY <1>2, <1>3 DEF d

\* A changed entry: the answer and the age of one question.
LEMMA EntryLooks ==
  ASSUME NEW c, NEW p, CacheOK(c, p), NEW d, NEW k \in Keys, NEW v, NEW n \in Nodes,
         Stores(c, d, k, v, n)
  PROVE  /\ ValuesIn(d) = [ValuesIn(c) EXCEPT ![k] = v]
         /\ AgesIn(d) = [AgesIn(c) EXCEPT ![k] = 0]
         /\ d.mem[n].key = k
         /\ KeepsKeys(c, d)
<1> DEFINE e == [key |-> k, value |-> v, age |-> 0]
<1>1. e.key = k /\ e.value = v /\ e.age = 0
  OBVIOUS
<1>2. /\ c.mem \in [Nodes -> EntryType \cup {Freed}]
      /\ c.table \in [Keys -> Nodes \cup {Null}]
      /\ \A x \in AllocatedIn(c) : x \in Nodes /\ c.mem[x] \in EntryType
  BY CacheFields DEF CacheOK
<1> HIDE DEF e
<1>3. d.mem[n] = e /\ \A x \in Nodes : x # n => d.mem[x] = c.mem[x]
  BY <1>2 DEF e, Stores
<1>4. d.table[k] = n /\ \A x \in Keys : x # k => d.table[x] = c.table[x]
  BY <1>2 DEF Stores
<1>5. n # Null
  BY CacheAssumption
<1>6. ASSUME NEW x \in Keys, x # k, c.table[x] # Null
      PROVE  c.table[x] # n /\ c.table[x] \in Nodes
  BY <1>6 DEF CacheOK, TableOK, AllocatedIn, Stores
<1>7. \A x \in Keys : ValuesIn(d)[x] = IF x = k THEN v ELSE ValuesIn(c)[x]
  BY <1>1, <1>3, <1>4, <1>5, <1>6 DEF ValuesIn
<1>8. \A x \in Keys : AgesIn(d)[x] = IF x = k THEN 0 ELSE AgesIn(c)[x]
  BY <1>1, <1>3, <1>4, <1>5, <1>6 DEF AgesIn
<1>9. ValuesIn(d) = [ValuesIn(c) EXCEPT ![k] = v]
  <2>1. /\ ValuesIn(d) = [x \in Keys |-> ValuesIn(d)[x]]
        /\ ValuesIn(c) = [x \in Keys |-> ValuesIn(c)[x]]
    BY DEF ValuesIn
  <2> QED BY <1>7, <2>1
<1>10. AgesIn(d) = [AgesIn(c) EXCEPT ![k] = 0]
  <2>1. /\ AgesIn(d) = [x \in Keys |-> AgesIn(d)[x]]
        /\ AgesIn(c) = [x \in Keys |-> AgesIn(c)[x]]
    BY DEF AgesIn
  <2> QED BY <1>8, <2>1
<1>11. ASSUME NEW x \in AllocatedIn(c) PROVE d.mem[x].key = c.mem[x].key
  <2>1. CASE x = n
    <3>1. c.mem[n].key = k
      BY <1>5, <2>1 DEF CacheOK, TableOK, AllocatedIn, Stores
    <3> QED BY <1>1, <1>3, <2>1, <3>1
  <2>2. CASE x # n
    BY <1>2, <1>3, <2>2
  <2> QED BY <2>1, <2>2
<1> QED BY <1>1, <1>3, <1>9, <1>10, <1>11 DEF KeepsKeys

\* dns_cache_put for a question that is there.
LEMMA UpdateLooks ==
  ASSUME NEW c, NEW p, CacheOK(c, p), NEW k \in Keys, NEW v \in Value,
         NEW i \in 1 .. c.size, c.table[k] = p[i]
  PROVE  LET d == Updated(c, k, v)
         IN /\ KeysAt(d, Push(Cut(p, i, c.size), p[i], c.size - 1))
                  = Put(k, Drop(KeysAt(c, p), i))
            /\ ValuesIn(d) = [ValuesIn(c) EXCEPT ![k] = v]
            /\ AgesIn(d) = [AgesIn(c) EXCEPT ![k] = 0]
<1> DEFINE d == Updated(c, k, v)
           n == p[i]
<1>1. /\ d.size = c.size /\ d.table = c.table
      /\ d.mem = [c.mem EXCEPT ![n] = [key |-> k, value |-> v, age |-> 0]]
  BY UpdateOK
<1>2. /\ n \in Nodes /\ KeysAt(c, p)[i] = k
      /\ c.table \in [Keys -> Nodes \cup {Null}]
  <2>1. n \in AllocatedIn(c) /\ n # Null /\ KeysAt(c, p)[i] = c.mem[n].key
    BY LooksOK
  <2>2. c.mem[n].key = k
    BY <2>1 DEF CacheOK, TableOK
  <2> QED BY <2>1, <2>2, CacheFields DEF CacheOK, AllocatedIn
<1>3. Stores(c, d, k, v, n)
  BY <1>1, <1>2 DEF Stores
<1> HIDE DEF d, n
<1>4. /\ ValuesIn(d) = [ValuesIn(c) EXCEPT ![k] = v]
      /\ AgesIn(d) = [AgesIn(c) EXCEPT ![k] = 0]
      /\ d.mem[n].key = k /\ KeepsKeys(c, d)
  <2>1. n \in Nodes
    BY <1>2
  <2> QED BY <1>3, <2>1, EntryLooks
<1>5. KeysAt(d, Push(Cut(p, i, c.size), p[i], c.size - 1))
         = Put(KeysAt(c, p)[i], Drop(KeysAt(c, p), i))
  BY <1>1, <1>4, MoveLooks
<1> QED BY <1>2, <1>4, <1>5 DEF d

\* dns_cache_put for a question that is not there, when there is room.
LEMMA InsertLooks ==
  ASSUME NEW c, NEW p, CacheOK(c, p), NEW k \in Keys, NEW v \in Value,
         NEW n \in Nodes, c.mem[n] = Freed, c.table[k] = Null
  PROVE  LET d == Inserted(c, k, v, n)
         IN /\ KeysAt(d, Push(p, n, c.size)) = Put(k, KeysAt(c, p))
            /\ ValuesIn(d) = [ValuesIn(c) EXCEPT ![k] = v]
            /\ AgesIn(d) = [AgesIn(c) EXCEPT ![k] = 0]
<1> DEFINE d == Inserted(c, k, v, n)
           o == KeysAt(c, p)
           q == Push(p, n, c.size)
<1>1. /\ d.size = c.size + 1 /\ d.table = [c.table EXCEPT ![k] = n]
      /\ d.mem = [c.mem EXCEPT ![n] = [key |-> k, value |-> v, age |-> 0]]
  BY DEF Inserted
<1> HIDE DEF d
<1>2. /\ ValuesIn(d) = [ValuesIn(c) EXCEPT ![k] = v]
      /\ AgesIn(d) = [AgesIn(c) EXCEPT ![k] = 0]
      /\ d.mem[n].key = k
      /\ KeepsKeys(c, d)
  <2>1. Stores(c, d, k, v, n)
    BY <1>1 DEF Stores
  <2> QED BY <2>1, EntryLooks
<1>3. /\ c.size \in Nat /\ Len(o) = c.size
      /\ \A j \in 1 .. c.size : o[j] = c.mem[p[j]].key /\ p[j] \in AllocatedIn(c)
  BY LooksOK
<1>4. ASSUME NEW j \in 1 .. c.size + 1 PROVE d.mem[q[j]].key = Put(k, o)[j]
  <2>1. Put(k, o)[j] = IF j = 1 THEN k ELSE o[j - 1]
    BY <1>3 DEF Put
  <2>2. q[j] = IF j = 1 THEN n ELSE p[j - 1]
    BY <1>3 DEF Push
  <2>3. CASE j = 1
    BY <1>2, <2>1, <2>2, <2>3
  <2>4. CASE j # 1
    <3>1. j - 1 \in 1 .. c.size
      BY <1>3, <2>4
    <3> HIDE DEF q, o
    <3> QED BY <1>2, <1>3, <2>1, <2>2, <2>4, <3>1 DEF KeepsKeys
  <2> QED BY <2>3, <2>4
<1>5. KeysAt(d, q) = [j \in 1 .. c.size + 1 |-> d.mem[q[j]].key]
  BY <1>1 DEF KeysAt
<1>6. Put(k, o) = [j \in 1 .. c.size + 1 |-> Put(k, o)[j]]
  BY <1>3 DEF Put
<1> HIDE DEF q, o
<1>7. KeysAt(d, q) = Put(k, o)
  BY <1>4, <1>5, <1>6
<1> QED BY <1>2, <1>7 DEF d, q, o

-----------------------------------------------------------------------------
(* The steps of the cache are steps of module LruCache.                    *)

\* A question is held if the table leads to an entry; it then has one place
\* in the order, and is expired if its entry is.
LEMMA HeldOK ==
  ASSUME CacheInv, NEW k \in Keys
  PROVE  /\ k \in Lru!Held <=> table[k] # Null
         /\ table[k] = Null => Lru!Without(k) = HeldKeys
         /\ table[k] # Null =>
               /\ \E i \in 1 .. size : /\ table[k] = OrderOf(Cache)[i] /\ HeldKeys[i] = k
                                       /\ Lru!Without(k) = Drop(HeldKeys, i)
               /\ HeldValues[k] = mem[table[k]].value
               /\ Lru!IsExpired(k) <=> is_entry_expired(table[k])
<1> DEFINE p == OrderOf(Cache)
<1>1. /\ HeldKeys = KeysAt(Cache, p) /\ HeldValues = ValuesIn(Cache)
      /\ CacheOK(Cache, p) /\ Cache.size = size /\ Cache.table = table
  BY LooksNow
<1>2. k \in Lru!Held <=> table[k] # Null
  BY <1>1, LooksOK DEF Lru!Held
<1>3. ASSUME table[k] # Null
      PROVE  \E i \in 1 .. size : /\ table[k] = p[i] /\ HeldKeys[i] = k
                                  /\ Lru!Without(k) = Drop(HeldKeys, i)
  <2>1. /\ HeldKeys \in Seq(Keys) /\ Len(HeldKeys) = size
        /\ \A i, j \in 1 .. size : HeldKeys[i] = HeldKeys[j] => i = j
    BY <1>1, LooksOK
  <2>2. PICK i \in 1 .. size : table[k] = p[i] /\ HeldKeys[i] = k
    BY <1>1, <1>3, LooksOK
  <2>3. Lru!Place(k) = i
    BY <2>1, <2>2 DEF Lru!Place
  <2>4. Lru!Without(k) = Lru!RemoveAt(HeldKeys, i)
    BY <1>2, <1>3, <2>3 DEF Lru!Without
  <2>5. Lru!RemoveAt(HeldKeys, i) = Drop(HeldKeys, i)
    BY <2>1, RemoveAtIsDrop
  <2> QED BY <2>2, <2>4, <2>5
<1>4. table[k] # Null => /\ HeldValues[k] = mem[table[k]].value
                         /\ HeldAges[k] = mem[table[k]].age
  BY DEF HeldValues, HeldAges
<1>5. table[k] # Null => (Lru!IsExpired(k) <=> is_entry_expired(table[k]))
  BY <1>4 DEF Lru!IsExpired, is_entry_expired
<1>6. table[k] = Null => Lru!Without(k) = HeldKeys
  BY <1>2 DEF Lru!Without
<1> QED BY <1>2, <1>3, <1>4, <1>5, <1>6

\* cache_remove_entry forgets the question of the entry.
LEMMA RemoveIsForget ==
  ASSUME CacheInv, NEW k \in Keys, table[k] # Null,
         Becomes(cache_remove_entry(Cache, table[k]))
  PROVE  Lru!Forget(k)
<1> DEFINE p == OrderOf(Cache)
           d == cache_remove_entry(Cache, table[k])
<1>1. /\ HeldKeys = KeysAt(Cache, p) /\ HeldValues = ValuesIn(Cache)
      /\ HeldAges = AgesIn(Cache)
      /\ CacheOK(Cache, p) /\ Cache.size = size
  BY LooksNow
<1>2. PICK i \in 1 .. size : /\ table[k] = p[i] /\ HeldKeys[i] = k
                             /\ Lru!Without(k) = Drop(HeldKeys, i)
  BY HeldOK
<1>3. i \in 1 .. Cache.size /\ d = cache_remove_entry(Cache, p[i])
      /\ KeysAt(Cache, p)[i] = k
  BY <1>1, <1>2
<1> HIDE DEF p
<1>4. CacheOK(d, Cut(p, i, Cache.size))
  BY <1>1, <1>3, RemoveOK
<1>5. /\ KeysAt(d, Cut(p, i, Cache.size)) = Drop(HeldKeys, i)
      /\ ValuesIn(d) = [HeldValues EXCEPT ![k] = Freed]
      /\ AgesIn(d) = [HeldAges EXCEPT ![k] = 0]
  BY <1>1, <1>3, RemoveLooks
<1>6. /\ HeldKeys' = KeysAt(d, Cut(p, i, Cache.size))
      /\ HeldValues' = ValuesIn(d) /\ HeldAges' = AgesIn(d)
  BY <1>4, LooksNext
<1> QED BY <1>2, <1>5, <1>6 DEF Lru!Forget

\* dns_cache_get is a lookup.
LEMMA GetIsLookup ==
  ASSUME CacheInv, NEW k \in Keys, dns_cache_get(k)
  PROVE  Lru!Hit(k) \/ Lru!LookupFails(k)
<1> DEFINE p == OrderOf(Cache)
           n == table[k]
<1>1. CASE n = Null /\ result' = Miss /\ UNCHANGED cacheVars
  <2>1. UNCHANGED <<HeldKeys, HeldValues, HeldAges>>
    BY <1>1 DEF cacheVars, HeldKeys, HeldValues, HeldAges, NthColder
  <2>2. k \notin Lru!Held
    BY <1>1, HeldOK
  <2> QED BY <1>1, <2>1, <2>2 DEF Lru!LookupFails
<1>2. CASE /\ n # Null /\ is_entry_expired(n)
           /\ result' = Miss /\ Becomes(cache_remove_entry(Cache, n))
  <2>1. Lru!Forget(k)
    BY <1>2, RemoveIsForget
  <2>2. k \in Lru!Held /\ Lru!IsExpired(k)
    BY <1>2, HeldOK
  <2> QED BY <1>2, <2>1, <2>2 DEF Lru!LookupFails
<1>3. CASE /\ n # Null /\ ~is_entry_expired(n) /\ result' = mem[n].value
           /\ Becomes([Cache EXCEPT !.lru = lru_touch(lru, n)])
  <2>1. k \in Lru!Held /\ ~Lru!IsExpired(k) /\ result' = HeldValues[k]
    BY <1>3, HeldOK
  <2>2. /\ HeldKeys = KeysAt(Cache, p) /\ HeldValues = ValuesIn(Cache)
        /\ HeldAges = AgesIn(Cache) /\ Cache.lru = lru
        /\ CacheOK(Cache, p) /\ Cache.size = size
    BY LooksNow
  <2>3. PICK i \in 1 .. size : /\ n = p[i] /\ HeldKeys[i] = k
                               /\ Lru!Without(k) = Drop(HeldKeys, i)
    BY <1>3, HeldOK
  <2> DEFINE d == [Cache EXCEPT !.lru = lru_touch(Cache.lru, p[i])]
             q == Push(Cut(p, i, Cache.size), p[i], Cache.size - 1)
  <2>4. i \in 1 .. Cache.size /\ d = [Cache EXCEPT !.lru = lru_touch(lru, n)]
    BY <2>2, <2>3
  <2>5. CacheOK(d, q)
    BY <2>2, <2>4, TouchOK
  <2>6. /\ KeysAt(d, q) = Put(k, Drop(HeldKeys, i))
        /\ ValuesIn(d) = HeldValues /\ AgesIn(d) = HeldAges
    BY <2>2, <2>3, <2>4, TouchLooks
  <2>7. Becomes(d)
    BY <1>3, <2>4
  <2> HIDE DEF d, q
  <2>8. /\ HeldKeys' = KeysAt(d, q)
        /\ HeldValues' = ValuesIn(d) /\ HeldAges' = AgesIn(d)
    BY <2>5, <2>7, LooksNext
  <2>9. <<k>> \o Drop(HeldKeys, i) = Put(k, Drop(HeldKeys, i))
    <3>1. HeldKeys \in Seq(Keys) /\ Len(HeldKeys) = size
      BY <2>2, LooksOK
    <3>2. Drop(HeldKeys, i) \in Seq(Keys)
      BY <3>1, RemoveAtIsDrop
    <3> QED BY <3>2, PutIsConcat
  <2> QED BY <2>1, <2>3, <2>6, <2>8, <2>9 DEF Lru!Hit
<1> QED BY <1>1, <1>2, <1>3 DEF dns_cache_get

\* dns_cache_put stores an answer and evicts at most the last in the order.
LEMMA PutIsStore ==
  ASSUME CacheInv, NEW k \in Keys, NEW v \in Value, dns_cache_put(k, v), UNCHANGED result
  PROVE  Lru!Store(k, v)
<1> DEFINE p == OrderOf(Cache)
           o == HeldKeys
<1>1. /\ HeldKeys = KeysAt(Cache, p) /\ HeldValues = ValuesIn(Cache)
      /\ HeldAges = AgesIn(Cache) /\ CacheOK(Cache, p) /\ Cache.size = size
      /\ Cache.table = table /\ size <= Capacity /\ Capacity \in Nat \ {0}
  BY LooksNow, CacheAssumption DEF CacheInv
<1>2. /\ o \in Seq(Keys) /\ Len(o) = size /\ size \in Nat
      /\ \A i \in 1 .. size : o[i] \in Keys /\ table[o[i]] = p[i] /\ p[i] # Null
  BY <1>1, LooksOK
<1>3. /\ HeldValues = [x \in Keys |-> HeldValues[x]]
      /\ HeldAges = [x \in Keys |-> HeldAges[x]]
  BY DEF HeldValues, HeldAges
<1>4. CASE table[k] # Null /\ Becomes(Updated(Cache, k, v))
  <2>1. k \in Lru!Held
    BY <1>4, HeldOK
  <2>2. PICK i \in 1 .. size : table[k] = p[i] /\ Lru!Without(k) = Drop(o, i)
    BY <1>4, HeldOK
  <2> DEFINE d == Updated(Cache, k, v)
             q == Push(Cut(p, i, Cache.size), p[i], Cache.size - 1)
  <2>3. i \in 1 .. Cache.size /\ Cache.table[k] = p[i]
    BY <1>1, <2>2
  <2>4. CacheOK(d, q)
    BY <1>1, <2>3, UpdateOK
  <2>5. /\ KeysAt(d, q) = Put(k, Drop(KeysAt(Cache, p), i))
        /\ ValuesIn(d) = [ValuesIn(Cache) EXCEPT ![k] = v]
        /\ AgesIn(d) = [AgesIn(Cache) EXCEPT ![k] = 0]
    BY <1>1, <2>3, UpdateLooks
  <2> HIDE DEF d, q
  <2>6. /\ HeldKeys' = KeysAt(d, q)
        /\ HeldValues' = ValuesIn(d) /\ HeldAges' = AgesIn(d)
    BY <1>4, <2>4, LooksNext DEF d
  <2>7. <<k>> \o Drop(o, i) = Put(k, Drop(o, i))
    <3>1. Drop(o, i) \in Seq(Keys)
      BY <1>2, RemoveAtIsDrop
    <3> QED BY <3>1, PutIsConcat
  <2>8. /\ HeldValues' = [HeldValues EXCEPT ![k] = v]
        /\ HeldAges' = [HeldAges EXCEPT ![k] = 0]
        /\ HeldKeys' = <<k>> \o Lru!Without(k)
    BY <1>1, <2>2, <2>5, <2>6, <2>7
  <2>9. /\ HeldValues' = [x \in Keys |-> IF x = k THEN v ELSE HeldValues[x]]
        /\ HeldAges' = [x \in Keys |-> IF x = k THEN 0 ELSE HeldAges[x]]
    BY <1>3, <2>8
  <2> QED BY <2>1, <2>8, <2>9 DEF Lru!Store
<1>5. ASSUME table[k] = Null,
             NEW n \in Nodes, MadeRoom(Cache).mem[n] = Freed,
             Becomes(Inserted(MadeRoom(Cache), k, v, n))
      PROVE  Lru!Store(k, v)
  <2>1. k \notin Lru!Held /\ Lru!Without(k) = o
    BY <1>5, HeldOK
  <2>2. ASSUME NEW c, NEW q, c = MadeRoom(Cache), CacheOK(c, q), c.table[k] = Null
        PROVE  /\ HeldKeys' = <<k>> \o KeysAt(c, q)
               /\ HeldValues' = [x \in Keys |-> IF x = k THEN v ELSE ValuesIn(c)[x]]
               /\ HeldAges' = [x \in Keys |-> IF x = k THEN 0 ELSE AgesIn(c)[x]]
    <3> DEFINE d == Inserted(c, k, v, n)
               r == Push(q, n, c.size)
    <3>1. c.mem[n] = Freed /\ Becomes(d)
      BY <1>5, <2>2
    <3>2. CacheOK(d, r)
      BY <2>2, <3>1, InsertOK
    <3>3. /\ KeysAt(d, r) = Put(k, KeysAt(c, q))
          /\ ValuesIn(d) = [ValuesIn(c) EXCEPT ![k] = v]
          /\ AgesIn(d) = [AgesIn(c) EXCEPT ![k] = 0]
      BY <2>2, <3>1, InsertLooks
    <3> HIDE DEF d, r
    <3>4. /\ HeldKeys' = KeysAt(d, r)
          /\ HeldValues' = ValuesIn(d) /\ HeldAges' = AgesIn(d)
      BY <3>1, <3>2, LooksNext
    <3>5. <<k>> \o KeysAt(c, q) = Put(k, KeysAt(c, q))
      <4>1. KeysAt(c, q) \in Seq(Keys)
        BY <2>2, LooksOK
      <4> QED BY <4>1, PutIsConcat
    <3>6. /\ ValuesIn(c) = [x \in Keys |-> ValuesIn(c)[x]]
          /\ AgesIn(c) = [x \in Keys |-> AgesIn(c)[x]]
      BY DEF ValuesIn, AgesIn
    <3> QED BY <3>3, <3>4, <3>5, <3>6
  <2>3. CASE size < Capacity
    <3>1. MadeRoom(Cache) = Cache
      BY <1>1, <2>3, RoomOK
    <3>2. /\ HeldKeys' = <<k>> \o o
          /\ HeldValues' = [x \in Keys |-> IF x = k THEN v ELSE HeldValues[x]]
          /\ HeldAges' = [x \in Keys |-> IF x = k THEN 0 ELSE HeldAges[x]]
      BY <1>1, <1>5, <2>2, <3>1
    <3>3. ~(Len(o) >= Capacity)
      BY <1>1, <1>2, <2>3
    <3> QED BY <2>1, <3>2, <3>3 DEF Lru!Store
  <2>4. CASE size >= Capacity
    <3> DEFINE c == MadeRoom(Cache)
               q == Cut(p, size, size)
               w == o[size]
    <3>1. size \in 1 .. Cache.size /\ c = cache_remove_entry(Cache, p[size])
      BY <1>1, <1>2, <2>4, RoomOK
    <3>2. /\ CacheOK(c, q)
          /\ \A x \in Keys : c.table[x] = IF x = Cache.mem[p[size]].key THEN Null
                                          ELSE Cache.table[x]
      BY <1>1, <3>1, RemoveOK
    <3>3. c.table[k] = Null
      BY <1>1, <1>5, <3>2
    <3>4. /\ KeysAt(c, q) = Drop(o, size)
          /\ ValuesIn(c) = [HeldValues EXCEPT ![w] = Freed]
          /\ AgesIn(c) = [HeldAges EXCEPT ![w] = 0]
      BY <1>1, <3>1, RemoveLooks
    <3> HIDE DEF c, q, w
    <3>5. /\ HeldKeys' = <<k>> \o KeysAt(c, q)
          /\ HeldValues' = [x \in Keys |-> IF x = k THEN v ELSE ValuesIn(c)[x]]
          /\ HeldAges' = [x \in Keys |-> IF x = k THEN 0 ELSE AgesIn(c)[x]]
      BY <2>2, <3>2, <3>3 DEF c
    <3>6. Len(o) >= Capacity /\ Len(o) > 0 /\ Lru!Last(o) = w
      BY <1>1, <1>2, <2>4 DEF Lru!Last, w
    <3>7. KeysAt(c, q) = Lru!Front(o)
      BY <1>2, <3>4, <3>6, FrontIsDrop
    <3>8. \A x \in Keys :
             /\ ValuesIn(c)[x] = IF x = w THEN Freed ELSE HeldValues[x]
             /\ AgesIn(c)[x] = IF x = w THEN 0 ELSE HeldAges[x]
      BY <1>3, <3>4
    <3>9. /\ HeldValues' = [x \in Keys |-> IF x = k THEN v
                                           ELSE IF x = w THEN Freed ELSE HeldValues[x]]
          /\ HeldAges' = [x \in Keys |-> IF x = k \/ x = w THEN 0 ELSE HeldAges[x]]
      BY <3>5, <3>8
    <3> QED BY <2>1, <3>5, <3>6, <3>7, <3>9 DEF Lru!Store
  <2> QED BY <1>1, <1>2, <2>3, <2>4
<1> QED BY <1>4, <1>5 DEF dns_cache_put

\* The clock makes the entries older, and nothing else.
LEMMA TickIsTick ==
  ASSUME CacheInv, Tick
  PROVE  Lru!Tick
<1>1. /\ UNCHANGED <<table, lru, size, threadVars>>
      /\ mem \in [Nodes -> EntryType \cup {Freed}] /\ size \in Nat
  BY CacheInPieces, CacheFields DEF Tick
<1>2. ASSUME NEW n \in Allocated
      PROVE  /\ mem'[n].key = mem[n].key /\ mem'[n].value = mem[n].value
             /\ mem'[n].age = IF mem[n].age < MaxAge THEN mem[n].age + 1 ELSE mem[n].age
  <2>1. /\ n \in Nodes /\ mem[n] \in EntryType /\ mem[n] # Freed
        /\ mem[n].age \in 0 .. MaxAge /\ MaxAge \in Nat
    BY <1>1, CacheAssumption DEF Allocated, EntryType, MaxAge
  <2>2. mem'[n] = IF mem[n] = Freed \/ mem[n].age = MaxAge THEN mem[n]
                  ELSE [mem[n] EXCEPT !.age = @ + 1]
    BY <2>1 DEF Tick
  <2>3. CASE mem[n].age = MaxAge
    BY <2>1, <2>2, <2>3
  <2>4. CASE mem[n].age # MaxAge
    <3>1. mem[n].age < MaxAge
      BY <2>1, <2>4
    <3>2. mem'[n] = [mem[n] EXCEPT !.age = @ + 1]
      BY <2>1, <2>2, <2>4
    <3>3. /\ mem'[n].key = mem[n].key /\ mem'[n].value = mem[n].value
          /\ mem'[n].age = mem[n].age + 1
      BY <2>1, <3>2 DEF EntryType
    <3> QED BY <3>1, <3>3
  <2> QED BY <2>3, <2>4
<1>3. NthColder' = NthColder
  BY <1>1 DEF NthColder
<1>4. \A i \in 1 .. size : NthColder[i] \in Allocated
  <2>1. \A i \in 1 .. size : OrderOf(Cache)[i] \in Allocated
    BY CacheInPieces DEF Path
  <2>2. \A i \in 1 .. size : NthColder[i] = OrderOf(Cache)[i]
    BY <1>1, CacheInPieces DEF OrderOf, NthColder
  <2> QED BY <2>1, <2>2
<1>5. HeldKeys' = HeldKeys
  BY <1>1, <1>2, <1>3, <1>4 DEF HeldKeys
<1>6. \A k \in Keys : table[k] # Null => table[k] \in Allocated
  BY CacheInPieces DEF TableOK
<1>7. HeldValues' = HeldValues
  BY <1>1, <1>2, <1>6 DEF HeldValues
<1>8. ASSUME NEW k \in Keys
      PROVE  HeldAges'[k] = IF k \in Lru!Held /\ HeldAges[k] < MaxAge
                            THEN HeldAges[k] + 1 ELSE HeldAges[k]
  <2>1. k \in Lru!Held <=> table[k] # Null
    BY HeldOK
  <2>2. /\ HeldAges[k] = IF table[k] = Null THEN 0 ELSE mem[table[k]].age
        /\ HeldAges'[k] = IF table[k] = Null THEN 0 ELSE mem'[table[k]].age
    BY <1>1 DEF HeldAges
  <2>3. CASE table[k] = Null
    BY <2>1, <2>2, <2>3
  <2>4. CASE table[k] # Null
    BY <1>2, <1>6, <2>1, <2>2, <2>4
  <2> QED BY <2>3, <2>4
<1>9. HeldAges' = [k \in Keys |-> HeldAges'[k]]
  BY DEF HeldAges
<1>10. HeldAges' = [k \in Keys |-> IF k \in Lru!Held /\ HeldAges[k] < MaxAge
                                   THEN HeldAges[k] + 1 ELSE HeldAges[k]]
  BY <1>8, <1>9
<1> QED BY <1>1, <1>5, <1>7, <1>10 DEF Lru!Tick, threadVars

\* The body of a call of the main thread is the operation that was asked for.
LEMMA BodyDoesAsAsked ==
  ASSUME CacheInv, MainBody
  PROVE  /\ call.op = "get" => /\ call.key \in Keys
                               /\ Lru!Hit(call.key) \/ Lru!LookupFails(call.key)
         /\ call.op # "get" => /\ call.key \in Keys /\ call.value \in Value
                               /\ Lru!Store(call.key, call.value)
<1>1. call \in Calls /\ call # Idle
  BY DEF CacheInv, MainBody, Idle
<1>2. ASSUME call.op = "get"
      PROVE  /\ call.key \in Keys
             /\ Lru!Hit(call.key) \/ Lru!LookupFails(call.key)
  <2>1. call.key \in Keys
    BY <1>1, <1>2 DEF Calls
  <2>2. dns_cache_get(call.key)
    BY <1>2 DEF MainBody
  <2> QED BY <2>1, <2>2, GetIsLookup
<1>3. ASSUME call.op # "get"
      PROVE  /\ call.key \in Keys /\ call.value \in Value
             /\ Lru!Store(call.key, call.value)
  <2>1. call.key \in Keys /\ call.value \in Value
    BY <1>1, <1>3 DEF Calls, Value
  <2>2. dns_cache_put(call.key, call.value) /\ UNCHANGED result
    BY <1>3 DEF MainBody
  <2> QED BY <2>1, <2>2, PutIsStore
<1> QED BY <1>2, <1>3

\* Every step of the cache is a step of an LRU cache or does not show.
LEMMA StepsImplement == CacheInv /\ [Next]_vars => [Lru!Next]_(Lru!vars)
<1> SUFFICES ASSUME CacheInv, [Next]_vars PROVE [Lru!Next]_(Lru!vars)
  OBVIOUS
<1>1. ASSUME UNCHANGED <<cacheVars, result>> PROVE UNCHANGED Lru!vars
  BY <1>1 DEF cacheVars, Lru!vars, HeldKeys, HeldValues, HeldAges, NthColder
<1>2. CASE UNCHANGED vars
  BY <1>1, <1>2 DEF vars, threadVars
<1>3. CASE Tick
  BY <1>3, TickIsTick DEF Lru!Next
<1>4. CASE \E k \in StaticKeys : load_ip_table(k)
  <2>1. PICK k \in StaticKeys : load_ip_table(k)
    BY <1>4
  <2>2. k \in Keys /\ StaticValue \in Value
    BY CacheAssumption DEF Value
  <2>3. Lru!Store(k, StaticValue)
    BY <2>1, <2>2, PutIsStore DEF load_ip_table
  <2> QED BY <2>2, <2>3 DEF Lru!Next
<1>5. CASE \E c \in Calls \ {Idle} : MainLock(c)
  BY <1>1, <1>5 DEF MainLock
<1>6. CASE MainBody
  <2>1. CASE call.op = "get"
    BY <1>6, <2>1, BodyDoesAsAsked DEF Lru!Next
  <2>2. CASE call.op # "get"
    BY <1>6, <2>2, BodyDoesAsAsked DEF Lru!Next
  <2> QED BY <2>1, <2>2
<1>7. CASE dns_cache_prune
  BY <1>1, <1>7 DEF dns_cache_prune
<1>8. CASE prune_done
  BY <1>1, <1>8 DEF prune_done
<1>9. CASE prune_step
  <2>1. CASE is_entry_expired(cursor)
    <3> DEFINE k == mem[cursor].key
    <3>1. /\ lock = "daemon" /\ cursor # tail /\ UNCHANGED result
          /\ Becomes(cache_remove_entry(Cache, cursor))
      BY <1>9, <2>1 DEF prune_step
    <3>2. cursor \in Allocated
      BY <3>1 DEF CacheInv, CursorIsValid
    <3>3. k \in Keys /\ table[k] = cursor /\ cursor # Null
      <4>1. mem[cursor] \in EntryType /\ cursor \in Nodes
        BY <3>2, CacheInPieces, CacheFields DEF Allocated
      <4>2. table[k] = cursor
        BY <3>2, CacheInPieces DEF TableOK
      <4> QED BY <4>1, <4>2, CacheAssumption DEF EntryType
    <3> HIDE DEF k
    <3>4. Lru!Forget(k)
      BY <3>1, <3>3, RemoveIsForget
    <3>5. k \in Lru!Held /\ Lru!IsExpired(k)
      BY <2>1, <3>3, HeldOK
    <3>6. Lru!Expire(k)
      BY <3>1, <3>4, <3>5 DEF Lru!Expire
    <3> QED BY <3>3, <3>6 DEF Lru!Next
  <2>2. CASE ~is_entry_expired(cursor)
    BY <1>1, <1>9, <2>2 DEF prune_step
  <2> QED BY <2>1, <2>2
<1> QED BY <1>2, <1>3, <1>4, <1>5, <1>6, <1>7, <1>8, <1>9 DEF Next, DaemonNext

\* The cache of dns_cache.c, with its list, its table, its lock and its two
\* threads, implements an LRU cache with expiry: a lookup hands out what was
\* stored last and has not expired, a full cache evicts the least recently
\* used entry, and the daemon removes what has expired and nothing else.
THEOREM CacheImplementsLru == Spec => ImplementsLruCache
<1>1. Init => Lru!Init
  <2> SUFFICES ASSUME Init PROVE Lru!Init
    OBVIOUS
  <2>1. size = 0 /\ table = [k \in Keys |-> Null] /\ result = Miss
    BY DEF Init, dns_cache_init
  <2>2. HeldKeys = << >>
    BY <2>1 DEF HeldKeys
  <2>3. HeldValues = [k \in Keys |-> Freed] /\ HeldAges = [k \in Keys |-> 0]
    BY <2>1 DEF HeldValues, HeldAges
  <2> QED BY <2>1, <2>2, <2>3 DEF Lru!Init
<1> QED BY <1>1, CacheStart, CacheStep, StepsImplement, PTL
        DEF Spec, ImplementsLruCache, Lru!Spec

\* Whatever the daemon did while the main thread waited for the lock, a call
\* does to its own question what it was asked to do.
THEOREM CallsAreHonoured == Spec => CallsDoAsAsked
<1> DEFINE Honoured == MainBody => IF call.op = "get"
                                   THEN Lru!Hit(call.key) \/ Lru!LookupFails(call.key)
                                   ELSE Lru!Store(call.key, call.value)
<1>1. CacheInv /\ [Next]_vars => [Honoured]_vars
  BY BodyDoesAsAsked
<1> QED BY <1>1, CacheStart, CacheStep, PTL DEF Spec, CallsDoAsAsked
=============================================================================
