--------------------------- MODULE HashMapProofs ----------------------------
(***************************************************************************)
(* Proofs about the hash map for every set of keys, every hash function    *)
(* and every number of buckets: it is a partial map, through every growth. *)
(***************************************************************************)
EXTENDS HashMap, NumberLemmas, SequenceTheorems, FiniteSetTheorems

-----------------------------------------------------------------------------
(* Lists.                                                                  *)

Entry  == [key : Keys, data : Data]
Node   == [data : Entry, prev : Nodes \cup {Null}, next : Nodes \cup {Null}]
List   == [head : Nodes \cup {Null}, tail : Nodes \cup {Null}, size : Nat]
Memory == [Nodes -> Node \cup {Null}]

\* The constants, in these words.
LEMMA NullIsNoNode == Null \notin Nodes /\ Null \notin Node
BY HashMapAssumption DEF Node, Entry

\* Fields of nodes and of lists.
LEMMA NodeFields ==
  ASSUME NEW x \in Node
  PROVE  /\ x.data \in Entry /\ x.data.key \in Keys /\ x.data.data \in Data
         /\ x.prev \in Nodes \cup {Null} /\ x.next \in Nodes \cup {Null}
         /\ x = [data |-> x.data, prev |-> x.prev, next |-> x.next]
         /\ x # Null
<1>1. x # Null
  BY NullIsNoNode
<1> QED BY <1>1 DEF Node, Entry

\* w lists the nodes of l in m, head to tail.
Chain(m, l, w) ==
    /\ w \in Seq(Nodes)
    /\ \A i \in 1 .. Len(w) : m[w[i]] \in Node
    /\ \A i, j \in 1 .. Len(w) : w[i] = w[j] => i = j
    /\ l \in List /\ l.size = Len(w)
    /\ l.head = IF Len(w) = 0 THEN Null ELSE w[1]
    /\ l.tail = IF Len(w) = 0 THEN Null ELSE w[Len(w)]
    /\ \A i \in 1 .. Len(w) : /\ m[w[i]].prev = IF i = 1 THEN Null ELSE w[i - 1]
                              /\ m[w[i]].next = IF i = Len(w) THEN Null ELSE w[i + 1]

\* Only the nodes of a list matter to it.
LEMMA ChainFrame ==
  ASSUME NEW m, NEW r, NEW l, NEW w, Chain(m, l, w),
         \A i \in 1 .. Len(w) : r[w[i]] = m[w[i]]
  PROVE  Chain(r, l, w)
BY DEF Chain

\* 1 .. n has n elements.
LEMMA Positions ==
  ASSUME NEW n \in Nat
  PROVE  IsFiniteSet(1 .. n) /\ Cardinality(1 .. n) = n
<1>1. 1 \in Int /\ n \in Int
  OBVIOUS
<1>2. IsFiniteSet(1 .. n) /\ Cardinality(1 .. n) = IF 1 > n THEN 0 ELSE n - 1 + 1
  BY <1>1, FS_Interval
<1>3. Cardinality(1 .. n) = n
  BY <1>2
<1> QED BY <1>2, <1>3

\* A list has no more nodes than there are.
LEMMA ChainLength ==
  ASSUME NEW m, NEW l, NEW w, Chain(m, l, w)
  PROVE  Len(w) \in Nat /\ Len(w) <= Cardinality(Nodes) /\ Cardinality(Nodes) \in Nat
<1>0. w \in Seq(Nodes) /\ Len(w) \in Nat /\ \A i \in 1 .. Len(w) : w[i] \in Nodes
  BY LenProperties, ElementOfSeq DEF Chain
<1>1. IsFiniteSet(Nodes) /\ Cardinality(Nodes) \in Nat
  BY HashMapAssumption, FS_CardinalityType
<1>2. IsFiniteSet(1 .. Len(w)) /\ Cardinality(1 .. Len(w)) = Len(w)
  BY <1>0, Positions
<1> DEFINE g == [i \in 1 .. Len(w) |-> w[i]]
<1>3. g \in Injection(1 .. Len(w), Nodes)
  <2>1. \A i, j \in 1 .. Len(w) : w[i] = w[j] => i = j
    BY DEF Chain
  <2> QED BY <1>0, <2>1 DEF Injection, IsInjective
<1> HIDE DEF g
<1>4. Cardinality(1 .. Len(w)) <= Cardinality(Nodes)
  BY <1>1, <1>2, <1>3, FS_Injection
<1> QED BY <1>0, <1>1, <1>2, <1>4

\* Following next from the head finds the nodes of the list.
LEMMA WalkIs ==
  ASSUME NEW m \in Memory, NEW l, NEW w, Chain(m, l, w)
  PROVE  Walk(m, l) = w
<1> DEFINE n == Cardinality(DOMAIN m)
           Turn(i, v) == IF NodeAfter(m, l, v) = Null THEN v ELSE Append(v, NodeAfter(m, l, v))
           Pre(i) == [j \in 1 .. (IF i < Len(w) THEN i ELSE Len(w)) |-> w[j]]
           R(f) == f = [i \in 0 .. n |-> IF i = 0 THEN <<>> ELSE Turn(i, f[i - 1])]
<1>0. /\ w \in Seq(Nodes) /\ Len(w) \in Nat /\ \A i \in 1 .. Len(w) : w[i] \in Nodes /\ w[i] # Null
      /\ w = [j \in 1 .. Len(w) |-> w[j]]
  BY LenProperties, ElementOfSeq, NullIsNoNode DEF Chain
<1>1. n \in Nat /\ Len(w) <= n
  <2>1. DOMAIN m = Nodes
    BY DEF Memory
  <2> QED BY <2>1, ChainLength
<1>2. Pre(0) = <<>>
  BY <1>0
<1>3. ASSUME NEW i \in Nat PROVE Turn(i + 1, Pre(i)) = Pre(i + 1)
  <2>1. CASE i < Len(w)
    <3>1. Pre(i) \in Seq(Nodes) /\ Len(Pre(i)) = i /\ \A j \in 1 .. i : Pre(i)[j] = w[j]
      BY <1>0, <2>1
    <3>2. NodeAfter(m, l, Pre(i)) = w[i + 1]
      <4>1. CASE i = 0
        <5>1. l.head = w[1]
          BY <1>0, <2>1, <4>1 DEF Chain
        <5> QED BY <1>2, <4>1, <5>1 DEF NodeAfter
      <4>2. CASE i > 0
        <5>1. Pre(i) # <<>> /\ Last(Pre(i)) = w[i]
          BY <3>1, <4>2 DEF Last
        <5>2. i \in 1 .. Len(w) /\ i # Len(w)
          BY <1>0, <2>1, <4>2
        <5>3. m[w[i]] # Null /\ m[w[i]].next = w[i + 1]
          BY <5>2, NullIsNoNode DEF Chain
        <5> HIDE DEF Pre
        <5> QED BY <5>1, <5>3 DEF NodeAfter
      <4> QED BY <4>1, <4>2
    <3>3. w[i + 1] # Null /\ w[i + 1] \in Nodes
      BY <1>0, <2>1
    <3>4. Append(Pre(i), w[i + 1]) = Pre(i + 1)
      <4>1. Append(Pre(i), w[i + 1]) \in Seq(Nodes) /\ Len(Append(Pre(i), w[i + 1])) = i + 1
            /\ \A j \in 1 .. i + 1 : Append(Pre(i), w[i + 1])[j] = w[j]
        <5> HIDE DEF Pre
        <5> QED BY <3>1, <3>3, AppendProperties
      <4>2. Pre(i + 1) \in Seq(Nodes) /\ Len(Pre(i + 1)) = i + 1 /\ \A j \in 1 .. i + 1 : Pre(i + 1)[j] = w[j]
        BY <1>0, <2>1
      <4> HIDE DEF Pre
      <4> QED BY <4>1, <4>2, SeqEqual
    <3> HIDE DEF Pre
    <3> QED BY <3>2, <3>3, <3>4
  <2>2. CASE ~(i < Len(w))
    <3>1. Pre(i) = w /\ Pre(i + 1) = w
      BY <1>0, <2>2
    <3>2. NodeAfter(m, l, w) = Null
      <4>1. CASE Len(w) = 0
        <5>1. w = <<>> /\ l.head = Null
          BY <1>0, <4>1, EmptySeq DEF Chain
        <5> QED BY <5>1 DEF NodeAfter
      <4>2. CASE Len(w) > 0
        <5>1. w # <<>> /\ Last(w) = w[Len(w)] /\ Len(w) \in 1 .. Len(w)
          BY <1>0, <4>2 DEF Last
        <5>2. m[w[Len(w)]].next = Null
          BY <5>1 DEF Chain
        <5> QED BY <5>1, <5>2 DEF NodeAfter
      <4> QED BY <1>0, <4>1, <4>2
    <3> HIDE DEF Pre
    <3> QED BY <3>1, <3>2
  <2> QED BY <2>1, <2>2
<1> HIDE DEF Pre, Turn
<1> DEFINE f == [i \in 0 .. n |-> Pre(i)]
<1>4. R(f)
  <2>1. ASSUME NEW i \in 0 .. n PROVE f[i] = IF i = 0 THEN <<>> ELSE Turn(i, f[i - 1])
    <3>1. CASE i = 0
      BY <1>2, <3>1
    <3>2. CASE i # 0
      <4>1. i - 1 \in Nat /\ i - 1 \in 0 .. n /\ (i - 1) + 1 = i
        BY <1>1, <3>2
      <4>2. Turn((i - 1) + 1, Pre(i - 1)) = Pre((i - 1) + 1)
        BY <1>3, <4>1
      <4> QED BY <3>2, <4>1, <4>2
    <3> QED BY <3>1, <3>2
  <2> QED BY <2>1
<1> DEFINE a == CHOOSE g : R(g)
<1>5. R(a)
  <2> HIDE DEF R, f
  <2> QED BY <1>4
<1>6. Walk(m, l) = a[n]
  BY DEF Walk, After, Turn
<1> HIDE DEF a, f
<1>7. a[0] = <<>> /\ \A i \in 1 .. n : a[i] = Turn(i, a[i - 1])
  BY <1>1, <1>5
<1> DEFINE T == [i \in 0 .. n |-> {Pre(i)}]
<1>8. a[n] \in T[n]
  <2>1. a[0] \in T[0]
    BY <1>1, <1>2, <1>7
  <2>2. ASSUME NEW i \in 1 .. n, a[i - 1] \in T[i - 1] PROVE a[i] \in T[i]
    <3>1. i - 1 \in Nat /\ i - 1 \in 0 .. n /\ (i - 1) + 1 = i /\ i \in 0 .. n
      BY <1>1
    <3>2. a[i - 1] = Pre(i - 1)
      BY <2>2, <3>1
    <3>3. Turn((i - 1) + 1, Pre(i - 1)) = Pre((i - 1) + 1)
      BY <1>3, <3>1
    <3> QED BY <1>7, <3>1, <3>2, <3>3
  <2> HIDE DEF T
  <2> QED BY <1>1, <2>1, <2>2, LoopEnds
<1>9. Pre(n) = w
  BY <1>0, <1>1 DEF Pre
<1> QED BY <1>1, <1>6, <1>8, <1>9

\* A new node behind the last one.
LEMMA AddLastOK ==
  ASSUME NEW m \in Memory, NEW l, NEW w, Chain(m, l, w), NEW e \in Entry,
         \E x \in Nodes : m[x] = Null
  PROVE  LET n == Fresh(m)
             r == linked_list_addLast(m, l, e)
         IN /\ n \in Nodes /\ m[n] = Null
            /\ r.mem \in Memory /\ Chain(r.mem, r.list, Append(w, n))
            /\ r.mem[n] # Null /\ r.mem[n].data = e
            /\ \A x \in Nodes : x # n => /\ r.mem[x] = Null <=> m[x] = Null
                                         /\ m[x] # Null => r.mem[x].data = m[x].data
            /\ \A x \in Nodes : x # n /\ (\A i \in 1 .. Len(w) : w[i] # x) => r.mem[x] = m[x]
<1> DEFINE n == Fresh(m)
           r == linked_list_addLast(m, l, e)
           k == Len(w)
           v == Append(w, n)
           new == [data |-> e, prev |-> l.tail, next |-> Null]
<1>0. /\ w \in Seq(Nodes) /\ k \in Nat /\ \A i \in 1 .. k : w[i] \in Nodes /\ w[i] # Null /\ m[w[i]] \in Node
  BY LenProperties, ElementOfSeq, NullIsNoNode DEF Chain
<1>1. DOMAIN m = Nodes /\ \A x \in Nodes : m[x] \in Node \cup {Null}
  BY DEF Memory
<1>2. n \in Nodes /\ m[n] = Null
  <2>1. n = CHOOSE x \in Nodes : m[x] = Null
    BY <1>1 DEF Fresh
  <2> HIDE DEF n
  <2> QED BY <2>1
<1>3. /\ r.mem = [i \in Nodes |-> CASE i = n -> new
                                    [] i = l.tail -> SetNext(m[i], n)
                                    [] OTHER -> m[i]]
      /\ r.list = [head |-> IF l.tail = Null THEN n ELSE l.head, tail |-> n, size |-> l.size + 1]
  BY <1>1 DEF linked_list_addLast
<1> HIDE DEF n, r
<1>4. /\ l.tail = (IF k = 0 THEN Null ELSE w[k]) /\ l.head = (IF k = 0 THEN Null ELSE w[1])
      /\ l.size = k /\ l.tail \in Nodes \cup {Null} /\ l.head \in Nodes \cup {Null}
  BY DEF Chain, List
<1>5. \A i \in 1 .. k : w[i] # n
  BY <1>0, <1>2, NullIsNoNode
<1>6. new \in Node /\ new.data = e /\ new.prev = l.tail /\ new.next = Null
  BY <1>4 DEF Node
<1> HIDE DEF new
<1>7. r.mem[n] = new
  <2>1. n # l.tail
    BY <1>0, <1>2, <1>4, <1>5, NullIsNoNode
  <2> QED BY <1>2, <1>3, <2>1
<1>8. ASSUME NEW x \in Node
      PROVE  SetNext(x, n) \in Node /\ SetNext(x, n).data = x.data /\ SetNext(x, n).prev = x.prev
             /\ SetNext(x, n).next = n
  BY <1>2, NodeFields DEF SetNext, Node
<1>9. CASE k = 0
  <2>1. ASSUME NEW x \in Nodes, x # n PROVE r.mem[x] = m[x]
    <3>1. l.tail = Null /\ x # Null
      BY <1>4, <1>9, NullIsNoNode
    <3> QED BY <1>3, <2>1, <3>1
  <2>2. r.mem \in Memory
    <3>1. r.mem = [i \in Nodes |-> r.mem[i]]
      BY <1>3
    <3>2. \A x \in Nodes : r.mem[x] \in Node \cup {Null}
      BY <1>1, <1>6, <1>7, <2>1
    <3> QED BY <3>1, <3>2 DEF Memory
  <2>3. Chain(r.mem, r.list, v)
    <3>1. v \in Seq(Nodes) /\ Len(v) = 1 /\ v[1] = n
      BY <1>0, <1>2, <1>9, AppendProperties
    <3>2. r.list = [head |-> n, tail |-> n, size |-> 1]
      BY <1>3, <1>4, <1>9
    <3>3. r.list \in List /\ r.list.head = n /\ r.list.tail = n /\ r.list.size = 1
      BY <1>2, <3>2 DEF List
    <3>4. r.mem[n] \in Node /\ r.mem[n].prev = Null /\ r.mem[n].next = Null
      BY <1>4, <1>6, <1>7, <1>9
    <3> HIDE DEF v
    <3> QED BY <3>1, <3>3, <3>4 DEF Chain
  <2> QED BY <1>2, <1>6, <1>7, <2>1, <2>2, <2>3, NullIsNoNode DEF n, r
<1>10. CASE k > 0
  <2> DEFINE t == w[k]
  <2>1. k \in 1 .. k /\ t \in Nodes /\ l.tail = t /\ t # n /\ t # Null /\ m[t] \in Node /\ l.head = w[1]
    BY <1>0, <1>4, <1>5, <1>10
  <2> HIDE DEF t
  <2>2. r.mem[t] = SetNext(m[t], n)
    BY <1>3, <2>1
  <2>3. ASSUME NEW x \in Nodes, x # n, x # t PROVE r.mem[x] = m[x]
    BY <1>3, <2>1, <2>3
  <2>4. r.mem \in Memory
    <3>1. r.mem = [i \in Nodes |-> r.mem[i]]
      BY <1>3
    <3>2. \A x \in Nodes : r.mem[x] \in Node \cup {Null}
      BY <1>1, <1>6, <1>7, <1>8, <2>1, <2>2, <2>3
    <3> QED BY <3>1, <3>2 DEF Memory
  <2>5. ASSUME NEW x \in Nodes, x # n
        PROVE  (r.mem[x] = Null <=> m[x] = Null) /\ (m[x] # Null => r.mem[x].data = m[x].data)
    <3>1. CASE x = t
      BY <1>8, <2>1, <2>2, <3>1, NullIsNoNode
    <3>2. CASE x # t
      BY <2>3, <2>5, <3>2
    <3> QED BY <3>1, <3>2
  <2>6. \A x \in Nodes : x # n /\ (\A i \in 1 .. k : w[i] # x) => r.mem[x] = m[x]
    BY <2>1, <2>3 DEF t
  <2>7. Chain(r.mem, r.list, v)
    <3>1. v \in Seq(Nodes) /\ Len(v) = k + 1 /\ v[k + 1] = n /\ \A i \in 1 .. k : v[i] = w[i]
      BY <1>0, <1>2, AppendProperties
    <3> HIDE DEF v
    <3>2. r.list = [head |-> w[1], tail |-> n, size |-> k + 1]
      BY <1>3, <1>4, <2>1
    <3>3. r.list \in List /\ r.list.head = w[1] /\ r.list.tail = n /\ r.list.size = k + 1
      <4>1. w[1] \in Nodes
        BY <1>0, <1>10
      <4> QED BY <1>0, <1>2, <3>2, <4>1 DEF List
    <3>4. \A i \in 1 .. k + 1 : i = k + 1 \/ i \in 1 .. k
      BY <1>0
    <3>5. ASSUME NEW i \in 1 .. k + 1
          PROVE  /\ r.mem[v[i]] \in Node
                 /\ r.mem[v[i]].prev = IF i = 1 THEN Null ELSE v[i - 1]
                 /\ r.mem[v[i]].next = IF i = k + 1 THEN Null ELSE v[i + 1]
      <4>1. CASE i = k + 1
        <5>1. r.mem[v[i]] = new /\ new.prev = w[k] /\ v[i - 1] = w[k] /\ i # 1
          BY <1>0, <1>6, <1>7, <1>10, <2>1, <3>1, <4>1 DEF t
        <5> QED BY <1>6, <4>1, <5>1
      <4>2. CASE i = k
        <5>1. v[i] = t /\ v[i + 1] = n /\ i # k + 1 /\ (i # 1 => v[i - 1] = w[i - 1])
          BY <1>0, <1>10, <3>1, <4>2 DEF t
        <5>2. m[w[k]].prev = IF k = 1 THEN Null ELSE w[k - 1]
          BY <2>1 DEF Chain
        <5>3. r.mem[t] \in Node /\ r.mem[t].prev = m[t].prev /\ r.mem[t].next = n
          BY <1>8, <2>1, <2>2
        <5> QED BY <4>2, <5>1, <5>2, <5>3 DEF t
      <4>3. CASE i \in 1 .. k /\ i # k
        <5>1. v[i] = w[i] /\ v[i + 1] = w[i + 1] /\ i # k + 1 /\ (i # 1 => v[i - 1] = w[i - 1])
          BY <1>0, <3>1, <4>3
        <5>2. w[i] # t /\ w[i] # n /\ w[i] \in Nodes
          BY <1>0, <1>5, <2>1, <4>3 DEF Chain, t
        <5>3. r.mem[w[i]] = m[w[i]]
          BY <2>3, <5>2
        <5>4. /\ m[w[i]] \in Node /\ m[w[i]].prev = IF i = 1 THEN Null ELSE w[i - 1]
              /\ m[w[i]].next = w[i + 1]
          BY <4>3 DEF Chain
        <5> QED BY <5>1, <5>3, <5>4
      <4> QED BY <3>4, <4>1, <4>2, <4>3
    <3>6. \A i, j \in 1 .. k + 1 : v[i] = v[j] => i = j
      BY <1>5, <3>1, <3>4 DEF Chain
    <3>7. k + 1 # 0 /\ v[1] = w[1]
      BY <1>0, <1>10, <3>1
    <3> QED BY <3>1, <3>3, <3>5, <3>6, <3>7 DEF Chain
  <2> QED BY <1>2, <1>6, <1>7, <2>4, <2>5, <2>6, <2>7, NullIsNoNode DEF n, r
<1> QED BY <1>0, <1>9, <1>10

\* w without its j-th element.
Drop(w, j) == [i \in 1 .. Len(w) - 1 |-> IF i < j THEN w[i] ELSE w[i + 1]]

\* A node is taken out of a list.
LEMMA UnlinkOK ==
  ASSUME NEW m \in Memory, NEW l, NEW w, Chain(m, l, w), NEW j \in 1 .. Len(w)
  PROVE  LET r == unlink(m, l, w[j])
         IN /\ r.mem \in Memory /\ Chain(r.mem, r.list, Drop(w, j)) /\ r.mem[w[j]] = Null
            /\ \A x \in Nodes : x # w[j] => /\ r.mem[x] = Null <=> m[x] = Null
                                            /\ m[x] # Null => r.mem[x].data = m[x].data
            /\ \A x \in Nodes : (\A i \in 1 .. Len(w) : w[i] # x) => r.mem[x] = m[x]
<1> DEFINE n == w[j]
           r == unlink(m, l, n)
           k == Len(w)
           v == Drop(w, j)
           p == m[n].prev
           q == m[n].next
<1>0. /\ w \in Seq(Nodes) /\ k \in Nat /\ \A i \in 1 .. k : w[i] \in Nodes /\ w[i] # Null /\ m[w[i]] \in Node
      /\ j \in 1 .. k /\ \A i \in 1 .. k : \A h \in 1 .. k : w[i] = w[h] => i = h
  BY LenProperties, ElementOfSeq, NullIsNoNode DEF Chain
<1>1. DOMAIN m = Nodes /\ \A x \in Nodes : m[x] \in Node \cup {Null}
  BY DEF Memory
<1>2. /\ p = (IF j = 1 THEN Null ELSE w[j - 1]) /\ q = (IF j = k THEN Null ELSE w[j + 1])
      /\ l.tail = (IF k = 0 THEN Null ELSE w[k]) /\ l.head = (IF k = 0 THEN Null ELSE w[1])
      /\ l.size = k
  BY DEF Chain
<1>3. /\ r.mem = [i \in Nodes |-> CASE i = n -> Null
                                    [] i = p -> SetNext(m[i], q)
                                    [] i = q -> SetPrev(m[i], p)
                                    [] OTHER -> m[i]]
      /\ r.list = [head |-> IF p = Null THEN q ELSE l.head,
                   tail |-> IF q = Null THEN p ELSE l.tail, size |-> l.size - 1]
  BY <1>1 DEF unlink
<1> HIDE DEF n, r, p, q, v
<1>4. n = w[j] /\ n \in Nodes
  BY <1>0 DEF n
<1>5. p # n /\ q # n /\ (p = q => p = Null) /\ n # Null
  BY <1>0, <1>2, <1>4
<1>6. p \in Nodes \cup {Null} /\ q \in Nodes \cup {Null}
  BY <1>0, <1>2
<1>7. r.mem[n] = Null
  BY <1>3, <1>4, <1>5
<1>8. p # Null => r.mem[p] = SetNext(m[p], q) /\ m[p] \in Node
  <2>1. p # Null => p \in Nodes /\ m[p] \in Node
    BY <1>0, <1>2
  <2> QED BY <1>3, <1>5, <2>1
<1>9. q # Null => r.mem[q] = SetPrev(m[q], p) /\ m[q] \in Node
  <2>1. q # Null => q \in Nodes /\ m[q] \in Node
    BY <1>0, <1>2
  <2> QED BY <1>3, <1>5, <2>1
<1>10. ASSUME NEW x \in Nodes, x # n, x # p, x # q PROVE r.mem[x] = m[x]
  BY <1>3, <1>10
<1>11. ASSUME NEW x \in Node
       PROVE  /\ SetNext(x, q) \in Node /\ SetNext(x, q).data = x.data
              /\ SetNext(x, q).prev = x.prev /\ SetNext(x, q).next = q
              /\ SetPrev(x, p) \in Node /\ SetPrev(x, p).data = x.data
              /\ SetPrev(x, p).prev = p /\ SetPrev(x, p).next = x.next
  BY <1>6, NodeFields DEF SetNext, SetPrev, Node
<1>12. ASSUME NEW x \in Nodes, x # n
       PROVE  /\ r.mem[x] = Null <=> m[x] = Null
              /\ m[x] # Null => r.mem[x].data = m[x].data /\ r.mem[x] \in Node
  <2>0. x # Null
    BY NullIsNoNode
  <2>1. CASE x = p
    BY <1>8, <1>11, <2>0, <2>1, NullIsNoNode
  <2>2. CASE x = q
    BY <1>9, <1>11, <2>0, <2>2, NullIsNoNode
  <2>3. CASE x # p /\ x # q
    BY <1>1, <1>10, <1>12, <2>3
  <2> QED BY <2>1, <2>2, <2>3
<1>13. r.mem \in Memory
  <2>1. r.mem = [i \in Nodes |-> r.mem[i]]
    BY <1>3
  <2>2. \A x \in Nodes : r.mem[x] \in Node \cup {Null}
    BY <1>7, <1>12
  <2> QED BY <2>1, <2>2 DEF Memory
<1>14. ASSUME NEW x \in Nodes, \A i \in 1 .. k : w[i] # x PROVE r.mem[x] = m[x]
  <2>1. x # n /\ x # p /\ x # q
    BY <1>0, <1>2, <1>4, <1>14, NullIsNoNode
  <2> QED BY <1>10, <2>1
<1>15. v \in Seq(Nodes) /\ Len(v) = k - 1 /\ k - 1 \in Nat
       /\ \A i \in 1 .. k - 1 : v[i] = IF i < j THEN w[i] ELSE w[i + 1]
  <2>1. v \in [1 .. k - 1 -> Nodes] /\ k - 1 \in Nat
    BY <1>0 DEF v, Drop
  <2> QED BY <1>0, <2>1 DEF v, Drop
<1>16. \A i, h \in 1 .. k - 1 : v[i] = v[h] => i = h
  <2> DEFINE s == [i \in 1 .. k - 1 |-> IF i < j THEN i ELSE i + 1]
  <2>1. \A i \in 1 .. k - 1 : v[i] = w[s[i]] /\ s[i] \in 1 .. k
    BY <1>0, <1>15
  <2>2. \A i, h \in 1 .. k - 1 : v[i] = v[h] => s[i] = s[h]
    BY <1>0, <2>1
  <2> QED BY <1>0, <2>2
<1>17. ASSUME NEW i \in 1 .. k - 1
       PROVE  /\ r.mem[v[i]] \in Node
              /\ r.mem[v[i]].prev = IF i = 1 THEN Null ELSE v[i - 1]
              /\ r.mem[v[i]].next = IF i = k - 1 THEN Null ELSE v[i + 1]
  <2> DEFINE s == IF i < j THEN i ELSE i + 1
  <2>1. s \in 1 .. k /\ s # j /\ v[i] = w[s] /\ w[s] \in Nodes /\ w[s] # n /\ w[s] # Null /\ m[w[s]] \in Node
    BY <1>0, <1>4, <1>15
  <2>2. /\ m[w[s]].prev = IF s = 1 THEN Null ELSE w[s - 1]
        /\ m[w[s]].next = IF s = k THEN Null ELSE w[s + 1]
    BY <2>1 DEF Chain
  <2>3. r.mem[v[i]] \in Node
    BY <1>12, <2>1, NullIsNoNode
  <2>4. r.mem[w[s]].prev = IF s = j + 1 THEN p ELSE m[w[s]].prev
    <3>1. CASE s = j + 1
      <4>1. w[s] = q /\ q # Null
        BY <1>0, <1>2, <2>1, <3>1
      <4> QED BY <1>9, <1>11, <3>1, <4>1
    <3>2. CASE s # j + 1
      <4>1. w[s] # q
        BY <1>0, <1>2, <2>1, <3>2
      <4>2. CASE w[s] = p
        BY <1>8, <1>11, <2>1, <3>2, <4>2
      <4>3. CASE w[s] # p
        BY <1>10, <2>1, <3>2, <4>1, <4>3
      <4> QED BY <4>2, <4>3
    <3> QED BY <3>1, <3>2
  <2>5. r.mem[w[s]].next = IF s = j - 1 THEN q ELSE m[w[s]].next
    <3>1. CASE s = j - 1
      <4>1. w[s] = p /\ p # Null
        BY <1>0, <1>2, <2>1, <3>1
      <4> QED BY <1>8, <1>11, <3>1, <4>1
    <3>2. CASE s # j - 1
      <4>1. w[s] # p
        BY <1>0, <1>2, <2>1, <3>2
      <4>2. CASE w[s] = q
        BY <1>9, <1>11, <2>1, <3>2, <4>2
      <4>3. CASE w[s] # q
        BY <1>10, <2>1, <3>2, <4>1, <4>3
      <4> QED BY <4>2, <4>3
    <3> QED BY <3>1, <3>2
  <2>6. r.mem[w[s]].prev = IF i = 1 THEN Null ELSE v[i - 1]
    <3>1. CASE i < j
      BY <1>0, <1>15, <2>1, <2>2, <2>4, <3>1
    <3>2. CASE i = j
      <4>1. s = j + 1
        BY <3>2
      <4>2. i # 1 => v[i - 1] = w[j - 1]
        BY <1>0, <1>15, <3>2
      <4> QED BY <1>2, <2>4, <3>2, <4>1, <4>2
    <3>3. CASE i > j
      <4>1. s = i + 1 /\ s # j + 1 /\ s # 1 /\ i # 1 /\ s - 1 = i
        BY <1>0, <3>3
      <4>2. v[i - 1] = w[i]
        BY <1>0, <1>15, <3>3
      <4> QED BY <2>2, <2>4, <4>1, <4>2
    <3> QED BY <1>0, <3>1, <3>2, <3>3
  <2>7. r.mem[w[s]].next = IF i = k - 1 THEN Null ELSE v[i + 1]
    <3>1. CASE i + 1 < j
      <4>1. s = i /\ s # j - 1 /\ s # k /\ i # k - 1
        BY <1>0, <3>1
      <4>2. v[i + 1] = w[i + 1]
        BY <1>0, <1>15, <3>1
      <4> QED BY <2>2, <2>5, <4>1, <4>2
    <3>2. CASE i + 1 = j
      <4>1. s = j - 1 /\ s = i
        BY <1>0, <3>2
      <4>2. i = k - 1 <=> j = k
        BY <1>0, <3>2
      <4>3. i # k - 1 => v[i + 1] = w[j + 1]
        BY <1>0, <1>15, <3>2
      <4> QED BY <1>2, <2>5, <4>1, <4>2, <4>3
    <3>3. CASE i >= j
      <4>1. s = i + 1 /\ s # j - 1 /\ (s = k <=> i = k - 1)
        BY <1>0, <3>3
      <4>2. i # k - 1 => v[i + 1] = w[s + 1]
        BY <1>0, <1>15, <3>3, <4>1
      <4> QED BY <2>2, <2>5, <4>1, <4>2
    <3> QED BY <1>0, <3>1, <3>2, <3>3
  <2> QED BY <2>1, <2>3, <2>6, <2>7
<1>18. /\ r.list \in List /\ r.list.size = k - 1
       /\ r.list.head = IF k - 1 = 0 THEN Null ELSE v[1]
       /\ r.list.tail = IF k - 1 = 0 THEN Null ELSE v[k - 1]
  <2> DEFINE hd == IF p = Null THEN q ELSE l.head
             tl == IF q = Null THEN p ELSE l.tail
  <2>1. r.list = [head |-> hd, tail |-> tl, size |-> k - 1]
    BY <1>2, <1>3
  <2>2. hd = IF k - 1 = 0 THEN Null ELSE v[1]
    <3>1. CASE j = 1
      <4>1. p = Null
        BY <1>2, <3>1
      <4>2. k # 1 => v[1] = w[2] /\ q = w[j + 1] /\ j + 1 = 2
        BY <1>0, <1>2, <1>15, <3>1
      <4>3. k = 1 => q = Null
        BY <1>2, <3>1
      <4> QED BY <1>0, <4>1, <4>2, <4>3
    <3>2. CASE j # 1
      <4>1. p # Null /\ k # 1 /\ v[1] = w[1] /\ l.head = w[1]
        BY <1>0, <1>2, <1>15, <3>2
      <4> QED BY <1>0, <4>1
    <3> QED BY <3>1, <3>2
  <2>3. tl = IF k - 1 = 0 THEN Null ELSE v[k - 1]
    <3>1. CASE j = k
      <4>1. q = Null
        BY <1>2, <3>1
      <4>2. k # 1 => v[k - 1] = w[k - 1] /\ p = w[j - 1]
        BY <1>0, <1>2, <1>15, <3>1
      <4>3. k = 1 => p = Null
        BY <1>2, <3>1
      <4> QED BY <1>0, <3>1, <4>1, <4>2, <4>3
    <3>2. CASE j # k
      <4>1. q # Null /\ k # 1 /\ v[k - 1] = w[k] /\ l.tail = w[k]
        BY <1>0, <1>2, <1>15, <3>2
      <4> QED BY <1>0, <4>1
    <3> QED BY <3>1, <3>2
  <2>4. hd \in Nodes \cup {Null} /\ tl \in Nodes \cup {Null}
    BY <1>6 DEF Chain, List
  <2> HIDE DEF hd, tl
  <2>5. r.list \in List /\ r.list.size = k - 1 /\ r.list.head = hd /\ r.list.tail = tl
    BY <1>15, <2>1, <2>4 DEF List
  <2> QED BY <2>2, <2>3, <2>5
<1>19. Chain(r.mem, r.list, v)
  BY <1>15, <1>16, <1>17, <1>18 DEF Chain
<1> QED BY <1>7, <1>12, <1>13, <1>14, <1>19 DEF n, r, v

-----------------------------------------------------------------------------
(* Tables of lists.                                                        *)

\* A key has a bucket, whatever the sign of its hash.
LEMMA IndexOK ==
  ASSUME NEW k \in Keys, NEW c \in Nat \ {0}
  PROVE  hash_map_bucket_index(k, c) \in 1 .. c
<1> DEFINE h == hash_function[k]
           hash == IF h = IntMin THEN 0 ELSE IF h < 0 THEN -h ELSE h
<1>1. h \in Int
  BY HashMapAssumption
<1>2. hash \in Nat
  BY <1>1
<1> HIDE DEF hash
<1>3. hash % c \in 0 .. c - 1
  BY <1>2
<1> QED BY <1>3 DEF hash_map_bucket_index, hash

\* The buckets b have the nodes W, and every node is in its key's bucket.
Table(m, b, W) ==
    /\ m \in Memory /\ b \in Seq(List) /\ Len(b) > 0
    /\ W \in [1 .. Len(b) -> Seq(Nodes)]
    /\ \A i \in 1 .. Len(b) : Chain(m, b[i], W[i])
    /\ \A i \in 1 .. Len(b) : \A j \in 1 .. Len(W[i]) :
          hash_map_bucket_index(m[W[i][j]].data.key, Len(b)) = i

\* The nodes in the table.
Held(W) == {x \in Nodes : \E i \in DOMAIN W : \E j \in 1 .. Len(W[i]) : W[i][j] = x}

\* A node is in one place.
LEMMA OnePlace ==
  ASSUME NEW m, NEW b, NEW W, Table(m, b, W),
         NEW i \in 1 .. Len(b), NEW j \in 1 .. Len(W[i]),
         NEW h \in 1 .. Len(b), NEW g \in 1 .. Len(W[h]), W[i][j] = W[h][g]
  PROVE  i = h /\ j = g
<1>1. i = h
  BY DEF Table
<1> QED BY <1>1 DEF Table, Chain

\* The nodes of the table are allocated.
LEMMA HeldAllocated ==
  ASSUME NEW m, NEW b, NEW W, Table(m, b, W), NEW x \in Held(W)
  PROVE  x \in Nodes /\ m[x] \in Node /\ m[x] # Null
<1>1. x \in Nodes /\ m[x] \in Node
  BY DEF Held, Table, Chain
<1> QED BY <1>1, NullIsNoNode

\* Only the nodes of a table matter to it.
LEMMA TableFrame ==
  ASSUME NEW m, NEW r \in Memory, NEW b, NEW W, Table(m, b, W),
         \A x \in Held(W) : r[x] = m[x]
  PROVE  Table(r, b, W)
<1>1. \A i \in 1 .. Len(b) : \A j \in 1 .. Len(W[i]) : r[W[i][j]] = m[W[i][j]]
  <2> TAKE i \in 1 .. Len(b)
  <2> TAKE j \in 1 .. Len(W[i])
  <2>1. W[i][j] \in Nodes /\ i \in DOMAIN W
    BY ElementOfSeq DEF Table
  <2>2. W[i][j] \in Held(W)
    BY <2>1 DEF Held
  <2> QED BY <2>2
<1>2. \A i \in 1 .. Len(b) : Chain(r, b[i], W[i])
  BY <1>1, ChainFrame DEF Table
<1> QED BY <1>1, <1>2 DEF Table

\* What appending e to its bucket does to a table.
Added(m, b, W, e, i, n, r, b2) ==
    /\ i \in 1 .. Len(b) /\ n \in Nodes /\ m[n] = Null /\ Len(b2) = Len(b)
    /\ \E W2 : Table(r.mem, b2, W2) /\ Held(W2) = Held(W) \cup {n}
    /\ r.mem[n] # Null /\ r.mem[n].data = e
    /\ \A x \in Nodes : x # n => /\ r.mem[x] = Null <=> m[x] = Null
                                 /\ m[x] # Null => r.mem[x].data = m[x].data
    /\ \A x \in Nodes : x # n /\ x \notin Held(W) => r.mem[x] = m[x]

\* An entry is appended to its bucket.
LEMMA TableAdd ==
  ASSUME NEW m, NEW b, NEW W, Table(m, b, W), NEW e \in Entry,
         \E x \in Nodes : m[x] = Null
  PROVE  LET i == hash_map_bucket_index(e.key, Len(b))
             r == linked_list_addLast(m, b[i], e)
         IN Added(m, b, W, e, i, Fresh(m), r, [b EXCEPT ![i] = r.list])
<1> DEFINE i == hash_map_bucket_index(e.key, Len(b))
           n == Fresh(m)
           r == linked_list_addLast(m, b[i], e)
           c == Len(b)
           b2 == [b EXCEPT ![i] = r.list]
           W2 == [W EXCEPT ![i] = Append(W[i], n)]
<1>0. /\ b \in Seq(List) /\ c \in Nat \ {0} /\ W \in [1 .. c -> Seq(Nodes)] /\ m \in Memory
      /\ e.key \in Keys
  BY LenProperties DEF Table, Entry
<1>1. i \in 1 .. c
  BY <1>0, IndexOK
<1> HIDE DEF i
<1>2. Chain(m, b[i], W[i])
  BY <1>1 DEF Table
<1>3. /\ n \in Nodes /\ m[n] = Null
      /\ r.mem \in Memory /\ Chain(r.mem, r.list, Append(W[i], n))
      /\ r.mem[n] # Null /\ r.mem[n].data = e
      /\ \A x \in Nodes : x # n => /\ r.mem[x] = Null <=> m[x] = Null
                                   /\ m[x] # Null => r.mem[x].data = m[x].data
      /\ \A x \in Nodes : x # n /\ (\A j \in 1 .. Len(W[i]) : W[i][j] # x) => r.mem[x] = m[x]
  BY <1>0, <1>2, AddLastOK
<1> HIDE DEF n, r
<1>4. /\ b2 \in Seq(List) /\ Len(b2) = c /\ b2[i] = r.list
      /\ \A h \in 1 .. c : h # i => b2[h] = b[h]
  <2>1. r.list \in List
    BY <1>3 DEF Chain
  <2> QED BY <1>0, <1>1, <2>1
<1>5. W[i] \in Seq(Nodes) /\ Len(W[i]) \in Nat
  BY <1>0, <1>1, LenProperties
<1>6. /\ Append(W[i], n) \in Seq(Nodes) /\ Len(Append(W[i], n)) = Len(W[i]) + 1
      /\ Append(W[i], n)[Len(W[i]) + 1] = n
      /\ \A j \in 1 .. Len(W[i]) : Append(W[i], n)[j] = W[i][j]
  BY <1>3, <1>5, AppendProperties
<1>7. /\ W2 \in [1 .. c -> Seq(Nodes)] /\ W2[i] = Append(W[i], n)
      /\ \A h \in 1 .. c : h # i => W2[h] = W[h]
  BY <1>0, <1>1, <1>6
<1> HIDE DEF b2, W2
<1>8. \A x \in Held(W) : x # n
  BY <1>3, HeldAllocated
<1>9. \A h \in 1 .. c : \A j \in 1 .. Len(W[h]) : W[h][j] \in Nodes /\ W[h][j] \in Held(W)
  <2> TAKE h \in 1 .. c
  <2> TAKE j \in 1 .. Len(W[h])
  <2>1. W[h] \in Seq(Nodes) /\ DOMAIN W = 1 .. c
    BY <1>0
  <2>2. W[h][j] \in Nodes
    BY <2>1, ElementOfSeq
  <2> QED BY <2>1, <2>2 DEF Held
<1>10. \A h \in 1 .. c : Chain(r.mem, b2[h], W2[h])
  <2> TAKE h \in 1 .. c
  <2>1. CASE h = i
    BY <1>3, <1>4, <1>7, <2>1
  <2>2. CASE h # i
    <3>1. ASSUME NEW j \in 1 .. Len(W[h]) PROVE r.mem[W[h][j]] = m[W[h][j]]
      <4>1. \A g \in 1 .. Len(W[i]) : W[i][g] # W[h][j]
        BY <1>1, <2>2, OnePlace
      <4> QED BY <1>3, <1>8, <1>9, <4>1
    <3>2. Chain(m, b[h], W[h])
      BY DEF Table
    <3> QED BY <1>4, <1>7, <2>2, <3>1, <3>2, ChainFrame
  <2> QED BY <2>1, <2>2
<1>11. ASSUME NEW h \in 1 .. c, NEW j \in 1 .. Len(W2[h])
       PROVE  hash_map_bucket_index(r.mem[W2[h][j]].data.key, c) = h
  <2>1. CASE h = i /\ j = Len(W[i]) + 1
    BY <1>3, <1>6, <1>7, <2>1 DEF i
  <2>2. CASE j \in 1 .. Len(W[h])
    <3>1. W2[h][j] = W[h][j]
      BY <1>6, <1>7, <2>2
    <3>2. W[h][j] \in Nodes /\ W[h][j] # n /\ m[W[h][j]] # Null
      BY <1>8, <1>9, <2>2, HeldAllocated
    <3>3. r.mem[W[h][j]].data = m[W[h][j]].data
      BY <1>3, <3>2
    <3> QED BY <2>2, <3>1, <3>3 DEF Table
  <2>3. (h = i /\ j = Len(W[i]) + 1) \/ j \in 1 .. Len(W[h])
    BY <1>5, <1>6, <1>7
  <2> QED BY <2>1, <2>2, <2>3
<1>12. Table(r.mem, b2, W2)
  BY <1>0, <1>3, <1>4, <1>7, <1>10, <1>11 DEF Table
<1>13. Held(W2) = Held(W) \cup {n}
  <2>0. DOMAIN W = 1 .. c /\ DOMAIN W2 = 1 .. c
    BY <1>0, <1>7
  <2>1. ASSUME NEW x \in Held(W2) PROVE x \in Held(W) \cup {n}
    <3>1. PICK h \in 1 .. c : \E j \in 1 .. Len(W2[h]) : W2[h][j] = x
      BY <2>0 DEF Held
    <3>2. PICK j \in 1 .. Len(W2[h]) : W2[h][j] = x
      BY <3>1
    <3>3. (h = i /\ j = Len(W[i]) + 1) \/ j \in 1 .. Len(W[h])
      BY <1>5, <1>6, <1>7
    <3>4. CASE h = i /\ j = Len(W[i]) + 1
      BY <1>6, <1>7, <3>2, <3>4
    <3>5. CASE j \in 1 .. Len(W[h])
      BY <1>6, <1>7, <1>9, <3>2, <3>5
    <3> QED BY <3>3, <3>4, <3>5
  <2>2. ASSUME NEW x \in Held(W) PROVE x \in Held(W2)
    <3>1. PICK h \in 1 .. c : \E j \in 1 .. Len(W[h]) : W[h][j] = x
      BY <2>0 DEF Held
    <3>2. PICK j \in 1 .. Len(W[h]) : W[h][j] = x
      BY <3>1
    <3>3. j \in 1 .. Len(W2[h]) /\ W2[h][j] = x /\ x \in Nodes
      <4>1. CASE h = i
        <5>1. W2[h] = Append(W[i], n) /\ j \in 1 .. Len(W[i]) /\ W[i][j] = x
          BY <1>7, <3>2, <4>1
        <5>2. j \in 1 .. Len(W[i]) + 1 /\ Append(W[i], n)[j] = x
          BY <1>5, <1>6, <5>1
        <5> QED BY <1>6, <1>9, <3>2, <5>1, <5>2
      <4>2. CASE h # i
        BY <1>7, <1>9, <3>2, <4>2
      <4> QED BY <4>1, <4>2
    <3> QED BY <2>0, <3>3 DEF Held
  <2>3. n \in Held(W2)
    <3>1. Len(W[i]) + 1 \in 1 .. Len(W2[i]) /\ W2[i][Len(W[i]) + 1] = n
      BY <1>5, <1>6, <1>7
    <3> QED BY <1>1, <1>3, <2>0, <3>1 DEF Held
  <2> QED BY <2>1, <2>2, <2>3
<1>14. \A x \in Nodes : x # n /\ x \notin Held(W) => r.mem[x] = m[x]
  BY <1>1, <1>3, <1>9
<1>15. Added(m, b, W, e, i, n, r, b2)
  BY <1>1, <1>3, <1>4, <1>12, <1>13, <1>14 DEF Added
<1> QED BY <1>15 DEF i, n, r, b2

\* hash_map_find_node finds the key's node, if the table has one.
LEMMA FindIs ==
  ASSUME NEW m, NEW b, NEW W, Table(m, b, W), NEW k \in Keys,
         NEW i, i = hash_map_bucket_index(k, Len(b)),
         NEW n, n = hash_map_find_node(m, b[i], k)
  PROVE  /\ i \in 1 .. Len(b)
         /\ \/ n = Null /\ \A x \in Held(W) : m[x].data.key # k
            \/ \E j \in 1 .. Len(W[i]) : n = W[i][j] /\ m[n].data.key = k /\ n \in Held(W)
<1> DEFINE w == W[i]
           I == {j \in 1 .. Len(w) : m[w[j]] # Null /\ m[w[j]].data.key = k}
<1>0. Len(b) \in Nat \ {0} /\ m \in Memory /\ DOMAIN W = 1 .. Len(b)
  BY LenProperties DEF Table
<1>1. i \in 1 .. Len(b)
  BY <1>0, IndexOK
<1>2. Chain(m, b[i], w) /\ Walk(m, b[i]) = w
  BY <1>0, <1>1, WalkIs DEF Table
<1>3. n = IF (IF I # {} THEN Min(I) ELSE 0) = 0 THEN Null ELSE w[IF I # {} THEN Min(I) ELSE 0]
  BY <1>2 DEF hash_map_find_node, SelectInSeq
<1>4. \A j \in 1 .. Len(w) : w[j] \in Nodes /\ w[j] \in Held(W)
  <2> TAKE j \in 1 .. Len(w)
  <2>1. w[j] \in Nodes
    BY <1>2, ElementOfSeq DEF Chain
  <2> QED BY <1>0, <1>1, <2>1 DEF Held
<1>5. CASE I = {}
  <2>1. n = Null
    BY <1>3, <1>5
  <2>2. ASSUME NEW x \in Held(W), m[x].data.key = k PROVE FALSE
    <3>1. PICK h \in 1 .. Len(b) : \E j \in 1 .. Len(W[h]) : W[h][j] = x
      BY <1>0 DEF Held
    <3>2. PICK j \in 1 .. Len(W[h]) : W[h][j] = x
      BY <3>1
    <3>3. h = i
      BY <2>2, <3>2 DEF Table
    <3>4. m[x] # Null
      BY HeldAllocated
    <3>5. j \in I
      BY <2>2, <3>2, <3>3, <3>4
    <3> QED BY <1>5, <3>5
  <2> QED BY <1>1, <2>1, <2>2
<1>6. CASE I # {}
  <2>1. I \in SUBSET Nat
    OBVIOUS
  <2>2. Min(I) \in I
    <3>1. \E x \in I : \A y \in I : x <= y
      <4> HIDE DEF I
      <4> QED BY <1>6, <2>1, LeastNatural
    <3> HIDE DEF I
    <3> QED BY <3>1 DEF Min
  <2>3. Min(I) # 0
    <3>1. \A x \in I : x # 0
      OBVIOUS
    <3> HIDE DEF I
    <3> QED BY <2>2, <3>1
  <2>4. n = w[Min(I)]
    <3> HIDE DEF I
    <3> QED BY <1>3, <1>6, <2>3
  <2>5. Min(I) \in 1 .. Len(w) /\ m[w[Min(I)]].data.key = k
    BY <2>2
  <2> DEFINE j == Min(I)
  <2> HIDE DEF j, I
  <2>6. j \in 1 .. Len(w) /\ n = w[j] /\ m[n].data.key = k /\ n \in Held(W)
    BY <1>4, <2>4, <2>5 DEF j
  <2> QED BY <1>1, <2>6
<1> QED BY <1>5, <1>6

\* What taking the node n out of its bucket i does to a table.
Removed(m, b, W, n, r, b2) ==
    /\ Len(b2) = Len(b) /\ r.mem[n] = Null
    /\ \E W2 : Table(r.mem, b2, W2) /\ Held(W2) = Held(W) \ {n}
    /\ \A x \in Nodes : x # n => /\ r.mem[x] = Null <=> m[x] = Null
                                 /\ m[x] # Null => r.mem[x].data = m[x].data

\* An entry is taken out of its bucket.
LEMMA TableUnlink ==
  ASSUME NEW m, NEW b, NEW W, Table(m, b, W), NEW i \in 1 .. Len(b), NEW j \in 1 .. Len(W[i]),
         NEW n, n = W[i][j]
  PROVE  LET r == unlink(m, b[i], n)
         IN Removed(m, b, W, n, r, [b EXCEPT ![i] = r.list])
<1> DEFINE r == unlink(m, b[i], n)
           c == Len(b)
           k == Len(W[i])
           b2 == [b EXCEPT ![i] = r.list]
           W2 == [W EXCEPT ![i] = Drop(W[i], j)]
<1>0. /\ b \in Seq(List) /\ c \in Nat \ {0} /\ W \in [1 .. c -> Seq(Nodes)] /\ m \in Memory
      /\ W[i] \in Seq(Nodes) /\ k \in Nat
  BY LenProperties DEF Table
<1>2. Chain(m, b[i], W[i])
  BY DEF Table
<1>3. /\ r.mem \in Memory /\ Chain(r.mem, r.list, Drop(W[i], j)) /\ r.mem[n] = Null
      /\ \A x \in Nodes : x # n => /\ r.mem[x] = Null <=> m[x] = Null
                                   /\ m[x] # Null => r.mem[x].data = m[x].data
      /\ \A x \in Nodes : (\A h \in 1 .. Len(W[i]) : W[i][h] # x) => r.mem[x] = m[x]
  BY <1>0, <1>2, UnlinkOK
<1> HIDE DEF r
<1>4. /\ b2 \in Seq(List) /\ Len(b2) = c /\ b2[i] = r.list
      /\ \A h \in 1 .. c : h # i => b2[h] = b[h]
  <2>1. r.list \in List
    BY <1>3 DEF Chain
  <2> QED BY <1>0, <2>1
<1>6. /\ Drop(W[i], j) \in Seq(Nodes) /\ Len(Drop(W[i], j)) = k - 1
      /\ \A h \in 1 .. k - 1 : Drop(W[i], j)[h] = IF h < j THEN W[i][h] ELSE W[i][h + 1]
  <2>1. Drop(W[i], j) \in Seq(Nodes)
    BY <1>3 DEF Chain
  <2>2. DOMAIN Drop(W[i], j) = 1 .. k - 1 /\ k - 1 \in Nat
    BY <1>0 DEF Drop
  <2>3. Len(Drop(W[i], j)) = k - 1
    <3> DEFINE v == Drop(W[i], j)
    <3> HIDE DEF v, k
    <3>1. v \in Seq(Nodes) /\ DOMAIN v = 1 .. k - 1 /\ k - 1 \in Nat
      BY <2>1, <2>2 DEF v
    <3>2. Len(v) = k - 1
      BY <3>1
    <3> QED BY <3>2 DEF v
  <2>4. \A h \in 1 .. k - 1 : Drop(W[i], j)[h] = IF h < j THEN W[i][h] ELSE W[i][h + 1]
    BY DEF Drop
  <2> QED BY <2>1, <2>3, <2>4
<1>7. /\ W2 \in [1 .. c -> Seq(Nodes)] /\ W2[i] = Drop(W[i], j)
      /\ \A h \in 1 .. c : h # i => W2[h] = W[h]
  BY <1>0, <1>6
<1> HIDE DEF b2, W2
<1>9. \A h \in 1 .. c : \A g \in 1 .. Len(W[h]) : W[h][g] \in Nodes /\ W[h][g] \in Held(W)
  <2> TAKE h \in 1 .. c
  <2> TAKE g \in 1 .. Len(W[h])
  <2>1. W[h] \in Seq(Nodes) /\ DOMAIN W = 1 .. c
    BY <1>0
  <2>2. W[h][g] \in Nodes
    BY <2>1, ElementOfSeq
  <2> QED BY <2>1, <2>2 DEF Held
<1>10. \A h \in 1 .. c : Chain(r.mem, b2[h], W2[h])
  <2> TAKE h \in 1 .. c
  <2>1. CASE h = i
    BY <1>3, <1>4, <1>7, <2>1
  <2>2. CASE h # i
    <3>1. ASSUME NEW g \in 1 .. Len(W[h]) PROVE r.mem[W[h][g]] = m[W[h][g]]
      <4>1. \A f \in 1 .. Len(W[i]) : W[i][f] # W[h][g]
        BY <2>2, OnePlace
      <4> QED BY <1>3, <1>9, <4>1
    <3>2. Chain(m, b[h], W[h])
      BY DEF Table
    <3> QED BY <1>4, <1>7, <2>2, <3>1, <3>2, ChainFrame
  <2> QED BY <2>1, <2>2
<1>11. ASSUME NEW h \in 1 .. c, NEW g \in 1 .. Len(W2[h])
       PROVE  \E f \in 1 .. Len(W[h]) : W2[h][g] = W[h][f] /\ ~(h = i /\ f = j)
  <2>1. CASE h = i
    <3>1. g \in 1 .. k - 1
      BY <1>6, <1>7, <2>1
    <3> DEFINE f == IF g < j THEN g ELSE g + 1
    <3>2. f \in 1 .. Len(W[i]) /\ W2[i][g] = W[i][f] /\ f # j
      BY <1>0, <1>6, <1>7, <3>1
    <3> QED BY <2>1, <3>2
  <2>2. CASE h # i
    BY <1>7, <2>2
  <2> QED BY <2>1, <2>2
<1>12. ASSUME NEW h \in 1 .. c, NEW g \in 1 .. Len(W2[h])
       PROVE  hash_map_bucket_index(r.mem[W2[h][g]].data.key, c) = h
  <2>1. PICK f \in 1 .. Len(W[h]) : W2[h][g] = W[h][f] /\ ~(h = i /\ f = j)
    BY <1>11
  <2>2. W[h][f] # n /\ W[h][f] \in Nodes /\ m[W[h][f]] # Null
    <3>1. W[h][f] # n
      BY <2>1, OnePlace
    <3>2. W[h][f] \in Held(W)
      BY <1>9
    <3> QED BY <3>1, <3>2, HeldAllocated
  <2>3. r.mem[W[h][f]].data = m[W[h][f]].data
    BY <1>3, <2>2
  <2> QED BY <2>1, <2>3 DEF Table
<1>13. Table(r.mem, b2, W2)
  BY <1>0, <1>3, <1>4, <1>7, <1>10, <1>12 DEF Table
<1>14. Held(W2) = Held(W) \ {n}
  <2>0. DOMAIN W = 1 .. c /\ DOMAIN W2 = 1 .. c
    BY <1>0, <1>7
  <2>1. ASSUME NEW x \in Held(W2) PROVE x \in Held(W) \ {n}
    <3>1. PICK h \in 1 .. c : \E g \in 1 .. Len(W2[h]) : W2[h][g] = x
      BY <2>0 DEF Held
    <3>2. PICK g \in 1 .. Len(W2[h]) : W2[h][g] = x
      BY <3>1
    <3>3. PICK f \in 1 .. Len(W[h]) : W2[h][g] = W[h][f] /\ ~(h = i /\ f = j)
      BY <1>11
    <3>4. x # n
      BY <3>2, <3>3, OnePlace
    <3> QED BY <1>9, <3>2, <3>3, <3>4
  <2>2. ASSUME NEW x \in Held(W), x # n PROVE x \in Held(W2)
    <3>1. PICK h \in 1 .. c : \E g \in 1 .. Len(W[h]) : W[h][g] = x
      BY <2>0 DEF Held
    <3>2. PICK g \in 1 .. Len(W[h]) : W[h][g] = x
      BY <3>1
    <3>3. CASE h # i
      BY <1>7, <1>9, <2>0, <3>2, <3>3 DEF Held
    <3>4. CASE h = i
      <4> DEFINE f == IF g < j THEN g ELSE g - 1
      <4>1. g # j
        BY <2>2, <3>2, <3>4
      <4>2. f \in 1 .. k - 1 /\ W2[i][f] = W[i][g]
        BY <1>0, <1>6, <1>7, <3>4, <4>1
      <4>3. f \in 1 .. Len(W2[i])
        BY <1>6, <1>7, <4>2
      <4> HIDE DEF f
      <4> QED BY <1>9, <2>0, <3>2, <3>4, <4>2, <4>3 DEF Held
    <3> QED BY <3>3, <3>4
  <2> QED BY <2>1, <2>2
<1>15. Removed(m, b, W, n, r, b2)
  BY <1>3, <1>4, <1>13, <1>14 DEF Removed
<1> QED BY <1>15 DEF r, b2

-----------------------------------------------------------------------------
(* Growth.                                                                 *)

\* What is allocated in a memory, and the entries stored there.
Alloc(m)   == {x \in Nodes : m[x] # Null}
Entries(m) == {m[x].data : x \in Alloc(m)}

\* No key has two nodes in S.
Distinct(m, S) == \A x, y \in S : m[x].data.key = m[y].data.key => x = y

\* There are as many nodes as entries.
LEMMA AsManyEntries ==
  ASSUME NEW m \in Memory, Distinct(m, Alloc(m))
  PROVE  /\ IsFiniteSet(Alloc(m)) /\ Cardinality(Alloc(m)) \in Nat
         /\ Cardinality(Entries(m)) = Cardinality(Alloc(m))
<1> DEFINE f == [x \in Alloc(m) |-> m[x].data]
<1>1. IsFiniteSet(Alloc(m))
  <2>1. Alloc(m) \in SUBSET Nodes
    BY DEF Alloc
  <2> QED BY <2>1, HashMapAssumption, FS_Subset
<1>2. f \in Surjection(Alloc(m), Entries(m))
  BY DEF Surjection, Entries
<1>3. f \in Injection(Alloc(m), Entries(m))
  <2>1. f \in [Alloc(m) -> Entries(m)]
    BY DEF Entries
  <2>2. ASSUME NEW x \in Alloc(m), NEW y \in Alloc(m), f[x] = f[y] PROVE x = y
    <3>1. m[x].data = m[y].data
      BY <2>2
    <3> QED BY <3>1 DEF Distinct
  <2> HIDE DEF f
  <2> QED BY <2>1, <2>2 DEF Injection, IsInjective
<1> HIDE DEF f
<1> QED BY <1>1, <1>2, <1>3, FS_Surjection, FS_CardinalityType

\* Nodes with distinct keys are no more than those keys.
LEMMA KeysBound ==
  ASSUME NEW m, NEW S, Distinct(m, S), NEW K \in SUBSET Keys, \A x \in S : m[x].data.key \in K
  PROVE  IsFiniteSet(S) /\ Cardinality(S) <= Cardinality(K)
<1> DEFINE f == [x \in S |-> m[x].data.key]
<1>1. f \in Injection(S, K)
  BY DEF Injection, IsInjective, Distinct
<1>2. IsFiniteSet(K)
  BY HashMapAssumption, FS_Subset
<1> HIDE DEF f
<1> QED BY <1>1, <1>2, FS_Injection

\* The state of a growth: a table of c buckets with copies of the nodes D of
\* m, beside the nodes L of m that are not released yet.
Growth == [mem : Memory, buckets : Seq(List)]

Copied(acc, c, m, D, L) ==
    \E V : /\ Table(acc.mem, acc.buckets, V) /\ Len(acc.buckets) = c
           /\ \A x \in L : x \notin Held(V) /\ acc.mem[x] = m[x]
           /\ \A x \in Nodes : acc.mem[x] # Null <=> x \in Held(V) \/ x \in L
           /\ Distinct(acc.mem, Held(V))
           /\ \A x \in Held(V) : \E y \in D : acc.mem[x].data = m[y].data
           /\ \A y \in D : \E x \in Held(V) : acc.mem[x].data = m[y].data

\* One entry is copied.  There is a free node: the table has no copy of this
\* key yet, and Nodes suffices for two of each.
LEMMA MoveOK ==
  ASSUME NEW m \in Memory, Distinct(m, Alloc(m)), NEW c \in Nat \ {0},
         NEW D \in SUBSET Alloc(m), NEW L \in SUBSET Alloc(m), NEW n \in L, n \notin D,
         NEW acc, Copied(acc, c, m, D, L)
  PROVE  Move(acc, n, c) \in Growth /\ Copied(Move(acc, n, c), c, m, D \cup {n}, L)
<1>1. PICK V : /\ Table(acc.mem, acc.buckets, V) /\ Len(acc.buckets) = c
               /\ \A x \in L : x \notin Held(V) /\ acc.mem[x] = m[x]
               /\ \A x \in Nodes : acc.mem[x] # Null <=> x \in Held(V) \/ x \in L
               /\ Distinct(acc.mem, Held(V))
               /\ \A x \in Held(V) : \E y \in D : acc.mem[x].data = m[y].data
               /\ \A y \in D : \E x \in Held(V) : acc.mem[x].data = m[y].data
  BY DEF Copied
<1> DEFINE a == acc.mem
           e == m[n].data
           k == e.key
<1>2. \A x \in Alloc(m) : x \in Nodes /\ m[x] \in Node /\ m[x].data \in Entry /\ m[x].data.key \in Keys
  BY NodeFields DEF Alloc, Memory
<1>3. n \in Nodes /\ a[n] = m[n] /\ e \in Entry /\ k \in Keys /\ n \in Alloc(m)
  BY <1>1, <1>2
<1>4. \A x \in Held(V) : a[x].data.key \in Keys \ {k}
  <2> TAKE x \in Held(V)
  <2>1. PICK y \in D : a[x].data = m[y].data
    BY <1>1
  <2>2. m[y].data.key # k
    BY <1>3 DEF Distinct
  <2> QED BY <1>2, <2>1, <2>2
<1>5. \E x \in Nodes : a[x] = Null
  <2>1. IsFiniteSet(Held(V)) /\ Cardinality(Held(V)) <= Cardinality(Keys \ {k})
    BY <1>1, <1>4, KeysBound
  <2>2. IsFiniteSet(L) /\ Cardinality(L) <= Cardinality(Keys)
    <3>1. Distinct(m, L) /\ \A x \in L : m[x].data.key \in Keys
      BY <1>2 DEF Distinct
    <3> QED BY <3>1, KeysBound
  <2>3. Cardinality(Keys \ {k}) = Cardinality(Keys) - 1
    <3>1. IsFiniteSet(Keys)
      BY HashMapAssumption
    <3> HIDE DEF k
    <3> QED BY <1>3, <3>1, FS_RemoveElement
  <2>4. Cardinality(Held(V) \cup L) <= Cardinality(Held(V)) + Cardinality(L)
    <3>1. Cardinality(Held(V) \cup L) = Cardinality(Held(V)) + Cardinality(L) - Cardinality(Held(V) \cap L)
      BY <2>1, <2>2, FS_Union
    <3>2. Cardinality(Held(V) \cap L) \in Nat
      BY <2>1, FS_Intersection, FS_CardinalityType
    <3>3. Cardinality(Held(V)) \in Nat /\ Cardinality(L) \in Nat
      BY <2>1, <2>2, FS_CardinalityType
    <3> QED BY <3>1, <3>2, <3>3
  <2>5. /\ Cardinality(Held(V)) \in Nat /\ Cardinality(L) \in Nat /\ Cardinality(Keys) \in Nat
        /\ Cardinality(Nodes) \in Nat /\ Cardinality(Held(V) \cup L) \in Nat
    BY <2>1, <2>2, HashMapAssumption, FS_CardinalityType, FS_Union
  <2>6. Cardinality(Held(V) \cup L) < Cardinality(Nodes)
    BY <2>1, <2>2, <2>3, <2>4, <2>5, HashMapAssumption
  <2>7. Held(V) \cup L # Nodes
    BY <2>5, <2>6
  <2>8. Held(V) \cup L \subseteq Nodes
    BY <1>2 DEF Held
  <2> QED BY <1>1, <2>7, <2>8
<1> DEFINE j == hash_map_bucket_index(k, c)
           r == linked_list_addLast(a, acc.buckets[j], e)
           f == Fresh(a)
           b2 == [acc.buckets EXCEPT ![j] = r.list]
<1>6. Move(acc, n, c) = [mem |-> r.mem, buckets |-> b2]
  BY <1>3 DEF Move
<1>7. /\ f \in Nodes /\ a[f] = Null
      /\ Len(b2) = c /\ (\E V2 : Table(r.mem, b2, V2) /\ Held(V2) = Held(V) \cup {f})
      /\ r.mem[f] # Null /\ r.mem[f].data = e
      /\ \A x \in Nodes : x # f => /\ r.mem[x] = Null <=> a[x] = Null
                                   /\ a[x] # Null => r.mem[x].data = a[x].data
      /\ \A x \in Nodes : x # f /\ x \notin Held(V) => r.mem[x] = a[x]
  <2> DEFINE b == acc.buckets
  <2>1. Table(a, b, V) /\ Len(b) = c /\ e \in Entry /\ \E x \in Nodes : a[x] = Null
    BY <1>1, <1>3, <1>5
  <2> HIDE DEF a, e, b
  <2>2. Added(a, b, V, e, hash_map_bucket_index(e.key, Len(b)), Fresh(a),
              linked_list_addLast(a, b[hash_map_bucket_index(e.key, Len(b))], e),
              [b EXCEPT ![hash_map_bucket_index(e.key, Len(b))] =
                  linked_list_addLast(a, b[hash_map_bucket_index(e.key, Len(b))], e).list])
    BY <2>1, TableAdd
  <2>3. Added(a, b, V, e, j, f, r, b2)
    BY <2>1, <2>2 DEF b
  <2> HIDE DEF j, f, r, b2
  <2> QED BY <2>1, <2>3 DEF Added
<1> HIDE DEF a, e, r, f, b2, j
<1>17. PICK V2 : Table(r.mem, b2, V2) /\ Held(V2) = Held(V) \cup {f}
  BY <1>7
<1>8. \A x \in Held(V) : x \in Nodes /\ a[x] # Null /\ x # f /\ r.mem[x].data = a[x].data
  <2> TAKE x \in Held(V)
  <2>1. x \in Nodes /\ a[x] # Null
    BY <1>1, HeldAllocated DEF a
  <2> QED BY <1>7, <1>17, <2>1
<1>9. \A x \in L : x \notin Held(V2) /\ r.mem[x] = m[x]
  <2> TAKE x \in L
  <2>1. x \in Nodes /\ x \notin Held(V) /\ a[x] = m[x] /\ a[x] # Null
    BY <1>1, <1>2 DEF a
  <2> QED BY <1>7, <1>17, <2>1
<1>10. \A x \in Nodes : r.mem[x] # Null <=> x \in Held(V2) \/ x \in L
  <2> TAKE x \in Nodes
  <2>1. CASE x = f
    BY <1>7, <1>17, <2>1
  <2>2. CASE x # f
    BY <1>1, <1>7, <1>17, <2>2 DEF a
  <2> QED BY <2>1, <2>2
<1>11. Distinct(r.mem, Held(V2))
  <2>1. \A x, y \in Held(V) : a[x].data.key = a[y].data.key => x = y
    BY <1>1 DEF Distinct, a
  <2>2. \A x \in Held(V) : r.mem[x].data.key # r.mem[f].data.key
    BY <1>4, <1>7, <1>17, <1>8
  <2> QED BY <1>7, <1>17, <1>8, <2>1, <2>2 DEF Distinct
<1>12. \A x \in Held(V2) : \E y \in D \cup {n} : r.mem[x].data = m[y].data
  <2> TAKE x \in Held(V2)
  <2>1. CASE x = f
    BY <1>7, <1>17, <2>1 DEF e
  <2>2. CASE x \in Held(V)
    BY <1>1, <1>8, <2>2 DEF a
  <2> QED BY <1>7, <1>17, <2>1, <2>2
<1>13. \A y \in D \cup {n} : \E x \in Held(V2) : r.mem[x].data = m[y].data
  <2> TAKE y \in D \cup {n}
  <2>1. CASE y = n
    BY <1>7, <1>17, <2>1 DEF e
  <2>2. CASE y \in D
    <3>1. PICK x \in Held(V) : a[x].data = m[y].data
      BY <1>1, <2>2 DEF a
    <3> QED BY <1>7, <1>17, <1>8, <3>1
  <2> QED BY <2>1, <2>2
<1>14. Move(acc, n, c) \in Growth
  BY <1>6, <1>7, <1>17 DEF Table, Growth
<1>15. Move(acc, n, c).mem = r.mem /\ Move(acc, n, c).buckets = b2
  BY <1>6
<1> DEFINE z == Move(acc, n, c)
           D2 == D \cup {n}
<1>16. Copied(z, c, m, D2, L)
  <2>1. z.mem = r.mem /\ z.buckets = b2
    BY <1>15
  <2>2. Table(r.mem, b2, V2) /\ Len(b2) = c
    BY <1>7, <1>17
  <2>3. /\ \A x \in Held(V2) : \E y \in D2 : r.mem[x].data = m[y].data
        /\ \A y \in D2 : \E x \in Held(V2) : r.mem[x].data = m[y].data
    BY <1>12, <1>13
  <2> HIDE DEF z, D2
  <2> QED BY <1>9, <1>10, <1>11, <2>1, <2>2, <2>3 DEF Copied
<1> QED BY <1>14, <1>16

\* The nodes of one list.
NodesOf(w) == {w[i] : i \in 1 .. Len(w)}

\* An old bucket is released.
LEMMA ClearOK ==
  ASSUME NEW m \in Memory, NEW c \in Nat \ {0}, NEW D, NEW L \in SUBSET Alloc(m),
         NEW l, NEW w, Chain(m, l, w), NodesOf(w) \subseteq L,
         NEW acc \in Growth, Copied(acc, c, m, D, L)
  PROVE  LET z == [mem |-> linked_list_clear(acc.mem, l), buckets |-> acc.buckets]
         IN z \in Growth /\ Copied(z, c, m, D, L \ NodesOf(w))
<1>1. PICK V : /\ Table(acc.mem, acc.buckets, V) /\ Len(acc.buckets) = c
               /\ \A x \in L : x \notin Held(V) /\ acc.mem[x] = m[x]
               /\ \A x \in Nodes : acc.mem[x] # Null <=> x \in Held(V) \/ x \in L
               /\ Distinct(acc.mem, Held(V))
               /\ \A x \in Held(V) : \E y \in D : acc.mem[x].data = m[y].data
               /\ \A y \in D : \E x \in Held(V) : acc.mem[x].data = m[y].data
  BY DEF Copied
<1> DEFINE a == acc.mem
           q == linked_list_clear(a, l)
           z == [mem |-> q, buckets |-> acc.buckets]
           L2 == L \ NodesOf(w)
<1>2. a \in Memory /\ DOMAIN a = Nodes /\ acc.buckets \in Seq(List)
  BY DEF Growth, Memory
<1>3. w \in Seq(Nodes) /\ Len(w) \in Nat
  BY LenProperties DEF Chain
<1>4. Walk(a, l) = w
  <2>1. \A i \in 1 .. Len(w) : a[w[i]] = m[w[i]]
    BY <1>1 DEF NodesOf
  <2>2. Chain(a, l, w)
    BY <2>1, ChainFrame
  <2> QED BY <1>2, <2>2, WalkIs
<1>5. ToSet(w) = NodesOf(w)
  <2>1. DOMAIN w = 1 .. Len(w)
    BY <1>3
  <2> QED BY <2>1 DEF ToSet, NodesOf
<1>6. q = [x \in Nodes |-> IF x \in NodesOf(w) THEN Null ELSE a[x]]
  BY <1>2, <1>4, <1>5 DEF linked_list_clear
<1> HIDE DEF q
<1>7. q \in Memory
  BY <1>2, <1>6 DEF Memory
<1>8. \A x \in Nodes : x \in NodesOf(w) => q[x] = Null
  BY <1>6
<1>9. \A x \in Nodes : x \notin NodesOf(w) => q[x] = a[x]
  BY <1>6
<1>10. \A x \in Held(V) : x \in Nodes /\ x \notin L /\ q[x] = a[x]
  BY <1>1, <1>9 DEF Held
<1>11. Table(q, acc.buckets, V)
  <2> HIDE DEF a
  <2>1. Table(a, acc.buckets, V)
    BY <1>1 DEF a
  <2> QED BY <1>7, <1>10, <2>1, TableFrame
<1>12. z.mem = q /\ z.buckets = acc.buckets /\ z \in Growth
  BY <1>2, <1>7 DEF Growth
<1> HIDE DEF z
<1>13. \A x \in L2 : x \notin Held(V) /\ q[x] = m[x]
  <2>1. \A x \in L : x \in Nodes
    BY DEF Alloc
  <2> QED BY <1>1, <1>9, <2>1
<1>14. \A x \in Nodes : q[x] # Null <=> x \in Held(V) \/ x \in L2
  <2> TAKE x \in Nodes
  <2>1. CASE x \in NodesOf(w)
    BY <1>8, <1>10, <2>1
  <2>2. CASE x \notin NodesOf(w)
    BY <1>1, <1>9, <2>2
  <2> QED BY <2>1, <2>2
<1>15. Distinct(q, Held(V))
  BY <1>1, <1>10 DEF Distinct
<1>16. /\ \A x \in Held(V) : \E y \in D : q[x].data = m[y].data
       /\ \A y \in D : \E x \in Held(V) : q[x].data = m[y].data
  BY <1>1, <1>10
<1> HIDE DEF a, L2
<1>17. Copied(z, c, m, D, L2)
  BY <1>1, <1>11, <1>12, <1>13, <1>14, <1>15, <1>16 DEF Copied
<1> QED BY <1>12, <1>17 DEF z, q, a, L2

\* The first j nodes of a list.
First(w, j) == {w[i] : i \in 1 .. j}

\* An old bucket is copied, node by node, and released.
LEMMA MoveBucketOK ==
  ASSUME NEW m \in Memory, Distinct(m, Alloc(m)), NEW c \in Nat \ {0},
         NEW D \in SUBSET Alloc(m), NEW L \in SUBSET Alloc(m),
         NEW l, NEW w, Chain(m, l, w), NodesOf(w) \subseteq L, NodesOf(w) \cap D = {},
         NEW acc \in Growth, Copied(acc, c, m, D, L)
  PROVE  /\ MoveBucket(acc, l, c) \in Growth
         /\ Copied(MoveBucket(acc, l, c), c, m, D \cup NodesOf(w), L \ NodesOf(w))
<1> DEFINE n == Len(w)
           v == Walk(acc.mem, l)
<1>0. w \in Seq(Nodes) /\ n \in Nat
  BY LenProperties DEF Chain
<1>1. v = w
  <2>1. \A x \in L : acc.mem[x] = m[x]
    BY DEF Copied
  <2>2. \A i \in 1 .. Len(w) : acc.mem[w[i]] = m[w[i]]
    BY <2>1 DEF NodesOf
  <2>3. Chain(acc.mem, l, w)
    <3> DEFINE a == acc.mem
    <3> HIDE DEF a
    <3>1. \A i \in 1 .. Len(w) : a[w[i]] = m[w[i]]
      BY <2>2 DEF a
    <3>2. Chain(a, l, w)
      BY <3>1, ChainFrame
    <3> QED BY <3>2 DEF a
  <2> QED BY <2>3, WalkIs DEF Growth
<1> DEFINE R(f) == f = [i \in 0 .. Len(v) |-> IF i = 0 THEN acc ELSE Move(f[i - 1], v[i], c)]
           T == [i \in 0 .. n |-> {a \in Growth : Copied(a, c, m, D \cup First(w, i), L)}]
           F == [i \in 1 .. n |-> [a \in Growth |-> Move(a, w[i], c)]]
<1> HIDE DEF v
<1>2. acc \in T[0]
  <2>1. D \cup First(w, 0) = D
    BY DEF First
  <2>2. Copied(acc, c, m, D \cup First(w, 0), L)
    BY <2>1, Zenon
  <2>3. 0 \in 0 .. n
    BY <1>0
  <2> QED BY <2>2, <2>3
<1>3. ASSUME NEW i \in 1 .. n, NEW a \in T[i - 1]
      PROVE  a \in Growth /\ F[i][a] = Move(a, w[i], c) /\ Move(a, w[i], c) \in T[i]
  <2>1. i - 1 \in 0 .. n /\ i \in 0 .. n
    BY <1>0
  <2>2. a \in Growth /\ Copied(a, c, m, D \cup First(w, i - 1), L)
    BY <2>1
  <2>3. w[i] \in L /\ w[i] \notin D /\ \A j \in 1 .. i - 1 : w[j] # w[i]
    <3>1. \A j \in 1 .. i - 1 : j \in 1 .. Len(w) /\ j # i
      BY <1>0
    <3> QED BY <3>1 DEF NodesOf, Chain
  <2>4. D \cup First(w, i - 1) \in SUBSET Alloc(m)
    <3>1. \A j \in 1 .. i - 1 : w[j] \in L
      BY <1>0 DEF NodesOf
    <3> QED BY <3>1 DEF First
  <2>5. (D \cup First(w, i - 1)) \cup {w[i]} = D \cup First(w, i)
    <3>1. 1 .. i = (1 .. i - 1) \cup {i}
      BY <1>0
    <3> QED BY <3>1 DEF First
  <2>6. w[i] \notin D \cup First(w, i - 1)
    BY <2>3 DEF First
  <2> DEFINE E == D \cup First(w, i - 1)
  <2>7. Move(a, w[i], c) \in Growth /\ Copied(Move(a, w[i], c), c, m, E \cup {w[i]}, L)
    <3> HIDE DEF E, T, F
    <3>1. E \in SUBSET Alloc(m) /\ w[i] \notin E /\ Copied(a, c, m, E, L)
      BY <2>2, <2>4, <2>6 DEF E
    <3> QED BY <2>3, <3>1, MoveOK
  <2> QED BY <2>1, <2>2, <2>5, <2>7
<1> HIDE DEF T, F
<1>4. PICK f : Course(f, n, acc, F) /\ \A i \in 0 .. n : f[i] \in T[i]
  <2>1. \A i \in 1 .. n : \A a \in T[i - 1] : F[i][a] \in T[i]
    BY <1>3
  <2> QED BY <1>0, <1>2, <2>1, LoopExists
<1>5. R(f)
  <2>1. ASSUME NEW i \in 0 .. n
        PROVE  (IF i = 0 THEN acc ELSE F[i][f[i - 1]]) = IF i = 0 THEN acc ELSE Move(f[i - 1], w[i], c)
    <3>1. i # 0 => i \in 1 .. n /\ i - 1 \in 0 .. n
      BY <1>0
    <3> QED BY <1>3, <1>4, <3>1
  <2> QED BY <1>1, <1>4, <2>1 DEF Course
<1> DEFINE a == CHOOSE g : R(g)
<1>6. R(a)
  <2> HIDE DEF R
  <2> QED BY <1>5
<1>7. MoveBucket(acc, l, c) = [mem |-> linked_list_clear(a[Len(v)].mem, l), buckets |-> a[Len(v)].buckets]
  BY DEF MoveBucket, After, v
<1> HIDE DEF a
<1>8. a[0] = acc /\ \A i \in 1 .. n : a[i] = Move(a[i - 1], w[i], c)
  BY <1>0, <1>1, <1>6
<1>9. a[n] \in T[n]
  <2>1. \A i \in 1 .. n : a[i - 1] \in T[i - 1] => a[i] \in T[i]
    BY <1>3, <1>8
  <2> QED BY <1>0, <1>2, <1>8, <2>1, LoopEnds
<1> DEFINE y == a[n]
           E == D \cup NodesOf(w)
<1>10. y \in Growth /\ Copied(y, c, m, E, L)
  <2>1. First(w, n) = NodesOf(w) /\ n \in 0 .. n
    BY <1>0 DEF First, NodesOf
  <2> QED BY <1>9, <2>1 DEF T
<1>11. MoveBucket(acc, l, c) = [mem |-> linked_list_clear(y.mem, l), buckets |-> y.buckets]
  BY <1>1, <1>7
<1> HIDE DEF y, E
<1>12. LET z == [mem |-> linked_list_clear(y.mem, l), buckets |-> y.buckets]
       IN z \in Growth /\ Copied(z, c, m, E, L \ NodesOf(w))
  BY <1>10, ClearOK
<1> QED BY <1>11, <1>12 DEF E

\* The nodes of the first i buckets.
Upto(W, i) == {x \in Nodes : \E h \in 1 .. i : \E j \in 1 .. Len(W[h]) : W[h][j] = x}

\* z is a table of c buckets with the entries of m.
Resized(m, z, c) ==
    /\ Len(z.buckets) = c /\ \E V : Table(z.mem, z.buckets, V) /\ Held(V) = Alloc(z.mem)
    /\ Distinct(z.mem, Alloc(z.mem)) /\ Entries(z.mem) = Entries(m)

\* A growth keeps every entry, and puts each into its new bucket.
LEMMA ResizeOK ==
  ASSUME NEW m, NEW b, NEW W, Table(m, b, W), Held(W) = Alloc(m), Distinct(m, Alloc(m)),
         NEW c \in Nat \ {0}
  PROVE  Resized(m, hash_map_resize(m, b, c), c)
<1> DEFINE n == Len(b)
           H == Held(W)
           new == [mem |-> m, buckets |-> [j \in 1 .. c |-> linked_list_create]]
<1>0. n \in Nat /\ m \in Memory /\ DOMAIN W = 1 .. n /\ H \in SUBSET Alloc(m)
      /\ W \in [1 .. n -> Seq(Nodes)]
  BY LenProperties DEF Table
<1>1. new \in Growth /\ Copied(new, c, m, {}, H)
  <2> DEFINE b0 == [j \in 1 .. c |-> linked_list_create]
             V == [j \in 1 .. c |-> <<>>]
  <2>1. linked_list_create \in List /\ \A w : Len(w) = 0 /\ w \in Seq(Nodes) => Chain(m, linked_list_create, w)
    BY DEF linked_list_create, List, Chain
  <2>2. b0 \in Seq(List) /\ Len(b0) = c /\ \A j \in 1 .. c : b0[j] = linked_list_create
    BY <2>1
  <2>3. /\ V \in [1 .. c -> Seq(Nodes)] /\ DOMAIN V = 1 .. c
        /\ \A j \in 1 .. c : V[j] \in Seq(Nodes) /\ Len(V[j]) = 0
    OBVIOUS
  <2> HIDE DEF b0, V
  <2>4. Table(m, b0, V)
    BY <1>0, <2>1, <2>2, <2>3 DEF Table
  <2>5. Held(V) = {}
    BY <2>3 DEF Held
  <2>6. new.mem = m /\ new.buckets = b0 /\ new \in Growth
    BY <1>0, <2>2 DEF b0, Growth
  <2> HIDE DEF new
  <2>7. \A x \in Nodes : m[x] # Null <=> x \in H
    BY DEF Alloc
  <2> HIDE DEF H
  <2> QED BY <2>2, <2>4, <2>5, <2>6, <2>7 DEF Copied, Distinct
<1> DEFINE R(f) == f = [i \in 0 .. n |-> IF i = 0 THEN new ELSE MoveBucket(f[i - 1], b[i], c)]
           T == [i \in 0 .. n |-> {a \in Growth : Copied(a, c, m, Upto(W, i), H \ Upto(W, i))}]
           F == [i \in 1 .. n |-> [a \in Growth |-> MoveBucket(a, b[i], c)]]
<1> HIDE DEF new, H
<1>2. new \in T[0]
  <2>1. Upto(W, 0) = {} /\ H \ {} = H
    BY DEF Upto
  <2>2. Copied(new, c, m, Upto(W, 0), H \ Upto(W, 0))
    BY <1>1, <2>1, Zenon
  <2>3. 0 \in 0 .. n
    BY <1>0
  <2> QED BY <1>1, <2>2, <2>3
<1>3. ASSUME NEW i \in 1 .. n, NEW a \in T[i - 1]
      PROVE  F[i][a] = MoveBucket(a, b[i], c) /\ MoveBucket(a, b[i], c) \in T[i]
  <2> DEFINE w == W[i]
             D == Upto(W, i - 1)
             L == H \ D
  <2>1. i - 1 \in 0 .. n /\ i \in 0 .. n
    BY <1>0
  <2>2. a \in Growth /\ Copied(a, c, m, D, L)
    BY <2>1
  <2>3. w \in Seq(Nodes) /\ Len(w) \in Nat /\ Chain(m, b[i], w)
    BY <1>0, LenProperties DEF Table
  <2>4. Upto(W, i) = D \cup NodesOf(w)
    <3>1. 1 .. i = (1 .. i - 1) \cup {i}
      BY <1>0
    <3>2. \A j \in 1 .. Len(w) : w[j] \in Nodes
      BY <2>3, ElementOfSeq
    <3> QED BY <3>1, <3>2 DEF Upto, NodesOf
  <2>5. NodesOf(w) \cap D = {}
    <3> SUFFICES ASSUME NEW x \in NodesOf(w), x \in D PROVE FALSE
      OBVIOUS
    <3>1. PICK j \in 1 .. Len(W[i]) : W[i][j] = x
      BY DEF NodesOf
    <3>2. PICK h \in 1 .. i - 1 : \E g \in 1 .. Len(W[h]) : W[h][g] = x
      BY DEF Upto
    <3>3. PICK g \in 1 .. Len(W[h]) : W[h][g] = x
      BY <3>2
    <3>4. h \in 1 .. Len(b) /\ h # i
      BY <1>0
    <3> QED BY <3>1, <3>3, <3>4, OnePlace
  <2>6. NodesOf(w) \subseteq H
    <3>1. \A j \in 1 .. Len(w) : w[j] \in Nodes
      BY <2>3, ElementOfSeq
    <3> QED BY <1>0, <3>1 DEF NodesOf, Held, H
  <2>7. D \subseteq H
    <3>1. \A h \in 1 .. i - 1 : h \in 1 .. n
      BY <1>0
    <3> QED BY <1>0, <3>1 DEF Upto, Held, H
  <2>8. H \ Upto(W, i) = L \ NodesOf(w)
    BY <2>4
  <2> HIDE DEF w, D, L, T, F
  <2>9. D \in SUBSET Alloc(m) /\ L \in SUBSET Alloc(m) /\ NodesOf(w) \subseteq L
    BY <1>0, <2>5, <2>6, <2>7 DEF L
  <2>10. /\ MoveBucket(a, b[i], c) \in Growth
         /\ Copied(MoveBucket(a, b[i], c), c, m, D \cup NodesOf(w), L \ NodesOf(w))
    BY <1>0, <2>2, <2>3, <2>5, <2>9, MoveBucketOK
  <2>11. Copied(MoveBucket(a, b[i], c), c, m, Upto(W, i), H \ Upto(W, i))
    BY <2>4, <2>8, <2>10, Zenon
  <2> QED BY <2>1, <2>2, <2>10, <2>11 DEF T, F
<1> HIDE DEF T, F
<1>4. PICK f : Course(f, n, new, F) /\ \A i \in 0 .. n : f[i] \in T[i]
  <2>1. \A i \in 1 .. n : \A a \in T[i - 1] : F[i][a] \in T[i]
    BY <1>3
  <2> QED BY <1>0, <1>2, <2>1, LoopExists
<1>5. R(f)
  <2>1. ASSUME NEW i \in 0 .. n
        PROVE  (IF i = 0 THEN new ELSE F[i][f[i - 1]]) = IF i = 0 THEN new ELSE MoveBucket(f[i - 1], b[i], c)
    <3>1. i # 0 => i \in 1 .. n /\ i - 1 \in 0 .. n
      BY <1>0
    <3> QED BY <1>3, <1>4, <3>1
  <2> QED BY <1>4, <2>1 DEF Course
<1> DEFINE a == CHOOSE g : R(g)
<1>6. R(a)
  <2> HIDE DEF R
  <2> QED BY <1>5
<1>7. hash_map_resize(m, b, c) = a[n]
  BY DEF hash_map_resize, After, new
<1> HIDE DEF a
<1>8. a[0] = new /\ \A i \in 1 .. n : a[i] = MoveBucket(a[i - 1], b[i], c)
  BY <1>0, <1>6
<1>9. a[n] \in T[n]
  <2>1. \A i \in 1 .. n : a[i - 1] \in T[i - 1] => a[i] \in T[i]
    BY <1>3, <1>8
  <2> QED BY <1>0, <1>2, <1>8, <2>1, LoopEnds
<1> DEFINE z == a[n]
<1>10. z \in Growth /\ Copied(z, c, m, H, {})
  <2>1. Upto(W, n) = H /\ H \ H = {}
    BY <1>0 DEF Upto, Held, H
  <2>2. n \in 0 .. n
    BY <1>0
  <2>3. z \in Growth /\ Copied(z, c, m, Upto(W, n), H \ Upto(W, n))
    BY <1>9, <2>2 DEF T
  <2> HIDE DEF z
  <2> QED BY <2>1, <2>3, Zenon
<1> HIDE DEF z
<1>11. PICK V : /\ Table(z.mem, z.buckets, V) /\ Len(z.buckets) = c
                /\ \A x \in Nodes : z.mem[x] # Null <=> x \in Held(V)
                /\ Distinct(z.mem, Held(V))
                /\ \A x \in Held(V) : \E y \in H : z.mem[x].data = m[y].data
                /\ \A y \in H : \E x \in Held(V) : z.mem[x].data = m[y].data
  BY <1>10 DEF Copied
<1>12. Held(V) = Alloc(z.mem)
  BY <1>11 DEF Alloc, Held
<1>13. Entries(z.mem) = Entries(m)
  <2>1. H = Alloc(m)
    BY DEF H
  <2> QED BY <1>11, <1>12, <2>1 DEF Entries
<1>14. Resized(m, z, c)
  BY <1>11, <1>12, <1>13 DEF Resized
<1> QED BY <1>7, <1>14 DEF z

-----------------------------------------------------------------------------
(* The operations.                                                         *)

\* A table without free-floating nodes, one node for a key, s of them, at
\* most three quarters full.
Good(m, b, s) ==
    /\ \E W : Table(m, b, W) /\ Held(W) = Alloc(m)
    /\ Distinct(m, Alloc(m))
    /\ s = Cardinality(Alloc(m))
    /\ 4 * s <= 3 * Len(b)

\* The entries of other keys.
Others(E, k) == {e \in E : e.key # k}

\* The entries are entries, no two with the same key.
LEMMA EntriesType ==
  ASSUME NEW m \in Memory, Distinct(m, Alloc(m))
  PROVE  /\ Entries(m) \subseteq Entry
         /\ \A e, f \in Entries(m) : e.key = f.key => e = f
<1>1. \A x \in Alloc(m) : m[x].data \in Entry
  BY NodeFields DEF Alloc, Memory
<1> QED BY <1>1 DEF Entries, Distinct

\* There is a key's node just when there is an entry for it.
LEMMA FoundIs ==
  ASSUME NEW m, NEW b, NEW s, Good(m, b, s), NEW k \in Keys,
         NEW n, n = hash_map_find_node(m, b[hash_map_bucket_index(k, Len(b))], k)
  PROVE  \/ n = Null /\ \A e \in Entries(m) : e.key # k
         \/ n # Null /\ n \in Alloc(m) /\ m[n].data.key = k
<1>1. PICK W : Table(m, b, W) /\ Held(W) = Alloc(m)
  BY DEF Good
<1>2. \/ n = Null /\ \A x \in Held(W) : m[x].data.key # k
      \/ m[n].data.key = k /\ n \in Held(W)
  BY <1>1, FindIs
<1>3. \A x \in Held(W) : x # Null
  BY NullIsNoNode DEF Held
<1> QED BY <1>1, <1>2, <1>3 DEF Entries

\* The memory with other data in a node.
Overwritten(m, n, d) == [m EXCEPT ![n] = SetData(m[n], d)]

\* hash_map_put writes the data of a node that is there.
LEMMA SetDataOK ==
  ASSUME NEW m, NEW b, NEW s, Good(m, b, s), NEW k \in Keys, NEW d \in Data,
         NEW n \in Alloc(m), m[n].data.key = k
  PROVE  /\ Good(Overwritten(m, n, d), b, s)
         /\ Entries(Overwritten(m, n, d)) = Others(Entries(m), k) \cup {[key |-> k, data |-> d]}
<1> DEFINE z == Overwritten(m, n, d)
<1>1. PICK W : Table(m, b, W) /\ Held(W) = Alloc(m)
  BY DEF Good
<1>2. m \in Memory /\ n \in Nodes /\ m[n] \in Node /\ DOMAIN m = Nodes
  BY <1>1, NodeFields DEF Table, Alloc, Memory
<1> DEFINE e == [key |-> k, data |-> d]
<1>3. /\ SetData(m[n], d) \in Node /\ SetData(m[n], d).data = e
      /\ SetData(m[n], d).prev = m[n].prev /\ SetData(m[n], d).next = m[n].next
  BY <1>2, NodeFields DEF SetData, Node, Entry
<1>4. z[n] = SetData(m[n], d) /\ \A x \in Nodes : x # n => z[x] = m[x]
  BY <1>2 DEF Overwritten
<1>5. z \in Memory
  BY <1>2, <1>3 DEF Memory, Overwritten
<1> HIDE DEF z
<1>6. Alloc(z) = Alloc(m)
  BY <1>2, <1>3, <1>4, NullIsNoNode DEF Alloc
<1>7. \A x \in Nodes : m[x] \in Node =>
         /\ z[x] \in Node /\ z[x].prev = m[x].prev /\ z[x].next = m[x].next
         /\ z[x].data.key = m[x].data.key
  BY <1>2, <1>3, <1>4
<1>8. Table(z, b, W)
  <2>1. ASSUME NEW i \in 1 .. Len(b) PROVE Chain(z, b[i], W[i])
    <3>1. W[i] \in Seq(Nodes) /\ \A j \in 1 .. Len(W[i]) : W[i][j] \in Nodes
      BY <1>1, ElementOfSeq DEF Table
    <3>2. Chain(m, b[i], W[i])
      BY <1>1 DEF Table
    <3> QED BY <1>7, <3>1, <3>2, SMTT(30) DEF Chain
  <2>2. ASSUME NEW i \in 1 .. Len(b), NEW j \in 1 .. Len(W[i])
        PROVE  z[W[i][j]].data.key = m[W[i][j]].data.key
    <3>1. W[i] \in Seq(Nodes) /\ W[i][j] \in Nodes /\ m[W[i][j]] \in Node
      BY <1>1, ElementOfSeq DEF Table, Chain
    <3> QED BY <1>7, <3>1
  <2> QED BY <1>1, <1>5, <2>1, <2>2 DEF Table
<1>9. \A x \in Alloc(m) : x \in Nodes /\ m[x] \in Node
  BY <1>2 DEF Alloc, Memory
<1>10. Distinct(z, Alloc(z))
  <2>1. Distinct(m, Alloc(m))
    BY DEF Good
  <2> QED BY <1>6, <1>7, <1>9, <2>1 DEF Distinct
<1>11. Entries(z) = Others(Entries(m), k) \cup {e}
  <2>1. \A x \in Alloc(m) : m[x].data.key = k => x = n
    BY DEF Good, Distinct
  <2>2. \A x \in Alloc(m) : x # n => z[x].data = m[x].data /\ m[x].data.key # k
    BY <1>4, <1>9, <2>1
  <2>3. z[n].data = e /\ n \in Alloc(z)
    BY <1>3, <1>4, <1>6
  <2> HIDE DEF e
  <2>4. ASSUME NEW y \in Entries(z) PROVE y \in Others(Entries(m), k) \cup {e}
    <3>1. PICK x \in Alloc(m) : y = z[x].data
      BY <1>6 DEF Entries
    <3>2. CASE x = n
      BY <2>3, <3>1, <3>2
    <3>3. CASE x # n
      BY <2>2, <3>1, <3>3 DEF Entries, Others
    <3> QED BY <3>2, <3>3
  <2>5. ASSUME NEW y \in Others(Entries(m), k) PROVE y \in Entries(z)
    <3>1. PICK x \in Alloc(m) : y = m[x].data /\ m[x].data.key # k
      BY DEF Entries, Others
    <3>2. x # n
      BY <3>1
    <3> QED BY <1>6, <2>2, <3>1, <3>2 DEF Entries
  <2>6. e \in Entries(z)
    BY <2>3 DEF Entries
  <2> QED BY <2>4, <2>5, <2>6
<1>12. Good(z, b, s)
  BY <1>1, <1>6, <1>8, <1>10 DEF Good
<1> QED BY <1>11, <1>12 DEF z

\* The map with a new entry.
WithNew(m, b, s, k, d) ==
    LET i == hash_map_bucket_index(k, Len(b))
        r == linked_list_addLast(m, b[i], [key |-> k, data |-> d])
        b2 == [b EXCEPT ![i] = r.list]
    IN IF Overloaded(s + 1, Len(b2)) THEN hash_map_resize(r.mem, b2, 2 * Len(b2))
       ELSE [mem |-> r.mem, buckets |-> b2]

\* hash_map_put of a new key appends its entry and then, if that makes the
\* map too full, doubles the buckets.
LEMMA PutNewOK ==
  ASSUME NEW m, NEW b, NEW s, Good(m, b, s), NEW k \in Keys, NEW d \in Data,
         \A e \in Entries(m) : e.key # k
  PROVE  LET z == WithNew(m, b, s, k, d)
         IN /\ Good(z.mem, z.buckets, s + 1)
            /\ Entries(z.mem) = Entries(m) \cup {[key |-> k, data |-> d]}
<1> DEFINE e == [key |-> k, data |-> d]
           i == hash_map_bucket_index(k, Len(b))
           r == linked_list_addLast(m, b[i], e)
           b2 == [b EXCEPT ![i] = r.list]
           z == WithNew(m, b, s, k, d)
<1>0. /\ z = IF Overloaded(s + 1, Len(b2)) THEN hash_map_resize(r.mem, b2, 2 * Len(b2))
            ELSE [mem |-> r.mem, buckets |-> b2]
      /\ r = linked_list_addLast(m, b[i], e) /\ b2 = [b EXCEPT ![i] = r.list]
      /\ i = hash_map_bucket_index(k, Len(b)) /\ e.key = k /\ e \in Entry
  BY DEF WithNew, Entry
<1> SUFFICES Good(z.mem, z.buckets, s + 1) /\ Entries(z.mem) = Entries(m) \cup {e}
  OBVIOUS
<1> HIDE DEF e, i, r, b2, z
<1>1. PICK W : Table(m, b, W) /\ Held(W) = Alloc(m)
  BY DEF Good
<1>2. /\ m \in Memory /\ Len(b) \in Nat \ {0} /\ e \in Entry /\ e.key = k
      /\ Distinct(m, Alloc(m)) /\ s = Cardinality(Alloc(m)) /\ 4 * s <= 3 * Len(b)
      /\ Alloc(m) \in SUBSET Nodes
  BY <1>1, <1>0, LenProperties DEF Good, Table, Alloc
<1>3. \A x \in Alloc(m) : x \in Nodes /\ m[x].data.key \in Keys \ {k}
  <2> TAKE x \in Alloc(m)
  <2>1. x \in Nodes /\ m[x].data.key \in Keys
    BY <1>2, NodeFields DEF Alloc, Memory
  <2> QED BY <2>1 DEF Entries
<1>4. s \in Nat /\ IsFiniteSet(Alloc(m))
  BY <1>2, AsManyEntries
<1>5. \E x \in Nodes : m[x] = Null
  <2>1. Cardinality(Alloc(m)) <= Cardinality(Keys \ {k})
    BY <1>2, <1>3, KeysBound
  <2>2. Cardinality(Keys \ {k}) = Cardinality(Keys) - 1
    BY HashMapAssumption, FS_RemoveElement
  <2>3. Cardinality(Keys) \in Nat /\ Cardinality(Nodes) \in Nat
    BY HashMapAssumption, FS_CardinalityType
  <2>4. Cardinality(Alloc(m)) # Cardinality(Nodes)
    BY <1>2, <1>4, <2>1, <2>2, <2>3, HashMapAssumption
  <2>5. Alloc(m) # Nodes
    BY <2>4
  <2> QED BY <2>5 DEF Alloc
<1> DEFINE n == Fresh(m)
<1>6. Added(m, b, W, e, i, n, r, b2)
  <2>1. Added(m, b, W, e, hash_map_bucket_index(e.key, Len(b)), Fresh(m),
              linked_list_addLast(m, b[hash_map_bucket_index(e.key, Len(b))], e),
              [b EXCEPT ![hash_map_bucket_index(e.key, Len(b))] =
                  linked_list_addLast(m, b[hash_map_bucket_index(e.key, Len(b))], e).list])
    BY <1>1, <1>2, <1>5, TableAdd
  <2> QED BY <1>2, <1>0, <2>1
<1> HIDE DEF n
<1>7. /\ n \in Nodes /\ m[n] = Null /\ Len(b2) = Len(b)
      /\ r.mem[n] # Null /\ r.mem[n].data = e
      /\ \A x \in Nodes : x # n => /\ r.mem[x] = Null <=> m[x] = Null
                                   /\ m[x] # Null => r.mem[x].data = m[x].data
  BY <1>6 DEF Added
<1>8. PICK W2 : Table(r.mem, b2, W2) /\ Held(W2) = Held(W) \cup {n}
  BY <1>6 DEF Added
<1> DEFINE a == r.mem
<1>9. Alloc(a) = Alloc(m) \cup {n} /\ n \notin Alloc(m) /\ a \in Memory
  BY <1>7, <1>8 DEF Alloc, Table
<1>10. \A x \in Alloc(m) : x # n /\ a[x].data = m[x].data
  BY <1>7 DEF Alloc
<1>11. a[n].data = e
  BY <1>7
<1> HIDE DEF a
<1>12. Distinct(a, Alloc(a))
  <2>1. \A x, y \in Alloc(m) : m[x].data.key = m[y].data.key => x = y
    BY <1>2 DEF Distinct
  <2>2. \A x \in Alloc(m) : a[x].data.key # a[n].data.key
    BY <1>2, <1>3, <1>10, <1>11
  <2> QED BY <1>9, <1>10, <2>1, <2>2 DEF Distinct
<1>13. Entries(a) = Entries(m) \cup {e}
  <2>1. ASSUME NEW y \in Entries(a) PROVE y \in Entries(m) \cup {e}
    BY <1>9, <1>10, <1>11 DEF Entries
  <2>2. ASSUME NEW y \in Entries(m) PROVE y \in Entries(a)
    BY <1>9, <1>10 DEF Entries
  <2>3. e \in Entries(a)
    BY <1>9, <1>11 DEF Entries
  <2> QED BY <2>1, <2>2, <2>3
<1>14. Cardinality(Alloc(a)) = s + 1
  BY <1>2, <1>4, <1>9, FS_AddElement
<1>15. Table(a, b2, W2) /\ Held(W2) = Alloc(a) /\ Len(b2) \in Nat \ {0}
  BY <1>1, <1>2, <1>7, <1>8, <1>9 DEF a
<1>16. CASE ~Overloaded(s + 1, Len(b2))
  <2>1. z.mem = a /\ z.buckets = b2
    BY <1>16, <1>0 DEF a
  <2>2. 4 * (s + 1) <= 3 * Len(b2)
    BY <1>4, <1>15, <1>16 DEF Overloaded
  <2> HIDE DEF Overloaded
  <2> QED BY <1>12, <1>13, <1>14, <1>15, <2>1, <2>2 DEF Good
<1>17. CASE Overloaded(s + 1, Len(b2))
  <2> DEFINE c == 2 * Len(b2)
  <2>1. z = hash_map_resize(a, b2, c) /\ c \in Nat \ {0}
    BY <1>15, <1>17, <1>0 DEF a
  <2>2. 4 * (s + 1) <= 3 * c
    BY <1>2, <1>4, <1>7, <1>15
  <2> HIDE DEF c
  <2>3. /\ Len(z.buckets) = c /\ (\E V : Table(z.mem, z.buckets, V) /\ Held(V) = Alloc(z.mem))
        /\ Distinct(z.mem, Alloc(z.mem)) /\ Entries(z.mem) = Entries(a)
    <3>1. Resized(a, hash_map_resize(a, b2, c), c)
      BY <1>12, <1>15, <2>1, ResizeOK
    <3>2. Resized(a, z, c)
      BY <2>1, <3>1
    <3> QED BY <3>2 DEF Resized
  <2>4. Cardinality(Alloc(z.mem)) = s + 1
    <3>1. z.mem \in Memory
      BY <2>3 DEF Table
    <3>2. Cardinality(Entries(z.mem)) = Cardinality(Alloc(z.mem))
      BY <2>3, <3>1, AsManyEntries
    <3>3. Cardinality(Entries(a)) = Cardinality(Alloc(a))
      BY <1>9, <1>12, AsManyEntries
    <3> QED BY <1>14, <2>3, <3>2, <3>3
  <2>5. Good(z.mem, z.buckets, s + 1)
    BY <2>2, <2>3, <2>4 DEF Good
  <2> QED BY <1>13, <2>3, <2>5
<1> QED BY <1>16, <1>17

\* The map without a key's node.
Without(m, b, k) ==
    LET i == hash_map_bucket_index(k, Len(b))
        r == unlink(m, b[i], hash_map_find_node(m, b[i], k))
    IN [mem |-> r.mem, buckets |-> [b EXCEPT ![i] = r.list]]

\* hash_map_remove takes a key's entry out.
LEMMA RemoveOK ==
  ASSUME NEW m, NEW b, NEW s, Good(m, b, s), NEW k \in Keys,
         hash_map_find_node(m, b[hash_map_bucket_index(k, Len(b))], k) # Null
  PROVE  LET z == Without(m, b, k)
         IN Good(z.mem, z.buckets, s - 1) /\ Entries(z.mem) = Others(Entries(m), k)
<1> DEFINE i == hash_map_bucket_index(k, Len(b))
           n == hash_map_find_node(m, b[i], k)
           r == unlink(m, b[i], n)
           b2 == [b EXCEPT ![i] = r.list]
           z == Without(m, b, k)
<1>0. /\ z.mem = r.mem /\ z.buckets = b2 /\ r = unlink(m, b[i], n) /\ b2 = [b EXCEPT ![i] = r.list]
      /\ i = hash_map_bucket_index(k, Len(b)) /\ n = hash_map_find_node(m, b[i], k) /\ n # Null
  BY DEF Without
<1> HIDE DEF i, n, r, b2, z
<1>1. PICK W : Table(m, b, W) /\ Held(W) = Alloc(m)
  BY DEF Good
<1>2. /\ m \in Memory /\ Distinct(m, Alloc(m)) /\ s = Cardinality(Alloc(m))
      /\ 4 * s <= 3 * Len(b) /\ Len(b) \in Nat
  BY <1>1, LenProperties DEF Good, Table
<1>3. s \in Nat /\ IsFiniteSet(Alloc(m))
  BY <1>2, AsManyEntries
<1>4. i \in 1 .. Len(b) /\ \E j \in 1 .. Len(W[i]) : n = W[i][j] /\ m[n].data.key = k /\ n \in Held(W)
  BY <1>1, <1>0, FindIs
<1>5. PICK j \in 1 .. Len(W[i]) : n = W[i][j] /\ m[n].data.key = k /\ n \in Held(W)
  BY <1>4
<1>6. Removed(m, b, W, n, r, b2)
  <2>1. Removed(m, b, W, n, unlink(m, b[i], n), [b EXCEPT ![i] = unlink(m, b[i], n).list])
    BY <1>1, <1>4, <1>5, TableUnlink
  <2> QED BY <1>0, <2>1
<1> DEFINE a == r.mem
<1>7. PICK W2 : Table(a, b2, W2) /\ Held(W2) = Held(W) \ {n}
  BY <1>6 DEF Removed
<1>8. /\ Len(b2) = Len(b) /\ a[n] = Null
      /\ \A x \in Nodes : x # n => /\ a[x] = Null <=> m[x] = Null
                                   /\ m[x] # Null => a[x].data = m[x].data
  BY <1>6 DEF Removed
<1> HIDE DEF a
<1>9. Alloc(a) = Alloc(m) \ {n} /\ n \in Alloc(m)
  BY <1>1, <1>5, <1>8 DEF Alloc
<1>10. \A x \in Alloc(a) : x \in Alloc(m) /\ a[x].data = m[x].data
  BY <1>8, <1>9 DEF Alloc
<1>11. Distinct(a, Alloc(a))
  BY <1>2, <1>10 DEF Distinct
<1>12. Entries(a) = Others(Entries(m), k)
  <2>1. \A x \in Alloc(m) : x # n => m[x].data.key # k
    BY <1>2, <1>5, <1>9 DEF Distinct
  <2>2. ASSUME NEW y \in Entries(a) PROVE y \in Others(Entries(m), k)
    BY <1>9, <1>10, <2>1 DEF Entries, Others
  <2>3. ASSUME NEW y \in Others(Entries(m), k) PROVE y \in Entries(a)
    <3>1. PICK x \in Alloc(m) : y = m[x].data /\ m[x].data.key # k
      BY DEF Entries, Others
    <3>2. x \in Alloc(a)
      BY <1>5, <1>9, <3>1
    <3> QED BY <1>10, <3>1, <3>2 DEF Entries
  <2> QED BY <2>2, <2>3
<1>13. Cardinality(Alloc(a)) = s - 1
  <2>1. Cardinality(Alloc(m) \ {n}) = Cardinality(Alloc(m)) - 1
    BY <1>3, <1>9, FS_RemoveElement
  <2> QED BY <1>2, <1>9, <2>1
<1>14. 4 * (s - 1) <= 3 * Len(b2)
  BY <1>2, <1>3, <1>8
<1>15. Good(a, b2, s - 1)
  BY <1>1, <1>7, <1>9, <1>11, <1>13, <1>14 DEF Good
<1> QED BY <1>12, <1>15, <1>0 DEF a, z

-----------------------------------------------------------------------------
(* What the invariants say.                                                *)

\* A list has as many nodes as its length says.
LEMMA ListCount ==
  ASSUME NEW m, NEW l, NEW w, Chain(m, l, w)
  PROVE  IsFiniteSet(NodesOf(w)) /\ Cardinality(NodesOf(w)) = Len(w) /\ l.size = Len(w) /\ Len(w) \in Nat
<1>0. w \in Seq(Nodes) /\ Len(w) \in Nat /\ l.size = Len(w)
  BY LenProperties DEF Chain
<1>1. IsFiniteSet(1 .. Len(w)) /\ Cardinality(1 .. Len(w)) = Len(w)
  BY <1>0, Positions
<1> DEFINE f == [i \in 1 .. Len(w) |-> w[i]]
<1>2. f \in Surjection(1 .. Len(w), NodesOf(w))
  BY DEF Surjection, NodesOf
<1>3. f \in Injection(1 .. Len(w), NodesOf(w))
  <2>1. \A i, j \in 1 .. Len(w) : w[i] = w[j] => i = j
    BY DEF Chain
  <2>2. f \in [1 .. Len(w) -> NodesOf(w)]
    BY DEF NodesOf
  <2> QED BY <2>1, <2>2 DEF Injection, IsInjective
<1> HIDE DEF f
<1> QED BY <1>0, <1>1, <1>2, <1>3, FS_Surjection

\* The counts of the buckets add up to the number of nodes in them.
LEMMA SumIs ==
  ASSUME NEW m, NEW b, NEW W, Table(m, b, W)
  PROVE  Counted(b) = Cardinality(Held(W))
<1> DEFINE n == Len(b)
           N(i) == Cardinality(Upto(W, i))
           R(f) == f = [i \in 0 .. n |-> IF i = 0 THEN 0 ELSE f[i - 1] + b[i].size]
<1>0. n \in Nat /\ DOMAIN W = 1 .. n /\ W \in [1 .. n -> Seq(Nodes)]
  BY LenProperties DEF Table
<1>1. \A i : IsFiniteSet(Upto(W, i)) /\ N(i) \in Nat
  <2> TAKE i
  <2>1. Upto(W, i) \in SUBSET Nodes
    BY DEF Upto
  <2> QED BY <2>1, HashMapAssumption, FS_Subset, FS_CardinalityType
<1>2. N(0) = 0
  <2>1. Upto(W, 0) = {}
    BY DEF Upto
  <2> QED BY <2>1, FS_EmptySet
<1>3. ASSUME NEW i \in 1 .. n PROVE N(i) = N(i - 1) + b[i].size
  <2> DEFINE w == W[i]
             D == Upto(W, i - 1)
  <2>1. w \in Seq(Nodes) /\ Len(w) \in Nat /\ Chain(m, b[i], w)
    BY <1>0, LenProperties DEF Table
  <2>2. Upto(W, i) = D \cup NodesOf(w)
    <3>1. 1 .. i = (1 .. i - 1) \cup {i}
      BY <1>0
    <3>2. \A j \in 1 .. Len(w) : w[j] \in Nodes
      BY <2>1, ElementOfSeq
    <3> QED BY <3>1, <3>2 DEF Upto, NodesOf
  <2>3. D \cap NodesOf(w) = {}
    <3> SUFFICES ASSUME NEW x \in NodesOf(w), x \in D PROVE FALSE
      OBVIOUS
    <3>1. PICK j \in 1 .. Len(W[i]) : W[i][j] = x
      BY DEF NodesOf
    <3>2. PICK h \in 1 .. i - 1 : \E g \in 1 .. Len(W[h]) : W[h][g] = x
      BY DEF Upto
    <3>3. PICK g \in 1 .. Len(W[h]) : W[h][g] = x
      BY <3>2
    <3>4. h \in 1 .. Len(b) /\ h # i
      BY <1>0
    <3> QED BY <3>1, <3>3, <3>4, OnePlace
  <2>4. IsFiniteSet(D) /\ N(i - 1) = Cardinality(D) /\ N(i - 1) \in Nat
    BY <1>1
  <2> HIDE DEF w, D, N
  <2>5. /\ IsFiniteSet(NodesOf(w)) /\ Cardinality(NodesOf(w)) = Len(w)
        /\ b[i].size = Len(w) /\ Len(w) \in Nat
    BY <2>1, ListCount
  <2>6. Cardinality(D \cup NodesOf(w)) = Cardinality(D) + Cardinality(NodesOf(w)) - Cardinality(D \cap NodesOf(w))
    BY <2>4, <2>5, FS_Union
  <2>7. Cardinality(D \cap NodesOf(w)) = 0
    BY <2>3, FS_EmptySet
  <2> QED BY <2>2, <2>4, <2>5, <2>6, <2>7 DEF N
<1>4. N(n) = Cardinality(Held(W))
  <2>1. Upto(W, n) = Held(W)
    BY <1>0 DEF Upto, Held
  <2> QED BY <2>1
<1> HIDE DEF N
<1> DEFINE f == [i \in 0 .. n |-> N(i)]
<1>5. R(f)
  <2>1. ASSUME NEW i \in 0 .. n PROVE N(i) = IF i = 0 THEN 0 ELSE f[i - 1] + b[i].size
    <3>1. CASE i = 0
      BY <1>2, <3>1
    <3>2. CASE i # 0
      <4>1. i \in 1 .. n /\ i - 1 \in 0 .. n
        BY <1>0, <3>2
      <4> QED BY <1>3, <3>2, <4>1
    <3> QED BY <3>1, <3>2
  <2> QED BY <2>1
<1> DEFINE a == CHOOSE g : R(g)
<1>6. R(a)
  <2> HIDE DEF R, f
  <2> QED BY <1>5
<1>7. Counted(b) = a[n]
  BY DEF Counted, After
<1> HIDE DEF a, f
<1>8. a[0] = 0 /\ \A i \in 1 .. n : a[i] = a[i - 1] + b[i].size
  BY <1>0, <1>6
<1> DEFINE T == [i \in 0 .. n |-> {N(i)}]
<1>9. a[n] \in T[n]
  <2>1. a[0] \in T[0]
    BY <1>0, <1>2, <1>8
  <2>2. ASSUME NEW i \in 1 .. n, a[i - 1] \in T[i - 1] PROVE a[i] \in T[i]
    <3>1. i - 1 \in 0 .. n /\ i \in 0 .. n
      BY <1>0
    <3>2. a[i - 1] = N(i - 1)
      BY <2>2, <3>1
    <3> QED BY <1>3, <1>8, <3>1, <3>2
  <2> HIDE DEF T
  <2> QED BY <1>0, <2>1, <2>2, LoopEnds
<1> QED BY <1>0, <1>4, <1>7, <1>9

\* The invariant: the state is such a table.
MapInv == Good(mem, buckets, size)

\* It says that buckets are lists,
LEMMA MapLists == MapInv => BucketsAreLists
<1> SUFFICES ASSUME MapInv, NEW i \in DOMAIN buckets
             PROVE  LET l == buckets[i]
                        w == Walk(mem, l)
                    IN /\ Len(w) = l.size
                       /\ l.tail = IF w = <<>> THEN Null ELSE Last(w)
                       /\ \A j \in DOMAIN w :
                             /\ w[j] \in Allocated
                             /\ mem[w[j]].prev = IF j = 1 THEN Null ELSE w[j - 1]
  BY DEF BucketsAreLists
<1>1. PICK W : Table(mem, buckets, W) /\ Held(W) = Alloc(mem)
  BY DEF MapInv, Good
<1>2. i \in 1 .. Len(buckets) /\ mem \in Memory
  BY <1>1 DEF Table
<1> DEFINE w == W[i]
<1>3. Chain(mem, buckets[i], w)
  BY <1>1, <1>2 DEF Table
<1>4. Walk(mem, buckets[i]) = w
  BY <1>2, <1>3, WalkIs
<1> HIDE DEF w
<1>5. w \in Seq(Nodes) /\ Len(w) \in Nat /\ DOMAIN w = 1 .. Len(w)
  BY <1>3, LenProperties DEF Chain
<1>6. Len(w) = buckets[i].size
  BY <1>3 DEF Chain
<1>7. buckets[i].tail = IF w = <<>> THEN Null ELSE Last(w)
  <2>1. w = <<>> <=> Len(w) = 0
    BY <1>5, EmptySeq
  <2> QED BY <1>3, <2>1 DEF Chain, Last
<1>8. ASSUME NEW j \in 1 .. Len(w)
      PROVE  w[j] \in Allocated /\ mem[w[j]].prev = IF j = 1 THEN Null ELSE w[j - 1]
  <2>1. w[j] \in Nodes /\ mem[w[j]] \in Node
    BY <1>3, <1>5, ElementOfSeq DEF Chain
  <2> QED BY <1>3, <2>1, NullIsNoNode DEF Chain, Allocated
<1> QED BY <1>4, <1>5, <1>6, <1>7, <1>8

\* and that the count and the load are right.
LEMMA MapCounts == MapInv => SizeAndLoad
<1> SUFFICES ASSUME MapInv PROVE SizeAndLoad
  OBVIOUS
<1>1. PICK W : Table(mem, buckets, W) /\ Held(W) = Alloc(mem)
  BY DEF MapInv, Good
<1>2. Counted(buckets) = Cardinality(Held(W))
  BY <1>1, SumIs
<1>3. /\ Alloc(mem) = Allocated /\ size = Cardinality(Alloc(mem))
      /\ 4 * size <= 3 * Len(buckets) /\ Distinct(mem, Alloc(mem))
  BY DEF MapInv, Good, Alloc, Allocated
<1>4. \A m, n \in Allocated : mem[m].data.key = mem[n].data.key => m = n
  BY <1>3 DEF Distinct
<1> QED BY <1>1, <1>2, <1>3, <1>4 DEF SizeAndLoad

-----------------------------------------------------------------------------
(* The map that the entries make.                                          *)

\* The data of the entries X of one key.
Value(X) == IF {e.data : e \in X} = {} THEN None ELSE CHOOSE d \in {e.data : e \in X} : TRUE

\* The partial map of the entries E.
MapOf(E) == [k \in Keys |-> Value({e \in E : e.key = k})]

\* The map that the memory stands for is the one of its entries.
LEMMA ContentIs == Content = MapOf(Entries(mem))
<1>1. ASSUME NEW k PROVE Stored(k) = {e.data : e \in {x \in Entries(mem) : x.key = k}}
  BY DEF Stored, Entries, Alloc, Allocated
<1> QED BY <1>1 DEF Content, MapOf, Value

\* So it is after a step.
LEMMA ContentNext == Content' = MapOf(Entries(mem'))
<1>1. (Content = MapOf(Entries(mem)))'
  BY ContentIs, PTL
<1> QED BY <1>1 DEF Entries, Alloc

\* A key with an entry has its data, one without has none.
LEMMA MapAt ==
  ASSUME NEW E, \A e, f \in E : e.key = f.key => e = f, NEW k \in Keys
  PROVE  /\ (\A e \in E : e.key # k) => MapOf(E)[k] = None
         /\ \A e \in E : e.key = k => MapOf(E)[k] = e.data
<1> DEFINE X == {e \in E : e.key = k}
           Y == {e.data : e \in X}
<1>0. MapOf(E)[k] = IF Y = {} THEN None ELSE CHOOSE d \in Y : TRUE
  BY DEF MapOf, Value
<1>1. ASSUME \A e \in E : e.key # k PROVE MapOf(E)[k] = None
  BY <1>0, <1>1
<1>2. ASSUME NEW e \in E, e.key = k PROVE MapOf(E)[k] = e.data
  <2>1. Y = {e.data}
    BY <1>2
  <2> HIDE DEF Y
  <2>2. (CHOOSE d \in Y : TRUE) \in Y
    BY <2>1
  <2> QED BY <1>0, <2>1, <2>2
<1> QED BY <1>1, <1>2

\* Another entry for a key changes the map there.
LEMMA MapPut ==
  ASSUME NEW E, NEW k \in Keys, NEW d
  PROVE  MapOf(Others(E, k) \cup {[key |-> k, data |-> d]}) = [MapOf(E) EXCEPT ![k] = d]
<1> DEFINE e == [key |-> k, data |-> d]
           F == Others(E, k) \cup {e}
<1>1. MapOf(F)[k] = d
  <2> DEFINE Y == {x.data : x \in {x \in F : x.key = k}}
  <2>1. Y = {d}
    <3>1. e.key = k /\ e.data = d
      OBVIOUS
    <3> HIDE DEF e
    <3>2. {x \in F : x.key = k} = {e}
      BY <3>1 DEF Others
    <3> QED BY <3>1, <3>2
  <2>2. MapOf(F)[k] = IF Y = {} THEN None ELSE CHOOSE z \in Y : TRUE
    BY DEF MapOf, Value
  <2> HIDE DEF Y
  <2>3. (CHOOSE z \in Y : TRUE) \in Y
    BY <2>1
  <2> QED BY <2>1, <2>2, <2>3
<1>2. ASSUME NEW h \in Keys, h # k PROVE MapOf(F)[h] = MapOf(E)[h]
  <2>1. {x \in F : x.key = h} = {x \in E : x.key = h}
    BY <1>2 DEF Others
  <2> HIDE DEF F
  <2> QED BY <2>1 DEF MapOf
<1> HIDE DEF F
<1>3. /\ MapOf(F) = [h \in Keys |-> MapOf(F)[h]]
      /\ [MapOf(E) EXCEPT ![k] = d] = [h \in Keys |-> IF h = k THEN d ELSE MapOf(E)[h]]
  BY DEF MapOf
<1>4. \A h \in Keys : MapOf(F)[h] = IF h = k THEN d ELSE MapOf(E)[h]
  BY <1>1, <1>2
<1>5. MapOf(F) = [MapOf(E) EXCEPT ![k] = d]
  BY <1>3, <1>4
<1> QED BY <1>5 DEF F

\* So does taking its entry away.
LEMMA MapRemove ==
  ASSUME NEW E, NEW k \in Keys
  PROVE  MapOf(Others(E, k)) = [MapOf(E) EXCEPT ![k] = None]
<1> DEFINE F == Others(E, k)
<1>1. MapOf(F)[k] = None
  BY DEF MapOf, Value, Others
<1>2. ASSUME NEW h \in Keys, h # k PROVE MapOf(F)[h] = MapOf(E)[h]
  <2>1. {x \in F : x.key = h} = {x \in E : x.key = h}
    BY <1>2 DEF Others
  <2> HIDE DEF F
  <2> QED BY <2>1 DEF MapOf
<1> HIDE DEF F
<1>3. /\ MapOf(F) = [h \in Keys |-> MapOf(F)[h]]
      /\ [MapOf(E) EXCEPT ![k] = None] = [h \in Keys |-> IF h = k THEN None ELSE MapOf(E)[h]]
  BY DEF MapOf
<1>4. \A h \in Keys : MapOf(F)[h] = IF h = k THEN None ELSE MapOf(E)[h]
  BY <1>1, <1>2
<1>5. MapOf(F) = [MapOf(E) EXCEPT ![k] = None]
  BY <1>3, <1>4
<1> QED BY <1>5 DEF F

-----------------------------------------------------------------------------
(* The steps.                                                              *)

\* hash_map_create makes an empty table.
LEMMA MapInit == Init => MapInv /\ Dict!Init
<1> SUFFICES ASSUME Init PROVE MapInv /\ Dict!Init
  OBVIOUS
<1> DEFINE V == [j \in 1 .. InitBuckets |-> <<>>]
<1>0. InitBuckets \in Nat \ {0}
  BY HashMapAssumption
<1>1. /\ mem \in Memory /\ Alloc(mem) = {} /\ size = 0
  BY DEF Init, Memory, Alloc
<1>2. linked_list_create \in List /\ \A w : Len(w) = 0 /\ w \in Seq(Nodes) => Chain(mem, linked_list_create, w)
  BY DEF linked_list_create, List, Chain
<1>3. /\ buckets \in Seq(List) /\ Len(buckets) = InitBuckets
      /\ \A j \in 1 .. InitBuckets : buckets[j] = linked_list_create
  BY <1>0, <1>2 DEF Init
<1>4. /\ V \in [1 .. InitBuckets -> Seq(Nodes)] /\ DOMAIN V = 1 .. InitBuckets
      /\ \A j \in 1 .. InitBuckets : V[j] \in Seq(Nodes) /\ Len(V[j]) = 0
  OBVIOUS
<1> HIDE DEF V
<1>5. Table(mem, buckets, V)
  BY <1>0, <1>1, <1>2, <1>3, <1>4 DEF Table
<1>6. Held(V) = {}
  BY <1>4 DEF Held
<1>7. MapInv
  <2>1. Cardinality(Alloc(mem)) = 0
    BY <1>1, FS_EmptySet
  <2>2. Distinct(mem, Alloc(mem))
    BY <1>1 DEF Distinct
  <2>3. 4 * size <= 3 * Len(buckets)
    BY <1>0, <1>1, <1>3
  <2> QED BY <1>1, <1>5, <1>6, <2>1, <2>2, <2>3 DEF MapInv, Good
<1>8. Dict!Init
  <2>1. Entries(mem) = {}
    BY <1>1 DEF Entries
  <2>2. MapOf({}) = [k \in Keys |-> None]
    BY DEF MapOf, Value
  <2> QED BY <2>1, <2>2, ContentIs DEF Dict!Init, Init
<1> QED BY <1>7, <1>8

\* What the invariant says of the key that an operation asks for.
LEMMA Looked ==
  ASSUME MapInv, NEW k \in Keys
  PROVE  \/ Found(k) = Null /\ (\A e \in Entries(mem) : e.key # k) /\ Content[k] = None
         \/ /\ Found(k) # Null /\ Found(k) \in Alloc(mem) /\ mem[Found(k)].data.key = k
            /\ Content[k] = mem[Found(k)].data.data /\ Content[k] # None
<1>1. mem \in Memory /\ Distinct(mem, Alloc(mem))
  BY DEF MapInv, Good, Table
<1>2. \/ Found(k) = Null /\ \A e \in Entries(mem) : e.key # k
      \/ Found(k) # Null /\ Found(k) \in Alloc(mem) /\ mem[Found(k)].data.key = k
  BY FoundIs DEF MapInv, Found, BucketOf
<1>3. /\ (\A e \in Entries(mem) : e.key # k) => MapOf(Entries(mem))[k] = None
      /\ \A e \in Entries(mem) : e.key = k => MapOf(Entries(mem))[k] = e.data
  <2> DEFINE E == Entries(mem)
  <2>1. \A e, f \in E : e.key = f.key => e = f
    BY <1>1, EntriesType
  <2> HIDE DEF E
  <2>2. /\ (\A e \in E : e.key # k) => MapOf(E)[k] = None
        /\ \A e \in E : e.key = k => MapOf(E)[k] = e.data
    BY <2>1, MapAt
  <2> QED BY <2>2 DEF E
<1>4. ASSUME NEW n \in Alloc(mem) PROVE mem[n].data \in Entries(mem) /\ mem[n].data.data # None
  <2>1. mem[n] \in Node
    BY <1>1 DEF Alloc, Memory
  <2> QED BY <2>1, NodeFields, HashMapAssumption DEF Entries
<1> QED BY <1>2, <1>3, <1>4, ContentIs

\* hash_map_put
LEMMA PutStep ==
  ASSUME MapInv, NEW k \in Keys, NEW d \in Data, hash_map_put(k, d)
  PROVE  MapInv' /\ Dict!Put(k, d)
<1> DEFINE e == [key |-> k, data |-> d]
           E == Entries(mem)
<1>1. ASSUME Entries(mem') = Others(E, k) \cup {e} PROVE Content' = [Content EXCEPT ![k] = d]
  <2>1. Content' = MapOf(Entries(mem'))
    BY ContentNext
  <2>2. MapOf(Others(E, k) \cup {e}) = [MapOf(E) EXCEPT ![k] = d]
    <3> HIDE DEF E
    <3> QED BY MapPut
  <2> HIDE DEF e
  <2> QED BY <1>1, <2>1, <2>2, ContentIs
<1>2. CASE Found(k) # Null
  <2>1. /\ mem' = [mem EXCEPT ![Found(k)] = SetData(mem[Found(k)], d)]
        /\ ret' = [of |-> <<"put", k>>, code |-> 1, data |-> None]
        /\ buckets' = buckets /\ size' = size
    BY <1>2 DEF hash_map_put
  <2>2. Found(k) \in Alloc(mem) /\ mem[Found(k)].data.key = k /\ Content[k] # None
    BY <1>2, Looked
  <2>3. Good(mem', buckets, size) /\ Entries(mem') = Others(E, k) \cup {e}
    <3> DEFINE n == Found(k)
    <3>1. n \in Alloc(mem) /\ mem[n].data.key = k /\ mem' = Overwritten(mem, n, d)
      BY <2>1, <2>2 DEF Overwritten
    <3> HIDE DEF n
    <3>2. /\ Good(Overwritten(mem, n, d), buckets, size)
          /\ Entries(Overwritten(mem, n, d)) = Others(Entries(mem), k) \cup {[key |-> k, data |-> d]}
      BY <3>1, SetDataOK DEF MapInv
    <3> QED BY <3>1, <3>2
  <2>4. MapInv'
    BY <2>1, <2>3 DEF MapInv
  <2>5. Content' = [Content EXCEPT ![k] = d]
    BY <1>1, <2>3
  <2> QED BY <2>1, <2>2, <2>4, <2>5 DEF Dict!Put, Dict!Has
<1>3. CASE Found(k) = Null
  <2> DEFINE end == WithNew(mem, buckets, size, k, d)
  <2>1. /\ mem' = end.mem /\ buckets' = end.buckets /\ size' = size + 1
        /\ ret' = [of |-> <<"put", k>>, code |-> 0, data |-> None]
    BY <1>3 DEF hash_map_put, WithNew, BucketOf
  <2>2. (\A x \in E : x.key # k) /\ Content[k] = None
    BY <1>3, Looked
  <2>3. Good(end.mem, end.buckets, size + 1) /\ Entries(end.mem) = E \cup {e}
    BY <2>2, PutNewOK DEF MapInv
  <2> HIDE DEF end
  <2>4. MapInv'
    BY <2>1, <2>3 DEF MapInv
  <2>5. Others(E, k) = E
    BY <2>2 DEF Others
  <2>6. Content' = [Content EXCEPT ![k] = d]
    BY <1>1, <2>1, <2>3, <2>5
  <2> QED BY <2>1, <2>2, <2>4, <2>6 DEF Dict!Put, Dict!Has
<1> QED BY <1>2, <1>3

\* hash_map_remove
LEMMA RemoveStep ==
  ASSUME MapInv, NEW k \in Keys, hash_map_remove(k)
  PROVE  MapInv' /\ Dict!Remove(k)
<1> DEFINE E == Entries(mem)
<1>0. ret' = None
  BY DEF hash_map_remove
<1>1. ASSUME Entries(mem') = Others(E, k) PROVE Content' = [Content EXCEPT ![k] = None]
  <2>1. Content' = MapOf(Entries(mem'))
    BY ContentNext
  <2>2. MapOf(Others(E, k)) = [MapOf(E) EXCEPT ![k] = None]
    <3> HIDE DEF E
    <3> QED BY MapRemove
  <2> QED BY <1>1, <2>1, <2>2, ContentIs
<1>2. CASE Found(k) # Null
  <2> DEFINE end == Without(mem, buckets, k)
  <2>1. mem' = end.mem /\ buckets' = end.buckets /\ size' = size - 1
    BY <1>2 DEF hash_map_remove, Unlinked, Without, Found, BucketOf
  <2>2. Good(end.mem, end.buckets, size - 1) /\ Entries(end.mem) = Others(E, k)
    BY <1>2, RemoveOK DEF MapInv, Found, BucketOf
  <2> HIDE DEF end
  <2>3. MapInv'
    BY <2>1, <2>2 DEF MapInv
  <2>4. Content' = [Content EXCEPT ![k] = None]
    BY <1>1, <2>1, <2>2
  <2> QED BY <1>0, <2>3, <2>4 DEF Dict!Remove
<1>3. CASE Found(k) = Null
  <2>1. UNCHANGED <<buckets, mem, size>>
    BY <1>3 DEF hash_map_remove
  <2>2. \A x \in E : x.key # k
    BY <1>3, Looked
  <2>3. Others(E, k) = E /\ Entries(mem') = E
    BY <2>1, <2>2 DEF Others
  <2>4. Content' = [Content EXCEPT ![k] = None]
    BY <1>1, <2>3
  <2>5. MapInv'
    BY <2>1 DEF MapInv
  <2> QED BY <1>0, <2>4, <2>5 DEF Dict!Remove
<1> QED BY <1>2, <1>3

\* hash_map_get
LEMMA GetStep ==
  ASSUME MapInv, NEW k \in Keys, hash_map_get(k)
  PROVE  MapInv' /\ Dict!Get(k)
<1>1. UNCHANGED <<buckets, mem, size>>
  BY DEF hash_map_get
<1>2. MapInv'
  BY <1>1 DEF MapInv
<1>3. Content' = Content
  <2>1. Content' = MapOf(Entries(mem'))
    BY ContentNext
  <2> QED BY <1>1, <2>1, ContentIs
<1>4. ret' = [of |-> <<"get", k>>, code |-> IF Content[k] # None THEN 0 ELSE 1, data |-> Content[k]]
  <2>1. CASE Found(k) = Null
    <3>1. Content[k] = None
      BY <2>1, Looked
    <3> QED BY <2>1, <3>1 DEF hash_map_get
  <2>2. CASE Found(k) # Null
    <3>1. Content[k] = mem[Found(k)].data.data /\ Content[k] # None
      BY <2>2, Looked
    <3> QED BY <2>2, <3>1 DEF hash_map_get
  <2> QED BY <2>1, <2>2
<1> QED BY <1>2, <1>3, <1>4 DEF Dict!Get, Dict!Has

\* Every step keeps the invariant and is a step of the partial map.
LEMMA MapStep == MapInv /\ [Next]_mapVars => MapInv' /\ [Dict!Next]_<<Content, ret>>
<1> SUFFICES ASSUME MapInv, [Next]_mapVars PROVE MapInv' /\ [Dict!Next]_<<Content, ret>>
  OBVIOUS
<1>1. ASSUME NEW k \in Keys, hash_map_get(k) PROVE MapInv' /\ [Dict!Next]_<<Content, ret>>
  BY <1>1, GetStep DEF Dict!Next
<1>2. ASSUME NEW k \in Keys, hash_map_remove(k) PROVE MapInv' /\ [Dict!Next]_<<Content, ret>>
  BY <1>2, RemoveStep DEF Dict!Next
<1>3. ASSUME NEW k \in Keys, NEW d \in Data, hash_map_put(k, d)
      PROVE  MapInv' /\ [Dict!Next]_<<Content, ret>>
  BY <1>3, PutStep DEF Dict!Next
<1>4. CASE UNCHANGED mapVars
  <2>1. UNCHANGED <<buckets, mem, size, ret>>
    BY <1>4 DEF mapVars
  <2>2. MapInv'
    BY <2>1 DEF MapInv
  <2>3. Content' = Content
    <3>1. Content' = MapOf(Entries(mem'))
      BY ContentNext
    <3> QED BY <2>1, <3>1, ContentIs
  <2> QED BY <2>1, <2>2, <2>3
<1> QED BY <1>1, <1>2, <1>3, <1>4 DEF Next

\* The state is always such a table.
THEOREM SpecMapInv == Spec => []MapInv
<1>1. Init => MapInv
  BY MapInit
<1>2. MapInv /\ [Next]_mapVars => MapInv'
  BY MapStep
<1> QED BY <1>1, <1>2, PTL DEF Spec

\* Every bucket is a list in both directions with the right count, whatever
\* hash_map_put, hash_map_remove and the growths have linked and unlinked.
THEOREM ListsStayLists == Spec => []BucketsAreLists
BY SpecMapInv, MapLists, PTL

\* The count of the map is that of its buckets and of the allocated nodes, no
\* key has two nodes, and the map is never more than three quarters full.
THEOREM CountAndLoad == Spec => []SizeAndLoad
BY SpecMapInv, MapCounts, PTL

\* The hash map is a partial map: get, put and remove act on it and answer as
\* the header says, for every hash function and through every growth.
THEOREM MapImplementsDictionary == Spec => ImplementsDictionary
<1>1. Init => Dict!Init
  BY MapInit
<1>2. MapInv /\ [Next]_mapVars => [Dict!Next]_<<Content, ret>>
  BY MapStep
<1> QED BY <1>1, <1>2, SpecMapInv, PTL DEF Spec, ImplementsDictionary, Dict!Spec
==============================================================================
